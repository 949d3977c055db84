--------------------------------- MODULE Mci ---------------------------------
(***************************************************************************)
(* The interface file of a module (src/compiler/mci/mci.cpp): written when *)
(* the module is compiled, read back by the builds of its importers.  The  *)
(* last line is a hash of the others.  The hash is two words that stand    *)
(* for its sixteen digits, and is taken to be injective: digest is what    *)
(* was hashed.                                                             *)
(***************************************************************************)
EXTENDS MciText

CONSTANTS Artifacts,     \* interfaces of compiled modules, each with the
                         \* format that its compiler writes
          OtherMetadata  \* what another importer may expect of the file

VARIABLES given,    \* the interface being written
          expected, \* the metadata the importer asks for
          digest,   \* the text whose hash ends the file
          missing,  \* words at the end of the text that the file lacks
          unread,   \* the lines that are not read yet
          loaded,   \* the artifact read so far
          step      \* "write", "load", "done", "accepted" or "refused"

mciVars == <<given, expected, digest, missing, unread, loaded, step>>

HashWords == <<"#", "#">>
HashLine == <<"interface_hash", "\t">> \o HashWords \o <<"\n">>

MciInit ==
    /\ given \in Artifacts
    /\ expected = Metadata(given)
    /\ digest = <<>> /\ missing = 0 /\ unread = <<>> /\ loaded = NoArtifact
    /\ step = "write"

\* The lines that getline finds: an empty one is skipped.
LinesOf(text) == SelectSeq(Pieces(text, "\n"), LAMBDA l : l # <<>>)

\* The file is written from its beginning; the command may be cut short.
WriteFile(contents) ==
    LET all == contents \o HashLine
    IN  /\ step = "write" /\ step' = "load"
        /\ \E n \in 0 .. Len(all) :
              missing' = n /\ unread' = LinesOf(SubSeq(all, 1, Len(all) - n))
        /\ digest' = contents
        /\ UNCHANGED <<given, expected, loaded>>

WriteInterfaceArtifact ==
    given.format = kFormatVersion /\ WriteFile(SerializeArtifactWithoutHash(given))

WriteInterfaceArtifactV1 ==
    given.format = 1 /\ WriteFile(SerializeArtifactWithoutHashV1(given))

-----------------------------------------------------------------------------
(* LoadInterfaceArtifact, a line in a step.                                *)

\* How the fields of every record are read.
Record ==
    [format |-> <<"number">>, target |-> <<"text">>, package |-> <<"text">>, module |-> <<"text">>,
     module_kind |-> <<"module kind">>, source |-> <<"text">>, imports |-> <<"list">>,
     interface_hash |-> <<"raw">>,
     function |-> <<"text", "flag", "text", "list", "types", "types", "flags">>,
     type |-> <<"type kind", "text", "list", "flag", "flag", "flag", "number", "number", "offsets", "type">>,
     type_field |-> <<"text", "text", "type">>, type_variant |-> <<"text", "text">>,
     type_variant_field |-> <<"text", "text", "text", "type">>,
     global |-> <<"flag", "list", "type", "values", "bits">>]

ModuleKinds == {<<"ordinary">>, <<"internal">>}
TypeKinds == {<<"struct">>, <<"enum">>, <<"distinct">>, <<"alias">>}

Decoded(form, text) ==
    CASE form = "text"    -> UnescapeText(text)
      [] form = "list"    -> SplitEscaped(text)
      [] form = "flag"    -> ParseBoolField(text)
      [] form = "flags"   -> SplitBoolFlags(text)
      [] form = "bits"    -> ParseBoolFlags(text)
      [] form = "number"  -> ParseArrayLength(text)
      [] form = "offsets" -> SplitOffsets(text)
      [] form = "type"    -> Then(UnescapeText(text), LAMBDA t : ParseTypeText(t.value))
      [] form = "types"   -> ParseTypeTexts(text)
      [] form = "values"  -> ParseConstValues(text)
      [] form = "raw"     -> Just(text)
      [] form = "module kind" -> IF text \in ModuleKinds THEN Just(text[1]) ELSE Nothing
      [] form = "type kind"   -> IF text \in TypeKinds THEN Just(text[1]) ELSE Nothing

\* How many of its fields a record has: a function may lack its flags, and a
\* global of a format before 4 its values and has no zeros.  (Format 2, whose
\* values are written otherwise, is left out.)
FieldCounts(kind) ==
    CASE kind = "function" -> {6, 7}
      [] kind = "global"   -> IF loaded.format >= 4 THEN {5} ELSE {3, 4}
      [] OTHER             -> {Len(Record[kind])}

DecodedFields(kind, fields) ==
    IF Len(fields) \notin FieldCounts(kind) THEN Nothing
    ELSE Sequenced([i \in DOMAIN Record[kind] |->
            IF i <= Len(fields) THEN Decoded(Record[kind][i], fields[i]) ELSE Just(<<>>)])

\* A list of flags or values is empty or has one for each of the others.
Fits(list, others) == list = <<>> \/ Len(list) = Len(others)

Function(f) ==
    [name |-> f[1], extern |-> f[2], abi |-> f[3], typeParams |-> f[4], params |-> f[5], returns |-> f[6],
     noalias |-> IF f[7] = <<>> THEN [i \in DOMAIN f[5] |-> FALSE] ELSE f[7]]
TypeDecl(f) ==
    [kind |-> f[1], name |-> f[2], typeParams |-> f[3], packed |-> f[4], abiC |-> f[5], valid |-> f[6],
     size |-> f[7], alignment |-> f[8], offsets |-> f[9], aliased |-> f[10], fields |-> <<>>, variants |-> <<>>]
Field(name, type) == [name |-> name, type |-> type]

\* The declaration, and the variant of it, that a record names; 0 is none.
DeclOf(name) == SelectInSeq(loaded.types, LAMBDA t : t.name = name)
VariantOf(d, name) == IF d = 0 THEN 0 ELSE SelectInSeq(loaded.types[d].variants, LAMBDA v : v.name = name)

\* The artifact with one more record, or nothing.
WithRecord(kind, f) ==
    LET d == DeclOf(f[1])
        v == VariantOf(d, f[2])
        when(valid, a) == IF valid THEN Just(a) ELSE Nothing
    IN  CASE kind = "format"         -> Just([loaded EXCEPT !.format = f[1]])
          [] kind = "target"         -> Just([loaded EXCEPT !.target = f[1]])
          [] kind = "package"        -> Just([loaded EXCEPT !.package = f[1], !.sawPackage = TRUE])
          [] kind = "module"         -> Just([loaded EXCEPT !.module = f[1]])
          [] kind = "module_kind"    -> Just([loaded EXCEPT !.kind = f[1], !.sawKind = TRUE])
          [] kind = "source"         -> Just([loaded EXCEPT !.source = f[1]])
          [] kind = "imports"        -> Just([loaded EXCEPT !.imports = f[1]])
          [] kind = "interface_hash" -> Just([loaded EXCEPT !.hash = f[1]])
          [] kind = "function" ->
               when(Fits(f[7], f[5]), [loaded EXCEPT !.functions = Append(@, Function(f))])
          [] kind = "type" -> Just([loaded EXCEPT !.types = Append(@, TypeDecl(f))])
          [] kind = "type_field" ->
               when(d # 0, [loaded EXCEPT !.types[d].fields = Append(@, Field(f[2], f[3]))])
          [] kind = "type_variant" ->
               when(d # 0, [loaded EXCEPT !.types[d].variants =
                               Append(@, [name |-> f[2], fields |-> <<>>])])
          [] kind = "type_variant_field" ->
               when(v # 0, [loaded EXCEPT !.types[d].variants[v].fields = Append(@, Field(f[3], f[4]))])
          [] kind = "global" ->
               when(Fits(f[4], f[2]) /\ Fits(f[5], f[2]),
                    [loaded EXCEPT !.globals = Append(@, [const |-> f[1], names |-> f[2], type |-> f[3],
                                                          values |-> f[4], zeros |-> f[5]])])

\* The record is taken and the reader goes on, or the file is refused.
Take(next) ==
    IF next.ok THEN loaded' = next.value /\ unread' = Tail(unread) /\ step' = step
    ELSE step' = "refused" /\ UNCHANGED <<loaded, unread>>

RecordOf(fields) ==
    LET kind == IF Len(fields[1]) = 1 THEN fields[1][1] ELSE "none"
    IN  IF kind \notin DOMAIN Record THEN Nothing
        ELSE Then(DecodedFields(kind, Tail(fields)), LAMBDA f : WithRecord(kind, f.value))

LoadLine ==
    /\ step = "load" /\ unread # <<>>
    /\ Take(RecordOf(SplitFields(Head(unread))))
    /\ UNCHANGED <<given, expected, digest, missing>>

\* Mutant: the hash that is read is not compared with the one computed.
LoadedIsWholeUnhashed ==
    /\ loaded.format = kFormatVersion
    /\ loaded.sawPackage /\ loaded.package # <<>>
    /\ loaded.sawKind

\* The version, the records that must be there, and the hash.
LoadedIsWhole ==
    /\ loaded.format = kFormatVersion
    /\ loaded.sawPackage /\ loaded.package # <<>>
    /\ loaded.sawKind
    /\ loaded.hash = HashWords /\ digest = SerializeArtifactWithoutHash(loaded)

LoadEnd ==
    /\ step = "load" /\ unread = <<>>
    /\ step' = IF LoadedIsWhole THEN "done" ELSE "refused"
    /\ UNCHANGED <<given, expected, digest, missing, unread, loaded>>

\* An importer that leaves a text empty does not ask for it.
AsExpected(found, wanted) ==
    /\ \A f \in {"target", "package", "module", "source"} : wanted[f] \in {<<>>, found[f]}
    /\ found.kind = wanted.kind

ValidateInterfaceArtifactMetadata ==
    /\ step = "done"
    /\ expected' \in {Metadata(given)} \cup OtherMetadata
    /\ step' = IF /\ loaded.target # <<>> /\ loaded.module # <<>> /\ loaded.package # <<>>
                  /\ loaded.source # <<>>
                  /\ AsExpected(loaded, expected')
               THEN "accepted" ELSE "refused"
    /\ UNCHANGED <<given, digest, missing, unread, loaded>>

MciNext ==
    \/ WriteInterfaceArtifact
    \/ WriteInterfaceArtifactV1
    \/ LoadLine
    \/ LoadEnd
    \/ ValidateInterfaceArtifactMetadata

-----------------------------------------------------------------------------
(* What an importer gets.                                                  *)

RECURSIVE TypesIn(_), Unnamed(_)
TypesIn(t) == {t} \cup UNION {TypesIn(t.sub[i]) : i \in DOMAIN t.sub}
ArtifactTypes(a) ==
    UNION {TypesIn(t) : t \in
        UNION {ToSet(f.params) \cup ToSet(f.returns) : f \in ToSet(a.functions)}
        \cup UNION {{d.aliased} \cup {f.type : f \in ToSet(d.fields)}
                    \cup {f.type : f \in UNION {ToSet(v.fields) : v \in ToSet(d.variants)}} :
                       d \in ToSet(a.types)}
        \cup {g.type : g \in ToSet(a.globals)}}
NamesOfTypes(a) == {t.name : t \in {u \in ArtifactTypes(a) : u.kind = "named"}}

\* Two departures of the format: a type whose name begins with const or proc
\* is read as the beginning of another type, and a type named like one the
\* format knows is read as that one.
BeginsLikeAKeyword(a) == \E name \in NamesOfTypes(a) : Head(name) \in {"const", "proc"}
NamedLikeABuiltin(a) == \E name \in NamesOfTypes(a) : name \in {<<"tuple">>, <<"range">>}

\* A constant as its users look at it: no name for a field and an empty one
\* are the same to all of them but ConstValuesEqual.
Unnamed(v) ==
    [v EXCEPT !.names = [i \in DOMAIN v.elements |-> IF i <= Len(v.names) THEN v.names[i] ELSE <<>>],
              !.elements = [i \in DOMAIN v.elements |-> Unnamed(v.elements[i])]]

\* A value missing at the end of the list is one that is not known.
Meaning(a) ==
    [target |-> a.target, package |-> a.package, module |-> a.module, kind |-> a.kind,
     source |-> a.source, imports |-> a.imports, functions |-> a.functions, types |-> a.types,
     globals |-> [i \in DOMAIN a.globals |->
        LET g == a.globals[i]
        IN  [g EXCEPT !.values = [j \in DOMAIN g.names |->
                IF j <= Len(g.values) /\ g.values[j].ok THEN Just(Unnamed(g.values[j].value))
                ELSE Nothing]]]]

\* An interface reaches its importers as it was written or not at all: a
\* file that was cut short, that another format or other metadata wrote, is
\* refused, and a whole one is accepted and means what the compiled module
\* meant, whatever characters its texts hold (LoadInterfaceArtifact,
\* ValidateInterfaceArtifactMetadata).
LoadsAsWritten ==
    LET whole == missing <= 1 /\ given.format = kFormatVersion
    IN  /\ step = "accepted" =>
              /\ whole /\ AsExpected(given, expected)
              /\ NamedLikeABuiltin(given) \/ Meaning(loaded) = Meaning(given)
        /\ step = "refused" =>
              ~whole \/ ~AsExpected(given, expected) \/ BeginsLikeAKeyword(given)
=============================================================================
