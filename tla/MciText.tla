------------------------------ MODULE MciText ------------------------------
(***************************************************************************)
(* The text of an interface file (src/compiler/mci/mci.cpp): a record is a *)
(* line, its fields are separated by tabs, lists by semicolons.            *)
(*                                                                         *)
(* A text is a sequence of words: a separator, a letter of an escape, or a *)
(* group of characters that the code never looks into.  A name such as     *)
(* constant is two words, because the reader of types does look for const. *)
(* Lengths count words, and a number is one word.                          *)
(***************************************************************************)
EXTENDS Naturals, Sequences, SequencesExt, TLC

kFormatVersion == 7

Nothing == [ok |-> FALSE]
Just(v) == [ok |-> TRUE, value |-> v]

\* What F makes of a result, unless there is none.
Then(r, F(_)) == IF r.ok THEN F(r) ELSE Nothing
Sequenced(all) ==
    IF \A i \in DOMAIN all : all[i].ok THEN Just([i \in DOMAIN all |-> all[i].value]) ELSE Nothing

-----------------------------------------------------------------------------
(* Fields and lists.                                                       *)

Escapes == ("\\" :> "\\") @@ ("\t" :> "t") @@ ("\n" :> "n") @@ (";" :> ";")

EscapeText(text) ==
    FlattenSeq([i \in DOMAIN text |->
        IF text[i] \in DOMAIN Escapes THEN <<"\\", Escapes[text[i]]>> ELSE <<text[i]>>])

Join(texts, separator) ==
    FlattenSeq([i \in DOMAIN texts |-> (IF i > 1 THEN separator ELSE <<>>) \o texts[i]])

JoinEscaped(values) == Join([i \in DOMAIN values |-> EscapeText(values[i])], <<";">>)

\* One pass over a text that undoes the escapes and, if list, begins a new
\* value at every semicolon that is not escaped.
Decode(text, list) ==
    LET add(s, c) == [s EXCEPT !.values[Len(s.values)] = Append(@, c)]
        next(s, c) ==
            IF s.escape
            THEN IF \E e \in DOMAIN Escapes : Escapes[e] = c
                 THEN [add(s, CHOOSE e \in DOMAIN Escapes : Escapes[e] = c) EXCEPT !.escape = FALSE]
                 ELSE [s EXCEPT !.ok = FALSE]
            ELSE IF c = "\\" THEN [s EXCEPT !.escape = TRUE]
            ELSE IF list /\ c = ";" THEN [s EXCEPT !.values = Append(@, <<>>)]
            ELSE add(s, c)
        all == FoldLeft(next, [values |-> << <<>> >>, escape |-> FALSE, ok |-> TRUE], text)
    IN  IF all.ok /\ ~all.escape THEN Just(all.values) ELSE Nothing

UnescapeText(text) == Then(Decode(text, FALSE), LAMBDA all : Just(all.value[1]))

\* An empty field is an empty list.
SplitEscaped(text) == IF text = <<>> THEN Just(<<>>) ELSE Decode(text, TRUE)

Flag(b) == IF b THEN <<"1">> ELSE <<"0">>
ParseBoolField(text) == IF text \in {<<"0">>, <<"1">>} THEN Just(text = <<"1">>) ELSE Nothing
JoinBoolFlags(flags) == Join([i \in DOMAIN flags |-> Flag(flags[i])], <<";">>)

SplitBoolFlags(text) ==
    Then(SplitEscaped(text), LAMBDA flags :
        Sequenced([i \in DOMAIN flags.value |-> ParseBoolField(flags.value[i])]))

\* The pieces of a text between two separators.
Pieces(text, separator) ==
    FoldLeft(LAMBDA s, c : IF c = separator THEN Append(s, <<>>)
                           ELSE [s EXCEPT ![Len(s)] = Append(@, c)], << <<>> >>, text)
SplitFields(text) == Pieces(text, "\t")

ParseBoolFlags(text) ==
    IF text = <<>> THEN Just(<<>>)
    ELSE LET flags == Pieces(text, ";")
         IN  Sequenced([i \in DOMAIN flags |-> ParseBoolField(flags[i])])

Number(n) == <<ToString(n)>>
ParseArrayLength(text) ==
    IF \E n \in 0 .. 99 : text = Number(n) THEN Just(CHOOSE n \in 0 .. 99 : text = Number(n))
    ELSE Nothing
JoinEscapedPaths(offsets) == Join([i \in DOMAIN offsets |-> Number(offsets[i])], <<";">>)
SplitOffsets(text) ==
    LET parts == Pieces(text, ";")
        used == IF Last(parts) = <<>> THEN Front(parts) ELSE parts
    IN  Sequenced([i \in DOMAIN used |-> ParseArrayLength(used[i])])

-----------------------------------------------------------------------------
(* Types: [kind, name, sub, params], where name is the name of a named     *)
(* type or the length of an array, sub the types it is made of, and params *)
(* how many of those are parameters of a procedure.                        *)

Type(kind, name, sub, params) == [kind |-> kind, name |-> name, sub |-> sub, params |-> params]
Simple(kind) == Type(kind, <<>>, <<>>, 0)
SimpleKinds == {"unknown", "void", "bool", "string", "nil", "int_literal", "float_literal"}
Words == SimpleKinds \cup {"tuple", "range", "const", "proc", "ant", "ess", "T", "E", "S", "i32", "2", "."}

RECURSIVE FormatType(_)
FormatType(t) ==
    LET each == [i \in DOMAIN t.sub |-> FormatType(t.sub[i])]
        list(from) == Join(SubSeq(each, from, Len(each)), <<",", " ">>)
    IN  CASE t.kind \in SimpleKinds -> <<t.kind>>
          [] t.kind = "named" ->
               t.name \o (IF t.sub = <<>> THEN <<>> ELSE <<"<">> \o list(1) \o <<">">>)
          [] t.kind = "pointer" -> <<"*">> \o each[1]
          [] t.kind = "const" -> <<"const", " ">> \o each[1]
          [] t.kind = "array" -> <<"[">> \o t.name \o <<"]">> \o each[1]
          [] t.kind = "tuple" -> <<"tuple", "<">> \o list(1) \o <<">">>
          [] t.kind = "range" -> <<"range", "<">> \o each[1] \o <<">">>
          [] t.kind = "proc" ->
               <<"proc", "(">> \o Join(SubSeq(each, 1, t.params), <<",", " ">>) \o <<")", "->">>
               \o (CASE Len(each) = t.params     -> <<"void">>
                     [] Len(each) = t.params + 1 -> Last(each)
                     [] OTHER -> <<"tuple", "<">> \o list(t.params + 1) \o <<">">>)

\* What follows the first n words and the blanks after them.
Skip(text) == LET n == SelectInSeq(text, LAMBDA w : w # " ")
              IN  IF n = 0 THEN <<>> ELSE SubSeq(text, n, Len(text))
Rest(text, n) == Skip(SubSeq(text, n + 1, Len(text)))
Begins(text, word) == text # <<>> /\ Head(text) = word

\* The readers below get a text without leading blanks and return the value
\* and what is left of the text.
Read(v, rest) == [ok |-> TRUE, value |-> v, rest |-> rest]

RECURSIVE ParseType(_), ParseTypes(_, _)

\* Types separated by commas up to the word that closes them.
ParseTypes(text, close) ==
    Then(ParseType(text), LAMBDA first :
        IF Begins(first.rest, close) THEN Read(<<first.value>>, Rest(first.rest, 1))
        ELSE IF ~Begins(first.rest, ",") THEN Nothing
        ELSE Then(ParseTypes(Rest(first.rest, 1), close), LAMBDA more :
                Read(<<first.value>> \o more.value, more.rest)))

\* A name is a kind of its own, or may have arguments.
ParseNamedOrBuiltin(name, rest) ==
    IF name = <<>> THEN Nothing
    ELSE IF Len(name) = 1 /\ name[1] \in SimpleKinds THEN Read(Simple(name[1]), rest)
    ELSE IF ~Begins(rest, "<") THEN Read(Type("named", name, <<>>, 0), rest)
    ELSE IF name = <<"tuple">> /\ Begins(Rest(rest, 1), ">") THEN Read(Type("tuple", <<>>, <<>>, 0), Rest(rest, 2))
    ELSE Then(ParseTypes(Rest(rest, 1), ">"), LAMBDA args :
            CASE name = <<"tuple">> -> Read(Type("tuple", <<>>, args.value, 0), args.rest)
              [] name = <<"range">> ->
                   IF Len(args.value) = 1 THEN Read(Type("range", <<>>, args.value, 0), args.rest) ELSE Nothing
              [] OTHER -> Read(Type("named", name, args.value, 0), args.rest))

\* One return value is written without the tuple.
Returns(t) == CASE t.kind = "void" -> <<>> [] t.kind = "tuple" -> t.sub [] OTHER -> <<t>>

\* From the open parenthesis on.
ParseProcedure(text) ==
    IF ~Begins(text, "(") THEN Nothing
    ELSE Then(IF Begins(Rest(text, 1), ")") THEN Read(<<>>, Rest(text, 2)) ELSE ParseTypes(Rest(text, 1), ")"),
            LAMBDA params :
              IF ~Begins(params.rest, "->") THEN Nothing
              ELSE Then(ParseType(Rest(params.rest, 1)), LAMBDA returned :
                      Read(Type("proc", <<>>, params.value \o Returns(returned.value), Len(params.value)),
                           returned.rest)))

\* A type built on the one that follows.
ParseInner(kind, name, text) ==
    Then(ParseType(text), LAMBDA inner : Read(Type(kind, name, <<inner.value>>, 0), inner.rest))

ParseType(text) ==
    LET close == SelectInSeq(text, LAMBDA w : w = "]")
        end == SelectInSeq(text \o <<" ">>, LAMBDA w : w \notin Words)
    IN  CASE Begins(text, "*")     -> ParseInner("pointer", <<>>, Rest(text, 1))
          [] Begins(text, "const") -> ParseInner("const", <<>>, Rest(text, 1))
          [] Begins(text, "[")     ->
               IF close = 0 THEN Nothing
               ELSE ParseInner("array", SubSeq(text, 2, close - 1), Rest(text, close))
          [] Begins(text, "proc")  -> ParseProcedure(Rest(text, 1))
          [] OTHER -> ParseNamedOrBuiltin(SubSeq(text, 1, end - 1), Rest(text, end - 1))

ParseTypeText(text) ==
    Then(ParseType(Skip(text)), LAMBDA all : IF all.rest = <<>> THEN Just(all.value) ELSE Nothing)

-----------------------------------------------------------------------------
(* Constant values: [kind, text, type, tag, names, elements].  text is the *)
(* spelling of a scalar, or the name of a procedure or of a variant; an    *)
(* array has elements and no names.                                        *)

Const(kind, text, type, tag, names, elements) ==
    [kind |-> kind, text |-> text, type |-> type, tag |-> tag, names |-> names, elements |-> elements]
NoType == Simple("unknown")
Scalar(kind, text) == Const(kind, text, NoType, 0, <<>>, <<>>)
KindLetter == [bool |-> "b", integer |-> "i", float |-> "f", string |-> "s", nil |-> "n",
               procedure |-> "p", enum |-> "e", aggregate |-> "a"]

\* The spellings that ParseInt64 and ParseFloat64 take.
IntegerTexts == {Number(n) : n \in 0 .. 99} \cup {<<"-1">>}
FloatTexts == IntegerTexts \cup {<<"1.5">>}

LengthPrefixed(text) == Number(Len(text)) \o <<":">> \o text

RECURSIVE SerializeConstValue(_)
SerializeConstValue(v) ==
    LET fields == FlattenSeq([i \in DOMAIN v.elements |->
                      LengthPrefixed(IF i <= Len(v.names) THEN v.names[i] ELSE <<>>)
                      \o LengthPrefixed(SerializeConstValue(v.elements[i]))])
        counted == Number(Len(v.elements)) \o <<":">> \o fields
    IN  <<KindLetter[v.kind], ":">>
        \o (CASE v.kind = "procedure" -> LengthPrefixed(v.text)
              [] v.kind = "enum" ->
                   LengthPrefixed(FormatType(v.type)) \o LengthPrefixed(v.text)
                   \o Number(v.tag) \o <<":">> \o counted
              [] v.kind = "aggregate" -> counted
              [] OTHER -> v.text)

\* A value that is not known at compile time is an empty text.
JoinConstValues(values) ==
    JoinEscaped([i \in DOMAIN values |->
        IF values[i].ok THEN SerializeConstValue(values[i].value) ELSE <<>>])

ParseLengthPrefix(text) ==
    LET colon == SelectInSeq(text, LAMBDA w : w = ":")
    IN  IF colon = 0 THEN Nothing
        ELSE Then(ParseArrayLength(SubSeq(text, 1, colon - 1)), LAMBDA length :
                Read(length.value, SubSeq(text, colon + 1, Len(text))))
ConsumeLengthPrefixed(text) ==
    Then(ParseLengthPrefix(text), LAMBDA length :
        IF length.value > Len(length.rest) THEN Nothing
        ELSE Read(SubSeq(length.rest, 1, length.value),
                  SubSeq(length.rest, length.value + 1, Len(length.rest))))

RECURSIVE ParseConstValue(_)

\* A name and a value of an aggregate or of a variant.
ParseField(text) ==
    Then(ConsumeLengthPrefixed(text), LAMBDA name :
        Then(ConsumeLengthPrefixed(name.rest), LAMBDA element :
            Then(ParseConstValue(element.value), LAMBDA value :
                Read([name |-> name.value, element |-> value.value], element.rest))))

\* The counted fields that end it.
ParseFields(text) ==
    Then(ParseLengthPrefix(text), LAMBDA count :
        LET next(s, i) ==
                Then(s, LAMBDA before :
                    Then(ParseField(before.rest), LAMBDA field :
                        Read(Append(before.value, field.value), field.rest)))
            all == FoldLeft(next, Read(<<>>, count.rest), [i \in 1 .. count.value |-> i])
        IN  Then(all, LAMBDA fields : IF fields.rest = <<>> THEN Just(fields.value) ELSE Nothing))

Fielded(kind, text, type, tag, fields) ==
    Const(kind, text, type, tag, [i \in DOMAIN fields |-> fields[i].name],
          [i \in DOMAIN fields |-> fields[i].element])

ParseEnumValue(text) ==
    Then(ConsumeLengthPrefixed(text), LAMBDA type :
        Then(ParseTypeText(type.value), LAMBDA enum :
            Then(ConsumeLengthPrefixed(type.rest), LAMBDA variant :
                Then(ParseLengthPrefix(variant.rest), LAMBDA tag :
                    Then(ParseFields(tag.rest), LAMBDA fields :
                        Just(Fielded("enum", variant.value, enum.value, tag.value, fields.value)))))))

\* The value that follows the letter of its kind.
ParsePayload(letter, text) ==
    LET is(kind) == letter = KindLetter[kind]
        when(valid, v) == IF valid THEN Just(v) ELSE Nothing
    IN  CASE is("bool")      -> when(text \in {<<"0">>, <<"1">>}, Scalar("bool", text))
          [] is("integer")   -> when(text \in IntegerTexts, Scalar("integer", text))
          [] is("float")     -> when(text \in FloatTexts, Scalar("float", text))
          [] is("string")    -> Just(Scalar("string", text))
          [] is("nil")       -> when(text = <<>>, Scalar("nil", <<>>))
          [] is("procedure") -> Then(ConsumeLengthPrefixed(text), LAMBDA name :
                                    when(name.rest = <<>>, Scalar("procedure", name.value)))
          [] is("enum")      -> ParseEnumValue(text)
          [] is("aggregate") -> Then(ParseFields(text), LAMBDA fields :
                                    Just(Fielded("aggregate", <<>>, NoType, 0, fields.value)))
          [] OTHER -> Nothing

ParseConstValue(text) ==
    IF Len(text) < 2 \/ text[2] # ":" THEN Nothing
    ELSE ParsePayload(text[1], SubSeq(text, 3, Len(text)))

ParseConstValues(text) ==
    Then(SplitEscaped(text), LAMBDA values :
        Sequenced([i \in DOMAIN values.value |->
            IF values.value[i] = <<>> THEN Just(Nothing)
            ELSE Then(ParseConstValue(values.value[i]), LAMBDA v : Just(Just(v.value)))]))

-----------------------------------------------------------------------------
(* An artifact: its metadata, the imports and the records of the module.   *)

FormatTypes(types) == [i \in DOMAIN types |-> FormatType(types[i])]
ParseTypeTexts(texts) ==
    Then(SplitEscaped(texts), LAMBDA each :
        Sequenced([i \in DOMAIN each.value |-> ParseTypeText(each.value[i])]))

\* The fields of a line.
Line(fields) == Join(fields, <<"\t">>) \o <<"\n">>
Lines(lines) == FlattenSeq([i \in DOMAIN lines |-> Line(lines[i])])

FunctionLine(f) ==
    <<<<"function">>, EscapeText(f.name), Flag(f.extern), EscapeText(f.abi), JoinEscaped(f.typeParams),
      JoinEscaped(FormatTypes(f.params)), JoinEscaped(FormatTypes(f.returns))>>

TypeLines(t) ==
    LET field(head, fd) == head \o <<EscapeText(fd.name), EscapeText(FormatType(fd.type))>>
        variant(v) ==
            <<<<<<"type_variant">>, EscapeText(t.name), EscapeText(v.name)>>>>
            \o [i \in DOMAIN v.fields |->
                   field(<<<<"type_variant_field">>, EscapeText(t.name), EscapeText(v.name)>>, v.fields[i])]
    IN  <<<<<<"type">>, <<t.kind>>, EscapeText(t.name), JoinEscaped(t.typeParams), Flag(t.packed),
            Flag(t.abiC), Flag(t.valid), Number(t.size), Number(t.alignment),
            JoinEscapedPaths(t.offsets), EscapeText(FormatType(t.aliased))>>>>
        \o [i \in DOMAIN t.fields |-> field(<<<<"type_field">>, EscapeText(t.name)>>, t.fields[i])]
        \o FlattenSeq([i \in DOMAIN t.variants |-> variant(t.variants[i])])

GlobalLine(g) ==
    <<<<"global">>, Flag(g.const), JoinEscaped(g.names), EscapeText(FormatType(g.type))>>

SerializeArtifactWithoutHash(a) ==
    Lines(<<<<<<"format">>, Number(a.format)>>, <<<<"target">>, EscapeText(a.target)>>,
            <<<<"package">>, EscapeText(a.package)>>, <<<<"module">>, EscapeText(a.module)>>,
            <<<<"module_kind">>, <<a.kind>>>>, <<<<"source">>, EscapeText(a.source)>>,
            <<<<"imports">>, JoinEscaped(a.imports)>>>>
          \o [i \in DOMAIN a.functions |->
                 Append(FunctionLine(a.functions[i]), JoinBoolFlags(a.functions[i].noalias))]
          \o FlattenSeq([i \in DOMAIN a.types |-> TypeLines(a.types[i])])
          \o [i \in DOMAIN a.globals |->
                 GlobalLine(a.globals[i]) \o <<JoinConstValues(a.globals[i].values),
                                               JoinBoolFlags(a.globals[i].zeros)>>])

\* The first format, which compilers no longer write.
SerializeArtifactWithoutHashV1(a) ==
    Lines(<<<<<<"format">>, Number(a.format)>>, <<<<"target">>, EscapeText(a.target)>>,
            <<<<"module">>, EscapeText(a.module)>>, <<<<"source">>, EscapeText(a.source)>>,
            <<<<"imports">>, JoinEscaped(a.imports)>>>>
          \o [i \in DOMAIN a.functions |-> FunctionLine(a.functions[i])]
          \o FlattenSeq([i \in DOMAIN a.types |-> TypeLines(a.types[i])])
          \o [i \in DOMAIN a.globals |-> GlobalLine(a.globals[i])])

NoArtifact ==
    [format |-> kFormatVersion, target |-> <<>>, package |-> <<>>, module |-> <<>>, kind |-> "ordinary",
     source |-> <<>>, imports |-> <<>>, functions |-> <<>>, types |-> <<>>, globals |-> <<>>,
     hash |-> <<>>, sawPackage |-> FALSE, sawKind |-> FALSE]

Metadata(a) == [target |-> a.target, package |-> a.package, module |-> a.module, kind |-> a.kind,
                source |-> a.source]
=============================================================================
