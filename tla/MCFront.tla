------------------------------ MODULE MCFront ------------------------------
(***************************************************************************)
(* The texts the compiler reads: characters for the lexer, tokens for the  *)
(* parser, and the interface files of imported modules.  Complete small    *)
(* families around each decision, right and wrong ones together.  The      *)
(* three are checked side by side: two of them are idle in a behaviour.    *)
(***************************************************************************)
EXTENDS Parser, Lexer

CONSTANTS Artifacts, OtherMetadata                                    \* of Mci
VARIABLES given, expected, digest, missing, unread, loaded, step

Interface == INSTANCE Mci
Format == INSTANCE MciText
interfaceVars == <<given, expected, digest, missing, unread, loaded, step>>

UpTo(alphabet, n) == UNION {[1 .. k -> alphabet] : k \in 0 .. n}
End == <<"newline", "eof">>

Operators == UNION {Ladder[l] : l \in DOMAIN Ladder}
Global(exprs) == {<<"var", "id", ":", "id", "=">> \o e \o End : e \in exprs}
InBody(lines) == {<<"func", "id", "(", ")", "{", "newline">> \o l \o <<"newline", "}">> \o End : l \in lines}

Chains ==
    {<<"id", a, "int", b, "id">> : a, b \in Operators}
    \cup {<<"id", a, "-", "id", b, "(", "id", c, "id", ")">> : a, b, c \in {"..", "is", "&", "<", "*"}}

TypeForms == { <<"id">>, <<"id", ".", "id">>, <<"id", "<", "id", ">">>, <<"*", "id">>,
               <<"[", "int", "]", "id">>, <<"[", "]", "id">>, <<"(", "id", ")">>, <<"func", "(", ")">>,
               <<"func", "(", "id", ")", "id">>, <<"func", "(", ")", "(", "id", ",", "id", ")">>,
               <<"const", "*", "*", "id">>, <<"const", "*", "*", "*", "id">>, <<"id", "<", ">">>,
               <<"[", "int", "int", "]", "id">>,
               <<"[", "id", "(", "id", "[", "int", "]", ")", "]", "id">>, <<"int">> }
TypeUses ==
    UNION {{<<"(">> \o t \o <<")", "(", "id", ")">>, t \o <<"{", "id", ":", "id", "}">>,
            <<"id", "<">> \o t \o <<">", "(", "id", ")">>, <<"id", "<">> \o t \o <<">", ".", "id">>,
            <<"id", "<">> \o t \o <<",">> \o t \o <<">", "{", "}">>, <<"-">> \o t \o <<"{", "}">>,
            <<"(">> \o t \o <<")">>} : t \in TypeForms}
Angles == UpTo({"id", "(", ")", "<", ">"}, 4)

SuffixForms == { <<".", "id">>, <<".", "int">>, <<".", "+">>, <<".*">>, <<"[", "id", "]">>, <<"[", ":", "]">>,
              <<"[", "id", ":", "]">>, <<"[", ":", "id", "]">>, <<"(", ")">>, <<"(", "newline", "id", ",", "newline", ")">>,
              <<"(", "id", ",", "id", ")">>, <<"{", "}">>, <<"{", "id", ":", ",", "id", ":", "id", "}">>,
              <<"with", "{", "id", ".", "id", ":", "id", "}">>, <<"with", "{", "id", ":", "}">>,
              <<"with", "{", "id", ".", "id", ":", "}">> }
Postfixes ==
    {p \o b \o s \o t : p \in {<<>>, <<"-">>, <<"!", "*", "&", "-">>}, b \in {<<"id">>, <<"u8">>, <<"(", "id", ")">>},
                        s \in SuffixForms, t \in {<<>>, <<".", "id">>, <<"{", "id", "}">>}}
    \cup {<<"[", "]">>, <<"{", "id", "}">>, <<"u8", "(", "id", ")">>}

StatementForms ==
    { <<"id">>, <<"id", "=", "id">>, <<"_", "=", "id", ",", "id">>, <<"_", ",", "id", ".", "id", "=", "id">>,
      <<"(", "id", ")", ",", "id", "=", "id">>, <<"int", ",", "int", "=", "id">>, <<"id", ":=", "id", ",">>,
      <<"id", ",", "_", ":=", "id">>, <<"id", ":", "id">>, <<"id", ":", "id", "=", "id">>,
      <<"var", "id", ":=", "id">>, <<"const", "id", ":", "id">>, <<"var", "id">>, <<"return">>,
      <<"return", "id", ",", "id">>, <<"break">>, <<"continue">>, <<"defer", "id", "(", ")">>, <<"{", "}">>,
      <<"if", "id", "{", "}">>, <<"if", "id", "{", "}", "else", "if", "id", "{", "id", "}", "else", "{", "}">>,
      <<"while", "id", "<", "id", "{", "}">>, <<"for", "id", "in", "id", "..", "id", "{", "}">>,
      <<"for", "id", ",", "id", "in", "id", "{", "}">>, <<"for", "id", "{", "}">>,
      <<"if", "id", "{", "newline", "id">>, <<"if", "}">>,
      <<"switch", "id", "{", "case", "id", ":", "id", "newline", "default", ":", "}">>,
      <<"switch", "id", "{", "newline", "case", "id", ".", "id", "(", "id", ",", "id", ")", ":", "newline", "id",
        "newline", "case", "id", ".", "id", ".", "id", ":", "}">>,
      <<"switch", "id", "{", "case", "id", "(", ")", ":", "default", ":", "newline", "id", "id", "}">>,
      <<"switch", "id", "{", "id", "newline", "}">> }
Separated == {s \o sep \o t : s, t \in StatementForms, sep \in {<<"newline">>}}
             \cup {s \o t : s \in StatementForms, t \in {<<"id">>, <<"case">>, <<"{", "}">>, <<"+", "id">>}}
Scraps == UpTo({"case", "default", "}", "{", "newline", ":", "id"}, 3)
SwitchScraps == {<<"switch", "id", "{">> \o s : s \in Scraps}

DeclForms ==
    { <<"@", "id", "newline", "func", "id", "<", "id", ">", "(", "@", "id", "(", "int", ",", "id", ")", "id", ":", "id", ",", "id", ":", "id", ")", "id", "{", "}">>,
      <<"func", "id", "(", ")", "(", "id", ",", "id", ")", "{", "return", "id", "}">>,
      <<"extern", "(", "id", ")", "func", "id", "(", ")">>, <<"@", "id", "(", "+", ")", "struct", "id", "{", "}">>,
      <<"struct", "id", "<", "id", ">", "{", "id", ":", "id", ",", "id", ":", "id", "}">>,
      <<"enum", "id", "{", "id", "newline", "id", "(", "id", ":", "id", ",", "id", ")", "}">>,
      <<"distinct", "id", "=", "id">>, <<"type", "id", "<", "id", ">", "=", "id">>,
      <<"const", "id", ":", "id", "=", "id">>, <<"const", "_", ":", "id">>, <<"var", "id", ":", "id">>,
      <<"func", "id", "{">>, <<"export", "{", "{", "}", "func", "}">>, <<"export", "id">>, <<"import", "id">>,
      <<"type", "id", "=", "id", ".">>, <<"id", "id", "newline", "id">> }
Files == {i \o d \o <<"newline">> \o e \o End :
            i \in {<<>>, <<"import", "id", "/", "id", "newline">>, <<"import", "id", "/", "newline">>, <<"import", "id">>},
            d, e \in DeclForms}
\* Bodies of a struct and an enum, closed or cut off.
Members == {<<d, "id", "{">> \o m \o close \o End :
              d \in {"struct", "enum"}, close \in {<<>>, <<"}">>}, m \in UpTo({"id", ":", ",", "newline", "int", "("}, 3)}

AllSources == Global(Chains \cup TypeUses \cup Angles \cup Postfixes)
              \cup InBody(Separated \cup Scraps \cup SwitchScraps)
              \cup InBody({<<"if">> \o t \o <<"{", "}">> : t \in TypeUses})
              \cup Files \cup Members

-----------------------------------------------------------------------------
LexTexts ==
    UpTo({"0", "7", "_", ".", "e", "x"}, 5) \cup UpTo({"0", "1", "7", "_"}, 3)
    \cup {<<"1", "e">> \o w : w \in UpTo({"+", "-", "1", "_", "e"}, 3)}
    \cup {<<"'">> \o w : w \in UpTo({"'", "\\", "n", "x", "\n"}, 4)}
    \cup {<<"\"">> \o w : w \in UpTo({"\"", "\\", "n", "x", "\r"}, 4)}
    \cup UpTo({"/", "\n", " ", "f", "n", "*", "$"}, 4)
NoTexts == {}

-----------------------------------------------------------------------------
(* Interface files: one interface for every form of type and constant, and *)
(* texts of the characters that the format uses itself.                    *)

OddTexts == {<<"a">>, <<"a", ";", "a">>, <<"\\">>, <<"\\", "t">>, <<"\t", "n">>, <<"\n", "a">>, <<";">>}

Named(name, sub) == Format!Type("named", name, sub, 0)
Of(kind, sub) == Format!Type(kind, <<>>, sub, 0)
Proc(params, returns) == Format!Type("proc", <<>>, params \o returns, Len(params))
Pair(t) == Format!Type("array", <<"2">>, <<t>>, 0)
I32 == Named(<<"i32">>, <<>>)
T == Named(<<"T">>, <<>>)

InterfaceTypes ==
    {I32, Of("string", <<>>), Of("pointer", <<Of("const", <<T>>)>>), Of("const", <<Of("pointer", <<T>>)>>),
     Pair(Pair(I32)), Named(<<"S", ".", "E">>, <<>>), Named(<<"S">>, <<I32, Of("pointer", <<T>>)>>),
     Named(<<"S">>, <<Named(<<"S">>, <<T>>)>>), Of("tuple", <<I32, Of("bool", <<>>)>>),
     Of("range", <<I32>>), Proc(<<>>, <<>>), Proc(<<I32, T>>, <<I32>>), Proc(<<T>>, <<I32, Pair(T)>>),
     Proc(<<Proc(<<>>, <<I32>>)>>, <<Proc(<<T>>, <<>>)>>),
     Named(<<"const", "ant">>, <<>>), Named(<<"proc", "ess">>, <<>>), Named(<<"range">>, <<I32>>),
     Named(<<"tuple">>, <<T>>)}

IntConst(n) == Format!Scalar("integer", <<n>>)
Array(elements) == Format!Const("aggregate", <<>>, Format!NoType, 0, <<>>, elements)
Variant(names, elements) ==
    Format!Const("enum", <<"E">>, Named(<<"S", ".", "E">>, <<>>), 1, names, elements)
InterfaceConsts ==
    {Format!Scalar("string", t) : t \in OddTexts \cup {<<"2", ":">>, <<>>}}
    \cup {IntConst("-1"), Format!Scalar("bool", <<"1">>), Format!Scalar("float", <<"1.5">>),
          Format!Scalar("nil", <<>>), Format!Scalar("procedure", <<"S", ".", "a">>),
          Array(<<IntConst("2"), IntConst("0")>>), Array(<<Format!Scalar("string", <<";", ":">>), Array(<<IntConst("1")>>)>>),
          Variant(<<>>, <<>>), Variant(<<<<"a">>, <<"t">>>>, <<Array(<<IntConst("1"), IntConst("2")>>), IntConst("1")>>),
          [Array(<<IntConst("1"), Format!Scalar("string", <<"\\">>)>>) EXCEPT !.names = <<<<"a">>, <<"n">>>>]}

Plain == [Format!NoArtifact EXCEPT !.target = <<"x">>, !.package = <<"p">>, !.module = <<"m">>, !.source = <<"a">>]
WithText(t) == [Plain EXCEPT !.source = t, !.imports = <<<<"a">>, <<"S">>>>]
WithFunction(params, returns, noalias) ==
    [Plain EXCEPT !.functions =
        <<[name |-> <<"a">>, extern |-> returns = <<>>, abi |-> IF returns = <<>> THEN <<"C">> ELSE <<>>,
           typeParams |-> <<<<"T">>>>, params |-> params, returns |-> returns, noalias |-> noalias]>>]
Decl(kind, name, aliased, fields, variants) ==
    [kind |-> kind, name |-> name, typeParams |-> <<>>, packed |-> FALSE, abiC |-> kind = "struct",
     valid |-> TRUE, size |-> 8, alignment |-> 4, offsets |-> IF kind = "struct" THEN <<0, 4>> ELSE <<>>,
     aliased |-> aliased, fields |-> fields, variants |-> variants]
WithTypes(t) ==
    LET member(n) == [name |-> <<n>>, type |-> t]
    IN  [Plain EXCEPT !.kind = "internal", !.types =
            <<Decl("alias", <<"T">>, t, <<>>, <<>>),
              Decl("struct", <<"S">>, Format!NoType, <<member("a"), member("b")>>, <<>>),
              Decl("enum", <<"E">>, Format!NoType, <<>>,
                   <<[name |-> <<"a">>, fields |-> <<>>], [name |-> <<"b">>, fields |-> <<member("a")>>]>>)>>]
WithGlobal(names, values, zero) ==
    [Plain EXCEPT !.globals =
        <<[const |-> ~zero, names |-> names, type |-> I32, values |-> values, zeros |-> [i \in DOMAIN names |-> zero]]>>]

Known(v) == Format!Just(v)
AllInterfaces ==
    {WithText(t) : t \in OddTexts}
    \cup {WithFunction(<<t>>, <<>>, <<TRUE>>) : t \in InterfaceTypes}
    \cup {WithFunction(<<>>, <<I32, t>>, <<>>) : t \in InterfaceTypes}
    \cup {WithFunction(<<I32, I32>>, <<I32>>, <<TRUE, FALSE>>)}
    \cup {WithTypes(t) : t \in {I32, Pair(Of("pointer", <<T>>))}}
    \cup {WithGlobal(<<<<"a">>>>, <<Known(v)>>, FALSE) : v \in InterfaceConsts}
    \cup {WithGlobal(<<<<"a">>, <<"b">>>>, <<Known(v), Known(IntConst("0"))>>, FALSE) : v \in InterfaceConsts}
    \cup {[a EXCEPT !.format = 1] : a \in {WithTypes(I32), WithGlobal(<<<<"a">>>>, <<Known(IntConst("1"))>>, FALSE)}}
    \cup {WithGlobal(<<<<"a">>>>, <<Format!Nothing>>, TRUE),
          WithGlobal(<<<<"a">>, <<"b">>>>, <<Format!Nothing, Format!Nothing>>, TRUE)}
\* Another target, package, module, kind or source.
AllOtherMetadata ==
    LET m == Format!Metadata(Plain)
    IN  {m, [m EXCEPT !.target = <<>>, !.source = <<>>], [m EXCEPT !.target = <<"y">>], [m EXCEPT !.package = <<"q">>], [m EXCEPT !.module = <<"S">>],
         [m EXCEPT !.kind = "internal"], [m EXCEPT !.source = <<"b">>]}

-----------------------------------------------------------------------------
LexerIdle == text = <<>> /\ at = 1 /\ lexed = <<>> /\ lexOk = TRUE
ParserIdle == tokens = <<"eof">> /\ index = 1 /\ todo = <<>> /\ nodes = <<>> /\ ok = TRUE /\ agg = TRUE
InterfaceIdle ==
    /\ given = Format!NoArtifact /\ expected = Format!Metadata(given) /\ digest = <<>>
    /\ missing = 0 /\ unread = <<>> /\ loaded = given /\ step = "idle"

FrontInit ==
    \/ LexInit /\ ParserIdle /\ InterfaceIdle
    \/ Init /\ LexerIdle /\ InterfaceIdle
    \/ Interface!MciInit /\ LexerIdle /\ ParserIdle
ParserNext == Next /\ UNCHANGED <<lexVars, interfaceVars>>
FrontNext ==
    \/ LexNext /\ UNCHANGED <<vars, interfaceVars>>
    \/ ParserNext
    \/ Interface!MciNext /\ UNCHANGED <<vars, lexVars>>
frontVars == <<vars, lexVars, interfaceVars>>
(* The parser runs on one thread of the compiler until it returns. *)
FrontSpec == FrontInit /\ [][FrontNext]_frontVars /\ WF_frontVars(ParserNext)

\* What is written to an interface file is what its importers get, or nothing
\* (Mci, LoadInterfaceArtifact).
LoadsAsWritten == Interface!LoadsAsWritten
=============================================================================
