------------------------------- MODULE MCCode -------------------------------
(* Compiled code against its source: a behaviour compiles and runs one small *)
(* function or control-flow graph (Lowering, Mir) or one expression over     *)
(* variables of every kind of type (Expressions).  The widths of the types   *)
(* are small and in the order of the real ones, so that every value is tried *)
(* at every operation.                                                       *)
EXTENDS Lowering, Expressions

-----------------------------------------------------------------------------
(* Functions and graphs.                                                     *)

NoExpr == Lit(0)
Do(k, e) == Stmt(k, "", e, <<>>, <<>>, <<>>, FALSE)
Set(k, x, e) == Stmt(k, x, e, <<>>, <<>>, <<>>, TRUE)
If(e, a) == Stmt("if", "", e, a, <<>>, <<>>, FALSE)
IfElse(e, a, b) == Stmt("if", "", e, a, b, <<>>, TRUE)
While(e, a) == Stmt("while", "", e, a, <<>>, <<>>, FALSE)
For(k, x, a, has) == Stmt(k, x, Lit(2), a, <<>>, <<>>, has)
Block(a) == Stmt("block", "", Lit(0), a, <<>>, <<>>, FALSE)
Switch(e, cs, b, has) == Stmt("switch", "", e, <<>>, b, cs, has)
Case(v, x, body) == [v |-> v, x |-> x, body |-> body]

Jumps == {Do("break", NoExpr), Do("continue", NoExpr), Do("return", NoExpr)}
Leaves == {Do("call", Name("x")), Set("assign", "x", Lit(2)), Set("bind", "x", Lit(3)),
           Do("defer", Name("x"))}
Ends == Jumps \cup {Do("deferpanic", Lit(9)), Do("panic", Lit(8))}

\* What stands around the part that varies.
Around(s) == <<Set("bind", "x", Lit(5)), Do("defer", Name("x")), s, Do("call", Name("x"))>>

Loops(body) == {While(Input, body), For("range", "x", body, FALSE), For("each", "i", body, TRUE)}

\* A loop whose rounds defer, branch and jump.
LoopPrograms ==
  UNION {Loops(<<l, If(Input, <<m, j>>), n>>) : l \in Leaves, m \in Leaves, n \in Leaves, j \in Ends}

\* Branches inside branches.
IfPrograms ==
  {IfElse(Input, <<l, If(Input, <<m>>)>>, <<n>>) : l \in Leaves, m \in Leaves \cup Ends, n \in Leaves \cup Ends}
  \cup {IfElse(Input, <<m>>, <<If(Input, <<n>>), l>>) : l \in Leaves \cup Ends, m \in Leaves \cup Ends, n \in Leaves \cup Ends}
  \cup {Block(<<l, If(Input, <<m>>), n>>) : l \in Leaves, m \in Leaves \cup Ends, n \in Leaves}
  \cup {IfElse(Input, <<While(Input, <<l>>)>>, <<m, n>>) : l \in Leaves, m \in Leaves, n \in Ends}

SwitchPrograms ==
  {Switch(Input, <<Case(0, "", a), Case(1, z, b)>>, c, has) :
     a \in {<<>>, <<Do("call", Lit(7))>>, <<Do("break", NoExpr)>>},
     z \in {"", "x", "z"}, b \in {<<>>} \cup {<<l, n>> : l \in Leaves, n \in Leaves \cup Jumps},
     c \in {<<>>, <<Do("panic", Lit(8))>>}, has \in BOOLEAN}

Conditions ==
  LET atoms == {Input, Name("p")}
  IN {Logical(o, l, Logical(q, m, n)) : o \in {"and", "or"}, q \in {"and", "or"},
                                        l \in atoms, m \in atoms, n \in {Input}}
     \cup {Logical(o, Logical(q, l, m), n) : o \in {"and", "or"}, q \in {"and", "or"},
                                             l \in atoms, m \in {Input}, n \in atoms}

ConditionPrograms ==
  {IfElse(c, <<Do("call", c)>>, <<Do("call", Lit(4))>>) : c \in Conditions}
  \cup {For("range", "i", <<Do("defer", c), Do("call", Name("i"))>>, FALSE) : c \in Conditions}

ResultBodies ==
  {<<Set("bind", "x", Lit(5)), Do("defer", Lit(6)), s>> :
     s \in {IfElse(Input, <<Set("return", "", Name(a))>>, <<t>>) :
              a \in {"x", "p"}, t \in {Set("return", "", Name("x")), Do("panic", Lit(8)), Do("call", Lit(1))}}
           \cup {Switch(Input, <<Case(0, "", <<>>), Case(1, "", <<Set("return", "", Name("p"))>>)>>, <<t>>, TRUE) :
              t \in {Set("return", "", Name("x")), Do("call", Lit(1))}}}

SmallPrograms ==
  {[body |-> Around(s), result |-> FALSE] :
     s \in LoopPrograms \cup IfPrograms \cup ConditionPrograms}
  \cup {[body |-> Around(w), result |-> FALSE] :
          w \in {While(Input, <<Do("defer", Lit(6)), s>>) : s \in SwitchPrograms}}
  \cup {[body |-> b, result |-> TRUE] : b \in ResultBodies}

\* Three blocks that define and use one value, with every way to jump.
Def == Instr("const", 7, NoStorage, <<>>, 1)
Use == Instr("eq", 0, NoStorage, <<7, 7>>, 0)
Codes == {<<>>, <<Def>>, <<Use>>, <<Use, Def>>, <<Def, Use>>}
Ask == Instr("input", 8, NoStorage, <<>>, 0)

Ends3 == {Term("ret", <<>>, 0, 0)} \cup {Term("br", <<>>, t, 0) : t \in 2..3}
           \cup {Term("cond", <<8>>, e[1], e[2]) : e \in {<<1, 2>>, <<1, 3>>, <<2, 3>>}}

ThreeBlocks ==
  {<<[label |-> 1, code |-> a, term |-> p], [label |-> 2, code |-> b, term |-> q],
     [label |-> 3, code |-> c, term |-> r]>> :
     a \in Codes, b \in Codes, c \in {<<>>, <<Use>>},
     p \in Ends3 \ {Term("ret", <<>>, 0, 0)}, q \in Ends3, r \in Ends3}

\* The entry block asks for the condition the others branch on.
WithAsk(F) == [i \in 1..3 |-> IF i = 1 THEN [F[1] EXCEPT !.code = <<Ask>> \o @] ELSE F[i]]

SmallGraphs == {WithAsk(F) : F \in ThreeBlocks}
-----------------------------------------------------------------------------
(* Expressions of one and two operations, and constants.                     *)

SmallWidth == [u8 |-> 2, i8 |-> 2, u32 |-> 3, i32 |-> 3, usize |-> 4, int_literal |-> 4]
SmallDecls == [Byte |-> [kind |-> "alias", of |-> "u8"], Sbyte |-> [kind |-> "alias", of |-> "i8"],
               Word |-> [kind |-> "distinct", of |-> "u8"]]
SmallEnums == [Plain |-> <<<<>>, <<>>>>,
               Pair |-> <<<<"i8", "u8">>, <<"bool">>, <<>>>>,
               Tree |-> <<<<"Plain", "bool">>, <<"Pair">>>>]

Num(v) == [k |-> "lit", v |-> v]
Bool(v) == [k |-> "bool", v |-> v]
Var(n, t) == [k |-> "var", n |-> n, t |-> t]
Global(n) == [k |-> "name", n |-> n]
Un(op, a) == [k |-> "un", op |-> op, a |-> a]
Conv(t, a) == [k |-> "conv", t |-> t, a |-> a]
Bin(op, a, b) == [k |-> "bin", op |-> op, a |-> a, b |-> b]
Element(len, a) == [k |-> "index", len |-> len, a |-> a]
Slice(len, lo, hi) == [k |-> "slice", len |-> len, lo |-> lo, hi |-> hi]

Const(t, e) == [type |-> t, init |-> e]
SmallConsts ==
  [three |-> Const("u8", Num(3)),
   minus |-> Const("i32", Un("-", Num(3))),
   large |-> Const("u8", Bin("+", Global("three"), Conv("u8", Num(2)))),
   truth |-> Const("bool", Bin("||", Bin("<=", Global("three"), Num(3)), Bin("==", Bin("/", Num(1), Num(0)), Num(1)))),
   false |-> Const("bool", Bin("&&", Un("!", Global("truth")), Bool(TRUE))),
   zero |-> Const("i8", Bin("%", Num(1), Num(0))),
   ping |-> Const("u8", Bin("+", Global("pong"), Num(1))),
   pong |-> Const("u8", Global("ping")),
   wrong |-> Const("u32", Global("three"))]

Arithmetic == {"+", "-", "*", "/", "%"} \cup Bitwises \cup Shifts
SignFree == {"+", "-", "*", "<<", "==", "!="} \cup Bitwises
Integers1 == {"u8", "i8", "u32", "i32"}

Operands(n) == {Var(n, t) : t \in Integers1 \cup {"bool"}} \cup {Num(1), Num(5), Un("-", Num(1))}

\* One operation, all operand types, right and wrong ones.
OneOperation == {Bin(op, l, r) : op \in Arithmetic \cup Comparisons, l \in Operands("a"), r \in Operands("b")}

\* The result of one operation converted and used in the next.
TwoOperations ==
  {Bin(p, Conv(t, Bin(op, Var("a", s), Var("b", s))), r) :
     p \in {"/", "<"}, op \in Arithmetic, s, t \in Integers1, r \in {Num(3), Var("b", "i8")}}

Negations == {Un(op, e) : op \in {"-", "!"}, e \in Operands("a") \cup {Bin("<", Var("a", "u8"), Num(2))}}
Conversions == {Conv(t, Conv(s, Var("a", r))) : r, s, t \in Integers1 \cup {"Byte", "Word", "usize", "bool"}}
Aliased == {Bin(op, Var("a", t), Var("b", s)) : op \in SignFree, t, s \in {"Byte", "Word", "u8"}}
           \cup {Bin(op, Var("a", t), Num(3)) : op \in SignFree, t \in {"Byte", "Word"}}
Ordered == {Bin(op, Var("a", en), Var("b", en)) : op \in Comparisons, en \in DOMAIN SmallEnums}
           \cup {Bin("==", Var("a", "Plain"), Var("b", "Pair"))}

Bounds == {Var("b", "usize"), Num(0), Num(2), Num(3), Var("b", "u8")}
Views == {Element(3, e) : e \in Bounds \cup {Bin("-", Var("b", "usize"), Num(1))}}
         \cup {Slice(3, <<l>>, <<h>>) : l \in {Var("a", "usize"), Num(1)}, h \in Bounds}
         \cup {Slice(3, <<Var("a", "usize")>>, <<>>), Slice(3, <<>>, <<Var("a", "usize")>>)}

Scalars == {Num(0), Num(2), Un("-", Num(3)), Conv("u8", Num(3)), Conv("i8", Un("-", Num(2))), Global("three"), Global("minus"),
            Global("large"), Global("zero"), Global("ping"), Global("wrong"), Global("truth"), Global("false")}
Constant == {Bin(op, l, r) : op \in Arithmetic \cup Comparisons, l, r \in Scalars}

AllExpressions ==
  OneOperation \cup TwoOperations \cup Negations \cup Conversions \cup Aliased \cup Ordered \cup Views \cup Constant

\* For the run about aliases only.
AliasExpressions ==
  {Bin(op, Var("a", t), Var("b", t)) : op \in Arithmetic \cup Comparisons, t \in {"Byte", "Sbyte"}}
  \cup {Conv("i32", Var("a", t)) : t \in {"Byte", "Sbyte"}}
-----------------------------------------------------------------------------
(* Both side by side.                                                        *)

NoFunction == /\ src = [body |-> <<>>, result |-> FALSE] /\ phase = "refused"
              /\ MirIdle /\ work = <<>> /\ L = NewLowerer

NoExpression == /\ expr = Num(0) /\ stage = "rejected" /\ mir = <<>>
                /\ args = [a |-> 0, b |-> 0] /\ outcome = NotRun

CodeInit == \/ LowerInit /\ NoExpression
            \/ ExprInit /\ NoFunction

CodeNext == \/ LowerNext /\ UNCHANGED exprVars
            \/ ExprNext /\ UNCHANGED lowerVars

CodeSpec == CodeInit /\ [][CodeNext]_<<lowerVars, exprVars>>
=============================================================================
