---------------------------- MODULE NumericTypes ----------------------------
(***************************************************************************)
(* Scalar types as the checker, the MIR and the LLVM back end see them,    *)
(* and the compile-time evaluator of constant expressions.                 *)
(*                                                                         *)
(* A type is its name: a builtin, "int_literal", "bool", "unknown", the    *)
(* name of an alias or of a distinct type (Decls), or of an enum (Enums).  *)
(* Width gives every integer type a small number of bits; "int_literal"    *)
(* has the width of the back end's i64, the widest of them.                *)
(***************************************************************************)
EXTENDS Integers, Sequences, FiniteSets, Bitwise

CONSTANTS Width,   \* [integer type name or "int_literal" -> bits]
          Decls,   \* [alias or distinct name -> [kind, of]]
          Enums,   \* [enum name -> sequence of variants, each a sequence of field types]
          Consts   \* [top-level constant -> [type, init]], see Expressions

\* Every name has one meaning, and no integer type is wider than the literal's.
ASSUME TypesAssumption ==
  /\ DOMAIN Width \cap (DOMAIN Decls \cup DOMAIN Enums) = {}
  /\ \A t \in DOMAIN Width : Width[t] \in 1..Width["int_literal"]
  /\ \A d \in DOMAIN Decls : Decls[d].of \in DOMAIN Width \cup DOMAIN Decls \cup DOMAIN Enums

SignedTypes == {"i8", "i16", "i32", "i64", "isize", "int_literal"}
UnsignedTypes == {"u8", "u16", "u32", "u64", "usize", "uintptr"}

IsIntegerType(t) == t \in DOMAIN Width \ {"int_literal"}
IsIntegerLike(t) == t \in DOMAIN Width

\* StripTypeInternal: follows aliases, and distinct types in the wider mode.
RECURSIVE StripType(_, _)
StripType(t, kinds) ==
  IF t \in DOMAIN Decls /\ Decls[t].kind \in kinds THEN StripType(Decls[t].of, kinds) ELSE t

AliasesOnly == {"alias"}
AliasesAndDistinct == {"alias", "distinct"}

\* The common type of two operands, "unknown" when they have none.
MergeNumericTypes(left, right) ==
  LET l == StripType(left, AliasesOnly)
      r == StripType(right, AliasesOnly)
  IN CASE "unknown" \in {l, r} -> "unknown"
       [] l = r -> l
       [] IsIntegerType(l) /\ r = "int_literal" -> l
       [] IsIntegerType(r) /\ l = "int_literal" -> r
       [] OTHER -> "unknown"

AssignableCanonical(e, a) ==
  \/ "unknown" \in {e, a}
  \/ e = a
  \/ IsIntegerType(e) /\ a = "int_literal"

IsAssignable(expected, actual) ==
  AssignableCanonical(StripType(expected, AliasesOnly), StripType(actual, AliasesOnly))

IsExplicitlyConvertible(expected, actual) ==
  LET e == StripType(expected, AliasesAndDistinct)
      a == StripType(actual, AliasesAndDistinct)
  IN \/ IsAssignable(expected, actual)
     \/ IsAssignable(e, a)
     \/ IsIntegerLike(e) /\ IsIntegerLike(a)

-----------------------------------------------------------------------------
(* The MIR strips aliases and distinct types alike. *)

CanonicalMirType(t) == StripType(t, AliasesAndDistinct)

HasCompatibleNumericTypes(left, right) ==
  LET l == CanonicalMirType(left)
      r == CanonicalMirType(right)
  IN \/ "unknown" \in {l, r}
     \/ l = r /\ IsIntegerLike(l)
     \/ IsIntegerType(l) /\ r = "int_literal"
     \/ IsIntegerType(r) /\ l = "int_literal"

HasCompatibleComparisonTypes(left, right) ==
  \/ HasCompatibleNumericTypes(left, right)
  \/ AssignableCanonical(CanonicalMirType(left), CanonicalMirType(right))
  \/ AssignableCanonical(CanonicalMirType(right), CanonicalMirType(left))

ClassifyMirConversion(source, target) ==
  LET s == CanonicalMirType(source)
      t == CanonicalMirType(target)
  IN CASE (s # source \/ t # target) /\ s = t -> "convert_distinct"
       [] IsIntegerLike(s) /\ IsIntegerLike(t) -> "convert_numeric"
       [] OTHER -> "convert"

-----------------------------------------------------------------------------
(* The back end: a type keeps its written name next to its representation. *)

\* LowerTypeInfo, reduced to the number of bits; 0 stands for an enum's aggregate.
LowerTypeInfo(t) ==
  LET c == CanonicalMirType(t)
  IN CASE c = "bool" -> 1
       [] c \in DOMAIN Enums -> 0
       [] OTHER -> Width[c]

I64 == Width["int_literal"]

IsSignedSourceType(name) == name \in SignedTypes
IsUnsignedSourceType(name) == name \in UnsignedTypes

\* A register holds a bit pattern: a number below 2^bits.
Pattern(bits, n) == n % 2^bits
SignedValue(bits, p) == IF p >= 2^(bits - 1) THEN p - 2^bits ELSE p

\* trunc, sext or zext of a pattern of type "from" to "bits".
ResizedBy(signed, from, bits, p) ==
  IF bits <= from THEN Pattern(bits, p)
  ELSE IF signed THEN Pattern(bits, SignedValue(from, p)) ELSE p

EmitNumericConversionUnsigned(from, to, p) ==
  ResizedBy(FALSE, LowerTypeInfo(from), LowerTypeInfo(to), p)

EmitNumericConversion(from, to, p) ==
  ResizedBy(IsSignedSourceType(from), LowerTypeInfo(from), LowerTypeInfo(to), p)

ExtendIntegerToI64(t, p) == ResizedBy(IsSignedSourceType(t), LowerTypeInfo(t), I64, p)

-----------------------------------------------------------------------------
(* Compile-time evaluation.  A value is [kind, v]; None says there is none. *)

None == [kind |-> "none", v |-> 0]
IntConst(n) == [kind |-> "int", v |-> n]
BoolConst(b) == [kind |-> "bool", v |-> b]

MinInt64 == -(2^(I64 - 1))
WrapInt64(n) == SignedValue(I64, Pattern(I64, n))

\* Division and remainder that truncate towards zero, as in C++ and LLVM.
Abs(n) == IF n < 0 THEN -n ELSE n
Quotient(a, b) ==
  LET q == Abs(a) \div Abs(b) IN IF (a < 0) = (b < 0) THEN q ELSE -q
RemainderOf(a, b) == a - b * Quotient(a, b)

DivideFails(a, b) == b = 0 \/ (a = MinInt64 /\ b = -1)
ShiftFails(n) == n < 0 \/ n >= I64

\* The three operators on the two's complement patterns of a and b.
BitsOf(op, bits, a, b) ==
  LET x == Pattern(bits, a)
      y == Pattern(bits, b)
  IN CASE op = "&" -> x & y [] op = "|" -> x | y [] op = "^" -> x ^^ y

ShiftRightInt64Logical(a, n) == Pattern(I64, a) \div 2^n

\* CheckedShiftRightInt64 keeps the sign.
ShiftRightInt64(a, n) == a \div 2^n

\* The entries of kConstIntegerBinaryOps.
ConstIntegerBinaryOp(op, a, b) ==
  CASE op = "+" -> IntConst(WrapInt64(a + b))
    [] op = "-" -> IntConst(WrapInt64(a - b))
    [] op = "*" -> IntConst(WrapInt64(a * b))
    [] op = "/" -> IF DivideFails(a, b) THEN None ELSE IntConst(Quotient(a, b))
    [] op = "%" -> IF DivideFails(a, b) THEN None ELSE IntConst(RemainderOf(a, b))
    [] op = "<<" -> IF ShiftFails(b) THEN None ELSE IntConst(WrapInt64(a * 2^b))
    [] op = ">>" -> IF ShiftFails(b) THEN None ELSE IntConst(ShiftRightInt64(a, b))
    [] OTHER -> IntConst(SignedValue(I64, BitsOf(op, I64, a, b)))

Comparisons == {"==", "!=", "<", "<=", ">", ">="}
Shifts == {"<<", ">>"}
Bitwises == {"&", "|", "^"}
Logicals == {"&&", "||"}

OrderedComparison(op, a, b) ==
  CASE op = "==" -> a = b [] op = "!=" -> a # b
    [] op = "<" -> a < b [] op = "<=" -> a <= b
    [] op = ">" -> a > b [] op = ">=" -> a >= b

EvaluateConstUnaryOp(op, value) ==
  CASE op = "-" /\ value.kind = "int" /\ value.v # MinInt64 -> IntConst(-value.v)
    [] op = "!" /\ value.kind = "bool" -> BoolConst(~value.v)
    [] OTHER -> None

EvaluateConstBinaryOp(op, left, right) ==
  CASE op \in Logicals /\ left.kind = "bool" /\ right.kind = "bool" ->
         BoolConst(IF op = "&&" THEN left.v /\ right.v ELSE left.v \/ right.v)
    [] left.kind # "int" \/ right.kind # "int" -> None
    [] op \in Comparisons -> BoolConst(OrderedComparison(op, left.v, right.v))
    [] OTHER -> ConstIntegerBinaryOp(op, left.v, right.v)

\* ConvertConstValue between integer types: the value is kept as it is.
ConvertConstValue(target, value) ==
  LET t == StripType(target, AliasesAndDistinct)
  IN IF (t = "bool" /\ value.kind = "bool") \/ (IsIntegerType(t) /\ value.kind = "int")
     THEN value ELSE None

\* ConstExprEvaluator: "active" holds the constants being evaluated, so that a
\* cycle ends in None; both operands are evaluated unless the first decides.
RECURSIVE EvaluateConstExpr(_, _)
EvaluateConstExpr(e, active) ==
  CASE e.k = "name" ->
         IF e.n \in active \/ e.n \notin DOMAIN Consts THEN None
         ELSE EvaluateConstExpr(Consts[e.n].init, active \cup {e.n})
    [] e.k = "lit" -> IntConst(e.v)
    [] e.k = "bool" -> BoolConst(e.v)
    [] e.k = "un" -> EvaluateConstUnaryOp(e.op, EvaluateConstExpr(e.a, active))
    [] e.k = "conv" -> ConvertConstValue(e.t, EvaluateConstExpr(e.a, active))
    [] e.k = "bin" ->
         LET left == EvaluateConstExpr(e.a, active)
         IN CASE left.kind = "none" \/ (e.op \in Logicals /\ left.kind # "bool") -> None
              [] e.op \in Logicals /\ left.v = (e.op = "||") -> left
              [] OTHER -> EvaluateConstBinaryOp(e.op, left, EvaluateConstExpr(e.b, active))
    [] OTHER -> None

=============================================================================
