----------------------------- MODULE Expressions -----------------------------
(***************************************************************************)
(* One expression on its way through the compiler: the checker gives it a  *)
(* type (AnalyzeExpr), lowering turns it into MIR with explicit            *)
(* conversions and run-time checks (LowerExpr), the MIR is validated, the  *)
(* back end emits LLVM instructions, and the program runs on some          *)
(* arguments.  Top-level constants take the other way, through the         *)
(* compile-time evaluator.  "Means" is the reference: what numeric_types_spec,*)
(* slices_spec and enums_spec say the expression computes.                 *)
(*                                                                         *)
(* An expression is a record with a kind k:                                *)
(*   lit v, bool v, var n t, name n, un op a, conv t a, bin op a b,        *)
(*   index len a, slice len lo hi (lo and hi sequences of at most one).    *)
(***************************************************************************)
EXTENDS NumericTypes

CONSTANTS Programs   \* the expressions that functions return

VARIABLES expr,      \* the expression being compiled
          stage,     \* how far it has come
          mir,       \* the MIR of the function, one instruction per value
          args,      \* what the function is called with
          outcome    \* what the call does: [status, v]

exprVars == <<expr, stage, mir, args, outcome>>

Returned(v) == [status |-> "value", v |-> v]
Trapped == [status |-> "trap", v |-> 0]
Undefined == [status |-> "undefined", v |-> 0]

-----------------------------------------------------------------------------
(* Semantic analysis: the type of an expression and whether it is accepted. *)

Typed(type, ok) == [type |-> type, ok |-> ok]

\* The binary operators, in the order AnalyzeExpr tells them apart.
AnalyzeBinary(op, l, r) ==
  LET merged == MergeNumericTypes(l.type, r.type)
      L == StripType(l.type, AliasesOnly)
      R == StripType(r.type, AliasesOnly)
      ok == l.ok /\ r.ok
  IN CASE op \in Logicals -> Typed("bool", ok /\ L = "bool" /\ R = "bool")
       [] op \in Comparisons ->
            Typed("bool", ok /\ (\/ merged # "unknown"
                                 \/ IsAssignable(l.type, r.type)
                                 \/ IsAssignable(r.type, l.type)))
       [] op \in Shifts -> Typed(l.type, ok /\ IsIntegerLike(L) /\ IsIntegerLike(R))
       [] OTHER -> Typed(merged, ok /\ IsIntegerLike(L) /\ IsIntegerLike(R) /\ merged # "unknown")

RECURSIVE AnalyzeExpr(_)
AnalyzeExpr(e) ==
  CASE e.k = "lit" -> Typed("int_literal", TRUE)
    [] e.k = "bool" -> Typed("bool", TRUE)
    [] e.k = "var" -> Typed(e.t, TRUE)
    [] e.k = "name" -> Typed(Consts[e.n].type, TRUE)
    [] e.k = "un" ->
         LET a == AnalyzeExpr(e.a)
         IN IF e.op = "!" THEN Typed("bool", a.ok /\ StripType(a.type, AliasesOnly) = "bool")
            ELSE a
    [] e.k = "conv" ->
         LET a == AnalyzeExpr(e.a)
         IN Typed(e.t, a.ok /\ IsExplicitlyConvertible(e.t, a.type))
    [] e.k = "bin" -> AnalyzeBinary(e.op, AnalyzeExpr(e.a), AnalyzeExpr(e.b))
    [] e.k = "index" -> Typed("u8", AnalyzeExpr(e.a).ok)
    [] e.k = "slice" -> Typed("Slice", \A b \in {e.lo, e.hi} : b = <<>> \/ AnalyzeExpr(b[1]).ok)

\* ValidateGlobals: every initializer has the declared type and is a constant.
GlobalIsValid(n) ==
  LET t == AnalyzeExpr(Consts[n].init)
  IN t.ok /\ IsAssignable(Consts[n].type, t.type)
          /\ EvaluateConstExpr(Consts[n].init, {}).kind # "none"

RECURSIVE NamesIn(_)
NamesIn(e) ==
  CASE e.k = "name" -> {e.n}
    [] e.k \in {"un", "conv", "index"} -> NamesIn(e.a)
    [] e.k = "bin" -> NamesIn(e.a) \cup NamesIn(e.b)
    [] OTHER -> {}

\* The constants a program rests on, through the initializers of others.
RECURSIVE ConstsBelow(_)
ConstsBelow(S) ==
  LET T == S \cup UNION {NamesIn(Consts[n].init) : n \in S}
  IN IF T = S THEN S ELSE ConstsBelow(T)

-----------------------------------------------------------------------------
(* Lowering.  The value of an expression is the last instruction it emits. *)

MirInstr(kind, type, op, operands) ==
  [kind |-> kind, type |-> type, op |-> op, operands |-> operands]

EmitConvertValue(code, value, target) ==
  Append(code, MirInstr(ClassifyMirConversion(code[value].type, target), target, target, <<value>>))

\* [code, value]: the operand, converted to the target when its type differs.
CoerceBinaryOperandNever(code, value, target) == [code |-> code, value |-> value]

CoerceBinaryOperand(code, value, target) ==
  IF target = "unknown" \/ code[value].type = target THEN [code |-> code, value |-> value]
  ELSE LET c == EmitConvertValue(code, value, target) IN [code |-> c, value |-> Len(c)]

\* EmitDivideCheck and EmitShiftCheck come right before the operation.
EmitBinaryValue(code, op, left, right, type) ==
  LET checked == CASE op \in {"/", "%"} -> Append(code, MirInstr("div_check", "none", op, <<left, right>>))
                   [] op \in Shifts -> Append(code, MirInstr("shift_check", "none", op, <<left, right>>))
                   [] OTHER -> code
  IN Append(checked, MirInstr("binary", type, op, <<left, right>>))

\* LowerExpr for binary expressions: which operands take which type.
LowerBinary(code, op, left, right, type) ==
  LET lt == code[left].type
      rt == code[right].type
      Both == LET l == CoerceBinaryOperand(code, left, type)
                  r == CoerceBinaryOperand(l.code, right, type)
              IN EmitBinaryValue(r.code, op, l.value, r.value, type)
      Left == LET l == CoerceBinaryOperand(code, left, rt)
              IN EmitBinaryValue(l.code, op, l.value, right, type)
      Right == LET r == CoerceBinaryOperand(code, right, lt)
               IN EmitBinaryValue(r.code, op, left, r.value, type)
  IN CASE op \notin Comparisons /\ type # "int_literal" -> Both
       [] op \in Comparisons /\ lt # rt /\ lt = "int_literal" -> Left
       [] op \in Comparisons /\ lt # rt /\ rt = "int_literal" -> Right
       [] OTHER -> EmitBinaryValue(code, op, left, right, type)

RECURSIVE LowerExpr(_, _)
LowerExpr(e, code) ==
  CASE e.k = "lit" -> Append(code, MirInstr("const", "int_literal", e.v, <<>>))
    [] e.k = "bool" -> Append(code, MirInstr("const_bool", "bool", e.v, <<>>))
    [] e.k = "var" -> Append(code, MirInstr("load_local", e.t, e.n, <<>>))
    [] e.k = "name" -> Append(code, MirInstr("symbol_ref", Consts[e.n].type, e.n, <<>>))
    [] e.k = "un" ->
         LET c == LowerExpr(e.a, code)
         IN Append(c, MirInstr("unary", AnalyzeExpr(e).type, e.op, <<Len(c)>>))
    [] e.k = "conv" ->
         LET c == LowerExpr(e.a, code) IN EmitConvertValue(c, Len(c), e.t)
    [] e.k = "bin" ->
         LET l == LowerExpr(e.a, code)
             r == LowerExpr(e.b, l)
         IN LowerBinary(r, e.op, Len(l), Len(r), AnalyzeExpr(e).type)
    [] e.k = "index" ->
         LET i == LowerExpr(e.a, code)
             n == Append(i, MirInstr("const", "usize", e.len, <<>>))
             b == Append(n, MirInstr("bounds_check", "none", "index", <<Len(i), Len(n)>>))
         IN Append(b, MirInstr("index", "u8", e.len, <<Len(i)>>))
    [] e.k = "slice" ->
         LET lo == IF e.lo = <<>> THEN code ELSE LowerExpr(e.lo[1], code)
             hi == IF e.hi = <<>> THEN lo ELSE LowerExpr(e.hi[1], lo)
             bounds == (IF e.lo = <<>> THEN <<>> ELSE <<Len(lo)>>)
                         \o (IF e.hi = <<>> THEN <<>> ELSE <<Len(hi)>>)
             n == Append(hi, MirInstr("const", "usize", e.len, <<>>))
             b == Append(n, MirInstr("bounds_check", "none", "slice", Append(bounds, Len(n))))
         IN Append(b, MirInstr("slice", "Slice", e.len, bounds))

-----------------------------------------------------------------------------
(* MIR validation: what ValidateFunction requires of each instruction. *)

MatchingCheck(code, i, kind) ==
  i > 1 /\ code[i-1].kind = kind /\ code[i-1].op = code[i].op /\ code[i-1].operands = code[i].operands

ValidateBinaryInstruction(code, i) ==
  LET op == code[i].op
      l == code[code[i].operands[1]].type
      r == code[code[i].operands[2]].type
      Integers2 == IsIntegerLike(CanonicalMirType(l)) /\ IsIntegerLike(CanonicalMirType(r))
  IN CASE op \in Comparisons -> code[i].type = "bool" /\ HasCompatibleComparisonTypes(l, r)
       [] op \in Shifts ->
            Integers2 /\ code[i].type = l /\ MatchingCheck(code, i, "shift_check")
       [] OTHER ->
            /\ Integers2 /\ HasCompatibleNumericTypes(l, r)
            /\ IsIntegerLike(CanonicalMirType(code[i].type))
            /\ op \in {"/", "%"} => MatchingCheck(code, i, "div_check")

IsUsizeCompatibleType(t) == CanonicalMirType(t) \in {"usize", "int_literal"}

ValidateInstruction(code, i) ==
  LET ins == code[i]
      OperandType(k) == code[ins.operands[k]].type
      Canonical(k) == CanonicalMirType(OperandType(k))
  IN CASE ins.kind = "binary" -> ValidateBinaryInstruction(code, i)
       [] ins.kind = "unary" ->
            IF ins.op = "!" THEN ins.type = "bool" /\ Canonical(1) = "bool"
            ELSE IsIntegerLike(Canonical(1)) /\ IsIntegerLike(CanonicalMirType(ins.type))
       [] ins.kind = "bounds_check" ->
            \A k \in DOMAIN ins.operands : IsUsizeCompatibleType(OperandType(k))
       [] ins.kind \in {"div_check", "shift_check"} -> IsIntegerLike(Canonical(1)) /\ IsIntegerLike(Canonical(2))
       [] ins.kind \in {"convert", "convert_numeric", "convert_distinct"} ->
            /\ ClassifyMirConversion(OperandType(1), ins.type) = ins.kind
            /\ ins.kind # "convert_numeric" => Canonical(1) = CanonicalMirType(ins.type)
       [] OTHER -> TRUE

-----------------------------------------------------------------------------
(* The LLVM back end: what each MIR instruction is emitted as, and what the *)
(* emitted instruction does with the registers so far.                     *)

\* LLVM's typing of the emitted text: both operands have the instruction's type.
WellTyped(code, i) ==
  LET ins == code[i]
      Bits(k) == LowerTypeInfo(code[ins.operands[k]].type)
  IN CASE ins.kind = "binary" /\ ins.op \in Comparisons -> Bits(1) = Bits(2)
       [] ins.kind = "binary" -> Bits(1) = LowerTypeInfo(ins.type) /\ Bits(2) = LowerTypeInfo(ins.type)
       [] OTHER -> TRUE

\* ComparePredicateForLLVM and icmp.
EmitScalarComparison(op, unsigned, bits, x, y) ==
  IF unsigned THEN OrderedComparison(op, x, y)
  ELSE OrderedComparison(op, SignedValue(bits, x), SignedValue(bits, y))

Bit(b) == IF b THEN 1 ELSE 0

\* BinaryOpcodeForLLVM and the LLVM instruction; division overflow and a shift
\* by the width or more are undefined there.
EmitArithmetic(op, unsigned, bits, x, y) ==
  LET a == IF unsigned THEN x ELSE SignedValue(bits, x)
      b == IF unsigned THEN y ELSE SignedValue(bits, y)
      Wrapped(n) == Returned(Pattern(bits, n))
      overflows == b = 0 \/ (~unsigned /\ a = -(2^(bits - 1)) /\ b = -1)
  IN CASE op = "+" -> Wrapped(x + y)
       [] op = "-" -> Wrapped(x - y)
       [] op = "*" -> Wrapped(x * y)
       [] op = "/" -> IF overflows THEN Undefined ELSE Wrapped(Quotient(a, b))
       [] op = "%" -> IF overflows THEN Undefined ELSE Wrapped(RemainderOf(a, b))
       [] op = "<<" -> IF y >= bits THEN Undefined ELSE Wrapped(x * 2^y)
       [] op = ">>" -> IF y >= bits THEN Undefined ELSE Wrapped(a \div 2^y)
       [] OTHER -> Returned(BitsOf(op, bits, x, y))

\* EmitOrderedEnumFieldComparison: three flags for a field, an enum's own from
\* its tag and then its fields, the last one first.
RECURSIVE FieldOrder(_, _, _)
FieldOrder(t, x, y) ==
  LET en == CanonicalMirType(t)
      unsigned == LowerTypeInfo(t) = 1 \/ IsUnsignedSourceType(t)
      Scalar(op) == EmitScalarComparison(op, unsigned, LowerTypeInfo(t), x, y)
      Same == [eq |-> TRUE, lt |-> FALSE, gt |-> FALSE]
      FieldsFrom[i \in 1..3] ==
        IF i > Len(Enums[en][x.tag + 1]) THEN Same
        ELSE LET f == FieldOrder(Enums[en][x.tag + 1][i], x.fields[i], y.fields[i])
             IN IF f.eq THEN FieldsFrom[i + 1] ELSE f
  IN CASE en \notin DOMAIN Enums -> [eq |-> Scalar("=="), lt |-> Scalar("<"), gt |-> Scalar(">")]
       [] x.tag = y.tag -> FieldsFrom[1]
       [] OTHER -> [eq |-> FALSE, lt |-> x.tag < y.tag, gt |-> x.tag > y.tag]

\* EmitEnumCompare: tags first, then the fields of the common variant.
RECURSIVE StepsFrom(_, _, _, _, _)
StepsFrom(op, types, x, y, i) ==
  IF i > Len(types) THEN op \in {"<=", ">="}
  ELSE LET f == FieldOrder(types[i], x.fields[i], y.fields[i])
       IN IF f.eq THEN StepsFrom(op, types, x, y, i + 1)
          ELSE IF op \in {"<", "<="} THEN f.lt ELSE f.gt

EmitEnumPayloadEquality(types, x, y) ==
  \A i \in DOMAIN types : FieldOrder(types[i], x.fields[i], y.fields[i]).eq

EmitEnumCompare(op, en, x, y) ==
  LET types == Enums[en][x.tag + 1]
      equal == x.tag = y.tag /\ EmitEnumPayloadEquality(types, x, y)
  IN CASE op = "==" -> equal
       [] op = "!=" -> ~equal
       [] x.tag = y.tag -> StepsFrom(op, types, x, y, 1)
       [] OTHER -> OrderedComparison(op, x.tag, y.tag)

EmitBinaryInstruction(ins, leftType, x, y) ==
  LET en == CanonicalMirType(leftType)
      unsigned == IsUnsignedSourceType(leftType)
  IN CASE ins.op \in Comparisons /\ en \in DOMAIN Enums ->
            Returned(Bit(EmitEnumCompare(ins.op, en, x, y)))
       [] ins.op \in Comparisons ->
            Returned(Bit(EmitScalarComparison(ins.op, unsigned, LowerTypeInfo(leftType), x, y)))
       [] OTHER -> EmitArithmetic(ins.op, unsigned, LowerTypeInfo(ins.type), x, y)

\* The checked helpers: which operands, widened to i64, make them trap.
EmitDivCheckCall(divisor) == divisor = 0
EmitShiftCheckCall(bits, count) == count >= bits
EmitBoundsCheckCall(ops) ==
  LET len == ops[Len(ops)]
  IN \/ \E k \in 1..Len(ops)-1 : SignedValue(I64, ops[k]) < 0
     \/ Len(ops) = 2 /\ ops[1] >= len
     \/ Len(ops) = 3 /\ (ops[1] > ops[2] \/ ops[2] > len)

\* Conversions that do not change the representation pass the value on.
EmitConvertInstruction(kind, from, to, x) ==
  IF kind = "convert_numeric" THEN EmitNumericConversion(from, to, x) ELSE x

EmitUnaryInstruction(op, bits, x) == IF op = "!" THEN 1 - x ELSE Pattern(bits, -x)

\* Operands after the base: the first is the lower bound, whichever it was.
EmitSliceInstruction(bounds, len) ==
  <<bounds[1], (IF Len(bounds) = 2 THEN bounds[2] ELSE len) - bounds[1]>>

\* The constant a global is initialized with, cut to its type's width.
GlobalConstant(n) ==
  LET c == EvaluateConstExpr(Consts[n].init, {})
  IN IF c.kind = "bool" THEN Bit(c.v) ELSE Pattern(LowerTypeInfo(Consts[n].type), c.v)

EmitInstruction(code, env, regs, ins) ==
  LET Reg(k) == regs[ins.operands[k]]
      Type(k) == code[ins.operands[k]].type
      Checked(bad) == IF bad THEN Trapped ELSE Returned(0)
      Long(k) == ExtendIntegerToI64(Type(k), Reg(k))
  IN CASE ins.kind = "const" -> Returned(Pattern(LowerTypeInfo(ins.type), ins.op))
       [] ins.kind = "const_bool" -> Returned(Bit(ins.op))
       [] ins.kind = "load_local" -> Returned(env[ins.op])
       [] ins.kind = "symbol_ref" -> Returned(GlobalConstant(ins.op))
       [] ins.kind = "unary" ->
            Returned(EmitUnaryInstruction(ins.op, LowerTypeInfo(ins.type), Reg(1)))
       [] ins.kind \in {"convert_numeric", "convert", "convert_distinct"} ->
            Returned(EmitConvertInstruction(ins.kind, Type(1), ins.type, Reg(1)))
       [] ins.kind = "div_check" -> Checked(EmitDivCheckCall(Reg(2)))
       [] ins.kind = "shift_check" -> Checked(EmitShiftCheckCall(LowerTypeInfo(Type(1)), Long(2)))
       [] ins.kind = "bounds_check" -> Checked(EmitBoundsCheckCall([k \in DOMAIN ins.operands |-> Long(k)]))
       [] ins.kind = "binary" -> EmitBinaryInstruction(ins, Type(1), Reg(1), Reg(2))
       [] ins.kind = "index" -> Returned(Long(1))
       [] ins.kind = "slice" ->
            Returned(EmitSliceInstruction([k \in DOMAIN ins.operands |-> Long(k)], ins.op))

RECURSIVE Execute(_, _, _)
Execute(code, env, regs) ==
  IF Len(regs) = Len(code) THEN Returned(regs[Len(regs)])
  ELSE LET step == EmitInstruction(code, env, regs, code[Len(regs) + 1])
       IN IF step.status = "value" THEN Execute(code, env, Append(regs, step.v)) ELSE step

-----------------------------------------------------------------------------
(* The reference: what an expression means.  An integer is a number, not a *)
(* pattern, and types are fully resolved.  "departs" marks the cases where *)
(* the build is known to do something else; the README lists them.         *)

TypeOf(e) == StripType(AnalyzeExpr(e).type, AliasesAndDistinct)

\* The number a pattern stands for, and the number n becomes in type t.
Number(t, p) == IF IsIntegerLike(t) /\ IsSignedSourceType(t) THEN SignedValue(Width[t], p) ELSE p
Wrap(t, n) == Number(t, Pattern(Width[t], n))

Meaning(v, exact) == [status |-> "value", v |-> v, exact |-> exact]
Traps(exact) == [status |-> "trap", v |-> 0, exact |-> exact]
Departs == [status |-> "departs", v |-> 0, exact |-> FALSE]
InType(t, n, exact) == Meaning(Wrap(t, n), exact /\ Wrap(t, n) = n)

\* Values of one variant are ordered by their first fields that differ.
RECURSIVE LessThan(_, _, _)
LessThan(t, x, y) ==
  IF t \notin DOMAIN Enums THEN Number(t, x) < Number(t, y)
  ELSE \/ x.tag < y.tag
       \/ x.tag = y.tag /\ \E i \in DOMAIN x.fields :
            /\ \A j \in 1 .. i-1 : x.fields[j] = y.fields[j]
            /\ LessThan(CanonicalMirType(Enums[t][x.tag + 1][i]), x.fields[i], y.fields[i])

Compared(op, t, x, y) ==
  LET less(p, q) == IF t \in DOMAIN Enums THEN LessThan(t, p, q) ELSE p < q
  IN Bit(CASE op = "==" -> x = y [] op = "!=" -> x # y
           [] op = "<" -> less(x, y) [] op = ">" -> less(y, x)
           [] op = "<=" -> x = y \/ less(x, y) [] op = ">=" -> x = y \/ less(y, x))

\* A binary operation on two numbers of type t (for a shift, y is any count).
Calculated(op, t, x, y, exact) ==
  CASE op = "+" -> InType(t, x + y, exact)
    [] op = "-" -> InType(t, x - y, exact)
    [] op = "*" -> InType(t, x * y, exact)
    [] op \in {"/", "%"} ->
         IF y = 0 THEN Traps(exact)
         ELSE IF x # 0 /\ y = -1 /\ Wrap(t, -x) = x THEN Departs
         ELSE InType(t, IF op = "/" THEN Quotient(x, y) ELSE RemainderOf(x, y), exact)
    [] op \in Shifts ->
         IF y < 0 \/ y >= Width[t] THEN Traps(exact /\ ShiftFails(y))
         ELSE InType(t, IF op = "<<" THEN x * 2^y ELSE x \div 2^y, exact)
    [] OTHER -> InType(t, Number(t, BitsOf(op, Width[t], x, y)), exact)

\* The bounds of a slice that leaves one out are 0 and the length.
SliceMeans(len, lo, hi) ==
  IF lo < 0 \/ lo > hi \/ hi > len THEN Traps(TRUE) ELSE Meaning(<<lo, hi - lo>>, TRUE)

RECURSIVE Means(_, _)
Means(e, env) ==
  CASE e.k = "lit" -> Meaning(e.v, TRUE)
    [] e.k = "bool" -> Meaning(Bit(e.v), TRUE)
    [] e.k = "var" -> Meaning(Number(TypeOf(e), env[e.n]), TRUE)
    [] e.k = "name" ->
         LET m == Means(Consts[e.n].init, env)
         IN IF ~m.exact \/ m.status # "value" THEN Departs
            ELSE IF IsIntegerLike(TypeOf(e)) THEN InType(TypeOf(e), m.v, TRUE) ELSE m
    [] e.k = "un" ->
         LET a == Means(e.a, env)
         IN IF a.status # "value" THEN a
            ELSE IF e.op = "!" THEN Meaning(1 - a.v, a.exact) ELSE InType(TypeOf(e), -a.v, a.exact)
    [] e.k = "conv" ->
         LET a == Means(e.a, env)
         IN IF a.status # "value" \/ ~IsIntegerLike(TypeOf(e)) THEN a ELSE InType(TypeOf(e), a.v, a.exact)
    [] e.k = "bin" ->
         LET a == Means(e.a, env)
             b == Means(e.b, env)
             merged == MergeNumericTypes(TypeOf(e.a), TypeOf(e.b))
             t == IF e.op \in Shifts THEN TypeOf(e.a) ELSE merged
             exact == a.exact /\ b.exact
             fits == Wrap(t, b.v) = b.v
         IN CASE a.status # "value" -> a
              [] e.op \in Logicals /\ a.v = Bit(e.op = "||") -> a
              [] b.status # "value" \/ e.op \in Logicals -> [b EXCEPT !.exact = exact]
              [] merged = "bool" /\ e.op \in Comparisons \ {"==", "!="} -> Departs
              [] e.op \in Comparisons /\ IsIntegerLike(t) ->
                   Meaning(Compared(e.op, t, Wrap(t, a.v), Wrap(t, b.v)),
                           exact /\ Wrap(t, a.v) = a.v /\ fits)
              [] e.op \in Comparisons -> Meaning(Compared(e.op, t, a.v, b.v), exact)
              [] e.op \in Shifts /\ t # "int_literal" /\ ~fits -> Departs
              [] e.op \in Shifts -> Calculated(e.op, t, a.v, b.v, exact)
              [] OTHER -> Calculated(e.op, t, Wrap(t, a.v), Wrap(t, b.v), exact /\ Wrap(t, a.v) = a.v /\ fits)
    [] e.k = "index" ->
         LET a == Means(e.a, env)
         IN IF a.status = "value" /\ a.v \notin 0 .. e.len - 1 THEN Traps(TRUE) ELSE a
    [] e.k = "slice" ->
         IF Len(e.lo) + Len(e.hi) = 1 THEN Departs
         ELSE LET lo == Means(e.lo[1], env)
                  hi == Means(e.hi[1], env)
              IN IF lo.status # "value" THEN lo ELSE IF hi.status # "value" THEN hi
                 ELSE SliceMeans(e.len, lo.v, hi.v)

-----------------------------------------------------------------------------
(* The way of one expression through the compiler. *)

RECURSIVE VarsIn(_)
VarsIn(e) ==
  CASE e.k = "var" -> {e}
    [] e.k \in {"un", "conv", "index"} -> VarsIn(e.a)
    [] e.k = "bin" -> VarsIn(e.a) \cup VarsIn(e.b)
    [] e.k = "slice" -> UNION {VarsIn(b[1]) : b \in {e.lo, e.hi} \ {<<>>}}
    [] OTHER -> {}

\* The values of a type; an argument is any of them.
RECURSIVE Values(_)
Values(t) ==
  LET c == CanonicalMirType(t)
      Fields(types) == CASE types = <<>> -> {<<>>}
                         [] Len(types) = 1 -> {<<x>> : x \in Values(types[1])}
                         [] OTHER -> {<<x, y>> : x \in Values(types[1]), y \in Values(types[2])}
  IN IF c \in DOMAIN Enums
     THEN UNION {{[tag |-> i - 1, fields |-> f] : f \in Fields(Enums[c][i])} : i \in DOMAIN Enums[c]}
     ELSE 0 .. 2^LowerTypeInfo(t) - 1

Arguments(e, n) ==
  LET typed == {v \in VarsIn(e) : v.n = n}
  IN IF typed = {} THEN {0} ELSE Values((CHOOSE v \in typed : TRUE).t)

NotRun == [status |-> "none", v |-> 0]

ExprInit ==
  /\ expr \in Programs
  /\ stage = "check" /\ mir = <<>> /\ args = [a |-> 0, b |-> 0] /\ outcome = NotRun

\* CheckProgram: the globals the function rests on, and its own expression.
CheckProgram ==
  /\ stage = "check"
  /\ stage' = IF AnalyzeExpr(expr).ok /\ \A n \in ConstsBelow(NamesIn(expr)) : GlobalIsValid(n)
              THEN "lower" ELSE "rejected"
  /\ UNCHANGED <<expr, mir, args, outcome>>

LowerFunction ==
  /\ stage = "lower"
  /\ mir' = LowerExpr(expr, <<>>)
  /\ stage' = "validate"
  /\ UNCHANGED <<expr, args, outcome>>

ValidateInstructions ==
  /\ stage = "validate"
  /\ stage' = IF \A i \in DOMAIN mir : ValidateInstruction(mir, i) THEN "emit" ELSE "invalid"
  /\ UNCHANGED <<expr, mir, args, outcome>>

\* The emitted text is accepted by the LLVM tools when its types agree.
RenderExecutableFunction ==
  /\ stage = "emit"
  /\ stage' = IF \A i \in DOMAIN mir : WellTyped(mir, i) THEN "run" ELSE "ill typed"
  /\ UNCHANGED <<expr, mir, args, outcome>>

CallFunction ==
  /\ stage = "run"
  /\ \E x \in Arguments(expr, "a"), y \in Arguments(expr, "b") :
       /\ args' = [a |-> x, b |-> y]
       /\ outcome' = Execute(mir, args', <<>>)
  /\ stage' = "ran"
  /\ UNCHANGED <<expr, mir>>

ExprNext ==
  \/ CheckProgram \/ LowerFunction \/ ValidateInstructions \/ RenderExecutableFunction \/ CallFunction

-----------------------------------------------------------------------------
(* Properties. *)

\* What the compiled function returns is what its expression means: the same
\* number, truth value, enum order or slice, and a trap exactly where the
\* language asks for one.  The conversions that lowering inserts, the
\* signedness the back end picks by type name, the width at which each
\* instruction works and the checks it is preceded by all have to agree for this.
RunsAsSpecified ==
  stage = "ran" =>
    LET m == Means(expr, args)
        t == AnalyzeExpr(expr).type
    IN CASE m.status = "departs" -> TRUE
         [] m.status = "trap" -> outcome = Trapped
         [] expr.k \in {"slice", "index"} -> outcome = Returned(m.v)
         [] CanonicalMirType(t) = "bool" -> outcome = Returned(m.v)
         [] OTHER -> outcome = Returned(Pattern(LowerTypeInfo(t), m.v))

\* The three expressions the checker accepts and a later stage refuses.
RECURSIVE Outside(_)
Outside(e) ==
  CASE e.k = "un" -> Outside(e.a) \/ (e.op = "-" /\ TypeOf(e.a) = "bool")
    [] e.k = "conv" -> Outside(e.a)
    [] e.k = "index" -> Outside(e.a) \/ ~IsUsizeCompatibleType(AnalyzeExpr(e.a).type)
    [] e.k = "slice" -> \E b \in {e.lo, e.hi} \ {<<>>} :
                          Outside(b[1]) \/ ~IsUsizeCompatibleType(AnalyzeExpr(b[1]).type)
    [] e.k = "bin" -> Outside(e.a) \/ Outside(e.b)
                      \/ (e.op \in Shifts /\ TypeOf(e.a) = "int_literal"
                          /\ Width[TypeOf(e.b)] # Width["int_literal"])
    [] OTHER -> FALSE

\* An expression the checker accepts is not refused further down: the MIR it
\* is lowered to is valid, and the LLVM instructions it becomes are well typed.
AcceptedCompiles == stage \in {"invalid", "ill typed"} => Outside(expr)

\* Where no step of a constant expression leaves the range of its type, the
\* compile-time evaluator and the compiled code agree, on traps too.  (The
\* evaluator has no value for a comparison of two truth values.)
ConstantsAgree ==
  stage = "ran" /\ VarsIn(expr) = {} /\ expr.k \notin {"index", "slice"} =>
    LET m == Means(expr, args)
        c == EvaluateConstExpr(expr, {})
    IN m.status # "departs" /\ m.exact =>
         CASE c.kind = "none" -> outcome = Trapped \/ (expr.k = "bin" /\ TypeOf(expr.a) = "bool")
           [] c.kind = "bool" -> outcome = Returned(Bit(c.v))
           [] OTHER -> outcome = Returned(Pattern(LowerTypeInfo(AnalyzeExpr(expr).type), c.v))

RECURSIVE Resolved(_)
Resolved(e) ==
  CASE e.k = "var" -> [e EXCEPT !.t = StripType(@, AliasesOnly)]
    [] e.k = "conv" -> [e EXCEPT !.t = StripType(@, AliasesOnly), !.a = Resolved(@)]
    [] e.k \in {"un", "index"} -> [e EXCEPT !.a = Resolved(@)]
    [] e.k = "bin" -> [e EXCEPT !.a = Resolved(@), !.b = Resolved(@)]
    [] OTHER -> e

\* A function computes the same when every alias in it is written as the type
\* it names (types_spec.txt: "aliases are transparent after resolution").
AliasesAreTransparent ==
  stage = "ran" => outcome = Execute(LowerExpr(Resolved(expr), <<>>), args, <<>>)

=============================================================================
