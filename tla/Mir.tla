------------------------------- MODULE Mir -------------------------------
(***************************************************************************)
(* The compiler's mid-level representation (src/compiler/mir/mir.h) as the *)
(* flow checks see it, the two validation passes that decide whether a     *)
(* function may go to the back end (mir_validate_flow.cpp and the operand  *)
(* checks of ValidateModule), and the machine that runs a function.        *)
(*                                                                         *)
(* A function is a sequence of blocks                                      *)
(*     [label, code, term]     term = [k, vs, t, f]                        *)
(* with labels and values numbered (0: none); an instruction is            *)
(*     [op, res, tgt, in, c]   in: operand values, tgt: a local's storage. *)
(* Types are left out: every value here has the type it is used with.      *)
(***************************************************************************)
EXTENDS Integers, Sequences, FiniteSets, SequencesExt, TLC

VARIABLES fn,       \* the function being run, or <<>>
          at,       \* where it is: [b: index of the block, i: next instruction]
          vals,     \* MIR values computed so far
          store,    \* contents of the locals
          inputs,   \* answers given so far to the opaque conditions
          trace,    \* the calls made so far, and how the function ended
          status    \* "idle", "run", "end", or "undefined": a value was used before it was computed

mirVars == <<fn, at, vals, store, inputs, trace, status>>

Instr(op, res, tgt, in, c) == [op |-> op, res |-> res, tgt |-> tgt, in |-> in, c |-> c]

Term(k, vs, t, f) == [k |-> k, vs |-> vs, t |-> t, f |-> f]

NoTerm == Term("none", <<>>, 0, 0)

Labels(F) == {F[i].label : i \in DOMAIN F}

\* Where a terminator may go.
Targets(t) ==
  CASE t.k = "br" -> {t.t}
    [] t.k = "cond" -> {t.t, t.f}
    [] OTHER -> {}

BlockOf(F, l) == CHOOSE i \in DOMAIN F : F[i].label = l

\* One conjunct per terminator kind: its targets exist and it carries what it
\* must and nothing else.
GoodTerm(F, t) ==
  \/ t.k = "ret" /\ t.t = 0 /\ t.f = 0
  \/ t.k = "panic" /\ t.t = 0 /\ t.f = 0 /\ Len(t.vs) = 1
  \/ t.k = "br" /\ t.vs = <<>> /\ t.t \in Labels(F) /\ t.f = 0
  \/ t.k = "cond" /\ Len(t.vs) = 1 /\ {t.t, t.f} \subseteq Labels(F)

\* Every block of the vector is examined, the unreachable ones too.
ValidateFunctionStructure(F) ==
  /\ F # <<>>
  /\ Cardinality(Labels(F)) = Len(F)
  /\ \A i \in DOMAIN F : GoodTerm(F, F[i].term)

RECURSIVE ReachableFrom(_, _)
ReachableFrom(F, S) ==
  LET S2 == S \cup UNION {Targets(F[BlockOf(F, l)].term) : l \in S}
  IN IF S2 = S THEN S ELSE ReachableFrom(F, S2)

\* The worklist from the entry block.
Reachable(F) == ReachableFrom(F, {F[1].label})

ReachableBlocks(F) == {i \in DOMAIN F : F[i].label \in Reachable(F)}

Defs(b) == {b.code[j].res : j \in DOMAIN b.code} \ {0}

\* Values defined by the instructions before instruction j of block i, in the
\* order of the block vector (not of control flow), reachable blocks only.
DefinedBefore(F, R, i, j) ==
  UNION {Defs(F[h]) : h \in {h \in R : h < i}}
    \cup ({F[i].code[m].res : m \in 1..(j - 1)} \ {0})

\* Operands and terminator values are defined earlier in the vector, and no
\* value is defined twice.
OperandsDefined(F, R) ==
  \A i \in R :
    /\ \A j \in DOMAIN F[i].code :
         /\ ToSet(F[i].code[j].in) \subseteq DefinedBefore(F, R, i, j)
         /\ F[i].code[j].res # 0 => F[i].code[j].res \notin DefinedBefore(F, R, i, j)
    /\ ToSet(F[i].term.vs) \subseteq DefinedBefore(F, R, i, Len(F[i].code) + 1)

Preds(F, R, i) == {h \in R : F[i].label \in Targets(F[h].term)}

\* Mutant: a block keeps what dominates any of its predecessors.
NarrowedByAny(F, R, dom) ==
  [i \in R |-> IF i = 1 THEN {1}
               ELSE {i} \cup {d \in R : \E p \in Preds(F, R, i) : d \in dom[p]}]

\* Narrowing the sets of dominators, repeated until nothing changes. The code
\* sweeps in reverse post-order; the sets only shrink, so the order does not
\* matter.
Narrowed(F, R, dom) ==
  [i \in R |-> IF i = 1 THEN {1}
               ELSE {i} \cup {d \in R : \A p \in Preds(F, R, i) : d \in dom[p]}]

RECURSIVE DominatorsFrom(_, _, _)
DominatorsFrom(F, R, dom) ==
  LET next == Narrowed(F, R, dom)
  IN IF next = dom THEN dom ELSE DominatorsFrom(F, R, next)

Dominators(F, R) == DominatorsFrom(F, R, [i \in R |-> IF i = 1 THEN {1} ELSE R])

UsedIn(b) == ToSet(b.term.vs) \cup UNION {ToSet(b.code[j].in) : j \in DOMAIN b.code}

\* The block that defines each operand dominates the block that uses it.
ValidateFunctionDominance(F, R) ==
  \E dom \in {Dominators(F, R)} :
    \A u \in R : \A v \in UsedIn(F[u]) :
      \A d \in R : v \in Defs(F[d]) => d = u \/ d \in dom[u]

ValidateFunction(F) ==
  /\ ValidateFunctionStructure(F)
  /\ \E R \in {ReachableBlocks(F)} :
       OperandsDefined(F, R) /\ ValidateFunctionDominance(F, R)

----------------------------------------------------------------------------
(* Running a function. *)

MirIdle ==
  /\ fn = <<>> /\ at = [b |-> 1, i |-> 1] /\ vals = << >> /\ store = << >>
  /\ inputs = <<>> /\ trace = <<>> /\ status = "idle"

\* A validated function is entered, with its parameters in their locals.
Enter(F, args) ==
  /\ status = "idle"
  /\ fn' = F /\ status' = "run"
  /\ store' = args
  /\ UNCHANGED <<at, vals, inputs, trace>>

Value(I, g, st) ==
  CASE I.op = "const" -> I.c
    [] I.op = "load" -> st[I.tgt]
    [] I.op = "eq" -> IF g[I.in[1]] = g[I.in[2]] THEN 1 ELSE 0
    [] I.op = "less" -> IF g[I.in[1]] < g[I.in[2]] THEN 1 ELSE 0
    [] I.op = "add" -> g[I.in[1]] + g[I.in[2]]
    [] I.op = "item" -> g[I.in[2]] + 20
    [] I.op = "payload" -> g[I.in[1]] + 10

\* One instruction on [vals, store, trace, ok]; ok goes when an operand has no
\* value on the path taken.
RunInstruction(M, I) ==
  IF ~M.ok \/ ~(ToSet(I.in) \subseteq DOMAIN M.vals) THEN [M EXCEPT !.ok = FALSE]
  ELSE [M EXCEPT !.vals = IF I.res = 0 THEN @ ELSE (I.res :> Value(I, M.vals, M.store)) @@ @,
                 !.store = IF I.op = "store" THEN (I.tgt :> M.vals[I.in[1]]) @@ @ ELSE @,
                 !.trace = IF I.op = "call" THEN Append(@, <<"call", M.vals[I.in[1]]>>) ELSE @]

Here == fn[at.b]

AtInput == status = "run" /\ at.i <= Len(Here.code) /\ Here.code[at.i].op = "input"

\* Where the instructions from at.i on stop: at an input, or after the last.
StopsAt == Min({i \in at.i..Len(Here.code) : Here.code[i].op = "input"} \cup {Len(Here.code) + 1})

\* A stretch of instructions, and the terminator if it is reached.
RunBlock ==
  LET M == FoldLeft(RunInstruction, [vals |-> vals, store |-> store, trace |-> trace, ok |-> TRUE],
                    SubSeq(Here.code, at.i, StopsAt - 1))
      t == Here.term
      last == M.ok /\ StopsAt > Len(Here.code)
      ok == M.ok /\ (last => ToSet(t.vs) \subseteq DOMAIN M.vals)
  IN /\ status = "run" /\ ~AtInput
     /\ vals' = M.vals /\ store' = M.store
     /\ IF ~ok THEN status' = "undefined" /\ UNCHANGED <<at, trace>>
        ELSE IF ~last THEN at' = [at EXCEPT !.i = StopsAt] /\ trace' = M.trace /\ UNCHANGED status
        ELSE IF t.k \in {"ret", "panic"}
          THEN /\ trace' = Append(M.trace, <<t.k, IF t.vs = <<>> THEN 0 ELSE M.vals[t.vs[1]]>>)
               /\ status' = "end" /\ UNCHANGED at
        ELSE /\ at' = [b |-> BlockOf(fn, IF t.k = "br" \/ M.vals[t.vs[1]] # 0 THEN t.t ELSE t.f), i |-> 1]
             /\ trace' = M.trace /\ UNCHANGED status
     /\ UNCHANGED <<fn, inputs>>

\* A call whose answer the program does not determine.
AnswerInput(answer) ==
  /\ AtInput
  /\ at' = [at EXCEPT !.i = @ + 1]
  /\ vals' = (Here.code[at.i].res :> answer) @@ vals
  /\ inputs' = Append(inputs, answer)
  /\ UNCHANGED <<fn, store, trace, status>>
=============================================================================
