----------------------------- MODULE Lowering -----------------------------
(***************************************************************************)
(* FunctionLowerer (src/compiler/mir/mir_lower.cpp, mir_lower_stmt.inc):   *)
(* a checked function body becomes MIR.  The lowerer calls itself on the   *)
(* parts of a statement; here the calls still to be made are a stack of    *)
(* work, and each action is the code between two such calls.               *)
(*                                                                         *)
(* L holds the lowerer's members: blocks, cur (index of current_block_,    *)
(* 0: none) and stale (what the optional held last), nb, nv, nh (next      *)
(* block, value and hidden local), scopes (names to storages), counts      *)
(* (visible_local_counts_), loops [brk, cont, depth], defers (captured     *)
(* calls, one sequence per scope), v (the value of the last expression),   *)
(* reported, and lost: an empty current_block_ was dereferenced, which is  *)
(* undefined behaviour.                                                    *)
(***************************************************************************)
EXTENDS SourceLanguage, Mir

CONSTANTS Functions,  \* the functions [body, result] to compile
          Graphs,     \* MIR functions to validate and run as they are
          Answers,    \* what an opaque call may answer
          MaxInputs   \* the opaque calls a run may make

VARIABLES src,      \* the function: [body, result]
          phase,    \* "source", "refused", "lower", "rejected", "lowered", "valid"
          L,        \* the lowerer
          work      \* what it has still to do: items [w, s, n]

lowerVars == <<src, phase, L, work, mirVars>>

Item(w, s, n) == [w |-> w, s |-> s, n |-> n]
NoStmt == Stmt("", "", Lit(0), <<>>, <<>>, <<>>, FALSE)

\* LowerExpr, and a statement of its own for each expression.
Eval1(e) == Item("expr", [NoStmt EXCEPT !.e = e], <<>>)
Then(w, s) == Item(w, s, <<>>)
Body(ss) == <<Then("push", NoStmt)>> \o [i \in DOMAIN ss |-> Then(ss[i].k, ss[i])] \o <<Then("pop", NoStmt)>>

----------------------------------------------------------------------------
(* What the lowerer's helpers do to its members. *)

CreateBlocks(M, n) ==
  [M EXCEPT !.nb = @ + n,
            !.blocks = @ \o [i \in 1..n |-> [label |-> M.nb + i - 1, code |-> <<>>, term |-> NoTerm]]]

\* Code after a terminator goes to a fresh block.
EnsureCurrentBlock(M) ==
  IF M.cur # 0 THEN M ELSE [CreateBlocks(M, 1) EXCEPT !.cur = Len(M.blocks) + 1]

EmitIn(M, I) == [M EXCEPT !.blocks[M.cur].code = Append(@, I)]

Emit(M, I) == EmitIn(EnsureCurrentBlock(M), I)

\* An instruction with a result, which becomes the last value.
EmitValue(M, op, tgt, in, c) ==
  Emit([M EXCEPT !.nv = @ + 1, !.v = M.nv], Instr(op, M.nv, tgt, in, c))

NoStorage == <<"", 0>>

StoreLocal(M, storage, v) == Emit(M, Instr("store", 0, storage, <<v>>, 0))

LoadLocalValue(M, storage) == EmitValue(M, "load", storage, <<>>, 0)

EmitLiteralValue(M, c) == EmitValue(M, "const", NoStorage, <<>>, c)

Hidden(n) == <<"%", n>>

Terminate(M, t) == [M EXCEPT !.blocks[M.cur].term = t]

Branch(label) == Term("br", <<>>, label, 0)

Open(M) == M.cur # 0 /\ M.blocks[M.cur].term.k = "none"

BranchIfOpen(M, label) == IF Open(M) THEN Terminate(M, Branch(label)) ELSE M

LookupVisibleLocal(M, x) == M.scopes[InnermostOf(M.scopes, x)][x]

\* The first local of a name keeps it; the next ones get a number.
NewVisibleLocalStorageName(M, x) == <<x, IF x \in DOMAIN M.counts THEN M.counts[x] ELSE 0>>

Counted(M, x) ==
  [M EXCEPT !.counts = (x :> IF x \in DOMAIN @ THEN @[x] + 1 ELSE 1) @@ @]

ExposeVisibleLocal(M, x, storage) ==
  IF x \in DOMAIN Last(M.scopes)
    THEN [M EXCEPT !.reported = TRUE]
    ELSE [M EXCEPT !.scopes = Append(Front(@), (x :> storage) @@ Last(@))]

BindVisibleLocal(M, x) ==
  ExposeVisibleLocal(Counted(M, x), x, NewVisibleLocalStorageName(M, x))

PushStmtScope(M) == [M EXCEPT !.scopes = Append(@, << >>), !.defers = Append(@, <<>>)]

\* panic ends the block it is in.
EmitPanic(M) ==
  [Terminate(M, Term("panic", <<M.v>>, 0, 0)) EXCEPT !.cur = 0, !.stale = M.cur]

EmitCall(M) == Emit(M, Instr("call", 0, NoStorage, <<M.v>>, 0))

EmitDeferredCall(M, call) ==
  IF call.kind = "deferpanic" THEN EmitPanic(LoadLocalValue(M, call.arg))
                              ELSE EmitCall(LoadLocalValue(M, call.arg))

EmitDeferredCalls(M, calls) == FoldRight(LAMBDA c, N : EmitDeferredCall(N, c), calls, M)

\* Mutant: a jump runs the deferred calls of the innermost scope only.
EmitDeferredScopesInnermost(M, depth) == EmitDeferredCalls(M, Last(M.defers))

\* The scopes above `depth`, innermost first.
EmitDeferredScopesToDepth(M, depth) ==
  EmitDeferredCalls(M, FlattenSeq(SubSeq(M.defers, depth + 1, Len(M.defers))))

\* A jump: the deferred calls, then the terminator, written into
\* *current_block_.  A deferred panic has emptied it; the build then writes
\* over the block the optional last held (a branch leaves its values).
WriteJump(M, t) ==
  IF M.cur # 0 THEN [Terminate(M, t) EXCEPT !.cur = 0]
  ELSE [M EXCEPT !.lost = TRUE,
                 !.blocks[M.stale].term = IF t.k = "br" THEN [t EXCEPT !.vs = @ \o M.blocks[M.stale].term.vs]
                                                       ELSE t]

Jump(M, t, depth) == WriteJump(EmitDeferredScopesToDepth(EnsureCurrentBlock(M), depth), t)

----------------------------------------------------------------------------
(* One action per piece of the lowerer.  Become(M, items): the top of the  *)
(* work is done, it made L into M and left the items to do.                *)

Top == work[1]

Working(w) == phase = "lower" /\ work # <<>> /\ Top.w = w

Become(M, items) ==
  /\ L' = M
  /\ work' = items \o Tail(work)
  /\ UNCHANGED <<src, phase, mirVars>>

\* LowerBlock, LowerScopedStmtList: around the statements of a scope.
PushScope == Working("push") /\ Become(PushStmtScope(L), <<>>)

\* Falling out of a scope runs its deferred calls; a scope that was left by a
\* jump has run them already.
PopScope ==
  /\ Working("pop")
  /\ LET M == IF L.cur # 0 THEN EmitDeferredCalls(L, Last(L.defers)) ELSE L
     IN Become([M EXCEPT !.defers = Front(@), !.scopes = Front(@)], <<>>)

LowerBlock == Working("block") /\ Become(L, Body(Top.s.a))

LowerOperand ==
  /\ Working("expr")
  /\ LET e == Top.s.e
     IN \/ e.k = "lit" /\ Become(EmitLiteralValue(L, e.v), <<>>)
        \/ e.k = "name" /\ Become(LoadLocalValue(L, LookupVisibleLocal(L, e.x)), <<>>)
        \/ e.k = "input" /\ Become(EmitValue(L, "input", NoStorage, <<>>, 0), <<>>)
        \/ /\ e.k \in {"and", "or"}
           /\ Become(EnsureCurrentBlock([L EXCEPT !.nh = @ + 1]),
                     <<Eval1(e.as[1]), Item("logical", Top.s, <<L.nh>>)>>)

\* && and ||: the left value decides between the right operand and a constant;
\* both store to a hidden local that the merge block loads.
LowerShortCircuitLogicalExpr ==
  /\ Working("logical")
  /\ LET both == Top.s.e.k = "and"
         rhs == L.nb
         short == L.nb + 1
         merge == L.nb + 2
         C == Terminate(CreateBlocks(L, 3), Term("cond", <<L.v>>, IF both THEN rhs ELSE short,
                                                                  IF both THEN short ELSE rhs))
         S == EmitLiteralValue([C EXCEPT !.cur = Len(L.blocks) + 2], IF both THEN 0 ELSE 1)
         D == Terminate(StoreLocal(S, Hidden(Top.n[1]), S.v), Branch(merge))
     IN Become([D EXCEPT !.cur = Len(L.blocks) + 1],
               <<Eval1(Top.s.e.as[2]), Item("merge", NoStmt, <<Top.n[1], merge, Len(L.blocks) + 3>>)>>)

LogicalMerge ==
  /\ Working("merge")
  /\ LET R == Terminate(StoreLocal(L, Hidden(Top.n[1]), L.v), Branch(Top.n[2]))
     IN Become(LoadLocalValue([R EXCEPT !.cur = Top.n[3]], Hidden(Top.n[1])), <<>>)

LowerBindingLike == Working("bind") /\ Become(L, <<Eval1(Top.s.e), Then("bind2", Top.s)>>)

BindLocal ==
  /\ Working("bind2")
  /\ LET M == BindVisibleLocal(L, Top.s.x)
     IN Become(StoreLocal(M, Last(M.scopes)[Top.s.x], L.v), <<>>)

LowerAssign == Working("assign") /\ Become(L, <<Eval1(Top.s.e), Then("assign2", Top.s)>>)

AssignNamedTarget ==
  Working("assign2") /\ Become(StoreLocal(L, LookupVisibleLocal(L, Top.s.x), L.v), <<>>)

LowerCallStmt ==
  \E k \in {"call", "panic"} :
    Working(k) /\ Become(L, <<Eval1(Top.s.e), Then("call2", Top.s)>>)

EmitCallStmt ==
  Working("call2") /\ Become(IF Top.s.k = "panic" THEN EmitPanic(L) ELSE EmitCall(L), <<>>)

LowerDefer ==
  \E k \in {"defer", "deferpanic"} :
    Working(k) /\ Become(L, <<Eval1(Top.s.e), Then("capture", Top.s)>>)

\* The argument is evaluated where the defer stands and kept in a hidden local.
CaptureDeferredCall ==
  /\ Working("capture")
  /\ LET call == [kind |-> Top.s.k, arg |-> Hidden(L.nh)]
     IN Become([StoreLocal(L, Hidden(L.nh), L.v)
                  EXCEPT !.nh = @ + 1, !.defers = Append(Front(@), Append(Last(@), call))], <<>>)

LowerReturn ==
  /\ Working("return")
  /\ IF Top.s.has THEN Become(EnsureCurrentBlock(L), <<Eval1(Top.s.e), Then("return2", Top.s)>>)
                  ELSE Become(Jump(L, Term("ret", <<>>, 0, 0), 0), <<>>)

ReturnValue == Working("return2") /\ Become(Jump(L, Term("ret", <<L.v>>, 0, 0), 0), <<>>)

LowerBreak == Working("break") /\ Become(Jump(L, Branch(Last(L.loops).brk), Last(L.loops).depth), <<>>)

LowerContinue ==
  Working("continue") /\ Become(Jump(L, Branch(Last(L.loops).cont), Last(L.loops).depth), <<>>)

LowerIf == Working("if") /\ Become(EnsureCurrentBlock(L), <<Eval1(Top.s.e), Then("if2", Top.s)>>)

\* n: the number of blocks before, and the label of the merge block.
IfBranches ==
  /\ Working("if2")
  /\ LET at0 == Len(L.blocks)
         n == IF Top.s.has THEN 3 ELSE 2
         C == Terminate(CreateBlocks(L, n), Term("cond", <<L.v>>, L.nb, L.nb + 1))
         where == <<at0, L.nb + n - 1>>
     IN Become([C EXCEPT !.cur = at0 + 1], Body(Top.s.a) \o <<Item("if3", Top.s, where)>>)

IfElseBranch ==
  /\ Working("if3")
  /\ LET M == BranchIfOpen(L, Top.n[2])
     IN IF Top.s.has
          THEN Become([M EXCEPT !.cur = Top.n[1] + 2], Body(Top.s.b) \o <<Item("if4", Top.s, Top.n)>>)
          ELSE Become(M, <<Item("if4", Top.s, Top.n)>>)

\* The merge block stays if the else branch is open at its end, or if the
\* first block of the then branch ends in a branch to it.
IfMerge ==
  /\ Working("if4")
  /\ LET elseReaches == ~Top.s.has \/ Open(L)
         M == IF Top.s.has THEN BranchIfOpen(L, Top.n[2]) ELSE L
         thenReaches == M.blocks[Top.n[1] + 1].term = Branch(Top.n[2])
         merge == Top.n[1] + (IF Top.s.has THEN 3 ELSE 2)
     IN Become(IF thenReaches \/ elseReaches
                 THEN [M EXCEPT !.cur = merge]
                 ELSE [M EXCEPT !.cur = 0, !.blocks = RemoveAt(@, merge)], <<>>)

\* Entering a loop: the blocks cond, body, (step,) exit; n holds the number of
\* blocks before, the label of cond, and two storages (of the counter and of
\* the hidden iterable).
OpenLoop(M, steps) ==
  [Terminate(CreateBlocks(M, 3 + steps), Branch(M.nb)) EXCEPT !.cur = Len(M.blocks) + 1]

\* Deciding whether another round follows; the body starts.
Decide(M, n, steps) ==
  [Terminate(M, Term("cond", <<M.v>>, n[2] + 1, n[2] + 2 + steps))
     EXCEPT !.cur = n[1] + 2,
            !.loops = Append(@, [brk |-> n[2] + 2 + steps, cont |-> n[2] + 2 * steps,
                                 depth |-> Len(M.defers)])]

CloseLoop(M, n, steps) == [M EXCEPT !.loops = Front(@), !.cur = n[1] + 3 + steps]

LowerWhileLike ==
  /\ Working("while")
  /\ LET M == EnsureCurrentBlock(L)
     IN Become(OpenLoop(M, 0), <<Eval1(Top.s.e), Item("while2", Top.s, <<Len(M.blocks), M.nb>>)>>)

WhileBody ==
  /\ Working("while2")
  /\ Become(Decide(L, Top.n, 0), Body(Top.s.a) \o <<Item("while3", Top.s, Top.n)>>)

WhileEnd == Working("while3") /\ Become(CloseLoop(BranchIfOpen(L, Top.n[2]), Top.n, 0), <<>>)

\* Counted loops evaluate the bound, or the iterable, first.
LowerForLoop ==
  \E k \in {"range", "each"} :
    /\ Working(k)
    /\ Become(IF k = "range" THEN EmitLiteralValue(L, 0) ELSE L,
              <<Eval1(Top.s.e), Item("for2", Top.s, <<L.nv>>)>>)

\* 0..e: the loop's variable is the counter, and the bound is kept as a value.
RangeCondition ==
  /\ Working("for2") /\ Top.s.k = "range"
  /\ LET end == L.v
         storage == NewVisibleLocalStorageName(L, Top.s.x)
         M == StoreLocal(Counted(L, Top.s.x), storage, Top.n[1])
         N == LoadLocalValue(OpenLoop(M, 1), storage)
     IN Become(EmitValue(N, "less", NoStorage, <<N.v, end>>, 0),
               <<Item("for3", Top.s, <<Len(M.blocks), M.nb, storage, storage>>)>>)

\* Over the items of a slice of e elements: a hidden index and a hidden copy
\* of the slice.
EachCondition ==
  /\ Working("for2") /\ Top.s.k = "each"
  /\ LET iterable == Hidden(L.nh)
         index == Hidden(L.nh + 1)
         A == EmitLiteralValue(StoreLocal([L EXCEPT !.nh = @ + 2], iterable, L.v), 0)
         M == StoreLocal(A, index, A.v)
         now == LoadLocalValue(OpenLoop(M, 1), index)
         all == LoadLocalValue(now, iterable)
     IN Become(EmitValue(all, "less", NoStorage, <<now.v, all.v>>, 0),
               <<Item("for3", Top.s, <<Len(M.blocks), M.nb, index, iterable>>)>>)

\* The names of the loop live in a scope around the body.
ForBody ==
  /\ Working("for3")
  /\ LET x == Top.s.x
         D == Decide(L, Top.n, 1)
         all == LoadLocalValue(D, Top.n[4])
         now == LoadLocalValue(all, Top.n[3])
         item == EmitValue(now, "item", NoStorage, <<all.v, now.v>>, 0)
         first == NewVisibleLocalStorageName(item, x)
         second == NewVisibleLocalStorageName(item, "y")
         one == ExposeVisibleLocal(PushStmtScope(StoreLocal(Counted(item, x), first, item.v)), x, first)
         two == StoreLocal(StoreLocal(Counted(Counted(item, x), "y"), first, now.v), second, item.v)
         M == IF Top.s.k = "range" THEN ExposeVisibleLocal(PushStmtScope(D), x, Top.n[3])
              ELSE IF ~Top.s.has THEN one
              ELSE ExposeVisibleLocal(ExposeVisibleLocal(PushStmtScope(two), x, first), "y", second)
     IN Become(M, Body(Top.s.a) \o <<Then("pop", NoStmt), Item("for4", Top.s, Top.n)>>)

ForStep ==
  /\ Working("for4")
  /\ LET M == LoadLocalValue([BranchIfOpen(L, Top.n[2] + 2) EXCEPT !.cur = Top.n[1] + 3], Top.n[3])
         one == EmitLiteralValue(M, 1)
         sum == EmitValue(one, "add", NoStorage, <<M.v, one.v>>, 0)
     IN Become(CloseLoop(Terminate(StoreLocal(sum, Top.n[3], sum.v), Branch(Top.n[2])), Top.n, 1), <<>>)

\* The blocks of a switch: merge, default if there is one, a test for every
\* case but the first, and a body for every case that has statements.  n holds
\* the number of blocks before, the label of merge, the selector and the index
\* of the first test; block j of the switch (from 0) is n[1] + 1 + j.
Fallback(s) == IF s.has THEN 1 ELSE 0

Bodied(s) == {i \in DOMAIN s.cs : s.cs[i].body # <<>>}

TestOf(s, i) == Fallback(s) + i - 1

BodyOf(s, i) == Fallback(s) + Len(s.cs) - 1 + Cardinality({j \in Bodied(s) : j <= i})

\* An empty case goes to the body of the next one that has statements.
CaseTrueTarget(s, i) ==
  LET from == {j \in Bodied(s) : j >= i}
  IN IF from = {} THEN Fallback(s) ELSE BodyOf(s, Min(from))

CaseFalseTarget(s, i) == IF i < Len(s.cs) THEN TestOf(s, i + 1) ELSE Fallback(s)

LowerSwitch ==
  Working("switch") /\ Become(EnsureCurrentBlock(L), <<Eval1(Top.s.e), Then("switch2", Top.s)>>)

SwitchBlocks ==
  /\ Working("switch2")
  /\ LET s == Top.s
         count == Fallback(s) + Max({1, Len(s.cs)}) + Cardinality(Bodied(s))
         where == <<Len(L.blocks), L.nb, L.v, L.cur>>
     IN Become(CreateBlocks(L, count),
               [i \in DOMAIN s.cs |-> Item("case", s, Append(where, i))]
                 \o <<Item("default", s, where)>>)

SwitchCase ==
  /\ Working("case")
  /\ LET s == Top.s
         n == Top.n
         i == n[5]
         lit == EmitLiteralValue([L EXCEPT !.cur = IF i = 1 THEN n[4] ELSE n[1] + 1 + TestOf(s, i)], s.cs[i].v)
         same == EmitValue(lit, "eq", NoStorage, <<n[3], lit.v>>, 0)
         T == Terminate(same, Term("cond", <<same.v>>, n[2] + CaseTrueTarget(s, i), n[2] + CaseFalseTarget(s, i)))
     IN Become([T EXCEPT !.cur = n[1] + 1 + CaseTrueTarget(s, i)],
               IF i \in Bodied(s) THEN <<Item("casebody", s, n)>> ELSE <<>>)

\* The binding of a variant case may not hide a local: the rest of the switch
\* is given up.
SwitchCaseBody ==
  /\ Working("casebody")
  /\ LET c == Top.s.cs[Top.n[5]]
         got == EmitValue(PushStmtScope(L), "payload", NoStorage, <<Top.n[3]>>, 0)
         N == BindVisibleLocal(got, c.x)
         body == Body(c.body)
         end == <<Item("caseend", Top.s, Top.n)>>
     IN IF c.x = "" THEN Become(L, body \o end)
        ELSE IF VisibleIn(L.scopes, c.x) THEN phase' = "rejected" /\ UNCHANGED <<src, L, work, mirVars>>
        ELSE Become(StoreLocal(N, Last(N.scopes)[c.x], got.v), Tail(body) \o end)

SwitchCaseEnd == Working("caseend") /\ Become(BranchIfOpen(L, Top.n[2]), <<>>)

SwitchDefault ==
  /\ Working("default")
  /\ LET M == IF Top.s.cs = <<>> THEN Terminate(L, Branch(Top.n[2] + Fallback(Top.s))) ELSE L
     IN IF Top.s.has THEN Become([M EXCEPT !.cur = Top.n[1] + 2],
                                 Body(Top.s.b) \o <<Item("switchend", Top.s, Top.n)>>)
                     ELSE Become([M EXCEPT !.cur = Top.n[1] + 1], <<>>)

SwitchMerge ==
  /\ Working("switchend")
  /\ LET M == BranchIfOpen(L, Top.n[2])
     IN Become(IF \E b \in DOMAIN M.blocks : M.blocks[b].term = Branch(Top.n[2])
                 THEN [M EXCEPT !.cur = Top.n[1] + 1]
                 ELSE [M EXCEPT !.cur = 0, !.blocks = RemoveAt(@, Top.n[1] + 1)], <<>>)

LowerStmt ==
  \/ PushScope \/ PopScope \/ LowerBlock \/ LowerOperand \/ LowerShortCircuitLogicalExpr \/ LogicalMerge
  \/ LowerBindingLike \/ BindLocal \/ LowerAssign \/ AssignNamedTarget \/ LowerCallStmt \/ EmitCallStmt
  \/ LowerDefer \/ CaptureDeferredCall \/ LowerReturn \/ ReturnValue \/ LowerBreak \/ LowerContinue
  \/ LowerIf \/ IfBranches \/ IfElseBranch \/ IfMerge \/ LowerWhileLike \/ WhileBody \/ WhileEnd
  \/ LowerForLoop \/ RangeCondition \/ EachCondition \/ ForBody \/ ForStep
  \/ LowerSwitch \/ SwitchBlocks \/ SwitchCase \/ SwitchCaseBody \/ SwitchCaseEnd \/ SwitchDefault \/ SwitchMerge

----------------------------------------------------------------------------
(* A function from its source to a run of its code. *)

\* A function of one parameter p, whose value is kept as a local.
NewLowerer ==
  CreateBlocks([blocks |-> <<>>, cur |-> 1, stale |-> 0, nb |-> 1, nv |-> 1, nh |-> 0, v |-> 0,
                scopes |-> <<("p" :> <<"p", 0>>)>>, counts |-> ("p" :> 1),
                loops |-> <<>>, defers |-> <<>>, reported |-> FALSE, lost |-> FALSE], 1)

LowerInit ==
  /\ MirIdle
  /\ work = <<>> /\ L = NewLowerer
  /\ \/ phase = "source" /\ src \in Functions
     \/ phase = "lowered" /\ \E g \in Graphs : src = [graph |-> g]

CheckFunction ==
  /\ phase = "source"
  /\ phase' = IF Accepted(src.body, src.result) THEN "lower" ELSE "refused"
  /\ work' = Body(src.body)
  /\ UNCHANGED <<src, L, mirVars>>

\* The end of Run: what is left open returns, if the function has no result.
FinishFunction ==
  /\ phase = "lower" /\ work = <<>>
  /\ L' = IF Open(L) /\ ~src.result THEN Terminate(L, Term("ret", <<>>, 0, 0)) ELSE L
  /\ phase' = IF L.reported \/ (Open(L) /\ src.result) THEN "rejected" ELSE "lowered"
  /\ UNCHANGED <<src, work, mirVars>>

IsGraph == "graph" \in DOMAIN src

Code == IF IsGraph THEN src.graph ELSE L.blocks

ValidateModule ==
  /\ phase = "lowered"
  /\ IF ValidateFunction(Code) THEN phase' = "valid" /\ Enter(Code, (<<"p", 0>> :> 1))
                               ELSE phase' = "rejected" /\ UNCHANGED mirVars
  /\ UNCHANGED <<src, L, work>>

RunCode == phase = "valid" /\ RunBlock /\ UNCHANGED <<src, phase, L, work>>

Answer ==
  /\ Len(inputs) < MaxInputs
  /\ \E a \in Answers : AnswerInput(a)
  /\ UNCHANGED <<src, phase, L, work>>

LowerNext == CheckFunction \/ LowerStmt \/ FinishFunction \/ ValidateModule \/ RunCode \/ Answer

Spec == LowerInit /\ [][LowerNext]_lowerVars

----------------------------------------------------------------------------
(* Properties. *)

\* No path of a function that the validator lets through uses a value that was
\* not computed on it (mir_validate_flow.cpp: the dominance check).
ReadsAreDefined == status # "undefined"

AtRest == status = "end" \/ AtInput

\* The compiled function makes the calls the source says, in that order, with
\* those arguments, and ends the way the source does: deferred calls on every
\* way out of a scope, each name its own local (FunctionLowerer).
CallsAreThoseOfTheSource ==
  (phase = "valid" /\ ~IsGraph /\ ~L.lost /\ AtRest) => trace = SourceTrace(src.body, inputs)
=============================================================================
