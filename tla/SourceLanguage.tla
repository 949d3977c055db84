-------------------------- MODULE SourceLanguage --------------------------
(***************************************************************************)
(* Function bodies of the source language: the statement rules of the      *)
(* semantic checker (src/compiler/sema/check.cpp), and what the language   *)
(* says a body means (docs/arch/c-lang/language), to compare the compiled  *)
(* code with.                                                              *)
(*                                                                         *)
(* A statement is [k, x, e, a, b, cs, has]: kind, bound or assigned name,  *)
(* expression, first and second body (sequences of statements), switch     *)
(* cases [v, x, body], and whether it has an else branch, a default case,  *)
(* a result, an index name or a mutable binding.  An expression is         *)
(* [k, x, v, as].  Values are numbers (a condition holds when it is not    *)
(* 0), calls are events that show their argument, and "input" is a call    *)
(* whose answer is not known.  Types, globals and multiple results are     *)
(* left out.                                                               *)
(***************************************************************************)
EXTENDS Integers, Sequences, FiniteSets, SequencesExt, TLC

Expr(k, x, v, as) == [k |-> k, x |-> x, v |-> v, as |-> as]

Lit(v) == Expr("lit", "", v, <<>>)
Name(x) == Expr("name", x, 0, <<>>)
Input == Expr("input", "", 0, <<>>)
Logical(op, l, r) == Expr(op, "", 0, <<l, r>>)

Stmt(k, x, e, a, b, cs, has) ==
  [k |-> k, x |-> x, e |-> e, a |-> a, b |-> b, cs |-> cs, has |-> has]

----------------------------------------------------------------------------
(* The semantic checker's statement rules.  scopes_ is a sequence of       *)
(* functions from names to whether they may be assigned.                   *)

VisibleIn(scopes, x) == \E i \in DOMAIN scopes : x \in DOMAIN scopes[i]

\* The innermost scope that has the name.
InnermostOf(scopes, x) ==
  CHOOSE i \in DOMAIN scopes :
    x \in DOMAIN scopes[i] /\ \A j \in DOMAIN scopes : j > i => x \notin DOMAIN scopes[j]

RECURSIVE ResolveNames(_, _)
ResolveNames(e, scopes) ==
  /\ e.k = "name" => VisibleIn(scopes, e.x)
  /\ \A i \in DOMAIN e.as : ResolveNames(e.as[i], scopes)

BindValue(scopes, x, mutable) ==
  Append(Front(scopes), (x :> mutable) @@ Last(scopes))

\* A name may be bound once in a scope, and may hide an outer one.
MayBind(scopes, x) == x \notin DOMAIN Last(scopes)

RECURSIVE CheckStmtList(_, _, _)
RECURSIVE CheckStmt(_, _, _)
\* Whether the statement is accepted, in a loop of depth `depth`.
CheckStmt(s, scopes, depth) ==
  CASE s.k = "block" -> CheckStmtList(s.a, Append(scopes, << >>), depth)
    [] s.k = "bind" -> ResolveNames(s.e, scopes) /\ MayBind(scopes, s.x)
    [] s.k = "assign" ->
         /\ ResolveNames(s.e, scopes)
         /\ VisibleIn(scopes, s.x) /\ scopes[InnermostOf(scopes, s.x)][s.x]
    [] s.k \in {"call", "panic", "defer", "deferpanic"} -> ResolveNames(s.e, scopes)
    [] s.k = "if" ->
         /\ ResolveNames(s.e, scopes)
         /\ CheckStmtList(s.a, Append(scopes, << >>), depth)
         /\ s.has => CheckStmtList(s.b, Append(scopes, << >>), depth)
    [] s.k = "while" ->
         /\ ResolveNames(s.e, scopes)
         /\ CheckStmtList(s.a, Append(scopes, << >>), depth + 1)
    [] s.k = "range" ->
         /\ ResolveNames(s.e, scopes)
         /\ CheckStmtList(s.a, scopes \o <<(s.x :> TRUE), << >>>>, depth + 1)
    [] s.k = "each" ->
         /\ ResolveNames(s.e, scopes) /\ (s.has => s.x # "y")
         /\ CheckStmtList(s.a, scopes \o <<IF s.has THEN (s.x :> TRUE) @@ ("y" :> TRUE)
                                                    ELSE (s.x :> TRUE), << >>>>,
                          depth + 1)
    [] s.k = "switch" ->
         /\ ResolveNames(s.e, scopes)
         /\ \A i \in DOMAIN s.cs :
              CheckStmtList(s.cs[i].body,
                            Append(scopes, IF s.cs[i].x = "" THEN << >> ELSE (s.cs[i].x :> FALSE)),
                            depth)
         /\ s.has => CheckStmtList(s.b, Append(scopes, << >>), depth)
    [] s.k = "return" -> ResolveNames(s.e, scopes)
    [] s.k \in {"break", "continue"} -> depth > 0

CheckStmtList(ss, scopes, depth) ==
  ss = <<>> \/ ( /\ CheckStmt(ss[1], scopes, depth)
                 /\ CheckStmtList(Tail(ss),
                                  IF ss[1].k = "bind" THEN BindValue(scopes, ss[1].x, ss[1].has)
                                                      ELSE scopes,
                                  depth) )

RECURSIVE StmtAlwaysReturns(_)
StmtListAlwaysReturns(ss) == \E i \in DOMAIN ss : StmtAlwaysReturns(ss[i])

\* A case without statements shares the body of the next one that has some.
SharedBody(s, i) ==
  LET later == {j \in i..Len(s.cs) : s.cs[j].body # <<>>}
  IN IF later = {} THEN s.b ELSE s.cs[CHOOSE j \in later : \A k \in later : j <= k].body

StmtAlwaysReturns(s) ==
  \/ s.k \in {"return", "panic"}
  \/ s.k = "block" /\ StmtListAlwaysReturns(s.a)
  \/ s.k = "if" /\ s.has /\ StmtListAlwaysReturns(s.a) /\ StmtListAlwaysReturns(s.b)
  \/ /\ s.k = "switch" /\ s.has /\ StmtListAlwaysReturns(SharedBody(s, 1))
     /\ \A i \in DOMAIN s.cs : StmtListAlwaysReturns(SharedBody(s, i))

\* What the checker says of a function: parameter p, and a result or not.
Accepted(body, result) ==
  /\ CheckStmtList(body, <<("p" :> FALSE), << >>>>, 0)
  /\ result => StmtListAlwaysReturns(body)

----------------------------------------------------------------------------
(* What the source means: a run with the given answers to its inputs, up   *)
(* to its end or to the first input that has no answer.  A state of the    *)
(* run is [sig, tr, in, env, rv]: how the last statement ended ("next",    *)
(* "ret", "brk", "cont", "panic" or "wait"), the calls so far, the answers *)
(* left, the values of the visible names, and the result.                  *)

RECURSIVE Eval(_, _)
\* [v, M]; v means nothing when the run is waiting.
Eval(e, M) ==
  CASE e.k = "lit" -> [v |-> e.v, M |-> M]
    [] e.k = "name" -> [v |-> M.env[InnermostOf(M.env, e.x)][e.x], M |-> M]
    [] e.k = "input" -> IF M.in = <<>> THEN [v |-> 0, M |-> [M EXCEPT !.sig = "wait"]]
                        ELSE [v |-> M.in[1], M |-> [M EXCEPT !.in = Tail(@)]]
    [] e.k \in {"and", "or"} ->
         LET l == Eval(e.as[1], M)
         IN IF l.M.sig = "wait" \/ ((l.v # 0) = (e.k = "or")) THEN l ELSE Eval(e.as[2], l.M)

InnerScope(M, bound) == [M EXCEPT !.env = Append(@, bound)]

\* The deferred calls of a scope, last one first; a panic is the end.
RunDeferred(M, ds) ==
  FoldRight(LAMBDA d, N :
              IF N.sig = "panic" THEN N
              ELSE IF d.kind = "deferpanic"
                THEN [N EXCEPT !.sig = "panic", !.tr = Append(@, <<"panic", d.v>>)]
                ELSE [N EXCEPT !.tr = Append(@, <<"call", d.v>>)],
            ds, M)

RECURSIVE Exec(_, _)
RECURSIVE ExecList(_, _, _)
\* The statements of one scope, with the calls deferred in it so far.
ExecList(ss, M, ds) ==
  IF M.sig \in {"wait", "panic"} THEN M
  ELSE IF ss = <<>> \/ M.sig # "next" THEN RunDeferred(M, ds)
  ELSE IF ss[1].k \in {"defer", "deferpanic"}
    THEN LET arg == Eval(ss[1].e, M)
         IN ExecList(Tail(ss), arg.M, Append(ds, [kind |-> ss[1].k, v |-> arg.v]))
  ELSE ExecList(Tail(ss), Exec(ss[1], M), ds)

ExecScope(ss, M, bound) ==
  [ExecList(ss, InnerScope(M, bound), <<>>) EXCEPT !.env = Front(@)]

\* After a round of a loop: whether another one may follow.
Again(M) == M.sig \in {"next", "cont"}

AfterLoop(M) == IF M.sig \in {"brk", "cont"} THEN [M EXCEPT !.sig = "next"] ELSE M

RECURSIVE ExecWhile(_, _)
ExecWhile(s, M) ==
  LET c == Eval(s.e, [M EXCEPT !.sig = "next"])
      B == ExecScope(s.a, c.M, << >>)
  IN IF c.M.sig = "wait" \/ c.v = 0 THEN c.M
     ELSE IF Again(B) THEN ExecWhile(s, B) ELSE AfterLoop(B)

RECURSIVE ExecRange(_, _, _)
\* The variable lives in a scope around all rounds.
ExecRange(s, M, end) ==
  LET B == ExecScope(s.a, [M EXCEPT !.sig = "next"], << >>)
      i == Len(M.env)
  IN IF M.env[i][s.x] >= end THEN AfterLoop(M)
     ELSE IF Again(B) THEN ExecRange(s, [B EXCEPT !.env[i][s.x] = @ + 1], end) ELSE AfterLoop(B)

RECURSIVE ExecEach(_, _, _, _)
ExecEach(s, M, j, len) ==
  LET names == IF s.has THEN (s.x :> j) @@ ("y" :> j + 20) ELSE (s.x :> j + 20)
      R == ExecScope(s.a, InnerScope([M EXCEPT !.sig = "next"], names), << >>)
      B == [R EXCEPT !.env = Front(@)]
  IN IF j >= len THEN AfterLoop(M) ELSE IF Again(B) THEN ExecEach(s, B, j + 1, len) ELSE AfterLoop(B)

Exec(s, M) ==
  LET e == Eval(s.e, M)
      N == e.M
      top == Len(N.env)
      matching == {i \in DOMAIN s.cs : s.cs[i].v = e.v}
      chosen == Min(matching)
      bodied == {j \in DOMAIN s.cs : matching # {} /\ j >= chosen /\ s.cs[j].body # <<>>}
  IN IF N.sig = "wait" THEN N
     ELSE CASE s.k = "block" -> ExecScope(s.a, N, << >>)
            [] s.k = "bind" -> [N EXCEPT !.env[top] = (s.x :> e.v) @@ @]
            [] s.k = "assign" -> [N EXCEPT !.env[InnermostOf(N.env, s.x)][s.x] = e.v]
            [] s.k = "call" -> [N EXCEPT !.tr = Append(@, <<"call", e.v>>)]
            [] s.k = "panic" -> [N EXCEPT !.sig = "panic", !.tr = Append(@, <<"panic", e.v>>)]
            [] s.k = "if" -> IF e.v # 0 THEN ExecScope(s.a, N, << >>)
                             ELSE IF s.has THEN ExecScope(s.b, N, << >>) ELSE N
            [] s.k = "while" -> ExecWhile(s, M)
            [] s.k = "range" ->
                 [ExecRange(s, InnerScope(N, (s.x :> 0)), e.v) EXCEPT !.env = Front(@)]
            [] s.k = "each" -> ExecEach(s, N, 0, e.v)
            [] s.k = "switch" ->
                 IF bodied # {}
                   THEN ExecScope(s.cs[Min(bodied)].body, N,
                                  IF s.cs[Min(bodied)].x = "" THEN << >>
                                  ELSE (s.cs[Min(bodied)].x :> e.v + 10))
                   ELSE IF s.has THEN ExecScope(s.b, N, << >>) ELSE N
            [] s.k = "return" -> [N EXCEPT !.sig = "ret", !.rv = IF s.has THEN e.v ELSE 0]
            [] s.k = "break" -> [N EXCEPT !.sig = "brk"]
            [] s.k = "continue" -> [N EXCEPT !.sig = "cont"]

\* The calls a run of the function makes with these answers.
SourceTrace(body, answers) ==
  LET M == ExecScope(body, [sig |-> "next", tr |-> <<>>, in |-> answers,
                            env |-> <<("p" :> 1)>>, rv |-> 0], << >>)
  IN IF M.sig \in {"next", "ret"} THEN Append(M.tr, <<"ret", M.rv>>) ELSE M.tr
=============================================================================
