---------------------------- MODULE Host_proofs -----------------------------
(* The test command, for every plan of targets, tests and regression cases,  *)
(* with any limits, ends of the children and scheduling of the waiter thread *)
(* and the deadline; the poller and the descriptors of a child, for every    *)
(* set of files, any interests, states and capacities, every sequence of     *)
(* operations and every numbering of the pipes; the calls of the runtime, for *)
(* any number of directory entries and arguments.                            *)
EXTENDS TestCommand, RuntimeTables, RuntimeCalls, SequenceTheorems,
        FiniteSetTheorems, WellFoundedInduction, TLAPS

WaiterStates == {"none", "waiting", "reaped", "error", "done", "failed"}
DriverStates == {"idle", "timed wait", "untimed wait", "joining"}

TestTypes ==
    /\ plan \in Plans /\ autoReap \in BOOLEAN /\ at \in DOMAIN plan
    /\ todo \in [do : {"graph", "ordinary", "case"}, n : Nat]
    /\ verdict \in BOOLEAN /\ ok \in BOOLEAN /\ exit \in {-1, 0, 1}
    /\ child.st \in {"none", "running", "zombie", "reaped"}
    /\ child = [st |-> child.st, status |-> child.status]
    /\ waiter \in WaiterStates /\ driver \in DriverStates /\ late \in BOOLEAN

OrdinaryEarned(t) == \A k \in DOMAIN t.ordinary : t.builds /\ t.ordinary[k] = "nil"
CasesEarned(t, n) == \A k \in DOMAIN t.cases : k < n => Holds(t.cases[k])
Earned(t) == /\ t.loads /\ OrdinaryEarned(t)
             /\ \A k \in DOMAIN t.cases : Holds(t.cases[k])

\* What is green so far is earned so far.
SoFar ==
    /\ todo.do # "graph" => Target.loads
    /\ todo.do = "case" =>
          /\ todo.n \in 1 .. Len(Target.cases) + 1
          /\ verdict => OrdinaryEarned(Target) /\ CasesEarned(Target, todo.n)
    /\ exit = -1 /\ ok => \A i \in 1 .. at - 1 : Earned(plan[i])
    /\ exit = 0 => \A i \in DOMAIN plan : Earned(plan[i])

\* The driver waits for a child only where one may have been started.
Started == \/ todo.do = "ordinary" /\ Target.builds
           \/ /\ todo.do = "case" /\ todo.n \in DOMAIN Target.cases
              /\ Case.kind = "run-output"
              /\ Case.compiles /\ Case.expectation = "present"

\* The child, the thread that waits for it and the driver: who has reaped it,
\* and how it can have ended.
Wait ==
    /\ driver = "idle" => child = NoChild /\ waiter = "none" /\ ~late
    /\ driver # "idle" => exit = -1 /\ child.st # "none" /\ Started
    /\ driver = "untimed wait" => waiter = "none"
    /\ driver \in {"timed wait", "joining"} => waiter # "none"
    /\ driver = "joining" => late /\ child.st # "running"
    /\ waiter \in {"reaped", "error", "done", "failed"} => child.st = "reaped"
    /\ waiter \in {"error", "failed"} => autoReap
    /\ child.st = "zombie" => ~autoReap
    /\ child.st = "reaped" /\ waiter \in {"none", "waiting"} => autoReap
    /\ Waitable => \/ child.status \in ChildEnds
                   \/ child.status = Killed /\ driver = "joining"

TestInv == TestTypes /\ SoFar /\ Wait
-----------------------------------------------------------------------------
(* The children.                                                           *)

Ends == ({"exit"} \X (0 .. 255)) \cup ({"signal"} \X (Nat \ {9}))

\* Every target is as discovery finds it.
LEMMA PlanTyped ==
    ASSUME TestTypes
    PROVE  /\ plan \in Seq(TargetType) /\ plan # <<>>
           /\ Len(plan) \in Nat /\ DOMAIN plan = 1 .. Len(plan)
           /\ at \in 1 .. Len(plan)
           /\ Target \in TargetType
           /\ Target.cases \in Seq(CaseType) /\ Len(Target.cases) \in Nat
           /\ DOMAIN Target.cases = 1 .. Len(Target.cases)
           /\ todo.n \in DOMAIN Target.cases => Case \in CaseType
<1>1. plan \in Seq(TargetType) /\ plan # <<>> BY PlansAssumption DEF TestTypes
<1>2. Target \in TargetType BY <1>1 DEF TestTypes, Target
<1>3. Target.cases \in Seq(CaseType) BY <1>2 DEF TargetType
<1>4. QED BY <1>1, <1>2, <1>3 DEF TestTypes, Case

\* The runner exits with 0 only if every test returned nil.
LEMMA RunnerGreen ==
    ASSUME NEW tests, Exited(0) \in RunnerEnds(tests)
    PROVE  \A i \in DOMAIN tests : tests[i] = "nil"
BY DEF RunnerEnds, Exited, Aborted

\* A child that ends by itself exits or is ended by a signal other than 9.
LEMMA EndsByItself ==
    ASSUME TestTypes, Started, NEW status \in ChildEnds
    PROVE  status \in Ends
<1>1. Exited(127) \in Ends BY DEF Exited, Ends
<1>2. CASE todo.do = "ordinary"
  <2>1. status \in {Exited(127), Exited(1), Exited(0), Aborted}
    BY <1>2 DEF ChildEnds, RunnerEnds
  <2>2. QED BY <2>1 DEF Exited, Aborted, Ends
<1>3. CASE todo.do # "ordinary"
  <2>1. Case \in CaseType BY <1>3, PlanTyped DEF Started
  <2>2. Case.run \in Programs BY <2>1 DEF CaseType
  <2>3. status \in {Exited(127)} \cup (IF Case.run = Hang THEN {} ELSE {Case.run})
    BY <1>3 DEF ChildEnds, ProgramEnds
  <2>4. QED BY <1>1, <2>2, <2>3 DEF Programs, Ends, Hang
<1>4. QED BY <1>2, <1>3

\* What RunExecutableCapture says of a child that was waited for.
LEMMA CapturedFits ==
    ASSUME TestInv, WaitIsOver
    PROVE  /\ Captured.timedOut => late /\ child.status = Killed
           /\ Captured.exited /\ Captured.code # 127
                  => child.status = Exited(Captured.code) /\ child.status \in ChildEnds
           /\ ~Captured.exited => child.status[1] = "signal"
           /\ child.status = Killed /\ ~autoReap => Captured.timedOut
<1>t. TestTypes /\ Wait BY DEF TestInv
<1>1. /\ driver # "idle" /\ child.st # "none" /\ Started /\ Waitable
      /\ driver = "untimed wait" \/ driver = "timed wait" \/ driver = "joining"
  BY <1>t DEF WaitIsOver, Wait, Waitable
<1>2. \/ child.status \in Ends /\ child.status \in ChildEnds
      \/ child.status = Killed /\ driver = "joining"
  BY <1>t, <1>1, EndsByItself DEF Wait
<1>3. child.status # Killed \/ driver = "joining" BY <1>2 DEF Ends, Killed
<1>4. \/ \E n \in Nat : child.status = Exited(n)
      \/ child.status[1] = "signal"
  BY <1>2 DEF Ends, Exited, Killed
<1>5. Captured = [timedOut |-> WaitForChildResult = "timed out",
                  exited   |-> WaitForChildResult = "wait error"
                               \/ (WaitForChildResult = "exited" /\ child.status[1] = "exit"),
                  code     |-> IF WaitForChildResult = "wait error" THEN 127
                               ELSE IF child.status[1] = "exit" THEN child.status[2]
                               ELSE 0]
  BY <1>1 DEF Captured
<1>6. WaitForChildResult = "timed out" => driver = "joining" /\ child.status = Killed
  BY DEF WaitForChildResult
<1>7. WaitForChildResult \in {"timed out", "wait error", "exited"} BY DEF WaitForChildResult
<1>8. Captured.timedOut => late /\ child.status = Killed BY <1>t, <1>5, <1>6 DEF Wait
<1>9. Captured.exited /\ Captured.code # 127
          => child.status = Exited(Captured.code) /\ child.status \in ChildEnds
  <2> SUFFICES ASSUME Captured.exited, Captured.code # 127
               PROVE  child.status = Exited(Captured.code) /\ child.status \in ChildEnds
    OBVIOUS
  <2>1. WaitForChildResult # "wait error" /\ child.status[1] = "exit"
        /\ Captured.code = child.status[2]
    BY <1>5
  <2>2. Killed[1] = "signal" BY DEF Killed
  <2>3. child.status \in Ends /\ child.status \in ChildEnds BY <1>2, <2>1, <2>2
  <2>4. \A e \in Ends : e[1] = "exit" => e = Exited(e[2]) BY DEF Ends, Exited
  <2>5. QED BY <2>1, <2>3, <2>4
<1>10. ~Captured.exited => child.status[1] = "signal"
  <2> SUFFICES ASSUME ~Captured.exited PROVE child.status[1] = "signal" OBVIOUS
  <2>1. CASE child.status = Killed BY <2>1 DEF Killed
  <2>2. CASE child.status # Killed
    <3>1. WaitForChildResult = "exited" /\ child.status[1] # "exit"
      BY <1>5, <1>6, <1>7, <2>2
    <3>2. QED BY <1>2, <2>2, <3>1 DEF Ends
  <2>3. QED BY <2>1, <2>2
<1>11. child.status = Killed /\ ~autoReap => Captured.timedOut
  <2> SUFFICES ASSUME child.status = Killed, ~autoReap PROVE Captured.timedOut OBVIOUS
  <2>1. driver = "joining" /\ waiter # "failed" BY <1>t, <1>3 DEF Wait
  <2>2. QED BY <1>5, <2>1 DEF WaitForChildResult
<1>12. QED BY <1>8, <1>9, <1>10, <1>11
-----------------------------------------------------------------------------
(* The steps.                                                              *)

\* At the start nothing has run.
LEMMA TestStart == Init => TestInv
<1> SUFFICES ASSUME Init PROVE TestInv OBVIOUS
<1>1. plan \in Seq(TargetType) /\ plan # <<>> /\ 1 \in DOMAIN plan
  BY PlansAssumption DEF Init
<1>2. TestTypes BY <1>1 DEF Init, TestTypes, Start, NoChild, WaiterStates, DriverStates
<1>3. SoFar BY DEF Init, SoFar, Start
<1>4. Wait BY DEF Init, Wait, Waitable, NoChild
<1>5. QED BY <1>2, <1>3, <1>4 DEF TestInv

\* What is green depends on the driver's own state only.
LEMMA GreenKept ==
    ASSUME SoFar, UNCHANGED <<plan, at, todo, verdict, ok, exit>>
    PROVE  SoFar'
BY DEF SoFar, Target

\* A child ends, the thread reaps it and says so, and the time passes
\* (WaitForChildProcess).
LEMMA ChildMoves ==
    ASSUME TestInv, ChildExits \/ WaiterReaps \/ WaiterPublishes \/ DeadlinePasses \/ Kill
    PROVE  TestInv'
<1>t. TestTypes /\ SoFar /\ Wait BY DEF TestInv
<1>u. UNCHANGED <<plan, autoReap, at, todo, verdict, ok, exit>>
  BY DEF ChildExits, WaiterReaps, WaiterPublishes, DeadlinePasses, Kill
<1>g. SoFar' BY <1>t, <1>u, GreenKept
<1>e. ChildEnds' = ChildEnds /\ (Started' <=> Started)
  BY <1>u DEF ChildEnds, Started, Target, Case
<1>b. autoReap' <=> autoReap
  <2>1. autoReap' = autoReap BY <1>u
  <2>2. QED BY <2>1, Zenon
<1> USE DEF Waitable, WaiterStates, DriverStates
<1>c. /\ child = [st |-> child.st, status |-> child.status] /\ autoReap \in BOOLEAN
      /\ child.st \in {"none", "running", "zombie", "reaped"} /\ late \in BOOLEAN
      /\ waiter \in WaiterStates /\ driver \in DriverStates
  BY <1>t DEF TestTypes
<1>1. CASE ChildExits
  <2>1. PICK status \in ChildEnds : child' = Gone(status) BY <1>1 DEF ChildExits
  <2>2. /\ child' = [st |-> child'.st, status |-> child'.status]
        /\ child'.status = status
        /\ \/ child'.st = "reaped" /\ autoReap
           \/ child'.st = "zombie" /\ ~autoReap
    BY <2>1 DEF Gone
  <2>3. /\ waiter' = waiter /\ driver' = driver /\ (late' <=> late) /\ late' \in BOOLEAN
        /\ child.st = "running"
    BY <1>c, <1>1 DEF ChildExits
  <2>4. TestTypes' BY <1>t, <1>c, <1>u, <2>2, <2>3 DEF TestTypes
  <2>5. driver # "idle" /\ driver # "joining" /\ waiter \in {"none", "waiting"}
    <3>1. NoChild.st = "none" BY DEF NoChild
    <3>2. driver # "idle" BY <1>t, <2>3, <3>1 DEF Wait
    <3>3. driver # "joining" BY <1>t, <2>3 DEF Wait
    <3>4. waiter \in {"none", "waiting"} BY <1>t, <1>c, <2>3 DEF Wait
    <3>5. QED BY <3>2, <3>3, <3>4
  <2>6. /\ exit' = -1 /\ Started'
        /\ driver = "untimed wait" => waiter = "none"
        /\ driver \in {"timed wait", "joining"} => waiter # "none"
    BY <1>t, <1>u, <1>e, <2>5 DEF Wait
  <2>7. status \in ChildEnds' BY <1>e
  <2>8. Wait' BY <1>b, <2>2, <2>3, <2>5, <2>6, <2>7 DEF Wait
  <2>9. QED BY <1>g, <2>4, <2>8 DEF TestInv
<1>2. CASE WaiterReaps
  <2>1. TestTypes'
    <3>1. child'.st \in {"none", "running", "zombie", "reaped"}
          /\ child' = [st |-> child'.st, status |-> child'.status]
      BY <1>c, <1>2 DEF WaiterReaps
    <3>2. waiter' \in WaiterStates /\ driver' \in DriverStates /\ late' \in BOOLEAN
      BY <1>c, <1>2 DEF WaiterReaps
    <3>3. QED BY <1>t, <1>u, <3>1, <3>2 DEF TestTypes
  <2>2. Wait' BY <1>t, <1>c, <1>b, <1>u, <1>e, <1>2 DEF Wait, WaiterReaps
  <2>3. QED BY <1>g, <2>1, <2>2 DEF TestInv
<1>3. CASE WaiterPublishes
  <2>1. TestTypes'
    <3>1. child'.st \in {"none", "running", "zombie", "reaped"}
          /\ child' = [st |-> child'.st, status |-> child'.status]
      BY <1>c, <1>3 DEF WaiterPublishes
    <3>2. waiter' \in WaiterStates /\ driver' \in DriverStates /\ late' \in BOOLEAN
      BY <1>c, <1>3 DEF WaiterPublishes
    <3>3. QED BY <1>t, <1>u, <3>1, <3>2 DEF TestTypes
  <2>2. Wait' BY <1>t, <1>c, <1>b, <1>u, <1>e, <1>3 DEF Wait, WaiterPublishes
  <2>3. QED BY <1>g, <2>1, <2>2 DEF TestInv
<1>4. CASE DeadlinePasses
  <2>1. TestTypes'
    <3>1. child'.st \in {"none", "running", "zombie", "reaped"}
          /\ child' = [st |-> child'.st, status |-> child'.status]
      BY <1>c, <1>4 DEF DeadlinePasses
    <3>2. waiter' \in WaiterStates /\ driver' \in DriverStates /\ late' \in BOOLEAN
      BY <1>c, <1>4 DEF DeadlinePasses
    <3>3. QED BY <1>t, <1>u, <3>1, <3>2 DEF TestTypes
  <2>2. Wait' BY <1>t, <1>c, <1>b, <1>u, <1>e, <1>4 DEF Wait, DeadlinePasses
  <2>3. QED BY <1>g, <2>1, <2>2 DEF TestInv
<1>5. CASE Kill
  <2>1. TestTypes'
    <3>1. child'.st \in {"none", "running", "zombie", "reaped"}
          /\ child' = [st |-> child'.st, status |-> child'.status]
      BY <1>c, <1>5 DEF Kill, Gone
    <3>2. waiter' \in WaiterStates /\ driver' \in DriverStates /\ late' \in BOOLEAN
      BY <1>c, <1>5 DEF Kill
    <3>3. QED BY <1>t, <1>u, <3>1, <3>2 DEF TestTypes
  <2>2. Wait' BY <1>t, <1>c, <1>b, <1>u, <1>e, <1>5 DEF Wait, Kill, Gone
  <2>3. QED BY <1>g, <2>1, <2>2 DEF TestInv
<1>6. QED BY <1>1, <1>2, <1>3, <1>4, <1>5

\* Outside the wait there is nothing to keep track of.
Idle == child = NoChild /\ waiter = "none" /\ driver = "idle" /\ late = FALSE

Todo == [do : {"graph", "ordinary", "case"}, n : Nat]

\* The call that waits returns: the child is gone and the thread joined.
LEMMA Returned ==
    ASSUME TestInv, WaitIsOver, EndWait
    PROVE  Idle'
<1>1. Wait BY DEF TestInv
<1>2. /\ \/ driver = "untimed wait" /\ waiter = "none"
         \/ waiter \in {"done", "failed"} /\ child.st = "reaped"
  BY <1>1 DEF Wait, WaitIsOver
<1>3. QED BY <1>2 DEF EndWait, Idle, NoChild

\* A driver that is not waiting starts from there.
LEMMA IdleKept ==
    ASSUME TestInv, driver = "idle", UNCHANGED childVars
    PROVE  Idle'
<1>1. child = NoChild /\ waiter = "none" /\ ~late /\ late \in BOOLEAN
  BY DEF TestInv, TestTypes, Wait
<1>2. QED BY <1>1 DEF Idle, childVars

\* Between two waits the types are those of the driver's own state.
LEMMA Rests ==
    ASSUME TestTypes, Idle', UNCHANGED <<plan, autoReap>>, at' \in DOMAIN plan,
           todo' \in Todo, verdict' \in BOOLEAN, ok' \in BOOLEAN, exit' \in {-1, 0, 1}
    PROVE  TestTypes' /\ Wait'
<1>1. NoChild = [st |-> "none", status |-> NoChild.status] BY DEF NoChild
<1>2. Wait' BY <1>1 DEF Idle, Wait, Waitable
<1>3. TestTypes'
  <2>1. /\ child'.st \in {"none", "running", "zombie", "reaped"}
        /\ child' = [st |-> child'.st, status |-> child'.status]
        /\ waiter' \in WaiterStates /\ driver' \in DriverStates /\ late' \in BOOLEAN
    <3>1. child' = [st |-> "none", status |-> <<"none", 0>>] BY DEF Idle, NoChild
    <3>2. waiter' = "none" /\ driver' = "idle" /\ late' = FALSE BY DEF Idle
    <3>3. QED BY <3>1, <3>2 DEF WaiterStates, DriverStates
  <2>2. QED BY <2>1 DEF TestTypes, Todo
<1>4. QED BY <1>2, <1>3

\* A child that was started runs, with a thread if there is a limit.
LEMMA Starts ==
    ASSUME TestInv, Spawn, UNCHANGED <<plan, autoReap, at, todo, verdict, ok, exit>>,
           exit = -1, Started
    PROVE  TestInv'
<1>1. child' = [st |-> "running", status |-> NoChild.status] BY DEF Spawn, NoChild
<1>2. \/ driver' = "timed wait" /\ waiter' = "waiting"
      \/ driver' = "untimed wait" /\ waiter' = "none"
  BY DEF Spawn
<1>3. late' = FALSE BY DEF Spawn
<1>4. Started' <=> Started BY DEF Started, Target, Case
<1>5. Wait' BY <1>1, <1>2, <1>3, <1>4 DEF Wait, Waitable
<1>6. TestTypes'
  <2>1. TestTypes /\ late' \in BOOLEAN BY <1>3 DEF TestInv
  <2>2. waiter' \in WaiterStates /\ driver' \in DriverStates
    BY <1>2 DEF WaiterStates, DriverStates
  <2>3. /\ child'.st \in {"none", "running", "zombie", "reaped"}
        /\ child' = [st |-> child'.st, status |-> child'.status]
    BY <1>1
  <2>4. QED BY <2>1, <2>2, <2>3 DEF TestTypes
<1>7. QED BY <1>5, <1>6, GreenKept DEF TestInv

\* The next case is reached with the cases before it as they were found.
LEMMA CaseDone ==
    ASSUME TestTypes, SoFar, todo.do = "case", todo.n \in DOMAIN Target.cases,
           UNCHANGED <<plan, at, ok, exit>>, todo' = NextCase,
           verdict' => verdict /\ Holds(Case)
    PROVE  SoFar' /\ todo' \in Todo
<1>1. /\ todo' = [do |-> "case", n |-> todo.n + 1] /\ todo.n \in Nat /\ Target' = Target
  BY DEF NextCase, TestTypes, Target
<1>2. Target.loads /\ todo.n + 1 \in 1 .. Len(Target.cases) + 1
  BY PlanTyped DEF SoFar
<1>3. ASSUME verdict' PROVE OrdinaryEarned(Target) /\ CasesEarned(Target, todo.n + 1)
  <2>1. OrdinaryEarned(Target) /\ CasesEarned(Target, todo.n) BY <1>3 DEF SoFar
  <2>2. ASSUME NEW k \in DOMAIN Target.cases, k < todo.n + 1 PROVE Holds(Target.cases[k])
    <3>1. k < todo.n \/ k = todo.n BY <1>1, <2>2, PlanTyped
    <3>2. QED BY <1>3, <2>1, <3>1 DEF CasesEarned, Case
  <2>3. QED BY <2>1, <2>2 DEF CasesEarned
<1>4. SoFar' BY <1>1, <1>2, <1>3 DEF SoFar
<1>5. QED BY <1>1, <1>4 DEF Todo

\* The graph and the tests of a target (BuildTargetGraph, DiscoverTargetTests).
LEMMA TargetLoads == ASSUME TestInv, LoadTarget PROVE TestInv'
<1>t. TestTypes /\ SoFar /\ Wait BY DEF TestInv
<1>i. Idle' /\ UNCHANGED <<plan, autoReap>>
  <2>1. driver = "idle" BY <1>t DEF LoadTarget, Wait, Started
  <2>2. QED BY <2>1, IdleKept DEF LoadTarget
<1>1. CASE ~Target.loads
  <2>1. exit' = 1 /\ UNCHANGED <<at, todo, verdict, ok>> BY <1>1 DEF LoadTarget, Finish
  <2>2. TestTypes' /\ Wait' BY <1>t, <1>i, <2>1, Rests DEF TestTypes, Todo
  <2>3. SoFar' BY <1>t, <1>i, <2>1 DEF SoFar, Target
  <2>4. QED BY <2>2, <2>3 DEF TestInv
<1>2. CASE Target.loads
  <2>1. /\ \/ todo' = [do |-> "ordinary", n |-> 0]
           \/ todo' = [do |-> "case", n |-> 1] /\ Target.ordinary = <<>>
        /\ verdict' = TRUE /\ UNCHANGED <<at, ok, exit>> /\ Target' = Target
    BY <1>2 DEF LoadTarget, AfterOrdinary, Target
  <2>2. todo' \in Todo BY <2>1 DEF Todo
  <2>3. TestTypes' /\ Wait' BY <1>t, <1>i, <2>1, <2>2, Rests DEF TestTypes
  <2>4. ASSUME todo'.do = "case" PROVE OrdinaryEarned(Target) /\ CasesEarned(Target, 1)
    <3>1. Target.ordinary = <<>> BY <2>1, <2>4
    <3>2. OrdinaryEarned(Target) BY <3>1 DEF OrdinaryEarned
    <3>3. \A k \in DOMAIN Target.cases : ~(k < 1) BY <1>t, PlanTyped
    <3>4. QED BY <3>2, <3>3 DEF CasesEarned
  <2>5. Len(Target.cases) \in Nat BY <1>t, PlanTyped
  <2>6. SoFar' BY <1>t, <1>i, <1>2, <2>1, <2>4, <2>5 DEF SoFar
  <2>7. QED BY <2>3, <2>6 DEF TestInv
<1>3. QED BY <1>1, <1>2

\* After the ordinary tests the first case follows, green only if they were.
LEMMA OrdinaryDone ==
    ASSUME TestTypes, SoFar, todo.do = "ordinary", UNCHANGED <<plan, at, ok, exit>>,
           todo' = AfterOrdinary, verdict' => OrdinaryEarned(Target)
    PROVE  SoFar' /\ todo' \in Todo
<1>1. todo' = [do |-> "case", n |-> 1] /\ Target' = Target BY DEF AfterOrdinary, Target
<1>2. Target.loads /\ Len(Target.cases) \in Nat BY PlanTyped DEF SoFar
<1>3. CasesEarned(Target, 1)
  <2>1. \A k \in DOMAIN Target.cases : ~(k < 1) BY PlanTyped
  <2>2. QED BY <2>1 DEF CasesEarned
<1>4. SoFar' BY <1>1, <1>2, <1>3 DEF SoFar
<1>5. QED BY <1>1, <1>4 DEF Todo

\* The runner is built and started, or not (RunOrdinaryTestsForTarget).
LEMMA OrdinaryStarts == ASSUME TestInv, RunOrdinaryTests PROVE TestInv'
<1>t. TestTypes /\ SoFar /\ Wait BY DEF TestInv
<1>u. /\ exit = -1 /\ todo.do = "ordinary" /\ driver = "idle"
      /\ UNCHANGED <<plan, autoReap, at, ok, exit>>
  BY DEF RunOrdinaryTests
<1>1. CASE verdict' = FALSE /\ todo' = AfterOrdinary /\ UNCHANGED childVars
  <2>1. Idle' BY <1>u, <1>1, IdleKept
  <2>2. SoFar' /\ todo' \in Todo BY <1>t, <1>u, <1>1, OrdinaryDone
  <2>3. TestTypes' /\ Wait' BY <1>t, <1>u, <1>1, <2>1, <2>2, Rests DEF TestTypes
  <2>4. QED BY <2>2, <2>3 DEF TestInv
<1>2. CASE Target.builds /\ Spawn /\ UNCHANGED <<todo, verdict>>
  BY <1>u, <1>2, Starts DEF Started
<1>3. QED BY <1>1, <1>2 DEF RunOrdinaryTests

\* The runner has ended: green only if it ran and every test returned nil.
LEMMA OrdinaryEnds == ASSUME TestInv, OrdinaryTestsEnd PROVE TestInv'
<1>t. TestTypes /\ SoFar /\ Wait BY DEF TestInv
<1>u. /\ todo.do = "ordinary" /\ WaitIsOver /\ EndWait
      /\ verdict' = OrdinaryPassed(Captured) /\ todo' = AfterOrdinary
      /\ UNCHANGED <<plan, autoReap, at, ok, exit>>
  BY DEF OrdinaryTestsEnd
<1>1. Idle' BY <1>u, Returned
<1>2. ASSUME verdict' PROVE OrdinaryEarned(Target)
  <2>1. Captured.exited /\ Captured.code = 0 BY <1>u, <1>2 DEF OrdinaryPassed
  <2>2. Exited(0) \in ChildEnds BY <1>u, <2>1, CapturedFits
  <2>3. Exited(0) \in RunnerEnds(Target.ordinary)
    BY <1>u, <2>2 DEF ChildEnds, Exited
  <2>4. Target.builds BY <1>t, <1>u DEF Wait, WaitIsOver, Started
  <2>5. QED BY <2>3, <2>4, RunnerGreen DEF OrdinaryEarned
<1>3. SoFar' /\ todo' \in Todo BY <1>t, <1>u, <1>2, OrdinaryDone
<1>4. verdict' \in BOOLEAN BY <1>u DEF OrdinaryPassed
<1>5. TestTypes' /\ Wait' BY <1>t, <1>u, <1>1, <1>3, <1>4, Rests DEF TestTypes
<1>6. QED BY <1>3, <1>5 DEF TestInv

\* A compiler regression case is evaluated or its program started
\* (RunCompilerRegressionCases).
LEMMA CaseStarts == ASSUME TestInv, RunRegressionCase PROVE TestInv'
<1>t. TestTypes /\ SoFar /\ Wait BY DEF TestInv
<1>u. /\ exit = -1 /\ todo.do = "case" /\ todo.n <= Len(Target.cases) /\ driver = "idle"
      /\ UNCHANGED <<plan, autoReap, at, ok, exit>>
  BY DEF RunRegressionCase
<1>n. todo.n \in DOMAIN Target.cases BY <1>t, <1>u, PlanTyped DEF SoFar
<1>c. Case \in CaseType BY <1>t, <1>n, PlanTyped
<1>1. ASSUME todo' = NextCase, UNCHANGED childVars, verdict' \in BOOLEAN,
             verdict' => verdict /\ Holds(Case)
      PROVE  TestInv'
  <2>1. Idle' BY <1>u, <1>1, IdleKept
  <2>2. SoFar' /\ todo' \in Todo BY <1>t, <1>u, <1>n, <1>1, CaseDone
  <2>3. TestTypes' /\ Wait' BY <1>t, <1>u, <1>1, <2>1, <2>2, Rests DEF TestTypes
  <2>4. QED BY <2>2, <2>3 DEF TestInv
<1>2. CASE Case.kind # "run-output"
  <2>1. verdict' = (verdict /\ EvaluateCase(Case)) /\ todo' = NextCase /\ UNCHANGED childVars
    BY <1>2 DEF RunRegressionCase
  <2>2. EvaluateCase(Case) => Holds(Case)
    BY <1>c, <1>2 DEF EvaluateCase, EvaluateCheckFailCase, EvaluateMirCase, Holds, CaseType
  <2>3. verdict' \in BOOLEAN /\ (verdict' => verdict /\ Holds(Case)) BY <2>1, <2>2
  <2>4. QED BY <1>1, <2>1, <2>3
<1>3. CASE Case.compiles /\ Case.expectation = "present" /\ Case.kind = "run-output"
           /\ Spawn /\ UNCHANGED <<verdict, todo>>
  BY <1>u, <1>n, <1>3, Starts DEF Started
<1>4. CASE /\ Case.compiles /\ Case.expectation = "present" /\ Case.kind = "run-output"
           /\ \E same \in Compared(Case, Captured) :
                 verdict' = (verdict /\ EvaluateRunOutput(Case, Captured, same))
           /\ todo' = NextCase /\ UNCHANGED childVars
  <2>1. PICK same : verdict' = (verdict /\ EvaluateRunOutput(Case, Captured, same)) BY <1>4
  <2>2. Captured.code = 127 BY <1>t, <1>u DEF Wait, NoChild, Captured
  <2>3. EvaluateRunOutput(Case, Captured, same) => Holds(Case)
    BY <1>4, <2>2 DEF EvaluateRunOutput, Holds
  <2>4. verdict' \in BOOLEAN /\ (verdict' => verdict /\ Holds(Case)) BY <2>1, <2>3
  <2>5. QED BY <1>1, <1>4, <2>4
<1>5. CASE verdict' = FALSE /\ todo' = NextCase /\ UNCHANGED childVars BY <1>1, <1>5
<1>6. QED BY <1>2, <1>3, <1>4, <1>5 DEF RunRegressionCase

\* The program of a case has ended: green only if it ended as expected.
LEMMA CaseEnds == ASSUME TestInv, RegressionCaseEnds PROVE TestInv'
<1>t. TestTypes /\ SoFar /\ Wait BY DEF TestInv
<1>u. /\ todo.do = "case" /\ WaitIsOver /\ EndWait /\ todo' = NextCase
      /\ UNCHANGED <<plan, autoReap, at, ok, exit>>
  BY DEF RegressionCaseEnds
<1>i. Idle' BY <1>u, Returned
<1>1. /\ todo.n \in DOMAIN Target.cases /\ Case.kind = "run-output"
      /\ Case.compiles /\ Case.expectation = "present"
  BY <1>t, <1>u DEF Wait, WaitIsOver, Started
<1>2. PICK same \in Compared(Case, Captured) :
         verdict' = (verdict /\ EvaluateRunOutput(Case, Captured, same))
  BY DEF RegressionCaseEnds
<1>3. ASSUME EvaluateRunOutput(Case, Captured, same), Case.code # 127
      PROVE  Case.matches /\ Case.run = Exited(Case.code)
  <2>1. Captured.exited /\ Captured.code = Case.code /\ same
    BY <1>3 DEF EvaluateRunOutput
  <2>2. same = Case.matches BY <1>2, <1>3, <2>1 DEF Compared
  <2>3. Exited(Case.code) \in ChildEnds BY <1>u, <1>3, <2>1, CapturedFits
  <2>4. ChildEnds = {Exited(127)} \cup ProgramEnds(Case) BY <1>u DEF ChildEnds
  <2>5. Exited(Case.code) # Exited(127) BY <1>3 DEF Exited
  <2>6. Case.run = Exited(Case.code) BY <2>3, <2>4, <2>5 DEF ProgramEnds
  <2>7. QED BY <2>1, <2>2, <2>6
<1>4. EvaluateRunOutput(Case, Captured, same) => Holds(Case) BY <1>1, <1>3 DEF Holds
<1>5. verdict' \in BOOLEAN /\ (verdict' => verdict /\ Holds(Case)) BY <1>2, <1>4
<1>6. SoFar' /\ todo' \in Todo BY <1>t, <1>u, <1>1, <1>5, CaseDone
<1>7. TestTypes' /\ Wait' BY <1>t, <1>u, <1>i, <1>5, <1>6, Rests DEF TestTypes
<1>8. QED BY <1>6, <1>7 DEF TestInv

\* The verdict of a target is added to that of the command (RunTestCommand).
LEMMA TargetDone == ASSUME TestInv, FinishTarget PROVE TestInv'
<1>t. TestTypes /\ SoFar /\ Wait BY DEF TestInv
<1>u. /\ exit = -1 /\ todo.do = "case" /\ todo.n > Len(Target.cases) /\ driver = "idle"
      /\ ok' = (ok /\ verdict) /\ UNCHANGED <<plan, autoReap, verdict, childVars>>
  BY DEF FinishTarget
<1>p. /\ DOMAIN plan = 1 .. Len(plan) /\ Len(plan) \in Nat /\ at \in 1 .. Len(plan)
      /\ DOMAIN Target.cases = 1 .. Len(Target.cases) /\ Len(Target.cases) \in Nat
  BY <1>t, PlanTyped
<1>i. Idle' BY <1>u, IdleKept
<1>1. verdict => Earned(Target)
  <2>1. \A k \in DOMAIN Target.cases : k < todo.n BY <1>t, <1>u, <1>p DEF SoFar
  <2>2. QED BY <1>t, <1>u, <2>1 DEF SoFar, CasesEarned, Earned
<1>2. ok' \in BOOLEAN /\ (ok' => \A i \in 1 .. at : Earned(plan[i]))
  <2>1. ok' => ok /\ verdict BY <1>u
  <2>2. ok' => \A i \in 1 .. at - 1 : Earned(plan[i]) BY <1>t, <1>u, <2>1 DEF SoFar
  <2>3. ok' => Earned(plan[at]) BY <1>1, <2>1 DEF Target
  <2>4. QED BY <1>u, <1>p, <2>2, <2>3
<1>3. CASE at = Len(plan)
  <2>1. /\ UNCHANGED <<at, todo>> /\ exit' \in {0, 1} /\ (exit' = 0 => ok')
    BY <1>3 DEF FinishTarget
  <2>2. TestTypes' /\ Wait' BY <1>t, <1>u, <1>i, <1>2, <2>1, Rests DEF TestTypes, Todo
  <2>3. Target' = Target BY <1>u, <2>1 DEF Target
  <2>4. SoFar' BY <1>t, <1>u, <1>p, <1>2, <1>3, <2>1, <2>3 DEF SoFar
  <2>5. QED BY <2>2, <2>4 DEF TestInv
<1>4. CASE at # Len(plan)
  <2>1. at' = at + 1 /\ todo' = Start /\ exit' = exit BY <1>4 DEF FinishTarget
  <2>2. at' \in DOMAIN plan /\ at' - 1 = at BY <1>p, <1>4, <2>1
  <2>3. TestTypes' /\ Wait'
    BY <1>t, <1>u, <1>i, <1>2, <2>1, <2>2, Rests DEF TestTypes, Todo, Start
  <2>4. todo'.do = "graph" BY <2>1 DEF Start
  <2>5. SoFar' BY <1>t, <1>u, <1>2, <2>1, <2>2, <2>4 DEF SoFar
  <2>6. QED BY <2>3, <2>5 DEF TestInv
<1>5. QED BY <1>3, <1>4

\* Every step keeps the invariant.
LEMMA TestStep == TestInv /\ [Next]_testVars => TestInv'
<1> SUFFICES ASSUME TestInv, [Next]_testVars PROVE TestInv' OBVIOUS
<1>1. CASE Next
  BY <1>1, TargetLoads, OrdinaryStarts, OrdinaryEnds, CaseStarts, CaseEnds, TargetDone,
     ChildMoves DEF Next, DriverStep
<1>2. CASE UNCHANGED testVars
  <2>1. TestTypes' BY <1>2 DEF TestInv, TestTypes, testVars, childVars
  <2>2. SoFar' BY <1>2, GreenKept DEF TestInv, testVars
  <2>3. Started' <=> Started BY <1>2 DEF Started, Target, Case, testVars
  <2>4. ChildEnds' = ChildEnds BY <1>2 DEF ChildEnds, Target, Case, testVars
  <2>5. autoReap' <=> autoReap
    <3>1. autoReap' = autoReap BY <1>2 DEF testVars
    <3>2. QED BY <3>1, Zenon
  <2>6. Wait' BY <1>2, <2>3, <2>4, <2>5 DEF TestInv, Wait, Waitable, testVars, childVars
  <2>7. QED BY <2>1, <2>2, <2>6 DEF TestInv
<1>3. QED BY <1>1, <1>2
-----------------------------------------------------------------------------
(* What mc test promises.                                                  *)

\* A green exit is earned (RunTestCommand): for every plan of targets, tests
\* and cases, with any limits and ends of the children.
THEOREM GreenEarned == TestSpec => []GreenIsEarned
<1>1. TestInv => GreenIsEarned
  BY DEF TestInv, SoFar, GreenIsEarned, Earned, OrdinaryEarned
<1>2. QED BY <1>1, TestStart, TestStep, PTL DEF TestSpec

\* A child is judged by its own end, a timeout is one (WaitForChildProcess),
\* however the child, the thread and the deadline race.
THEOREM ChildrenJudged == TestSpec => []VerdictFitsTheChild
<1>1. TestInv => VerdictFitsTheChild BY CapturedFits DEF VerdictFitsTheChild
<1>2. QED BY <1>1, TestStart, TestStep, PTL DEF TestSpec

\* Neither a child nor a thread outlives the call that started it
\* (WaitForChildProcess), even if the kernel reaps children by itself.
THEOREM NothingLeft == TestSpec => []NothingIsLeftBehind
<1>1. TestInv => NothingIsLeftBehind BY DEF TestInv, Wait, NothingIsLeftBehind, NoChild
<1>2. QED BY <1>1, TestStart, TestStep, PTL DEF TestSpec
-----------------------------------------------------------------------------
\* A set of counterexamples has a least one.
LEMMA LeastOne ==
    ASSUME NEW T, T \subseteq Nat, T # {}
    PROVE  \E x \in T : \A y \in T : x <= y
<1> DEFINE R == OpToRel(<, Nat)
<1>1. PICK x \in T : \A y \in T : ~(<<y, x>> \in R)
  <2> HIDE DEF R
  <2>1. IsWellFoundedOn(R, Nat) BY NatLessThanWellFounded DEF R
  <2>2. QED BY <2>1, WFMin
<1>2. \A y \in T : ~(y < x) BY <1>1 DEF OpToRel
<1>3. QED BY <1>2
-----------------------------------------------------------------------------
(* The loop of poller_wait.                                                *)

Entry == [fd : Files, events : Interests]
EventType == [file : Files, readable : BOOLEAN, writable : BOOLEAN, failed : BOOLEAN]

\* The array is what the program registered: no file twice.
Registered ==
    /\ entries \in Seq(Entry)
    /\ \A i, j \in 1 .. Len(entries) : entries[i].fd = entries[j].fd => i = j
    /\ DOMAIN registered = {entries[i].fd : i \in 1 .. Len(entries)}
    /\ \A i \in 1 .. Len(entries) : registered[entries[i].fd] = entries[i].events

Ready(world, i) == Revents(world, entries[i]) # {}

\* What the loop has emitted after the first n entries.
Emitted(world, capacity, s, n) ==
    /\ s \in Seq(EventType) /\ Len(s) <= capacity
    /\ \A k \in 1 .. Len(s) : \E i \in 1 .. n : Ready(world, i) /\ s[k].file = entries[i].fd
    /\ \A k, l \in 1 .. Len(s) : s[k].file = s[l].file => k = l
    /\ Len(s) < capacity =>
          \A i \in 1 .. n : Ready(world, i) => \E k \in 1 .. Len(s) : s[k].file = entries[i].fd

\* One turn of the loop looks at one more entry.
LEMMA EmitNext ==
    ASSUME Registered, NEW world, NEW capacity \in Nat, NEW n \in 1 .. Len(entries),
           NEW s, Emitted(world, capacity, s, n - 1)
    PROVE  Emitted(world, capacity, Emit(world, capacity, s, entries[n]), n)
<1> DEFINE e == entries[n]
           q == Emit(world, capacity, s, e)
<1>n. n \in Nat /\ n - 1 \in Nat /\ Len(entries) \in Nat /\ e \in Entry BY DEF Registered
<1>s. s \in Seq(EventType) /\ Len(s) \in Nat /\ Len(s) <= capacity BY DEF Emitted
<1>p. \A i \in 1 .. n - 1 : i \in 1 .. n /\ i \in 1 .. Len(entries) /\ entries[i].fd # e.fd
  BY <1>n DEF Registered
<1>o. \A i \in 1 .. n : i \in 1 .. n - 1 \/ i = n BY <1>n
<1>1. CASE Len(s) < capacity /\ Ready(world, n)
  <2> DEFINE v == Event(world, e)
  <2>1. q = Append(s, v) BY <1>1 DEF Emit, Ready
  <2>2. v \in EventType /\ v.file = e.fd
    BY <1>n DEF Event, EventType, Entry
  <2> HIDE DEF v
  <2>3. /\ q \in Seq(EventType) /\ Len(q) = Len(s) + 1
        /\ \A k \in 1 .. Len(s) : q[k] = s[k]
        /\ q[Len(s) + 1] = v
    BY <1>s, <2>1, <2>2
  <2> HIDE DEF q
  <2>4. \A k \in 1 .. Len(q) : k \in 1 .. Len(s) \/ k = Len(s) + 1 BY <1>s, <2>3
  <2>5. ASSUME NEW k \in 1 .. Len(q)
        PROVE  \E i \in 1 .. n : Ready(world, i) /\ q[k].file = entries[i].fd
    <3>1. CASE k \in 1 .. Len(s)
      <4>1. PICK i \in 1 .. n - 1 : Ready(world, i) /\ s[k].file = entries[i].fd
        BY <3>1 DEF Emitted
      <4>2. QED BY <1>p, <2>3, <3>1, <4>1
    <3>2. CASE k = Len(s) + 1 BY <1>n, <1>1, <2>2, <2>3, <3>2
    <3>3. QED BY <2>4, <3>1, <3>2
  <2>6. \A k \in 1 .. Len(s) : q[k].file # v.file
    <3> SUFFICES ASSUME NEW k \in 1 .. Len(s) PROVE q[k].file # v.file OBVIOUS
    <3>1. PICK i \in 1 .. n - 1 : s[k].file = entries[i].fd BY DEF Emitted
    <3>2. QED BY <1>p, <2>2, <2>3, <3>1
  <2>7. ASSUME NEW k \in 1 .. Len(q), NEW l \in 1 .. Len(q), q[k].file = q[l].file
        PROVE  k = l
    <3>1. CASE k \in 1 .. Len(s) /\ l \in 1 .. Len(s) BY <2>3, <2>7, <3>1 DEF Emitted
    <3>2. CASE k = Len(s) + 1 \/ l = Len(s) + 1 BY <2>3, <2>4, <2>6, <2>7, <3>2
    <3>3. QED BY <2>4, <3>1, <3>2
  <2>8. ASSUME NEW i \in 1 .. n, Ready(world, i)
        PROVE  \E k \in 1 .. Len(q) : q[k].file = entries[i].fd
    <3>1. CASE i = n
      <4>1. Len(s) + 1 \in 1 .. Len(q) BY <1>s, <2>3
      <4>2. QED BY <2>2, <2>3, <3>1, <4>1
    <3>2. CASE i \in 1 .. n - 1
      <4>1. PICK k \in 1 .. Len(s) : s[k].file = entries[i].fd
        BY <1>1, <2>8, <3>2 DEF Emitted
      <4>2. k \in 1 .. Len(q) BY <1>s, <2>3
      <4>3. QED BY <2>3, <4>1, <4>2
    <3>3. QED BY <1>o, <3>1, <3>2
  <2>9. Len(q) <= capacity BY <1>s, <1>1, <2>3
  <2>10. Emitted(world, capacity, q, n) BY <2>3, <2>5, <2>7, <2>8, <2>9 DEF Emitted
  <2>11. QED BY <2>10 DEF q
<1>2. CASE ~(Len(s) < capacity /\ Ready(world, n))
  <2>1. q = s BY <1>2 DEF Emit, Ready
  <2>2. \A k \in 1 .. Len(s) : \E i \in 1 .. n : Ready(world, i) /\ s[k].file = entries[i].fd
    BY <1>p DEF Emitted
  <2>3. Len(s) < capacity =>
           \A i \in 1 .. n : Ready(world, i) => \E k \in 1 .. Len(s) : s[k].file = entries[i].fd
    BY <1>o, <1>2 DEF Emitted
  <2>4. Emitted(world, capacity, s, n) BY <2>2, <2>3 DEF Emitted
  <2>5. QED BY <2>1, <2>4
<1>3. QED BY <1>1, <1>2

\* The loop as a function of the number of entries it has looked at.
Turns(world, capacity, f, n) ==
    f = [m \in 0 .. n |-> IF m = 0 THEN <<>> ELSE Emit(world, capacity, f[m - 1], entries[m])]

\* It is defined, whatever the entries are.
LEMMA LoopRuns ==
    ASSUME NEW world, NEW capacity, NEW n \in Nat
    PROVE  \E f : Turns(world, capacity, f, n)
<1> DEFINE T == {k \in Nat : ~ \E f : Turns(world, capacity, f, k)}
<1> SUFFICES T = {} OBVIOUS
<1> SUFFICES ASSUME T # {} PROVE FALSE OBVIOUS
<1>1. PICK k \in T : \A y \in T : k <= y
  <2>1. T \subseteq Nat OBVIOUS
  <2> HIDE DEF T
  <2>2. QED BY <2>1, LeastOne
<1>2. k \in Nat /\ ~ \E f : Turns(world, capacity, f, k) BY <1>1
<1>3. k # 0
  <2>1. Turns(world, capacity, [m \in {0} |-> <<>>], 0) BY DEF Turns
  <2>2. QED BY <1>2, <2>1
<1>4. k - 1 \in Nat /\ ~(k <= k - 1) BY <1>2, <1>3
<1>5. k - 1 \notin T BY <1>1, <1>4
<1>6. PICK f : Turns(world, capacity, f, k - 1) BY <1>4, <1>5
<1> HIDE DEF T
<1> DEFINE last == Emit(world, capacity, f[k - 1], entries[k])
           g == [m \in 0 .. k |-> IF m = k THEN last ELSE f[m]]
<1>7. \A m \in 0 .. k - 1 :
         f[m] = IF m = 0 THEN <<>> ELSE Emit(world, capacity, f[m - 1], entries[m])
  BY <1>6 DEF Turns
<1>g. \A m \in 0 .. k : g[m] = IF m = k THEN last ELSE f[m] OBVIOUS
<1>8. \A m \in 0 .. k :
         g[m] = IF m = 0 THEN <<>> ELSE Emit(world, capacity, g[m - 1], entries[m])
  <2> SUFFICES ASSUME NEW m \in 0 .. k
               PROVE  g[m] = IF m = 0 THEN <<>>
                             ELSE Emit(world, capacity, g[m - 1], entries[m])
    OBVIOUS
  <2> HIDE DEF g
  <2>1. CASE m = k
    <3>1. k - 1 \in 0 .. k /\ k - 1 # k BY <1>2, <1>4
    <3>2. g[m - 1] = f[k - 1] BY <1>g, <2>1, <3>1
    <3>3. g[m] = last BY <1>g, <2>1
    <3>4. QED BY <1>3, <2>1, <3>2, <3>3
  <2>2. CASE m # k
    <3>1. m \in 0 .. k - 1 BY <1>2, <2>2
    <3>2. g[m] = f[m] BY <1>g, <2>2
    <3>3. m # 0 => m - 1 \in 0 .. k /\ m - 1 # k /\ g[m - 1] = f[m - 1]
      BY <1>g, <1>2, <3>1
    <3>4. QED BY <1>7, <3>1, <3>2, <3>3
  <2>3. QED BY <2>1, <2>2
<1>9. Turns(world, capacity, g, k)
  <2>1. g = [m \in 0 .. k |-> g[m]] OBVIOUS
  <2> HIDE DEF g
  <2>2. QED BY <1>8, <2>1 DEF Turns
<1>10. QED BY <1>2, <1>9

\* What poller_wait reports.
LEMMA ReportFits ==
    ASSUME Registered, NEW world, NEW capacity \in Nat
    PROVE  Emitted(world, capacity, Report(world, capacity), Len(entries))
<1> DEFINE N == Len(entries)
           f == CHOOSE f : Turns(world, capacity, f, N)
<1>n. N \in Nat BY DEF Registered
<1>1. Turns(world, capacity, f, N) BY <1>n, LoopRuns
<1>2. Report(world, capacity) = f[N] BY DEF Report, Turns
<1> HIDE DEF f
<1>3. \A m \in 0 .. N :
         f[m] = IF m = 0 THEN <<>> ELSE Emit(world, capacity, f[m - 1], entries[m])
  BY <1>1 DEF Turns
<1> DEFINE T == {m \in 0 .. N : ~ Emitted(world, capacity, f[m], m)}
<1>4. T = {}
  <2> SUFFICES ASSUME T # {} PROVE FALSE OBVIOUS
  <2>1. PICK m \in T : \A y \in T : m <= y
    <3>1. T \subseteq Nat BY <1>n
    <3> HIDE DEF T
    <3>2. QED BY <3>1, LeastOne
  <2>2. m \in 0 .. N /\ m \in Nat /\ ~ Emitted(world, capacity, f[m], m) BY <1>n, <2>1
  <2>3. m # 0
    <3>1. Emitted(world, capacity, <<>>, 0) BY DEF Emitted
    <3>2. 0 \in 0 .. N /\ f[0] = <<>> BY <1>n, <1>3
    <3>3. QED BY <2>2, <3>1, <3>2
  <2>4. m \in 1 .. N /\ m - 1 \in 0 .. N /\ ~(m <= m - 1) BY <1>n, <2>2, <2>3
  <2>5. Emitted(world, capacity, f[m - 1], m - 1) BY <2>1, <2>4
  <2>6. Emitted(world, capacity, Emit(world, capacity, f[m - 1], entries[m]), m)
    BY <2>4, <2>5, EmitNext
  <2>7. QED BY <1>3, <2>2, <2>3, <2>6
<1>5. N \in 0 .. N BY <1>n
<1>6. QED BY <1>2, <1>4, <1>5

\* As many events as files with one, and all of them if there is room.
LEMMA WaitIsDue ==
    ASSUME Registered, poller_wait
    PROVE  EventsAreDue'
<1> DEFINE N == Len(entries)
<1>n. N \in Nat /\ entries \in Seq(Entry) BY DEF Registered
<1>1. PICK world \in [Files -> States], capacity \in 0 .. MaxEvents :
         events' = [world |-> [f \in DOMAIN registered |-> world[f]], capacity |-> capacity,
                    asked |-> registered, got |-> Report(world, capacity)]
  BY DEF poller_wait
<1> DEFINE s == Report(world, capacity)
           asked == DOMAIN registered
           Due(f) == \/ world[f] \cap registered[f] # {}
                     \/ world[f] \cap {"hup", "err"} # {}
           due == {f \in asked : Due(f)}
           got == {s[i].file : i \in 1 .. Len(s)}
<1>c. capacity \in Nat BY TablesAssumption, <1>1
<1>2. Emitted(world, capacity, s, N) BY <1>c, ReportFits
<1> HIDE DEF s
<1>s. s \in Seq(EventType) /\ Len(s) \in Nat /\ DOMAIN s = 1 .. Len(s) /\ Len(s) <= capacity
  BY <1>2 DEF Emitted
<1>3. \A i \in 1 .. N : entries[i].fd \in asked /\ (Ready(world, i) <=> Due(entries[i].fd))
  BY DEF Registered, Ready, Revents
<1>4. \A f \in asked : \E i \in 1 .. N : f = entries[i].fd BY DEF Registered
<1> HIDE DEF Due
<1>5. got \subseteq due
  <2> SUFFICES ASSUME NEW k \in 1 .. Len(s) PROVE s[k].file \in due OBVIOUS
  <2>1. PICK i \in 1 .. N : Ready(world, i) /\ s[k].file = entries[i].fd BY <1>2 DEF Emitted
  <2>2. QED BY <1>3, <2>1
<1>6. Len(s) < capacity => due \subseteq got
  <2> SUFFICES ASSUME Len(s) < capacity, NEW f \in asked, Due(f) PROVE f \in got OBVIOUS
  <2>1. PICK i \in 1 .. N : f = entries[i].fd BY <1>4
  <2>2. Ready(world, i) BY <1>3, <2>1
  <2>3. PICK k \in 1 .. Len(s) : s[k].file = entries[i].fd BY <1>2, <2>2 DEF Emitted
  <2>4. QED BY <2>1, <2>3
<1>7. IsFiniteSet(asked) /\ IsFiniteSet(due)
  <2> DEFINE fd == [i \in 1 .. N |-> entries[i].fd]
  <2>1. fd \in Surjection(1 .. N, asked) BY <1>3, <1>4 DEF Surjection
  <2>2. IsFiniteSet(1 .. N) BY <1>n, FS_Interval
  <2> HIDE DEF fd
  <2>3. IsFiniteSet(asked) BY <2>1, <2>2, FS_Surjection
  <2>4. due \subseteq asked OBVIOUS
  <2>5. QED BY <2>3, <2>4, FS_Subset
<1>8. Cardinality(got) = Len(s)
  <2> DEFINE file == [i \in 1 .. Len(s) |-> s[i].file]
  <2>1. \A k, l \in 1 .. Len(s) : file[k] = file[l] => k = l BY <1>2 DEF Emitted
  <2>2. file \in Surjection(1 .. Len(s), got) BY DEF Surjection
  <2>3. file \in Injection(1 .. Len(s), got)
    BY <2>1, <2>2 DEF Surjection, Injection, IsInjective
  <2>4. \A m \in Nat : IsFiniteSet(1 .. m) /\ Cardinality(1 .. m) = m BY FS_Interval
  <2>5. IsFiniteSet(1 .. Len(s)) /\ Cardinality(1 .. Len(s)) = Len(s) BY <1>s, <2>4
  <2> HIDE DEF file, got
  <2>6. QED BY <2>2, <2>3, <2>5, FS_Surjection
<1>9. capacity >= Cardinality(due) => got = due
  <2> SUFFICES ASSUME capacity >= Cardinality(due), got # due PROVE FALSE OBVIOUS
  <2> HIDE DEF due, got
  <2>1. /\ Cardinality(got) <= Cardinality(due)
        /\ Cardinality(got) # Cardinality(due)
    BY <1>5, <1>7, FS_Subset
  <2>2. Cardinality(due) \in Nat BY <1>7, FS_CardinalityType
  <2>3. Len(s) < capacity BY <1>c, <1>s, <1>8, <2>1, <2>2
  <2>4. QED BY <1>5, <1>6, <2>3
<1>10. got = {} => due = {} \/ capacity = 0
  <2> SUFFICES ASSUME got = {}, capacity # 0 PROVE due = {} OBVIOUS
  <2>1. Len(s) = 0 BY <1>8, FS_EmptySet
  <2>2. QED BY <1>6, <1>c, <2>1
<1>11. /\ events'.world = [f \in asked |-> world[f]] /\ events'.capacity = capacity
       /\ events'.asked = registered /\ events'.got = s
  BY <1>1 DEF s
<1>12. due = {f \in DOMAIN events'.asked : \/ events'.world[f] \cap events'.asked[f] # {}
                                            \/ events'.world[f] \cap {"hup", "err"} # {}}
  BY <1>11 DEF Due
<1>13. got = {events'.got[i].file : i \in DOMAIN events'.got} BY <1>11, <1>s
<1> HIDE DEF due, got, asked
<1>14. QED BY <1>5, <1>8, <1>9, <1>10, <1>11, <1>12, <1>13 DEF EventsAreDue
-----------------------------------------------------------------------------
(* The poller.                                                             *)

\* A new file is registered at the end of the array.
LEMMA AddKeeps ==
    ASSUME Registered, poller_add
    PROVE  Registered' /\ EventsAreDue'
<1> DEFINE N == Len(entries)
<1>n. N \in Nat /\ entries \in Seq(Entry) /\ DOMAIN entries = 1 .. N BY DEF Registered
<1>1. PICK file \in Files, want \in Interests :
         /\ Find(file) = {}
         /\ entries' = Append(entries, [fd |-> file, events |-> want])
         /\ registered' = [f \in DOMAIN registered \cup {file} |->
                              IF f = file THEN want ELSE registered[f]]
  BY DEF poller_add
<1> DEFINE e == [fd |-> file, events |-> want]
<1>2. \A i \in 1 .. N : entries[i].fd # file BY <1>n, <1>1 DEF Find
<1>3. e \in Entry /\ e.fd = file /\ e.events = want BY DEF Entry
<1> HIDE DEF e
<1>4. /\ entries' \in Seq(Entry) /\ Len(entries') = N + 1
      /\ \A i \in 1 .. N : entries'[i] = entries[i]
      /\ entries'[N + 1] = e
  BY <1>n, <1>1, <1>3 DEF e
<1>5. \A i \in 1 .. Len(entries') : i \in 1 .. N \/ i = N + 1 BY <1>n, <1>4
<1>6. N + 1 \in 1 .. Len(entries') /\ \A i \in 1 .. N : i \in 1 .. Len(entries')
  BY <1>n, <1>4
<1>7. \A i, j \in 1 .. Len(entries') : entries'[i].fd = entries'[j].fd => i = j
  BY <1>2, <1>3, <1>4, <1>5 DEF Registered
<1>8. DOMAIN registered' = {entries'[i].fd : i \in 1 .. Len(entries')}
  <2>1. DOMAIN registered' = {entries[i].fd : i \in 1 .. N} \cup {file}
    BY <1>1 DEF Registered
  <2>2. QED BY <1>3, <1>4, <1>5, <1>6, <2>1
<1>9. \A i \in 1 .. Len(entries') : registered'[entries'[i].fd] = entries'[i].events
  <2>1. \A i \in 1 .. N : /\ entries[i].fd \in DOMAIN registered
                          /\ registered[entries[i].fd] = entries[i].events
    BY DEF Registered
  <2>2. QED BY <1>1, <1>2, <1>3, <1>4, <1>5, <2>1
<1>10. EventsAreDue' BY DEF poller_add, EventsAreDue
<1>11. QED BY <1>4, <1>7, <1>8, <1>9, <1>10 DEF Registered

\* The interests of a registered file change.
LEMMA SetKeeps ==
    ASSUME Registered, poller_set
    PROVE  Registered' /\ EventsAreDue'
<1> DEFINE N == Len(entries)
<1>n. N \in Nat /\ entries \in Seq(Entry) /\ DOMAIN entries = 1 .. N BY DEF Registered
<1>1. PICK file \in Files, want \in Interests : \E i \in Find(file) :
         /\ entries' = [entries EXCEPT ![i].events = want]
         /\ registered' = [registered EXCEPT ![file] = want]
  BY DEF poller_set
<1>2. PICK k \in 1 .. N :
         /\ entries[k].fd = file
         /\ entries' = [entries EXCEPT ![k].events = want]
         /\ registered' = [registered EXCEPT ![file] = want]
  BY <1>n, <1>1 DEF Find
<1>3. /\ entries' \in Seq(Entry) /\ Len(entries') = N
      /\ \A i \in 1 .. N : entries'[i].fd = entries[i].fd
      /\ \A i \in 1 .. N : entries'[i].events = IF i = k THEN want ELSE entries[i].events
  <2>1. \A i \in 1 .. N : entries[i] \in Entry BY <1>n
  <2>2. \A i \in 1 .. N : entries'[i] = IF i = k THEN [fd |-> file, events |-> want]
                                         ELSE entries[i]
    BY <1>n, <1>2, <2>1 DEF Entry
  <2>3. DOMAIN entries' = 1 .. N /\ entries' = [i \in 1 .. N |-> entries'[i]] BY <1>n, <1>2
  <2>4. \A i \in 1 .. N : entries'[i] \in Entry BY <2>1, <2>2 DEF Entry
  <2>5. entries' \in Seq(Entry) /\ Len(entries') = N BY <1>n, <2>3, <2>4
  <2>6. QED BY <1>2, <2>2, <2>5
<1>4. \A i \in 1 .. N : entries[i].fd = file => i = k BY <1>2 DEF Registered
<1>5. /\ DOMAIN registered' = DOMAIN registered
      /\ \A f \in DOMAIN registered : registered'[f] = IF f = file THEN want ELSE registered[f]
  BY <1>2
<1>6. DOMAIN registered' = {entries'[i].fd : i \in 1 .. N} BY <1>3, <1>5 DEF Registered
<1>7. \A i \in 1 .. N : registered'[entries'[i].fd] = entries'[i].events
  BY <1>2, <1>3, <1>4, <1>5 DEF Registered
<1>8. \A i, j \in 1 .. N : entries'[i].fd = entries'[j].fd => i = j
  BY <1>3 DEF Registered
<1>9. EventsAreDue' BY DEF poller_set, EventsAreDue
<1>10. QED BY <1>3, <1>6, <1>7, <1>8, <1>9 DEF Registered

\* What the removal of entry k leaves: the last entry fills the gap.
LEMMA Removed ==
    ASSUME entries \in Seq(Entry), NEW k \in 1 .. Len(entries), NEW s, s = Without(k)
    PROVE  /\ s \in Seq(Entry) /\ Len(s) = Len(entries) - 1
           /\ \A i \in 1 .. Len(s) : s[i] = IF i = k THEN entries[Len(entries)] ELSE entries[i]
<1> DEFINE N == Len(entries)
<1>n. /\ N \in Nat /\ N >= 1 /\ N = Len(entries) /\ k \in 1 .. N
      /\ DOMAIN entries = 1 .. N /\ \A i \in 1 .. N : entries[i] \in Entry
  OBVIOUS
<1> HIDE DEF N
<1>l. Last(entries) = entries[N] BY <1>n DEF Last
<1>1. s = [i \in 1 .. N - 1 |-> IF i = k THEN entries[N] ELSE entries[i]]
  <2>1. CASE k = N
    <3>1. s = [i \in 1 .. N - 1 |-> entries[i]] BY <1>n, <2>1 DEF Without, Front
    <3>2. \A i \in 1 .. N - 1 : i # k BY <1>n, <2>1
    <3>3. QED BY <3>1, <3>2
  <2>2. CASE k # N
    <3> DEFINE t == [entries EXCEPT ![k] = entries[N]]
    <3>1. /\ t \in Seq(Entry) /\ Len(t) = N
          /\ \A i \in 1 .. N : t[i] = IF i = k THEN entries[N] ELSE entries[i]
      BY <1>n
    <3>2. s = Front(t) BY <1>l, <1>n, <2>2 DEF Without
    <3> HIDE DEF t
    <3>3. s = [i \in 1 .. N - 1 |-> t[i]] BY <3>1, <3>2 DEF Front
    <3>4. \A i \in 1 .. N - 1 : i \in 1 .. N BY <1>n
    <3>5. QED BY <3>1, <3>3, <3>4
  <2>3. QED BY <2>1, <2>2
<1>2. N - 1 \in Nat /\ \A i \in 1 .. N - 1 : i \in 1 .. N BY <1>n
<1>3. s \in [1 .. N - 1 -> Entry] BY <1>n, <1>1, <1>2
<1>4. s \in Seq(Entry) /\ Len(s) = N - 1 BY <1>2, <1>3
<1>5. QED BY <1>n, <1>1, <1>4

\* A registration is withdrawn.
LEMMA RemoveKeeps ==
    ASSUME Registered, poller_remove
    PROVE  Registered' /\ EventsAreDue'
<1> DEFINE N == Len(entries)
<1>n. N \in Nat /\ entries \in Seq(Entry) /\ DOMAIN entries = 1 .. N BY DEF Registered
<1>1. PICK file \in DOMAIN registered :
         /\ IF Find(file) = {} THEN UNCHANGED entries
            ELSE LET i == CHOOSE i \in Find(file) : \A j \in Find(file) : i <= j
                 IN  entries' = Without(i)
         /\ registered' = [f \in DOMAIN registered \ {file} |-> registered[f]]
  BY DEF poller_remove
<1>r. /\ \A i, j \in 1 .. N : entries[i].fd = entries[j].fd => i = j
      /\ DOMAIN registered = {entries[i].fd : i \in 1 .. N}
      /\ \A i \in 1 .. N : registered[entries[i].fd] = entries[i].events
  BY DEF Registered
<1>l. N = Len(entries) OBVIOUS
<1> HIDE DEF N
<1>2. PICK k \in 1 .. N : entries[k].fd = file BY <1>r
<1>3. Find(file) = {k} BY <1>n, <1>r, <1>2 DEF Find
<1>4. entries' = Without(k)
  <2>1. k <= k BY <1>n
  <2>2. (CHOOSE i \in Find(file) : \A j \in Find(file) : i <= j) = k BY <1>3, <2>1
  <2>3. Find(file) # {} BY <1>3
  <2>4. QED BY <1>1, <2>2, <2>3
<1>5. /\ entries' \in Seq(Entry) /\ Len(entries') = N - 1
      /\ \A i \in 1 .. N - 1 : entries'[i] = IF i = k THEN entries[N] ELSE entries[i]
  <2>1. k \in 1 .. Len(entries) BY <1>l
  <2>2. /\ entries' \in Seq(Entry) /\ Len(entries') = Len(entries) - 1
        /\ \A i \in 1 .. Len(entries') :
              entries'[i] = IF i = k THEN entries[Len(entries)] ELSE entries[i]
    BY <1>n, <1>4, <2>1, Removed, ZenonT(30)
  <2>3. QED BY <1>l, <2>2
<1>6. \A i \in 1 .. N - 1 : i \in 1 .. N /\ i # N BY <1>n
<1>d. N \in 1 .. N BY <1>n
<1>7. \A i, j \in 1 .. N - 1 : entries'[i].fd = entries'[j].fd => i = j
  BY <1>5, <1>6, <1>d, <1>r
<1>8. \A i \in 1 .. N - 1 : entries'[i].fd \in DOMAIN registered /\ entries'[i].fd # file
  <2> SUFFICES ASSUME NEW i \in 1 .. N - 1
               PROVE  entries'[i].fd \in DOMAIN registered /\ entries'[i].fd # file
    OBVIOUS
  <2>1. CASE i = k
    <3>1. entries'[i] = entries[N] /\ N # k BY <1>5, <1>6, <2>1
    <3>2. QED BY <1>2, <1>d, <1>r, <3>1
  <2>2. CASE i # k
    <3>1. entries'[i] = entries[i] BY <1>5, <2>2
    <3>2. QED BY <1>2, <1>6, <1>r, <2>2, <3>1
  <2>3. QED BY <2>1, <2>2
<1>9. \A f \in DOMAIN registered \ {file} : \E i \in 1 .. N - 1 : f = entries'[i].fd
  <2> SUFFICES ASSUME NEW f \in DOMAIN registered \ {file}
               PROVE  \E i \in 1 .. N - 1 : f = entries'[i].fd
    OBVIOUS
  <2>1. PICK j \in 1 .. N : f = entries[j].fd BY <1>r
  <2>2. j # k BY <1>2, <2>1
  <2>3. CASE j = N
    <3>1. k \in 1 .. N - 1 BY <1>n, <2>2, <2>3
    <3>2. QED BY <1>5, <2>1, <2>3, <3>1
  <2>4. CASE j # N
    <3>1. j \in 1 .. N - 1 BY <1>n, <2>4
    <3>2. QED BY <1>5, <2>1, <2>2, <3>1
  <2>5. QED BY <2>3, <2>4
<1>10. DOMAIN registered' = DOMAIN registered \ {file} BY <1>1
<1>11. DOMAIN registered' = {entries'[i].fd : i \in 1 .. N - 1} BY <1>8, <1>9, <1>10
<1>12. \A i \in 1 .. N - 1 : registered'[entries'[i].fd] = entries'[i].events
  <2> SUFFICES ASSUME NEW i \in 1 .. N - 1
               PROVE  registered'[entries'[i].fd] = entries'[i].events
    OBVIOUS
  <2>1. registered'[entries'[i].fd] = registered[entries'[i].fd] BY <1>1, <1>8
  <2>2. CASE i = k
    <3>1. entries'[i] = entries[N] BY <1>5, <2>2
    <3>2. QED BY <1>d, <1>r, <2>1, <3>1
  <2>3. CASE i # k
    <3>1. entries'[i] = entries[i] /\ i \in 1 .. N BY <1>5, <1>6, <2>3
    <3>2. QED BY <1>r, <2>1, <3>1
  <2>4. QED BY <2>2, <2>3
<1>13. EventsAreDue' BY DEF poller_remove, EventsAreDue
<1>14. QED BY <1>5, <1>7, <1>11, <1>12, <1>13 DEF Registered
-----------------------------------------------------------------------------
(* The descriptors of a child.                                             *)

\* What the child of a pipe helper has open at exec, whatever the numbers of
\* the pipe ends are, if none is a standard descriptor (prepare_child_stdio).
LEMMA ChildPrepared ==
    ASSUME NEW p \in Pipes, NEW shape \in {"pipe", "merged", "split"},
           \A k \in DOMAIN p : p[k] > 2,
           NEW fds, fds = prepare_child_stdio(ParentTable(p), Request(shape, p))
    PROVE  /\ fds[0] = "inRead" /\ fds[1] = "outWrite"
           /\ shape = "merged" => fds[2] = "outWrite"
           /\ shape = "split" => fds[2] = "errWrite"
           /\ shape = "pipe" => fds[2] = "stderr"
           /\ \A f \in DOMAIN fds \ 0 .. 2 :
                 \/ fds[f] = "errRead"
                 \/ fds[f] = "errWrite" /\ shape # "split"
<1> DEFINE t == ParentTable(p)
           a == Request(shape, p)
<1>p. /\ DOMAIN p = PipeEnd /\ \A k \in PipeEnd : p[k] \in Nat /\ p[k] > 2
      /\ \A j, k \in PipeEnd : p[j] = p[k] => j = k
  BY TablesAssumption
<1>1. /\ DOMAIN t = (0 .. 2) \cup {p[k] : k \in PipeEnd}
      /\ \A k \in PipeEnd : t[p[k]] = k
      /\ t[2] = "stderr"
  <2>1. \A k \in PipeEnd : (CHOOSE j \in PipeEnd : p[j] = p[k]) = k BY <1>p
  <2>2. \A k \in PipeEnd : t[p[k]] = k BY <1>p, <2>1 DEF ParentTable
  <2>3. 2 \notin {p[k] : k \in PipeEnd} BY <1>p
  <2>4. t[2] = "stderr" BY <1>p, <2>3 DEF ParentTable, Standard
  <2>5. QED BY <1>p, <2>2, <2>4 DEF ParentTable
<1>2. /\ a.stdin = p["inRead"] /\ a.stdout = p["outWrite"]
      /\ a.close0 = p["inWrite"] /\ a.close1 = p["outRead"]
      /\ \/ shape = "pipe" /\ a.redirect = FALSE /\ a.stderr = -1
         \/ shape = "merged" /\ a.redirect = TRUE /\ a.stderr = p["outWrite"]
         \/ shape = "split" /\ a.redirect = TRUE /\ a.stderr = p["errWrite"]
  BY DEF Request
<1> HIDE DEF t, a
<1>e. /\ {"inRead", "inWrite", "outRead", "outWrite", "errRead", "errWrite"} \subseteq PipeEnd
      /\ \A k \in PipeEnd : p[k] # 0 /\ p[k] # 1 /\ p[k] # 2 /\ p[k] >= 0 /\ p[k] \notin 0 .. 2
  BY <1>p DEF PipeEnd
<1> DEFINE d1 == DupUnlessSame(t, a.stdin, 0)
           d2 == DupUnlessSame(d1, a.stdout, 1)
           d3 == IF a.redirect THEN DupUnlessSame(d2, a.stderr, 2) ELSE d2
           c1 == CloseIf(d3, a.close0, a.close0 \notin 0 .. 2)
           c2 == CloseIf(c1, a.close1, a.close1 \notin 0 .. 2 /\ a.close1 # a.close0)
           c3 == CloseIf(c2, a.stdin, /\ a.stdin \notin {0, 1}
                                      /\ ~a.redirect \/ a.stdin # 2)
           c4 == CloseIf(c3, a.stdout, /\ a.stdout # 1 /\ a.stdout # a.stdin
                                       /\ ~a.redirect \/ a.stdout # 2)
           c5 == CloseIf(c4, a.stderr, /\ a.redirect /\ a.stderr # 2
                                       /\ a.stderr # a.stdin /\ a.stderr # a.stdout)
<1>f. fds = c5 BY DEF prepare_child_stdio, t, a
<1>3. /\ DOMAIN d1 = DOMAIN t /\ d1[0] = "inRead" /\ d1[2] = "stderr"
      /\ \A k \in PipeEnd : d1[p[k]] = k
  BY <1>1, <1>2, <1>e DEF DupUnlessSame, Dup2
<1> HIDE DEF d1
<1>4. /\ DOMAIN d2 = DOMAIN t /\ d2[0] = "inRead" /\ d2[1] = "outWrite" /\ d2[2] = "stderr"
      /\ \A k \in PipeEnd : d2[p[k]] = k
  BY <1>1, <1>2, <1>3, <1>e DEF DupUnlessSame, Dup2
<1> HIDE DEF d2
<1>5. /\ DOMAIN d3 = DOMAIN t /\ d3[0] = "inRead" /\ d3[1] = "outWrite"
      /\ d3[2] = IF shape = "pipe" THEN "stderr"
                 ELSE IF shape = "merged" THEN "outWrite" ELSE "errWrite"
      /\ \A k \in PipeEnd : d3[p[k]] = k
  BY <1>1, <1>2, <1>4, <1>e DEF DupUnlessSame, Dup2
<1> HIDE DEF d3
<1>6. c1 = [f \in DOMAIN t \ {p["inWrite"]} |-> d3[f]]
  BY <1>2, <1>5, <1>e DEF CloseIf, Close
<1> HIDE DEF c1
<1>7. c2 = [f \in DOMAIN t \ {p["inWrite"], p["outRead"]} |-> d3[f]]
  BY <1>2, <1>p, <1>6, <1>e DEF CloseIf, Close
<1> HIDE DEF c2
<1>8. c3 = [f \in DOMAIN t \ {p["inWrite"], p["outRead"], p["inRead"]} |-> d3[f]]
  BY <1>2, <1>7, <1>e DEF CloseIf, Close
<1> HIDE DEF c3
<1>9. c4 = [f \in DOMAIN t \ {p["inWrite"], p["outRead"], p["inRead"], p["outWrite"]} |-> d3[f]]
  BY <1>2, <1>p, <1>8, <1>e DEF CloseIf, Close
<1> HIDE DEF c4
<1>10. /\ shape # "split" => c5 = c4
       /\ shape = "split" => c5 = [f \in DOMAIN c4 \ {p["errWrite"]} |-> c4[f]]
  BY <1>2, <1>p, <1>e DEF CloseIf, Close
<1> HIDE DEF c5
<1>11. ASSUME NEW f \in DOMAIN c5 \ 0 .. 2
       PROVE  c5[f] = "errRead" \/ (c5[f] = "errWrite" /\ shape # "split")
  <2>1. f \in DOMAIN c4 /\ c5[f] = c4[f] /\ (shape = "split" => f # p["errWrite"])
    BY <1>10, <1>11
  <2>2. PICK k \in PipeEnd : f = p[k] BY <1>1, <1>9, <1>11, <2>1
  <2>3. k \in {"errRead", "errWrite"} BY <1>9, <2>1, <2>2 DEF PipeEnd
  <2>4. c4[f] = k BY <1>5, <1>9, <2>1, <2>2
  <2>5. QED BY <2>1, <2>2, <2>3, <2>4
<1>12. \A f \in 0 .. 2 : f \in DOMAIN c5 /\ c5[f] = d3[f] BY <1>1, <1>9, <1>10, <1>e
<1>13. QED BY <1>5, <1>f, <1>11, <1>12
-----------------------------------------------------------------------------
(* The tables in any sequence of operations.                               *)

TableInv == Registered /\ EventsAreDue /\ ChildHoldsItsEndsOnly

LEMMA TableStart == TableInit => TableInv
<1> SUFFICES ASSUME TableInit PROVE TableInv OBVIOUS
<1>1. Registered BY DEF TableInit, Registered
<1>2. EventsAreDue BY DEF TableInit, EventsAreDue
<1>3. ChildHoldsItsEndsOnly BY DEF TableInit, NoKid, ChildHoldsItsEndsOnly
<1>4. QED BY <1>1, <1>2, <1>3 DEF TableInv

\* Every operation keeps the tables.
LEMMA TableStep == TableInv /\ [TableNext]_tableVars => TableInv'
<1> SUFFICES ASSUME TableInv, [TableNext]_tableVars PROVE TableInv' OBVIOUS
<1>t. Registered /\ EventsAreDue /\ ChildHoldsItsEndsOnly BY DEF TableInv
<1>k. UNCHANGED kid => ChildHoldsItsEndsOnly' BY <1>t DEF ChildHoldsItsEndsOnly
<1>p. UNCHANGED pollerVars => Registered' /\ EventsAreDue'
  <2> SUFFICES ASSUME UNCHANGED pollerVars PROVE Registered' /\ EventsAreDue' OBVIOUS
  <2>1. entries' = entries /\ registered' = registered /\ events' = events BY DEF pollerVars
  <2>2. Registered' BY <1>t, <2>1 DEF Registered
  <2>3. EventsAreDue' BY <1>t, <2>1 DEF EventsAreDue
  <2>4. QED BY <2>2, <2>3
<1>1. CASE poller_add BY <1>t, <1>k, <1>1, AddKeeps DEF poller_add, TableInv
<1>2. CASE poller_set BY <1>t, <1>k, <1>2, SetKeeps DEF poller_set, TableInv
<1>3. CASE poller_remove BY <1>t, <1>k, <1>3, RemoveKeeps DEF poller_remove, TableInv
<1>4. CASE poller_wait
  <2>1. UNCHANGED <<entries, registered, kid>> BY <1>4 DEF poller_wait
  <2>2. Registered' BY <1>t, <2>1 DEF Registered
  <2>3. EventsAreDue' BY <1>t, <1>4, WaitIsDue
  <2>4. QED BY <1>k, <2>1, <2>2, <2>3 DEF TableInv
<1>5. CASE os_spawn
  <2>1. PICK p \in Pipes, shape \in {"pipe", "merged", "split"} :
           kid' = [shape |-> shape, pipes |-> p,
                   fds |-> prepare_child_stdio(ParentTable(p), Request(shape, p))]
    BY <1>5 DEF os_spawn
  <2> DEFINE fds == prepare_child_stdio(ParentTable(p), Request(shape, p))
  <2>2. kid'.shape = shape /\ kid'.pipes = p /\ kid'.fds = fds BY <2>1
  <2> HIDE DEF fds
  <2>3. ChildHoldsItsEndsOnly'
    <3> SUFFICES ASSUME \A k \in DOMAIN p : p[k] > 2 PROVE ChildHoldsItsEndsOnly'
      BY <2>2 DEF ChildHoldsItsEndsOnly
    <3>1. /\ fds[0] = "inRead" /\ fds[1] = "outWrite"
          /\ shape = "merged" => fds[2] = "outWrite"
          /\ shape = "split" => fds[2] = "errWrite"
          /\ shape = "pipe" => fds[2] = "stderr"
          /\ \A f \in DOMAIN fds \ 0 .. 2 :
                \/ fds[f] = "errRead"
                \/ fds[f] = "errWrite" /\ shape # "split"
      BY ChildPrepared DEF fds
    <3>2. QED BY <2>2, <3>1 DEF ChildHoldsItsEndsOnly
  <2>4. QED BY <1>p, <1>5, <2>3 DEF os_spawn, TableInv
<1>6. CASE UNCHANGED tableVars BY <1>k, <1>p, <1>6 DEF tableVars, pollerVars, TableInv
<1>7. QED BY <1>1, <1>2, <1>3, <1>4, <1>5, <1>6 DEF TableNext

\* poller_wait reports what is due, for any files, interests and states,
\* after any sequence of poller_add, poller_set and poller_remove.
THEOREM PollerReports == TableSpec => []EventsAreDue
<1>1. TableInv => EventsAreDue BY DEF TableInv
<1>2. QED BY <1>1, TableStart, TableStep, PTL DEF TableSpec

\* A child started by a pipe helper holds the ends it needs and no other
\* (prepare_child_stdio), for every numbering of the pipes.
THEOREM ChildHolds == TableSpec => []ChildHoldsItsEndsOnly
<1>1. TableInv => ChildHoldsItsEndsOnly BY DEF TableInv
<1>2. QED BY <1>1, TableStart, TableStep, PTL DEF TableSpec

-----------------------------------------------------------------------------
(* The runtime's calls.                                                    *)

\* A sequence, of whatever it holds.
IsSequence(s) == s \in Seq(Range(s))

\* A step takes a call from holding the resources a to holding b, and its
\* error path releases all of them.
Takes(x, a, b) ==
    \/ x.op = "put" /\ x.what \subseteq a /\ x.undo = {} /\ b = a \ x.what
    \/ x.op # "put" /\ x.undo = a /\ b = a \cup x.what

\* h lists what is held before and after each of the steps s.
HeldAlong(s, h) == \A p \in 1 .. Len(s) : Takes(s[p], h[p - 1], h[p])

\* The steps s take a call from holding a to holding b.
Runs(s, a, b) ==
    IsSequence(s) /\ \E h : h[0] = a /\ h[Len(s)] = b /\ HeldAlong(s, h)

\* What a call in progress holds is what its steps have taken so far; one
\* that is over holds its result, or nothing.
CallInv ==
    IF call = Null THEN returned = "running"
    ELSE /\ IsSequence(call.steps) /\ pc \in 1 .. Len(call.steps) + 1
         /\ returned \in {"running", "ok", "failed"}
         /\ returned = "failed" => live = {}
         /\ returned = "ok" => live = call.result
         /\ returned = "running" =>
               \E h : /\ HeldAlong(call.steps, h)
                      /\ h[Len(call.steps)] = call.result /\ live = h[pc - 1]

\* What a sequence of anything is made of.
LEMMA StepsListed ==
    ASSUME NEW s, IsSequence(s)
    PROVE  Len(s) \in Nat /\ DOMAIN s = 1 .. Len(s)
BY DEF IsSequence, Range

\* A function that lists something for 1, 2 and so on.
LEMMA ListedSteps ==
    ASSUME NEW s, NEW n \in Nat, s = [i \in 1 .. n |-> s[i]]
    PROVE  IsSequence(s) /\ Len(s) = n
<1>1. s \in [1 .. n -> Range(s)] BY DEF Range
<1>2. s \in Seq(Range(s)) /\ Len(s) = n BY <1>1
<1>3. QED BY <1>2 DEF IsSequence

\* One part of a call after another.
LEMMA JoinedSteps ==
    ASSUME NEW s, NEW t, IsSequence(s), IsSequence(t)
    PROVE  /\ IsSequence(s \o t) /\ Len(s \o t) = Len(s) + Len(t)
           /\ \A i \in 1 .. Len(s) : (s \o t)[i] = s[i]
           /\ \A i \in 1 .. Len(t) : (s \o t)[Len(s) + i] = t[i]
<1> DEFINE S == Range(s)
           T == Range(t)
<1>1. s \in Seq(S) /\ t \in Seq(T) BY DEF IsSequence
<1> HIDE DEF S, T
<1>2. s \in Seq(S \cup T) /\ t \in Seq(S \cup T) BY <1>1
<1>3. s \o t \in Seq(S \cup T) BY <1>2
<1>4. IsSequence(s \o t)
  <2> DEFINE u == s \o t
  <2>1. u \in Seq(S \cup T) BY <1>3
  <2> HIDE DEF u
  <2>2. IsSequence(u) BY <2>1 DEF IsSequence, Range
  <2>3. QED BY <2>2 DEF u
<1>5. /\ Len(s \o t) = Len(s) + Len(t)
      /\ \A i \in 1 .. Len(s) : (s \o t)[i] = s[i]
      /\ \A i \in 1 .. Len(t) : (s \o t)[Len(s) + i] = t[i]
  BY <1>2
<1>6. QED BY <1>4, <1>5

\* No step holds what was held, and one step takes it on.
LEMMA RunsOne ==
    /\ \A a : Runs(<< >>, a, a)
    /\ \A x, a, b : Takes(x, a, b) => Runs(<< x >>, a, b)
<1>1. ASSUME NEW a PROVE Runs(<< >>, a, a)
  <2> DEFINE h == [p \in {0} |-> a]
  <2>1. IsSequence(<< >>) /\ Len(<< >>) = 0 BY DEF IsSequence
  <2>2. h[0] = a OBVIOUS
  <2>3. HeldAlong(<< >>, h) BY <2>1 DEF HeldAlong
  <2> HIDE DEF h
  <2>4. QED BY <2>1, <2>2, <2>3 DEF Runs
<1>2. ASSUME NEW x, NEW a, NEW b, Takes(x, a, b) PROVE Runs(<< x >>, a, b)
  <2> DEFINE h == [p \in 0 .. 1 |-> IF p = 0 THEN a ELSE b]
             s == << x >>
  <2>1. IsSequence(s) /\ Len(s) = 1 /\ s[1] = x
    <3>1. s \in Seq({x}) /\ Len(s) = 1 /\ s[1] = x OBVIOUS
    <3> HIDE DEF s
    <3>2. QED BY <3>1 DEF IsSequence, Range
  <2>2. h[0] = a /\ h[1] = b OBVIOUS
  <2> HIDE DEF h, s
  <2>3. ASSUME NEW p \in 1 .. Len(s) PROVE Takes(s[p], h[p - 1], h[p])
    <3>1. p = 1 /\ p - 1 = 0 BY <2>1
    <3>2. QED BY <1>2, <2>1, <2>2, <3>1
  <2>4. Runs(s, a, b) BY <2>1, <2>2, <2>3 DEF Runs, HeldAlong
  <2>5. QED BY <2>4 DEF s
<1>3. QED BY <1>1, <1>2

\* One part of a call goes on from what the part before it holds.
LEMMA RunsThen ==
    ASSUME NEW s, NEW t, NEW a, NEW b, NEW c, Runs(s, a, b), Runs(t, b, c)
    PROVE  Runs(s \o t, a, c)
<1> DEFINE u == s \o t
           m == Len(s)
           n == Len(t)
<1>1. IsSequence(s) /\ IsSequence(t) BY DEF Runs
<1>2. m \in Nat /\ n \in Nat BY <1>1, StepsListed
<1>3. /\ IsSequence(u) /\ Len(u) = m + n
      /\ \A i \in 1 .. m : u[i] = s[i]
      /\ \A i \in 1 .. n : u[m + i] = t[i]
  BY <1>1, JoinedSteps
<1>4. PICK f : f[0] = a /\ f[m] = b /\ HeldAlong(s, f) BY DEF Runs
<1>5. PICK g : g[0] = b /\ g[n] = c /\ HeldAlong(t, g) BY DEF Runs
<1> DEFINE h == [p \in 0 .. m + n |-> IF p <= m THEN f[p] ELSE g[p - m]]
<1> HIDE DEF u
<1>6. \A p \in 1 .. m : Takes(s[p], f[p - 1], f[p]) BY <1>4 DEF HeldAlong
<1>7. \A p \in 1 .. n : Takes(t[p], g[p - 1], g[p]) BY <1>5 DEF HeldAlong
<1> HIDE DEF m, n
<1>8. /\ \A p \in 0 .. m : h[p] = f[p]
      /\ \A q \in 0 .. n : h[m + q] = g[q]
  <2>1. ASSUME NEW p \in 0 .. m PROVE h[p] = f[p] BY <1>2
  <2>2. ASSUME NEW q \in 0 .. n PROVE h[m + q] = g[q]
    <3>1. CASE q = 0
      <4>1. m + q = m /\ m \in 0 .. m BY <1>2, <3>1
      <4>2. QED BY <1>4, <1>5, <2>1, <3>1, <4>1
    <3>2. CASE q # 0
      <4>1. PICK p \in 0 .. m + n : p = m + q /\ ~(p <= m) /\ p - m = q BY <1>2, <3>2
      <4>2. h[p] = g[p - m] BY <4>1
      <4>3. QED BY <4>1, <4>2
    <3>3. QED BY <3>1, <3>2
  <2>3. QED BY <2>1, <2>2
<1> HIDE DEF h
<1>9. h[0] = a /\ h[m + n] = c
  <2>1. 0 \in 0 .. m /\ n \in 0 .. n BY <1>2
  <2>2. QED BY <1>4, <1>5, <1>8, <2>1
<1>10. ASSUME NEW p \in 1 .. m + n PROVE Takes(u[p], h[p - 1], h[p])
  <2>1. CASE p <= m
    <3>1. p \in 1 .. m /\ p \in 0 .. m /\ p - 1 \in 0 .. m BY <1>2, <2>1
    <3>2. QED BY <1>3, <1>6, <1>8, <3>1
  <2>2. CASE ~(p <= m)
    <3>1. PICK q \in 1 .. n : p = m + q
      <4>1. p - m \in 1 .. n /\ p = m + (p - m) BY <1>2, <2>2
      <4>2. QED BY <4>1
    <3>2. q \in 0 .. n /\ q - 1 \in 0 .. n /\ p - 1 = m + (q - 1) BY <1>2, <3>1
    <3>3. h[p] = g[q] /\ h[p - 1] = g[q - 1] /\ u[p] = t[q] BY <1>3, <1>8, <3>1, <3>2
    <3>4. QED BY <1>7, <3>3
  <2>3. QED BY <2>1, <2>2
<1>11. HeldAlong(u, h) BY <1>3, <1>10 DEF HeldAlong
<1>12. Runs(u, a, c) BY <1>3, <1>9, <1>11 DEF Runs
<1>13. QED BY <1>12 DEF u

\* What the three kinds of step take a call to.
LEMMA Taken ==
    /\ \A w, a : Takes(Get(w, a), a, a \cup {w})
    /\ \A a : Takes(Check(a), a, a)
    /\ \A w, a : w \subseteq a => Takes(Put(w), a, a \ w)
<1>1. ASSUME NEW w, NEW a PROVE Takes(Get(w, a), a, a \cup {w})
  <2>1. /\ Get(w, a).op # "put" /\ Get(w, a).undo = a /\ Get(w, a).what = {w} BY DEF Get
  <2>2. QED BY <2>1 DEF Takes
<1>2. ASSUME NEW a PROVE Takes(Check(a), a, a)
  <2>1. /\ Check(a).op # "put" /\ Check(a).undo = a /\ Check(a).what = {} BY DEF Check
  <2>2. QED BY <2>1 DEF Takes
<1>3. ASSUME NEW w, NEW a, w \subseteq a PROVE Takes(Put(w), a, a \ w)
  <2>1. /\ Put(w).op = "put" /\ Put(w).undo = {} /\ Put(w).what = w BY DEF Put
  <2>2. QED BY <1>3, <2>1 DEF Takes
<1>4. QED BY <1>1, <1>2, <1>3

\* Two steps, and more.
LEMMA RunsTwo ==
    ASSUME NEW x, NEW y, NEW a, NEW b, NEW c, Takes(x, a, b), Takes(y, b, c)
    PROVE  Runs(<< x, y >>, a, c)
<1> DEFINE h == [p \in 0 .. 2 |-> IF p = 0 THEN a ELSE IF p = 1 THEN b ELSE c]
           s == << x, y >>
<1>1. IsSequence(s) /\ Len(s) = 2 /\ s[1] = x /\ s[2] = y
  <2>1. s \in Seq({x, y}) /\ Len(s) = 2 /\ s[1] = x /\ s[2] = y OBVIOUS
  <2> HIDE DEF s
  <2>2. QED BY <2>1 DEF IsSequence, Range
<1>2. h[0] = a /\ h[1] = b /\ h[2] = c OBVIOUS
<1> HIDE DEF h, s
<1>3. ASSUME NEW p \in 1 .. Len(s) PROVE Takes(s[p], h[p - 1], h[p])
  <2>1. (p = 1 /\ p - 1 = 0) \/ (p = 2 /\ p - 1 = 1) BY <1>1
  <2>2. QED BY <1>1, <1>2, <2>1
<1>4. Runs(s, a, c) BY <1>1, <1>2, <1>3 DEF Runs, HeldAlong
<1>5. QED BY <1>4 DEF s

\* Three steps, four and five.
LEMMA RunsMore ==
    ASSUME NEW a, NEW b, NEW c, NEW d, NEW x, NEW y, NEW z,
           Takes(x, a, b), Takes(y, b, c), Takes(z, c, d)
    PROVE  /\ Runs(<< x, y, z >>, a, d)
           /\ \A u, e : Takes(u, d, e) => Runs(<< x, y, z, u >>, a, e)
           /\ \A u, v, e, f : Takes(u, d, e) /\ Takes(v, e, f) => Runs(<< x, y, z, u, v >>, a, f)
<1>1. Runs(<< x, y, z >>, a, d)
  <2>1. Runs(<< x, y >>, a, c) /\ Runs(<< z >>, c, d) BY RunsTwo, RunsOne
  <2>2. Runs(<< x, y >> \o << z >>, a, d) BY <2>1, RunsThen
  <2>3. << x, y, z >> = << x, y >> \o << z >> OBVIOUS
  <2>4. QED BY <2>2, <2>3, Zenon
<1>2. ASSUME NEW u, NEW e, Takes(u, d, e) PROVE Runs(<< x, y, z, u >>, a, e)
  <2>1. Runs(<< u >>, d, e) BY <1>2, RunsOne
  <2>2. Runs(<< x, y, z >> \o << u >>, a, e) BY <1>1, <2>1, RunsThen
  <2>3. << x, y, z, u >> = << x, y, z >> \o << u >> OBVIOUS
  <2>4. QED BY <2>2, <2>3, Zenon
<1>3. ASSUME NEW u, NEW v, NEW e, NEW f, Takes(u, d, e), Takes(v, e, f)
      PROVE  Runs(<< x, y, z, u, v >>, a, f)
  <2>1. Runs(<< v >>, e, f) BY <1>3, RunsOne
  <2>2. Runs(<< x, y, z, u >> \o << v >>, a, f) BY <1>2, <1>3, <2>1, RunsThen
  <2>3. << x, y, z, u, v >> = << x, y, z, u >> \o << v >> OBVIOUS
  <2>4. QED BY <2>2, <2>3, Zenon
<1>4. QED BY <1>1, <1>2, <1>3

\* A call runs from holding nothing to holding its result.
Sound(c) == Runs(c.steps, {}, c.result)

\* A body is sound if its steps run to its result.
LEMMA SoundBody ==
    ASSUME NEW s, NEW r, Runs(s, {}, r)
    PROVE  Sound(Body(s, r))
<1>1. Body(s, r).steps = s /\ Body(s, r).result = r BY DEF Body
<1>2. QED BY <1>1 DEF Sound

\* A buffer: its header and its data.
LEMMA BufferRuns ==
    ASSUME NEW u
    PROVE  Runs(mem_buffer_new(u), u, u \cup {"buffer", "data"})
<1>1. /\ Takes(Get("buffer", u), u, u \cup {"buffer"})
      /\ Takes(Get("data", u \cup {"buffer"}), u \cup {"buffer"}, u \cup {"buffer"} \cup {"data"})
  BY Taken
<1>2. u \cup {"buffer"} \cup {"data"} = u \cup {"buffer", "data"} OBVIOUS
<1>3. QED BY <1>1, <1>2, RunsTwo DEF mem_buffer_new

\* The calls for memory.
LEMMA MemorySound ==
    /\ Sound(Body(mem_buffer_new({}), {"buffer", "data"}))
    /\ Sound(mem_arena_init) /\ Sound(mem_run_init) /\ Sound(mem_pool_init)
<1>1. Sound(Body(mem_buffer_new({}), {"buffer", "data"}))
  <2>1. {} \cup {"buffer", "data"} = {"buffer", "data"} OBVIOUS
  <2>2. Runs(mem_buffer_new({}), {}, {"buffer", "data"}) BY <2>1, BufferRuns
  <2>3. QED BY <2>2, SoundBody
<1>2. Sound(mem_arena_init)
  <2>1. /\ Takes(Get("arena", {}), {}, {"arena"})
        /\ Takes(Get("data", {"arena"}), {"arena"}, {"arena", "data"})
    <3>1. {} \cup {"arena"} = {"arena"} /\ {"arena"} \cup {"data"} = {"arena", "data"} OBVIOUS
    <3>2. QED BY <3>1, Taken
  <2>2. QED BY <2>1, RunsTwo, SoundBody DEF mem_arena_init
<1>3. Sound(mem_run_init)
  <2>1. /\ Takes(Check({}), {}, {})
        /\ Takes(Get("run", {}), {}, {"run"})
        /\ Takes(Get("data", {"run"}), {"run"}, {"run", "data"})
    <3>1. {} \cup {"run"} = {"run"} /\ {"run"} \cup {"data"} = {"run", "data"} OBVIOUS
    <3>2. QED BY <3>1, Taken
  <2>2. QED BY <2>1, RunsMore, SoundBody DEF mem_run_init
<1>4. Sound(mem_pool_init)
  <2>1. /\ Takes(Get("pool", {}), {}, {"pool"})
        /\ Takes(Check({"pool"}), {"pool"}, {"pool"})
        /\ Takes(Get("data", {"pool"}), {"pool"}, {"data", "pool"})
        /\ Takes(Get("in_use", {"data", "pool"}), {"data", "pool"}, {"pool", "data", "in_use"})
    <3>1. /\ {} \cup {"pool"} = {"pool"} /\ {"pool"} \cup {"data"} = {"data", "pool"}
          /\ {"data", "pool"} \cup {"in_use"} = {"pool", "data", "in_use"}
      OBVIOUS
    <3>2. QED BY <3>1, Taken
  <2>2. QED BY <2>1, RunsMore, SoundBody DEF mem_pool_init
<1>5. QED BY <1>1, <1>2, <1>3, <1>4

\* The copy of a path, and a file that was opened with it.
LEMMA PathRuns ==
    /\ \A u : Runs(copy_string_to_cstr(u), u, u \cup {"c_path"})
    /\ Runs(Fopen, {}, {"file"})
<1>1. ASSUME NEW u PROVE Runs(copy_string_to_cstr(u), u, u \cup {"c_path"})
  BY Taken, RunsOne DEF copy_string_to_cstr
<1>2. {} \cup {"c_path"} = {"c_path"} /\ {"c_path"} \cup {"file"} = {"c_path", "file"}
      /\ {"c_path", "file"} \ {"c_path"} = {"file"} /\ {"c_path"} \subseteq {"c_path", "file"}
  OBVIOUS
<1>3. /\ Takes(Get("file", {"c_path"}), {"c_path"}, {"c_path", "file"})
      /\ Takes(Put({"c_path"}), {"c_path", "file"}, {"file"})
  BY <1>2, Taken
<1>4. Runs(copy_string_to_cstr({}), {}, {"c_path"}) BY <1>1, <1>2
<1>5. Runs(Fopen, {}, {"file"}) BY <1>3, <1>4, RunsTwo, RunsThen DEF Fopen
<1>6. QED BY <1>1, <1>5

\* The calls for files.
LEMMA FilesSound ==
    Sound(fs_file_size) /\ Sound(fs_read_all) /\ Sound(fs_write_all) /\ Sound(fs_read_exact)
<1>1. Sound(fs_file_size)
  <2>1. {} \cup {"c_path"} = {"c_path"} /\ {"c_path"} \ {"c_path"} = {} OBVIOUS
  <2>2. Runs(copy_string_to_cstr({}), {}, {"c_path"}) BY <2>1, PathRuns
  <2>3. Takes(Check({"c_path"}), {"c_path"}, {"c_path"}) BY Taken
  <2>4. Takes(Put({"c_path"}), {"c_path"}, {}) BY <2>1, Taken
  <2>5. QED BY <2>2, <2>3, <2>4, RunsTwo, RunsThen, SoundBody DEF fs_file_size
<1>2. Sound(fs_read_all)
  <2> DEFINE all == {"file", "buffer", "data"}
  <2>1. /\ {"file"} \cup {"buffer", "data"} = all /\ all \ {"file"} = {"buffer", "data"}
        /\ {"file"} \subseteq all
    OBVIOUS
  <2>2. Takes(Check({"file"}), {"file"}, {"file"}) BY Taken
  <2>3. Runs(<< Check({"file"}), Check({"file"}), Check({"file"}) >>, {"file"}, {"file"})
    BY <2>2, RunsMore
  <2>4. Runs(mem_buffer_new({"file"}), {"file"}, all) BY <2>1, BufferRuns
  <2>5. Runs(<< Put({"file"}), Check({"buffer", "data"}) >>, all, {"buffer", "data"})
    <3>1. Takes(Put({"file"}), all, {"buffer", "data"}) BY <2>1, Taken
    <3>2. Takes(Check({"buffer", "data"}), {"buffer", "data"}, {"buffer", "data"}) BY Taken
    <3>3. QED BY <3>1, <3>2, RunsTwo
  <2>6. Runs(Fopen \o << Check({"file"}), Check({"file"}), Check({"file"}) >>, {}, {"file"})
    BY <2>3, PathRuns, RunsThen
  <2>7. Runs(Fopen \o << Check({"file"}), Check({"file"}), Check({"file"}) >>
                \o mem_buffer_new({"file"}), {}, all)
    BY <2>4, <2>6, RunsThen
  <2> HIDE DEF all
  <2>8. Runs(Fopen \o << Check({"file"}), Check({"file"}), Check({"file"}) >>
                \o mem_buffer_new({"file"}) \o << Put({"file"}), Check({"buffer", "data"}) >>,
             {}, {"buffer", "data"})
    BY <2>5, <2>7, RunsThen
  <2>9. QED BY <2>8, SoundBody DEF fs_read_all, fs_read_all_err
<1>3. Runs(<< Check({}) >>, {}, {}) BY Taken, RunsOne
<1>4. Runs(<< Check({}) >> \o Fopen, {}, {"file"}) BY <1>3, PathRuns, RunsThen
<1>5. /\ Takes(Check({}), {}, {}) /\ Takes(Check({"file"}), {"file"}, {"file"})
      /\ Takes(Put({"file"}), {"file"}, {})
  <2>1. {"file"} \ {"file"} = {} OBVIOUS
  <2>2. QED BY <2>1, Taken
<1>6. Sound(fs_write_all)
  <2>1. Runs(<< Check({"file"}), Check({"file"}), Put({"file"}), Check({}) >>, {"file"}, {})
    BY <1>5, RunsMore
  <2>2. QED BY <1>4, <2>1, RunsThen, SoundBody DEF fs_write_all
<1>7. Sound(fs_read_exact)
  <2>1. Runs(<< Put({"file"}), Check({}), Check({}) >>, {"file"}, {}) BY <1>5, RunsMore
  <2>2. QED BY <1>4, <2>1, RunsThen, SoundBody DEF fs_read_exact
<1>8. QED BY <1>1, <1>2, <1>6, <1>7

\* The calls that take one or two resources.
LEMMA SmallSound ==
    /\ Sound(net_tcp_listen) /\ Sound(net_connect_tcp) /\ Sound(net_accept)
    /\ Sound(sync_mutex_init) /\ Sound(io_pipe) /\ Sound(io_poller_new)
<1>1. \A w : {} \cup {w} = {w} OBVIOUS
<1>2. \A w : Takes(Get(w, {}), {}, {w}) BY <1>1, Taken
<1>3. \A w : Runs(<< Get(w, {}) >>, {}, {w}) BY <1>2, RunsOne
<1>4. Sound(net_accept) /\ Sound(io_pipe) /\ Sound(io_poller_new)
  BY <1>3, SoundBody DEF net_accept, io_pipe, io_poller_new
<1>5. \A a : Takes(Check(a), a, a) BY Taken
<1>6. Sound(net_tcp_listen) BY <1>2, <1>5, RunsMore, SoundBody DEF net_tcp_listen
<1>7. Sound(net_connect_tcp) BY <1>2, <1>5, RunsTwo, SoundBody DEF net_connect_tcp
<1>8. Sound(sync_mutex_init) BY <1>2, <1>5, RunsTwo, SoundBody DEF sync_mutex_init
<1>9. QED BY <1>4, <1>6, <1>7, <1>8

\* A thread: what it starts with is freed once it runs.
LEMMA ThreadSound == Sound(sync_thread_spawn)
<1>1. /\ {} \cup {"thread"} = {"thread"}
      /\ {"thread"} \cup {"start"} = {"start", "thread"}
      /\ {"start", "thread"} \cup {"running"} = {"start", "thread", "running"}
      /\ {"start", "thread", "running"} \ {"start"} = {"thread", "running"}
      /\ {"start"} \subseteq {"start", "thread", "running"}
  OBVIOUS
<1>2. /\ Takes(Check({}), {}, {})
      /\ Takes(Get("thread", {}), {}, {"thread"})
      /\ Takes(Get("start", {"thread"}), {"thread"}, {"start", "thread"})
      /\ Takes(Get("running", {"start", "thread"}), {"start", "thread"},
               {"start", "thread", "running"})
      /\ Takes(Put({"start"}), {"start", "thread", "running"}, {"thread", "running"})
  BY <1>1, Taken
<1>3. QED BY <1>2, RunsMore, SoundBody DEF sync_thread_spawn

\* Induction over the naturals, for a set of them.
LEMMA NatSet ==
    ASSUME NEW S, 0 \in S, \A n \in Nat : n \in S => n + 1 \in S
    PROVE  Nat \subseteq S
<1> DEFINE T == Nat \ S
           R == OpToRel(<, Nat)
<1> SUFFICES ASSUME T # {} PROVE FALSE
  OBVIOUS
<1>1. PICK x \in T : \A y \in T : ~(<< y, x >> \in R)
  <2>1. T \subseteq Nat OBVIOUS
  <2> HIDE DEF R, T
  <2>2. IsWellFoundedOn(R, Nat) BY NatLessThanWellFounded DEF R
  <2>3. QED BY <2>1, <2>2, WFMin
<1>2. x \in Nat /\ x # 0 /\ x \notin S OBVIOUS
<1>3. x - 1 \in Nat /\ x - 1 < x /\ x - 1 + 1 = x BY <1>2
<1>4. x - 1 \in S
  <2>1. x - 1 \in T => << x - 1, x >> \in R BY <1>2, <1>3 DEF OpToRel
  <2>2. QED BY <1>1, <1>3, <2>1
<1>5. x - 1 + 1 \in S BY <1>3, <1>4
<1>6. QED BY <1>2, <1>3, <1>5

\* The parts that FlattenSeq joins one after another.
Flattens(seqs, f, n) ==
    f = [i \in 1 .. n |-> IF i = 1 THEN seqs[i] ELSE f[i - 1] \o seqs[i]]

\* The recursive function that FlattenSeq is defined by exists.
LEMMA FlattensExists ==
    ASSUME NEW seqs, NEW n \in Nat
    PROVE  \E f : Flattens(seqs, f, n)
<1> DEFINE S == {k \in Nat : \E f : Flattens(seqs, f, k)}
<1>1. 0 \in S
  <2>1. Flattens(seqs, [i \in 1 .. 0 |-> 0], 0) BY DEF Flattens
  <2>2. QED BY <2>1
<1>2. ASSUME NEW k \in Nat, k \in S PROVE k + 1 \in S
  <2>1. PICK f : Flattens(seqs, f, k) BY <1>2
  <2> DEFINE Val(h, i) == IF i = 1 THEN seqs[i] ELSE h[i - 1] \o seqs[i]
             g == [i \in 1 .. k + 1 |-> Val(f, i)]
  <2>2. /\ DOMAIN f = 1 .. k
        /\ \A i \in 1 .. k : f[i] = Val(f, i)
    <3>1. f = [i \in 1 .. k |-> Val(f, i)] BY <2>1 DEF Flattens
    <3> HIDE DEF Val
    <3>2. QED BY <3>1
  <2>3. \A i \in 1 .. k + 1 : g[i] = Val(g, i)
    <3> SUFFICES ASSUME NEW i \in 1 .. k + 1 PROVE Val(f, i) = Val(g, i)
      BY DEF g
    <3>1. CASE i = 1 BY <3>1
    <3>2. CASE i # 1
      <4>1. i - 1 \in 1 .. k /\ i - 1 \in 1 .. k + 1 BY <3>2
      <4>2. g[i - 1] = Val(f, i - 1)
        <5> HIDE DEF Val
        <5>1. QED BY <4>1
      <4>3. g[i - 1] = f[i - 1] BY <2>2, <4>1, <4>2
      <4>4. QED BY <3>2, <4>3
    <3>3. QED BY <3>1, <3>2
  <2>4. g = [i \in 1 .. k + 1 |-> Val(g, i)]
    <3>1. DOMAIN g = 1 .. k + 1 OBVIOUS
    <3>2. g = [i \in 1 .. k + 1 |-> g[i]] OBVIOUS
    <3> HIDE DEF g, Val
    <3>3. QED BY <2>3, <3>2
  <2>5. Flattens(seqs, g, k + 1) BY <2>4 DEF Flattens
  <2>6. QED BY <2>5
<1>3. Nat \subseteq S
  <2> HIDE DEF S
  <2>1. QED BY <1>1, <1>2, NatSet
<1>4. QED BY <1>3

\* Parts that run one after another run as one.
LEMMA FlattenedRuns ==
    ASSUME NEW seqs, IsSequence(seqs), NEW held,
           \A i \in 1 .. Len(seqs) : Runs(seqs[i], held[i - 1], held[i])
    PROVE  Runs(FlattenSeq(seqs), held[0], held[Len(seqs)])
<1> DEFINE n == Len(seqs)
<1>1. n \in Nat BY StepsListed
<1>2. CASE n = 0
  <2>1. FlattenSeq(seqs) = << >> BY <1>2 DEF FlattenSeq, IsSequence
  <2>2. QED BY <1>2, <2>1, RunsOne
<1>3. CASE n # 0
  <2> DEFINE f == CHOOSE f : Flattens(seqs, f, n)
  <2>1. Flattens(seqs, f, n) BY <1>1, FlattensExists
  <2>2. FlattenSeq(seqs) = f[n] BY <1>3 DEF FlattenSeq, Flattens
  <2> HIDE DEF f
  <2>3. \A i \in 1 .. n : f[i] = IF i = 1 THEN seqs[i] ELSE f[i - 1] \o seqs[i]
    BY <2>1 DEF Flattens
  <2> HIDE DEF n
  <2> DEFINE S == {k \in Nat : k + 1 <= n => Runs(f[k + 1], held[0], held[k + 1])}
  <2>4. 0 \in S
    <3>1. 1 \in 1 .. n /\ 1 - 1 = 0 BY <1>1, <1>3
    <3>2. f[1] = seqs[1] BY <2>3, <3>1
    <3>3. Runs(seqs[1], held[0], held[1]) BY <3>1 DEF n
    <3>4. QED BY <3>2, <3>3
  <2>5. ASSUME NEW k \in Nat, k \in S PROVE k + 1 \in S
    <3> SUFFICES ASSUME k + 1 + 1 <= n PROVE Runs(f[k + 1 + 1], held[0], held[k + 1 + 1])
      OBVIOUS
    <3>1. Runs(f[k + 1], held[0], held[k + 1]) BY <1>1, <2>5
    <3>2. PICK i \in 1 .. n : i = k + 1 + 1 /\ i # 1 /\ i - 1 = k + 1 BY <1>1
    <3>3. f[i] = f[i - 1] \o seqs[i] BY <2>3, <3>2
    <3>4. Runs(seqs[i], held[i - 1], held[i]) BY DEF n
    <3>5. Runs(f[i - 1] \o seqs[i], held[0], held[i]) BY <3>1, <3>2, <3>4, RunsThen
    <3>6. QED BY <3>2, <3>3, <3>5
  <2>6. Nat \subseteq S
    <3> HIDE DEF S
    <3>1. QED BY <2>4, <2>5, NatSet
  <2>7. n - 1 \in Nat /\ n - 1 + 1 = n BY <1>1, <1>3
  <2>8. Runs(f[n], held[0], held[n])
    <3>1. n - 1 \in S BY <2>6, <2>7
    <3>2. QED BY <1>1, <2>7, <3>1
  <2>9. QED BY <2>2, <2>8 DEF n
<1>4. QED BY <1>2, <1>3

\* What fs_list_dir holds after n entries.
Stored(n) == {"dir", "c_path"} \cup Names(n) \cup (IF n = 0 THEN {} ELSE {"entries"})

\* One entry of a directory.
LEMMA EntryRuns ==
    ASSUME NEW i \in 1 .. MaxEntries
    PROVE  Runs(ListEntry(i), Stored(i - 1), Stored(i))
<1> DEFINE undo == {"dir", "c_path"} \cup Names(i - 1)
                   \cup IF i = 1 THEN {} ELSE {"entries"}
           grow == IF i = 1 THEN << Get("entries", undo) >> ELSE << >>
           rest == undo \cup {"entries"}
           name == Name(i)
           full == rest \cup {name}
<1>1. MaxEntries \in Nat /\ i \in Nat /\ i - 1 \in Nat BY CopiesAssumption
<1>2. \A j \in 1 .. i : Name(j) \notin Single
  <2>1. \A j \in 1 .. i : j \in 1 .. MaxEntries BY <1>1
  <2>2. QED BY <2>1, CopiesAssumption
<1>3. undo = Stored(i - 1) BY <1>1 DEF Stored
<1>4. full = Stored(i)
  <2>1. Names(i) = Names(i - 1) \cup {name}
    <3>1. \A j : j \in 1 .. i <=> j \in 1 .. i - 1 \/ j = i BY <1>1
    <3>2. QED BY <3>1 DEF Names
  <2>2. Stored(i) = {"dir", "c_path"} \cup Names(i) \cup {"entries"} BY <1>1 DEF Stored
  <2>3. QED BY <2>1, <2>2
<1>5. "joined" \notin full
  <2>1. "joined" \notin Names(i) BY <1>2 DEF Names, Single
  <2>2. Stored(i) = {"dir", "c_path"} \cup Names(i) \cup {"entries"} BY <1>1 DEF Stored
  <2>3. QED BY <1>4, <2>1, <2>2
<1>6. Runs(<< Check(undo) >>, undo, undo) BY Taken, RunsOne
<1>7. Runs(grow, undo, rest)
  <2>1. CASE i = 1
    <3>1. Takes(Get("entries", undo), undo, rest) BY Taken
    <3>2. QED BY <2>1, <3>1, RunsOne
  <2>2. CASE i # 1
    <3>1. rest = undo BY <2>2
    <3>2. grow = << >> BY <2>2
    <3> HIDE DEF rest, undo, grow
    <3>3. QED BY <3>1, <3>2, RunsOne
  <2>3. QED BY <2>1, <2>2
<1> HIDE DEF rest, undo, grow, name
<1>8. Runs(<< Get(name, rest), Get("joined", full), Put({"joined"}), Check(full) >>, rest, full)
  <2> DEFINE all == full \cup {"joined"}
  <2>1. all \ {"joined"} = full /\ {"joined"} \subseteq all BY <1>5
  <2>2. /\ Takes(Get(name, rest), rest, full)
        /\ Takes(Get("joined", full), full, all)
        /\ Takes(Check(full), full, full)
    BY Taken
  <2>3. Takes(Put({"joined"}), all, full) BY <2>1, Taken
  <2> HIDE DEF full, all
  <2>4. QED BY <2>2, <2>3, RunsMore
<1> HIDE DEF full
<1>9. Runs(<< Check(undo) >> \o grow, undo, rest) BY <1>6, <1>7, RunsThen
<1>10. Runs(<< Check(undo) >> \o grow
               \o << Get(name, rest), Get("joined", full), Put({"joined"}), Check(full) >>,
            undo, full)
  BY <1>8, <1>9, RunsThen
<1>11. ListEntry(i) = << Check(undo) >> \o grow
               \o << Get(name, rest), Get("joined", full), Put({"joined"}), Check(full) >>
  BY DEF ListEntry, undo, grow, rest, name, full
<1>12. QED BY <1>3, <1>4, <1>10, <1>11

\* A copy is none of the resources that a call has one of.
LEMMA CopiesApart ==
    ASSUME NEW n \in Nat, n <= MaxEntries \/ n <= 3
    PROVE  /\ \A w \in Single : w \notin Names(n) /\ w \notin Args(n)
           /\ \A i \in 1 .. n : Arg(i) \notin Args(i - 1)
<1>1. MaxEntries \in Nat /\ (1 .. n) \subseteq (1 .. MaxEntries \cup 1 .. 3)
  BY CopiesAssumption
<1>2. \A i \in 1 .. n : Name(i) \notin Single /\ Arg(i) \notin Single
  BY <1>1, CopiesAssumption
<1>3. ASSUME NEW i \in 1 .. n PROVE Arg(i) \notin Args(i - 1)
  <2>1. SUFFICES ASSUME NEW j \in 1 .. i - 1, Arg(i) = Arg(j) PROVE FALSE
    BY DEF Args
  <2>2. j \in 1 .. n /\ i \in 1 .. n /\ i # j OBVIOUS
  <2>3. QED BY <1>1, <2>1, <2>2, CopiesAssumption
<1>4. QED BY <1>2, <1>3 DEF Names, Args

\* The listing of a directory of n entries.
LEMMA ListSound ==
    ASSUME NEW n \in 0 .. MaxEntries
    PROVE  Sound(fs_list_dir(n))
<1> DEFINE table == Names(n) \cup IF n = 0 THEN {} ELSE {"entries"}
           seqs == [i \in 1 .. n |-> ListEntry(i)]
           held == [k \in 0 .. n |-> Stored(k)]
           first == copy_string_to_cstr({}) \o << Get("dir", {"c_path"}) >>
           opened == {"dir", "c_path"}
           full == opened \cup table
           loaded == table \cup {"buffer", "data"}
           all == << Check(full), Put(opened) >>
           last == << Put(table) >>
<1>1. MaxEntries \in Nat /\ n \in Nat /\ n <= MaxEntries BY CopiesAssumption
<1>2. \A w \in Single : w \notin Names(n) BY <1>1, CopiesApart
<1>3. /\ "dir" \notin table /\ "c_path" \notin table
      /\ "buffer" \notin table /\ "data" \notin table
  BY <1>2 DEF Single
<1>4. IsSequence(seqs) /\ Len(seqs) = n
  <2>1. seqs = [i \in 1 .. n |-> seqs[i]] OBVIOUS
  <2> HIDE DEF seqs
  <2>2. QED BY <1>1, <2>1, ListedSteps
<1>5. \A i \in 1 .. n : Runs(seqs[i], held[i - 1], held[i])
  <2>1. ASSUME NEW i \in 1 .. n PROVE Runs(seqs[i], held[i - 1], held[i])
    <3>1. i \in 1 .. MaxEntries /\ i \in 0 .. n /\ i - 1 \in 0 .. n BY <1>1
    <3>2. seqs[i] = ListEntry(i) /\ held[i] = Stored(i) OBVIOUS
    <3>3. held[i - 1] = Stored(i - 1) BY <3>1
    <3> HIDE DEF seqs, held
    <3>4. QED BY <3>1, <3>2, <3>3, EntryRuns
  <2>2. QED BY <2>1
<1>6. held[0] = opened /\ held[n] = full
  <2>1. held[0] = Stored(0) /\ held[n] = Stored(n) BY <1>1
  <2>2. Names(0) = {} BY DEF Names
  <2>3. QED BY <2>1, <2>2 DEF Stored
<1>7. Runs(first, {}, opened)
  <2>1. {} \cup {"c_path"} = {"c_path"} /\ {"c_path"} \cup {"dir"} = opened OBVIOUS
  <2>2. Runs(copy_string_to_cstr({}), {}, {"c_path"}) BY <2>1, PathRuns
  <2>3. Takes(Get("dir", {"c_path"}), {"c_path"}, opened) BY <2>1, Taken
  <2>4. Runs(<< Get("dir", {"c_path"}) >>, {"c_path"}, opened) BY <2>3, RunsOne
  <2> HIDE DEF opened
  <2>5. QED BY <2>2, <2>4, RunsThen
<1>8. Runs(all, full, table)
  <2>1. full \ opened = table /\ opened \subseteq full BY <1>3
  <2>2. Takes(Check(full), full, full) BY Taken
  <2>3. Takes(Put(opened), full, table) BY <2>1, Taken
  <2> HIDE DEF full, opened, table
  <2>4. QED BY <2>2, <2>3, RunsTwo
<1>9. Runs(mem_buffer_new(table), table, loaded) BY BufferRuns
<1>10. Runs(last, loaded, {"buffer", "data"})
  <2>1. loaded \ table = {"buffer", "data"} /\ table \subseteq loaded BY <1>3
  <2>2. Takes(Put(table), loaded, {"buffer", "data"}) BY <2>1, Taken
  <2> HIDE DEF loaded, table
  <2>3. QED BY <2>2, RunsOne
<1>11. fs_list_dir(n) = Body(first \o FlattenSeq(seqs) \o all \o mem_buffer_new(table) \o last,
                             {"buffer", "data"})
  BY DEF fs_list_dir, fs_list_dir_err
<1> HIDE DEF seqs, held
<1>12. Runs(FlattenSeq(seqs), held[0], held[Len(seqs)]) BY <1>4, <1>5, FlattenedRuns
<1>13. Runs(FlattenSeq(seqs), opened, full) BY <1>4, <1>6, <1>12
<1> HIDE DEF first, opened, full, loaded, table, all, last
<1>14. Runs(first \o FlattenSeq(seqs), {}, full) BY <1>7, <1>13, RunsThen
<1>15. Runs(first \o FlattenSeq(seqs) \o all, {}, table) BY <1>8, <1>14, RunsThen
<1>16. Runs(first \o FlattenSeq(seqs) \o all \o mem_buffer_new(table), {}, loaded)
  BY <1>9, <1>15, RunsThen
<1>17. Runs(first \o FlattenSeq(seqs) \o all \o mem_buffer_new(table) \o last,
            {}, {"buffer", "data"})
  BY <1>10, <1>16, RunsThen
<1>18. QED BY <1>11, <1>17, SoundBody

\* The copies of n arguments.
LEMMA ArgvRuns ==
    ASSUME NEW u, NEW n \in Nat
    PROVE  Runs(copy_strings_to_argv(n, u), u, u \cup {"argv"} \cup Args(n))
<1> DEFINE undo(i) == u \cup {"argv"} \cup Args(i - 1)
           s == [i \in 1 .. n |-> Get(Arg(i), undo(i))]
           h == [k \in 0 .. n |-> u \cup {"argv"} \cup Args(k)]
<1>1. IsSequence(s) /\ Len(s) = n
  <2>1. s = [i \in 1 .. n |-> s[i]] OBVIOUS
  <2> HIDE DEF s
  <2>2. QED BY <2>1, ListedSteps
<1>2. ASSUME NEW p \in 1 .. n PROVE Takes(s[p], h[p - 1], h[p])
  <2>1. p \in 0 .. n /\ p - 1 \in 0 .. n OBVIOUS
  <2>2. h[p - 1] = undo(p) BY <2>1
  <2>3. s[p] = Get(Arg(p), undo(p)) OBVIOUS
  <2>4. h[p] = undo(p) \cup {Arg(p)}
    <3>1. Args(p) = Args(p - 1) \cup {Arg(p)}
      <4>1. \A j : j \in 1 .. p <=> j \in 1 .. p - 1 \/ j = p OBVIOUS
      <4>2. QED BY <4>1 DEF Args
    <3>2. h[p] = u \cup {"argv"} \cup Args(p) BY <2>1
    <3>3. QED BY <3>1, <3>2
  <2> HIDE DEF s, h, undo
  <2>5. QED BY <2>2, <2>3, <2>4, Taken
<1>3. h[0] = u \cup {"argv"} /\ h[n] = u \cup {"argv"} \cup Args(n)
  <2>1. Args(0) = {} BY DEF Args
  <2>2. QED BY <2>1
<1>4. copy_strings_to_argv(n, u) = << Get("argv", u) >> \o s
  BY DEF copy_strings_to_argv
<1> HIDE DEF s, h, undo
<1>5. HeldAlong(s, h) BY <1>1, <1>2 DEF HeldAlong
<1>6. Runs(s, u \cup {"argv"}, u \cup {"argv"} \cup Args(n)) BY <1>1, <1>3, <1>5 DEF Runs
<1>7. Runs(<< Get("argv", u) >>, u, u \cup {"argv"}) BY Taken, RunsOne
<1>8. QED BY <1>4, <1>6, <1>7, RunsThen

\* A fork with n arguments copied and the resources u held besides.
LEMMA ForkRuns ==
    ASSUME NEW u, u \subseteq {"c_program"}, NEW n \in Nat, n <= MaxEntries \/ n <= 3
    PROVE  Runs(Fork(n, u), u \cup {"argv"} \cup Args(n), {"process"})
<1> DEFINE given == {"argv"} \cup Args(n) \cup u
           all == given \cup {"process"}
<1>1. "process" \notin given BY CopiesApart DEF Single
<1>2. all \ given = {"process"} /\ given \subseteq all BY <1>1
<1>3. Takes(Get("process", given), given, all) BY Taken
<1>4. Takes(Put(given), all, {"process"}) BY <1>2, Taken
<1>5. u \cup {"argv"} \cup Args(n) = given OBVIOUS
<1>6. Fork(n, u) = << Get("process", given), Put(given) >> BY DEF Fork
<1> HIDE DEF all, given
<1>7. QED BY <1>3, <1>4, <1>5, <1>6, RunsTwo

\* The calls that start a program.
LEMMA SpawnSound ==
    /\ Sound(os_spawn3)
    /\ \A n \in 1 .. MaxEntries : Sound(os_spawnv(n))
<1>1. Sound(os_spawn3)
  <2>1. Runs(copy_strings_to_argv(3, {}), {}, {} \cup {"argv"} \cup Args(3)) BY ArgvRuns
  <2>2. Runs(Fork(3, {}), {} \cup {"argv"} \cup Args(3), {"process"}) BY ForkRuns
  <2>3. QED BY <2>1, <2>2, RunsThen, SoundBody DEF os_spawn3
<1>2. ASSUME NEW n \in 1 .. MaxEntries PROVE Sound(os_spawnv(n))
  <2>1. n \in Nat /\ n <= MaxEntries BY CopiesAssumption
  <2> DEFINE u == {"c_program"}
             a == u \cup {"argv"} \cup Args(n)
  <2>2. {} \cup u = u OBVIOUS
  <2>3. Runs(<< Check({}) >>, {}, {}) BY Taken, RunsOne
  <2>4. Runs(<< Get("c_program", {}) >>, {}, u) BY <2>2, Taken, RunsOne
  <2>5. Runs(copy_strings_to_argv(n, u), u, a) BY <2>1, ArgvRuns
  <2>6. Runs(Fork(n, u), a, {"process"}) BY <2>1, ForkRuns
  <2>7. os_spawnv(n) = Body(<< Check({}) >> \o << Get("c_program", {}) >>
                            \o copy_strings_to_argv(n, u) \o Fork(n, u), {"process"})
    BY DEF os_spawnv
  <2> HIDE DEF u, a
  <2>8. Runs(<< Check({}) >> \o << Get("c_program", {}) >>, {}, u) BY <2>3, <2>4, RunsThen
  <2>9. Runs(<< Check({}) >> \o << Get("c_program", {}) >> \o copy_strings_to_argv(n, u), {}, a)
    BY <2>5, <2>8, RunsThen
  <2>10. Runs(<< Check({}) >> \o << Get("c_program", {}) >>
                \o copy_strings_to_argv(n, u) \o Fork(n, u), {}, {"process"})
    BY <2>6, <2>9, RunsThen
  <2>11. QED BY <2>7, <2>10, SoundBody
<1>3. QED BY <1>1, <1>2

\* Every call of the runtime.
LEMMA CallsSound == \A c \in Calls : Sound(c)
<1>1. ASSUME NEW n \in 0 .. MaxEntries PROVE Sound(fs_list_dir(n)) BY ListSound
<1>2. QED
  BY <1>1, MemorySound, FilesSound, SmallSound, ThreadSound, SpawnSound DEF Calls

\* What CallInv says of the next step: it releases what is held.
LEMMA NextStepHolds ==
    ASSUME CallInv, Running
    PROVE  /\ pc \in 1 .. Len(call.steps)
           /\ Step.op = "put" => Step.what \subseteq live
           /\ Step.undo \subseteq live
           /\ Step.op # "put" => live \ Step.undo = {}
<1> DEFINE n == Len(call.steps)
<1>1. call # Null /\ returned = "running" /\ pc <= n BY DEF Running
<1>2. IsSequence(call.steps) /\ pc \in 1 .. n + 1 BY <1>1 DEF CallInv
<1>3. n \in Nat BY <1>2, StepsListed
<1>4. PICK h : HeldAlong(call.steps, h) /\ live = h[pc - 1] BY <1>1 DEF CallInv
<1> HIDE DEF n
<1>5. pc \in 1 .. n BY <1>1, <1>2, <1>3
<1>6. Takes(Step, live, h[pc]) BY <1>4, <1>5 DEF HeldAlong, Step, n
<1>7. QED BY <1>5, <1>6 DEF Takes, n

\* CallInv is inductive.
LEMMA CallInvHolds == CallSpec => []CallInv
<1>1. CallInit => CallInv BY DEF CallInit, CallInv
<1>2. ASSUME CallInv, [CallNext]_callVars PROVE CallInv'
  <2>1. CASE Begin
    <3>1. call' \in Calls /\ pc' = 1 /\ live' = {} /\ returned' = "running" BY <2>1 DEF Begin
    <3>2. Runs(call'.steps, {}, call'.result) BY <3>1, CallsSound DEF Sound
    <3> DEFINE s == call'.steps
    <3>3. IsSequence(s) BY <3>2 DEF Runs
    <3>4. PICK h : h[0] = {} /\ h[Len(s)] = call'.result /\ HeldAlong(s, h) BY <3>2 DEF Runs
    <3>5. Len(s) \in Nat BY <3>3, StepsListed
    <3>6. pc' \in 1 .. Len(s) + 1 /\ pc' - 1 = 0 BY <3>1, <3>5
    <3> HIDE DEF s
    <3>7. live' = h[pc' - 1] BY <3>1, <3>4, <3>6
    <3>8. QED BY <3>1, <3>3, <3>4, <3>6, <3>7 DEF CallInv, s
  <2>2. CASE Succeed
    <3> DEFINE n == Len(call.steps)
    <3>1. call # Null /\ returned = "running" /\ call' = call /\ returned' = returned
          /\ pc' = pc + 1
      BY <2>2 DEF Succeed, Running
    <3>2. IsSequence(call.steps) BY <1>2, <3>1 DEF CallInv
    <3>3. n \in Nat BY <3>2, StepsListed
    <3>4. PICK h : HeldAlong(call.steps, h) /\ h[n] = call.result /\ live = h[pc - 1]
      BY <1>2, <3>1 DEF CallInv
    <3>5. pc \in 1 .. n BY <1>2, <2>2, NextStepHolds DEF Succeed
    <3> HIDE DEF n
    <3>6. Takes(Step, live, h[pc]) BY <3>4, <3>5 DEF HeldAlong, Step, n
    <3>7. live' = h[pc] BY <2>2, <3>6 DEF Succeed, Takes
    <3>8. pc' - 1 = pc /\ pc' \in 1 .. n + 1 BY <3>1, <3>3, <3>5
    <3>9. live' = h[pc' - 1] BY <3>7, <3>8
    <3>10. QED BY <3>1, <3>2, <3>4, <3>8, <3>9 DEF CallInv, n
  <2>3. CASE Fail
    <3>1. call # Null /\ call' = call /\ pc' = pc /\ returned' = "failed" /\ Running
          /\ Step.op # "put" /\ live' = live \ Step.undo
      BY <2>3 DEF Fail, Running
    <3>2. live' = {} BY <1>2, <3>1, NextStepHolds
    <3>3. QED BY <1>2, <3>1, <3>2 DEF CallInv
  <2>4. CASE Return
    <3> DEFINE n == Len(call.steps)
    <3>1. call # Null /\ returned = "running" /\ pc > n /\ returned' = "ok"
          /\ call' = call /\ pc' = pc /\ live' = live
      BY <2>4 DEF Return
    <3>2. IsSequence(call.steps) /\ pc \in 1 .. n + 1 BY <1>2, <3>1 DEF CallInv
    <3>3. n \in Nat BY <3>2, StepsListed
    <3>4. PICK h : h[n] = call.result /\ live = h[pc - 1] BY <1>2, <3>1 DEF CallInv
    <3> HIDE DEF n
    <3>5. pc - 1 = n BY <3>1, <3>2, <3>3
    <3>6. live = call.result BY <3>4, <3>5
    <3>7. QED BY <1>2, <3>1, <3>6 DEF CallInv
  <2>5. CASE UNCHANGED callVars BY <1>2, <2>5 DEF callVars, CallInv
  <2>6. QED BY <1>2, <2>1, <2>2, <2>3, <2>4, <2>5 DEF CallNext
<1>3. QED BY <1>1, <1>2, PTL DEF CallSpec

\* A call of the runtime that fails, at whatever step, has released what it
\* had acquired and nothing twice; one that succeeds holds what its result
\* carries.  For listings of any length and programs with any number of
\* arguments.
THEOREM CallsKeepNothing == CallSpec => []NothingLeaks
<1>1. CallInv => NothingLeaks
  <2> SUFFICES ASSUME CallInv PROVE NothingLeaks
    OBVIOUS
  <2>1. /\ returned = "failed" => live = {}
        /\ returned = "ok" => live = call.result
    BY DEF CallInv
  <2>2. Running => /\ Step.op = "put" => Step.what \subseteq live
                   /\ Step.undo \subseteq live
    BY NextStepHolds
  <2>3. QED BY <2>1, <2>2 DEF NothingLeaks
<1>2. QED BY <1>1, CallInvHolds, PTL
=============================================================================
