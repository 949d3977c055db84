---------------------------- MODULE TestCommand ----------------------------
(***************************************************************************)
(* mc test (compiler/driver/driver_test.cpp) and the child processes it    *)
(* runs with a time limit (compiler/driver/ops.cpp).  The driver takes the *)
(* targets in order; a target's ordinary tests run in one generated runner *)
(* process, its compiler regression cases one after the other, those of    *)
(* kind run-output in a process each.  A process with a time limit is      *)
(* waited for by a thread of its own while the driver waits for the thread *)
(* or the deadline.                                                        *)
(*                                                                         *)
(* A target is what discovery finds: whether its graph and its tests can   *)
(* be loaded, what every ordinary test does when it runs, and for every    *)
(* case what the compiler and the program do and what is expected of them. *)
(***************************************************************************)
EXTENDS Integers, Sequences, SequencesExt

CONSTANTS Plans   \* the sequences of targets a run explores

\* How a program ends by itself: with an exit code, by a signal other than
\* SIGKILL, or not at all.
Programs == ({"exit"} \X (0 .. 255)) \cup ({"signal"} \X (Nat \ {9})) \cup {<<"hang", 0>>}

CaseType ==
    [kind : {"check-pass", "check-fail", "mir", "run-output"}, compiles : BOOLEAN,
     expectation : {"present", "missing"}, matches : BOOLEAN, run : Programs, code : Int]

TargetType ==
    [ordinary : Seq({"nil", "error", "trap", "hang"}), cases : Seq(CaseType),
     timeout : Int, loads : BOOLEAN, builds : BOOLEAN]

\* A project without targets to test is refused (SelectTestTargets).
ASSUME PlansAssumption == Plans \subseteq Seq(TargetType) \ {<<>>}

VARIABLES
    plan,      \* the targets under test
    autoReap,  \* SIGCHLD is ignored: the kernel reaps children by itself
    at,        \* the target the driver works on
    todo,      \* what it does next for it
    verdict,   \* target_ok of the current target
    ok,        \* RunTestCommand's ok
    exit,      \* its exit code, -1 until it returns
    child,     \* the child process and its wait status
    waiter,    \* the waiter thread of WaitForChildProcess
    driver,    \* where the driver is inside WaitForChildProcess
    late       \* the deadline has passed

childVars == <<child, waiter, driver, late>>
testVars == <<plan, autoReap, at, todo, verdict, ok, exit, childVars>>

NoChild   == [st |-> "none", status |-> <<"none", 0>>]
Exited(c) == <<"exit", c>>
Killed    == <<"signal", 9>>
Hang      == <<"hang", 0>>
Aborted   == <<"signal", 6>>

Start    == [do |-> "graph", n |-> 0]
Target   == plan[at]
Case     == Target.cases[todo.n]
HasLimit == Target.timeout > 0

Init ==
    /\ plan \in Plans /\ autoReap \in BOOLEAN
    /\ at = 1 /\ todo = Start
    /\ verdict = TRUE /\ ok = TRUE /\ exit = -1
    /\ child = NoChild /\ waiter = "none" /\ driver = "idle" /\ late = FALSE

-----------------------------------------------------------------------------
(* The programs that run as children.                                      *)

\* The generated runner calls every test, counts the failures and returns 1
\* if there are any or a line cannot be written; a test may trap or hang.
RunnerEnds(tests) ==
    LET stop == {i \in DOMAIN tests : tests[i] \in {"hang", "trap"}}
        first == CHOOSE i \in stop : \A j \in stop : i <= j
    IN  IF stop = {}
        THEN {Exited(1)} \cup {s \in {Exited(0)} :
                                  \A i \in DOMAIN tests : tests[i] = "nil"}
        ELSE {Exited(1)} \cup {s \in {Aborted} : tests[first] = "trap"}

ProgramEnds(c) == IF c.run = Hang THEN {} ELSE {c.run}

\* 127: the child could not open its output file or could not exec.
ChildEnds ==
    {Exited(127)} \cup IF todo.do = "ordinary" THEN RunnerEnds(Target.ordinary)
                       ELSE ProgramEnds(Case)

-----------------------------------------------------------------------------
(* The child and WaitForChildProcess.                                      *)

Gone(status) == [st |-> IF autoReap THEN "reaped" ELSE "zombie",
                 status |-> status]

ChildExits ==
    /\ child.st = "running"
    /\ \E status \in ChildEnds : child' = Gone(status)
    /\ UNCHANGED <<plan, autoReap, at, todo, verdict, ok, exit, waiter, driver, late>>

\* waitpid: it returns the status of a zombie, and fails for a child the
\* kernel has reaped.
Waitable == child.st \in {"zombie", "reaped"}

WaiterReaps ==
    /\ waiter = "waiting" /\ Waitable
    /\ waiter' = IF child.st = "zombie" THEN "reaped" ELSE "error"
    /\ child' = [child EXCEPT !.st = "reaped"]
    /\ UNCHANGED <<plan, autoReap, at, todo, verdict, ok, exit, driver, late>>

\* The thread publishes what waitpid said under the lock and ends.
WaiterPublishes ==
    /\ waiter \in {"reaped", "error"}
    /\ waiter' = IF waiter = "reaped" THEN "done" ELSE "failed"
    /\ UNCHANGED <<plan, autoReap, at, todo, verdict, ok, exit, child, driver, late>>

DeadlinePasses ==
    /\ driver = "timed wait" /\ ~late
    /\ late' = TRUE
    /\ UNCHANGED <<plan, autoReap, at, todo, verdict, ok, exit, child, waiter, driver>>

\* A deadline that gives up on the child without killing it.
KillForgotten ==
    /\ driver = "timed wait" /\ late /\ waiter \notin {"done", "failed"}
    /\ driver' = "joining"
    /\ UNCHANGED <<plan, autoReap, at, todo, verdict, ok, exit, child, waiter, late>>

\* The wait ran out before the thread published anything: kill, then join.
Kill ==
    /\ driver = "timed wait" /\ late /\ waiter \notin {"done", "failed"}
    /\ child' = IF child.st = "running" THEN Gone(Killed) ELSE child
    /\ driver' = "joining"
    /\ UNCHANGED <<plan, autoReap, at, todo, verdict, ok, exit, waiter, late>>

\* Everything past the deadline counts as a timeout.
WaitForChildResultByClock ==
    IF driver = "untimed wait"
    THEN IF child.st = "zombie" THEN "exited" ELSE "wait error"
    ELSE IF waiter = "failed" THEN "wait error"
    ELSE IF driver = "joining" THEN "timed out" ELSE "exited"

\* How WaitForChildProcess classifies the end of the child.
WaitForChildResult ==
    IF driver = "untimed wait"
    THEN IF child.st = "zombie" THEN "exited" ELSE "wait error"
    ELSE IF waiter = "failed" THEN "wait error"
    ELSE IF driver = "joining" /\ child.status = Killed THEN "timed out"
    ELSE "exited"

\* A timed-out wait that does not join the thread.
WaitIsOverDetached ==
    \/ driver = "untimed wait" /\ Waitable
    \/ driver = "timed wait" /\ waiter \in {"done", "failed"}
    \/ driver = "joining"

WaitIsOver ==
    \/ driver = "untimed wait" /\ Waitable
    \/ driver \in {"timed wait", "joining"} /\ waiter \in {"done", "failed"}

\* RunExecutableCapture: a failed fork or wait is exit code 127.
Captured ==
    LET how == IF child.st = "none" THEN "wait error" ELSE WaitForChildResult
    IN  [timedOut |-> how = "timed out",
         exited   |-> how = "wait error"
                      \/ (how = "exited" /\ child.status[1] = "exit"),
         code     |-> IF how = "wait error" THEN 127
                      ELSE IF child.status[1] = "exit" THEN child.status[2]
                      ELSE 0]

Spawn ==
    /\ child' = [NoChild EXCEPT !.st = "running"]
    /\ late' = FALSE
    /\ IF HasLimit THEN driver' = "timed wait" /\ waiter' = "waiting"
       ELSE driver' = "untimed wait" /\ waiter' = "none"

\* The call returns: the driver's own waitpid has reaped the child, or the
\* joined thread has.  What is not reaped or joined stays.
EndWait ==
    /\ child' = IF child.st = "reaped" \/ driver = "untimed wait" THEN NoChild
                ELSE child
    /\ waiter' = IF waiter \in {"done", "failed"} THEN "none" ELSE waiter
    /\ driver' = "idle" /\ late' = FALSE

-----------------------------------------------------------------------------
(* The cases that need no child, and what a finished child means.          *)

\* check-fail: the compile fails and its diagnostics hold every expected
\* line; an expectation file that cannot be read has no lines.
EvaluateCheckFailCase(c) ==
    ~c.compiles /\ (c.expectation = "missing" \/ c.matches)

EvaluateMirCase(c) == c.compiles /\ c.expectation = "present" /\ c.matches

EvaluateCase(c) ==
    CASE c.kind = "check-pass" -> c.compiles
      [] c.kind = "check-fail" -> EvaluateCheckFailCase(c)
      [] c.kind = "mir"        -> EvaluateMirCase(c)

\* Whether the text in the output file is the expected one.  With code 127 the
\* program may never have run, and the text is empty or of an earlier run.
Compared(c, run) == {c.matches} \cup IF run.code = 127 THEN BOOLEAN ELSE {}

\* A comparison that trusts the exit code of a process that did not exit.
EvaluateRunOutputByCode(c, run, same) == ~run.timedOut /\ run.code = c.code /\ same

\* run-output: the rest of EvaluateRunOutputCase once the program ended.
EvaluateRunOutput(c, run, same) ==
    ~run.timedOut /\ run.exited /\ run.code = c.code /\ same

OrdinaryPassed(run) == ~run.timedOut /\ run.exited /\ run.code = 0

-----------------------------------------------------------------------------
(* RunTestCommand.                                                         *)

Finish(code) == exit' = code /\ UNCHANGED <<at, todo, verdict, ok>>

AfterOrdinary == [do |-> "case", n |-> 1]
NextCase      == [do |-> "case", n |-> todo.n + 1]

\* BuildTargetGraph or DiscoverTargetTests fails: the command ends at once.
LoadTarget ==
    /\ exit = -1 /\ todo.do = "graph"
    /\ IF ~Target.loads THEN Finish(1)
       ELSE /\ todo' = IF Target.ordinary = <<>> THEN AfterOrdinary
                       ELSE [do |-> "ordinary", n |-> 0]
            /\ verdict' = TRUE
            /\ UNCHANGED <<at, ok, exit>>
    /\ UNCHANGED <<plan, autoReap, childVars>>

\* RunOrdinaryTestsForTarget: write and build the runner, then run it.
RunOrdinaryTests ==
    /\ exit = -1 /\ todo.do = "ordinary" /\ driver = "idle"
    /\ \/ ~Target.builds /\ verdict' = FALSE /\ todo' = AfterOrdinary
          /\ UNCHANGED childVars
       \/ Target.builds /\ Spawn /\ UNCHANGED <<todo, verdict>>
       \/ Target.builds                                       \* fork failed
          /\ verdict' = FALSE /\ todo' = AfterOrdinary /\ UNCHANGED childVars
    /\ UNCHANGED <<plan, autoReap, at, ok, exit>>

OrdinaryTestsEnd ==
    /\ todo.do = "ordinary" /\ WaitIsOver
    /\ verdict' = OrdinaryPassed(Captured)
    /\ todo' = AfterOrdinary
    /\ EndWait
    /\ UNCHANGED <<plan, autoReap, at, ok, exit>>

\* RunCompilerRegressionCases goes on after a failed case.
RunRegressionCase ==
    /\ exit = -1 /\ todo.do = "case" /\ todo.n <= Len(Target.cases)
    /\ driver = "idle"
    /\ IF Case.kind # "run-output"
       THEN /\ verdict' = (verdict /\ EvaluateCase(Case))
            /\ todo' = NextCase /\ UNCHANGED childVars
       ELSE \/ /\ Case.compiles /\ Case.expectation = "present"
               /\ Spawn /\ UNCHANGED <<verdict, todo>>
            \/ /\ Case.compiles /\ Case.expectation = "present"  \* fork failed
               /\ \E same \in Compared(Case, Captured) :
                     verdict' = (verdict /\ EvaluateRunOutput(Case, Captured, same))
               /\ todo' = NextCase /\ UNCHANGED childVars
            \/ verdict' = FALSE /\ todo' = NextCase             \* not built
               /\ UNCHANGED childVars
    /\ UNCHANGED <<plan, autoReap, at, ok, exit>>

RegressionCaseEnds ==
    /\ todo.do = "case" /\ WaitIsOver
    /\ \E same \in Compared(Case, Captured) :
          verdict' = (verdict /\ EvaluateRunOutput(Case, Captured, same))
    /\ todo' = NextCase
    /\ EndWait
    /\ UNCHANGED <<plan, autoReap, at, ok, exit>>

\* The verdict of a target; a target without tests passes.
FinishTarget ==
    /\ exit = -1 /\ todo.do = "case" /\ todo.n > Len(Target.cases)
    /\ driver = "idle"
    /\ ok' = (ok /\ verdict)
    /\ IF at = Len(plan) THEN exit' = (IF ok' THEN 0 ELSE 1) /\ UNCHANGED <<at, todo>>
       ELSE at' = at + 1 /\ todo' = Start /\ UNCHANGED exit
    /\ UNCHANGED <<plan, autoReap, verdict, childVars>>

DriverStep == \/ LoadTarget \/ RunOrdinaryTests \/ OrdinaryTestsEnd
              \/ RunRegressionCase \/ RegressionCaseEnds \/ FinishTarget \/ Kill

Next == \/ DriverStep \/ ChildExits
        \/ WaiterReaps \/ WaiterPublishes \/ DeadlinePasses

TestSpec == Init /\ [][Next]_testVars

\* The driver and its thread run whenever they can and time goes on; a
\* child need not end by itself.
Fairness == /\ WF_testVars(DriverStep) /\ WF_testVars(WaiterReaps)
            /\ WF_testVars(WaiterPublishes) /\ WF_testVars(DeadlinePasses)

-----------------------------------------------------------------------------
(* Properties.                                                             *)

\* A case holds: what its kind promises is true of what was compiled and run.
\* Exit code 127 is also what a program that could not be started or waited for
\* gets: a case that expects it says nothing about the program.
Holds(c) ==
    CASE c.kind = "check-pass" -> c.compiles
      [] c.kind = "check-fail" -> ~c.compiles
                                  /\ (c.expectation = "present" => c.matches)
      [] c.kind = "mir" -> c.compiles /\ c.expectation = "present" /\ c.matches
      [] OTHER -> /\ c.compiles /\ c.expectation = "present"
                  /\ c.code # 127 => c.matches /\ c.run = Exited(c.code)

\* A green run is earned (RunTestCommand): exit code 0 means that every
\* target loaded, every ordinary test of it ran and returned nil, and every
\* regression case holds, whatever timed out, trapped or could not start
\* and whichever case or target came later.  (A check-fail case whose
\* expectation file is missing is satisfied by any failing compile.)
GreenIsEarned ==
    exit = 0 => \A i \in DOMAIN plan :
        /\ plan[i].loads
        /\ \A k \in DOMAIN plan[i].ordinary :
               plan[i].builds /\ plan[i].ordinary[k] = "nil"
        /\ \A k \in DOMAIN plan[i].cases : Holds(plan[i].cases[k])

\* A red run is deserved when nothing outside the project interferes
\* (WaitForChildProcess): a child that ended by itself inside its limit is
\* judged by its own status, so a timeout is reported only past the deadline
\* and only for a child that SIGKILL ended.
VerdictFitsTheChild ==
    WaitIsOver =>
        /\ Captured.timedOut => late /\ child.status = Killed
        /\ Captured.exited /\ Captured.code # 127
               => child.status = Exited(Captured.code)
        /\ ~Captured.exited => child.status[1] = "signal"
        /\ child.status = Killed /\ ~autoReap => Captured.timedOut

\* Whenever the driver is outside WaitForChildProcess no child is alive or
\* left as a zombie and no waiter thread is left (the thread captures the
\* driver's stack frame by reference).
NothingIsLeftBehind ==
    driver = "idle" => child.st = "none" /\ waiter = "none"

\* If every target sets a positive timeout_ms, mc test ends, also when a
\* test hangs.  That the compile steps end is assumed (they are single steps).
LimitedRunsEnd ==
    (\A i \in DOMAIN plan : plan[i].timeout > 0) => <>(exit # -1)
=============================================================================
