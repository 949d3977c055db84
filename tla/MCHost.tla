------------------------------- MODULE MCHost -------------------------------
(***************************************************************************)
(* What runs on the host: the test command with the programs it starts,    *)
(* and the calls and tables of the runtime those programs are linked with. *)
(* A behaviour explores a test plan, the failures of one runtime call, or  *)
(* a sequence of operations on one of the tables.                          *)
(***************************************************************************)
EXTENDS TestCommand, RuntimeCalls, RuntimeTables

VARIABLE part    \* "tests", "calls", "poller" or "child"

-----------------------------------------------------------------------------
(* Tests: one or two targets with up to two ordinary tests and two         *)
(* regression cases, some of which fail, trap or hang, with and without a  *)
(* time limit.                                                             *)

RegressionCase(kind, compiles, expectation, matches, run, code) ==
    [kind |-> kind, compiles |-> compiles, expectation |-> expectation,
     matches |-> matches, run |-> run, code |-> code]

RegressionCases ==
    {RegressionCase(k, c, e, m, Exited(0), 0) :
        k \in {"check-pass", "check-fail", "mir"}, c \in BOOLEAN,
        e \in {"present", "missing"}, m \in BOOLEAN}
    \cup {RegressionCase("run-output", c, "present", m, r, code) :
        c \in {TRUE}, m \in BOOLEAN, code \in {0, 1, 127},
        r \in {Exited(0), Exited(1), Aborted, Hang}}

OneTarget(ordinary, cases, timeout, loads, builds) ==
    [ordinary |-> ordinary, cases |-> cases, timeout |-> timeout,
     loads |-> loads, builds |-> builds]

Tests == {<<>>} \cup {<<a>> : a \in {"nil", "error", "trap", "hang"}}
         \cup {<<"nil", b>> : b \in {"nil", "error"}}

Passing == OneTarget(<<"nil">>, <<>>, 1, TRUE, TRUE)

MCPlans ==
    {<<OneTarget(t, cs, limit, TRUE, TRUE)>> :
        t \in Tests, limit \in {0, 1},
        cs \in {<<>>} \cup {<<c>> : c \in RegressionCases}}
    \cup {<<OneTarget(t, <<c>>, 1, loads, builds), Passing>> :
        t \in {<<>>, <<"nil">>, <<"error">>}, loads \in BOOLEAN,
        builds \in BOOLEAN,
        c \in {d \in RegressionCases : d.kind # "mir"}}

-----------------------------------------------------------------------------
(* The runtime.                                                            *)

\* The ends of the three pipes as pipe() numbers them: in order, in order
\* with a gap, and with standard descriptors that were closed reused.
Numbering(a, b, c, d, e, f) ==
    [inRead |-> a, inWrite |-> b, outRead |-> c, outWrite |-> d,
     errRead |-> e, errWrite |-> f]
MCPipes == {Numbering(3, 4, 5, 6, 7, 8), Numbering(3, 4, 7, 8, 5, 6),
            Numbering(8, 7, 4, 3, 6, 5), Numbering(0, 3, 4, 5, 6, 7),
            Numbering(5, 3, 4, 6, 8, 7)}

MCName(i) == "name" \o ToString(i)
MCArg(i)  == "arg" \o ToString(i)

MCInterests == {{"in"}, {"in", "out"}}
MCStates == {{}, {"in"}, {"out"}, {"in", "hup"}, {"err"}}

-----------------------------------------------------------------------------
runtimeVars == <<callVars, tableVars>>

\* Outside the tests the command is over.
NoTests ==
    /\ plan = <<Passing>> /\ autoReap = FALSE
    /\ at = 1 /\ todo = Start
    /\ verdict = FALSE /\ ok = FALSE /\ exit = 1
    /\ child = NoChild /\ waiter = "none" /\ driver = "idle" /\ late = FALSE

HostInit ==
    /\ CallInit /\ TableInit
    /\ \/ part = "tests" /\ Init
       \/ part \in {"calls", "poller", "child"} /\ NoTests

HostNext ==
    /\ UNCHANGED part
    /\ \/ part = "tests" /\ Next /\ UNCHANGED runtimeVars
       \/ part = "calls" /\ CallNext /\ UNCHANGED <<tableVars, testVars>>
       \/ /\ part = "poller" /\ UNCHANGED <<callVars, testVars>>
          /\ poller_add \/ poller_set \/ poller_remove \/ poller_wait
       \/ part = "child" /\ os_spawn /\ UNCHANGED <<callVars, testVars>>

HostSpec == HostInit /\ [][HostNext]_<<part, testVars, runtimeVars>> /\ Fairness
=============================================================================
