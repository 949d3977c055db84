-------------------------- MODULE WorkflowContract --------------------------
(* What the workflow service and the completion mailbox promise a client:    *)
(* one workflow at a time; the outcome a client reads from the record of an  *)
(* ended workflow is the one the mailbox was told, exactly once and in the   *)
(* order the workflows ended; the exception is a cancelled workflow, which   *)
(* may end without a report.  Timers, tasks, restarts and leases are hidden. *)
EXTENDS Naturals, Sequences

CONSTANTS Id,         \* the names workflows are reported under
          Outcome,    \* how a workflow may end
          Cancelled,  \* the outcomes that need no report
          None,       \* no outcome yet: the workflow is active
          Capacity    \* the number of reports the mailbox holds

VARIABLES record,    \* the last workflow, as [id, outcome]
          reports,   \* the queue of reports not yet taken, each [id, outcome]
          accepted   \* the number of workflows clients were told are accepted

active == record.outcome = None

Init == /\ record \in [id : Id, outcome : Outcome]
        /\ reports = << >>
        /\ accepted = 0

\* A client is told that its workflow was accepted exactly if one begins.
Begin == /\ record' \in [id : Id, outcome : {None}]
         /\ accepted' = accepted + 1

End(outcomes) ==
    /\ \E outcome \in outcomes : record' = [record EXCEPT !.outcome = outcome]
    /\ UNCHANGED accepted

Tell(outcomes) ==
    /\ Len(reports) < Capacity
    /\ \E outcome \in outcomes :
          reports' = Append(reports, [record EXCEPT !.outcome = outcome])

Accept == ~active /\ Begin /\ UNCHANGED reports

\* The outcome told is the one that stays in the record.
Finish == active /\ End(Outcome) /\ Tell({record'.outcome})

\* One step may finish a workflow and accept the next one.
FinishAndAccept == active /\ Begin /\ Tell(Outcome)

Cancel == /\ active
          /\ End(Cancelled)
          /\ UNCHANGED reports

Take == /\ reports # << >>
        /\ reports' = Tail(reports)
        /\ UNCHANGED << record, accepted >>

Next == Accept \/ Finish \/ FinishAndAccept \/ Cancel \/ Take

Spec == Init /\ [][Next]_<< record, reports, accepted >>
=============================================================================
