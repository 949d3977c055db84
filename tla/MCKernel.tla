------------------------------ MODULE MCKernel ------------------------------
(* The instances of WorkflowKernel that TLC checks: what the clients of each *)
(* run send.  The codes are the bytes of the program, so U8 is 256.          *)
EXTENDS WorkflowKernel

Poll          == [op |-> "poll"]
Schedule(id)  == [op |-> "schedule", id |-> id, due |-> 1]
CancelMsg(id) == [op |-> "cancel", id |-> id]
Update(value, version) ==
    [op |-> "update", name |-> 7, value |-> value, version |-> version]

\* A request runs task 5 or uses the ticket that lease 1 stands for (129).
ConnectionMessages == {Poll, CancelMsg(1)}

\* Updates of an object, conditional on the first version and unconditional,
\* program updates and a task.
DurableMessages ==
    {Poll, Schedule(2), Update(1, 1), Update(2, 0), [op |-> "apply", lease |-> 1]}

\* A request, and a task scheduled in the step that reports it.
LeakMessages == {Poll, Schedule(2)}

\* Two workflows that run a task; the first one may be cancelled.
WorkflowMessages == {Poll, Schedule(2), Schedule(3), CancelMsg(2)}

\* A client overwrites the lane of the workflow service.
LaneBBytes == {[lane |-> JOURNAL_LANE_B, value |-> 1]}

OtherTimers == {[id |-> 2, due |-> 1]}

UpdateManifests == {[version |-> 1, expected_len |-> 1]}

=============================================================================
