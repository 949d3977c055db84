--------------------------- MODULE WorkflowKernel ---------------------------
(* The kernel around the workflow service: kernel/src/kernel_dispatch.mc     *)
(* hands every message to one service and commits the new states, and        *)
(* kernel/src/boot/init.mc restarts services one at a time.  Messages are    *)
(* handled to completion, so an action is one message or one restart; what   *)
(* interleaves is the clients, the restarts and the failures of writes.      *)
(*                                                                           *)
(* What clients may send is given by constants, an empty set leaves the      *)
(* operation out.                                                            *)
EXTENDS Workflow

CONSTANTS Messages,    \* the messages clients send to the workflow endpoint
          UserTimers,  \* the timers clients create and cancel, as [id, due]
          UserTasks,   \* the opcodes clients submit to the task service
          UserEnds,    \* the task ids clients cancel or complete
          Slots,       \* the connection slots clients use
          Ingress,     \* the request bytes clients send
          Budgets,     \* the idle budgets connections are opened with
          Names,       \* the objects clients create and replace
          Values,      \* the values they write
          Artifacts,   \* the bytes clients stage
          Manifests,   \* the manifests they record, as [version, expected_len]
          LeaseKinds,  \* the kinds of lease clients ask for
          LaneBytes,   \* what clients append to the journal, as [lane, value]
          Restarts,    \* the services that are restarted
          Faults       \* what a failing write leaves: "kept", "torn", "written"

CONSTANTS MaxWorkflows,  \* bound on the workflows accepted
          MaxRestarts,   \* bound on the restarts
          MaxTasks,      \* bound on the task id counter for client submissions
          MaxVersion,    \* bound on the object versions clients reach
          MaxLeases      \* bound on the lease and ticket id counters

\* Clients send bytes, and bytes are wide enough for the codes of the program,
\* of which this id is the largest.
ASSUME KernelAssumption ==
    /\ WORKFLOW_UPDATE_APPLY_ID \in Byte
    /\ Messages \subseteq WorkflowMessage
    /\ Slots \subseteq ConnectionSlot
    /\ UserTimers \subseteq [id : Byte, due : Byte]
    /\ Manifests \subseteq [version : Byte, expected_len : Byte]
    /\ LaneBytes \subseteq [lane : {JOURNAL_LANE_A, JOURNAL_LANE_B}, value : Byte]
    /\ UNION {Ingress, Budgets, Names, Values, Artifacts} \subseteq Byte
    /\ Faults \subseteq {"kept", "torn", "written"}

VARIABLES workflow, timer, task, completion, connection, lease, ticket,
          object_store, update_store, journal,
          workset_generation,     \* u8 of the generation of the work set
          completion_generation,  \* u8 of the generation of the mailbox
          disk,                   \* the artifact files of the durable services
          accepted,               \* ghost: workflows accepted so far
          restarts                \* ghost: restarts so far

services == << workflow, timer, task, completion, connection, lease, ticket,
               object_store, update_store, journal >>

vars == << services, workset_generation, completion_generation, disk,
           accepted, restarts >>

\* A file that was never written, or is cut short, is read as a fresh state.
fresh_disk == [object |-> object_store_init, journal |-> journal_init,
               update |-> update_store_init]

Init == /\ workflow = workflow_state_init
        /\ timer = timer_init
        /\ task = task_init
        /\ completion = completion_mailbox_init
        /\ connection = connection_init
        /\ lease = lease_init
        /\ ticket = ticket_init(1)
        /\ object_store = object_store_init
        /\ update_store = update_store_init
        /\ journal = journal_init
        /\ workset_generation = 1
        /\ completion_generation = 1
        /\ disk = fresh_disk
        /\ accepted = 0
        /\ restarts = 0
-----------------------------------------------------------------------------
(* Writing the artifact files.                                               *)

\* What fs.write_all can leave in a file when it fails: the old content (it
\* could not be opened), nothing (it was truncated and not written out) or the
\* new content (it could not be closed).
write_failures(old, new, fresh) ==
    {old : f \in Faults \intersect {"kept"}}
        \union {fresh : f \in Faults \intersect {"torn"}}
        \union {new : f \in Faults \intersect {"written"}}

\* The outcomes [ok, disk] of writing new to a file after the outcome p, if
\* the service changed.  A failure stops the sequence.
write_all(p, changed, file, new) ==
    IF ~p.ok \/ ~changed THEN {p}
    ELSE {[ok |-> TRUE, disk |-> [p.disk EXCEPT ![file] = new]]}
         \union {[ok |-> FALSE, disk |-> [p.disk EXCEPT ![file] = c]] :
                    c \in write_failures(p.disk[file], new, fresh_disk[file])}

\* The update store has two files.  The second, the launch record, is not
\* changed here, but writing it can fail when the first is written already.
update_store_persist(p, changed, new) ==
    LET first == write_all(p, changed, "update", new)
    IN  first \union {[q EXCEPT !.ok = FALSE] :
                         q \in {q \in first : q.ok /\ changed /\ Faults # {}}}

\* Mutant of persist_workflow_step: the update store is left to be written by
\* its next own message.
persist_workflow_step_no_update(before, after) ==
    UNION { write_all(p, before.journal # after.journal, "journal", after.journal) :
        p \in write_all([ok |-> TRUE, disk |-> disk],
                        before.object_store # after.object_store, "object",
                        after.object_store) }

\* A workflow step writes the services it changed in this order.
persist_workflow_step(before, after) ==
    UNION { UNION { update_store_persist(q, before.update_store # after.update_store,
                                         after.update_store) :
              q \in write_all(p, before.journal # after.journal, "journal",
                              after.journal) } :
        p \in write_all([ok |-> TRUE, disk |-> disk],
                        before.object_store # after.object_store, "object",
                        after.object_store) }
-----------------------------------------------------------------------------
(* Messages to the workflow service, directly, from a connection or from a   *)
(* lease.                                                                    *)

\* The generation of the ticket cell and the epoch of its table start at 1
\* and are both counted up by restart_ticket.
runtime == [workflow |-> workflow, timer |-> timer, task |-> task,
            completion |-> completion, connection |-> connection,
            lease |-> lease, ticket |-> ticket,
            object_store |-> object_store, update_store |-> update_store,
            journal |-> journal, workset_generation |-> workset_generation,
            ticket_generation |-> ticket.epoch, effect |-> "Ok"]

commit(r) == /\ workflow' = r.workflow
             /\ timer' = r.timer
             /\ task' = r.task
             /\ completion' = r.completion
             /\ connection' = r.connection
             /\ lease' = r.lease
             /\ ticket' = r.ticket
             /\ object_store' = r.object_store
             /\ update_store' = r.update_store
             /\ journal' = r.journal

\* Mutant of request_finished: the slot is freed although the delivery is
\* still to be retried.
request_finished_delivering(before, after) ==
    /\ workflow_is_connection(before)
    /\ ~workflow_is_waiting(after)
    /\ ~workflow_is_running(after)
    /\ before.id # 0

\* The step ended the connection workflow that was there before it.
request_finished(before, after) ==
    /\ workflow_is_connection(before)
    /\ ~workflow_is_active(after)
    /\ before.id # 0

\* A connection whose request ended is free for the next one.
workflow_finish_request(before, after) ==
    IF request_finished(before.workflow, after.workflow)
    THEN [after EXCEPT !.connection = connection_request_finish(@,
             workflow_connection_slot(before.workflow), before.workflow.id)]
    ELSE after

IsSchedule(m) == m.op \in {"schedule", "update", "apply"}

\* Mutant of dispatch_workflow: the report goes out before the step is written.
dispatch_workflow_reports_first(r, m) ==
    /\ IsSchedule(m) => accepted < MaxWorkflows
    /\ \E next \in {step(r, m)} : \E p \in persist_workflow_step(r, next) :
          /\ disk' = p.disk
          /\ commit(IF p.ok THEN next ELSE [r EXCEPT !.completion = next.completion])
          /\ accepted' = IF p.ok /\ IsSchedule(m) /\ next.effect = "Ok"
                         THEN accepted + 1 ELSE accepted
    /\ UNCHANGED << workset_generation, completion_generation, restarts >>

\* dispatch_workflow on the state r: nothing of the step is committed if one
\* of its writes fails.
dispatch_workflow(r, m) ==
    /\ IsSchedule(m) => accepted < MaxWorkflows
    /\ \E next \in {workflow_finish_request(r, step(r, m))} :
       \E p \in persist_workflow_step(r, next) :
          /\ disk' = p.disk
          /\ commit(IF p.ok THEN next ELSE r)
          /\ accepted' = IF p.ok /\ IsSchedule(m) /\ next.effect = "Ok"
                         THEN accepted + 1 ELSE accepted
    /\ UNCHANGED << workset_generation, completion_generation, restarts >>

WorkflowMsg(m) == dispatch_workflow(runtime, m)

\* connection execute: the occupied slot and the scheduled workflow are
\* committed together, or neither is.  The mark of an expired connection is
\* not committed either, and lane B is written even if the answer is not Ok.
ConnectionExecute(slot) ==
    /\ accepted < MaxWorkflows
    /\ connection_can_execute(connection, slot)
    /\ \E prepared \in {connection_execute_prepare(connection, slot)} :
       \E next \in {workflow_step_schedule_connection(runtime, prepared.request,
                                                     slot, prepared.opcode)} :
       \E p \in persist_workflow_step(runtime, next) :
          /\ disk' = p.disk
          /\ IF p.ok /\ next.effect = "Ok"
             THEN /\ commit([next EXCEPT !.connection = prepared.state])
                  /\ accepted' = accepted + 1
             ELSE UNCHANGED << services, accepted >>
    /\ UNCHANGED << workset_generation, completion_generation, restarts >>

\* A lease for a completion is used up before the completion is taken.
ConsumeCompletionLease(id, wf) ==
    LET code == lease_consume_completion(lease, id, wf, completion_generation)
    IN  /\ lease' = lease_consume(lease, id, code)
        /\ completion' = IF code = "Ok" THEN completion_mailbox_take(completion, wf)
                         ELSE completion
        /\ UNCHANGED << workflow, timer, task, connection, ticket, object_store,
                        update_store, journal, workset_generation,
                        completion_generation, disk, accepted, restarts >>

\* A lease for an object update is used up before the update is scheduled,
\* with the version the object had when the lease was issued.
ConsumeObjectLease(id) ==
    \E code \in {lease_consume_object_update(lease, id, workset_generation)} :
    \E next \in {[runtime EXCEPT !.lease = lease_consume(lease, id, code)]} :
       IF code = "Ok"
       THEN LET held == lease.leases[lease_find(lease, id)]
            IN  dispatch_workflow(next, [op |-> "update", name |-> held.first,
                                         value |-> held.second,
                                         version |-> held.third])
       ELSE /\ commit(next)
            /\ UNCHANGED << workset_generation, completion_generation, disk,
                            accepted, restarts >>
-----------------------------------------------------------------------------
(* Messages to the other services.                                           *)

LeaveGenerations == UNCHANGED << workset_generation, completion_generation,
                                 accepted, restarts >>

\* Every message to the timer service counts the timers down first.
TimerMsg(next) ==
    /\ timer' = next
    /\ UNCHANGED << workflow, task, completion, connection, lease, ticket,
                    object_store, update_store, journal, disk >>
    /\ LeaveGenerations

TimerCreate(t) == TimerMsg(timer_create(timer_tick(timer), t.id, t.due).state)
TimerCancel(t) == TimerMsg(timer_cancel(timer_tick(timer), t.id).state)
TimerPoll      == UserTimers # {} /\ TimerMsg(timer_tick(timer))

TaskMsg(next) ==
    /\ task' = next
    /\ UNCHANGED << workflow, timer, completion, connection, lease, ticket,
                    object_store, update_store, journal, disk >>
    /\ LeaveGenerations

TaskSubmit(opcode) == /\ task.next <= MaxTasks
                      /\ TaskMsg(task_submit(task, opcode).state)
TaskCancel(id)     == TaskMsg(task_cancel(task, id).state)
TaskComplete(id)   == TaskMsg(task_complete(task, id).state)

CompletionAck ==
    /\ completion' = completion_mailbox_ack(completion)
    /\ UNCHANGED << workflow, timer, task, connection, lease, ticket,
                    object_store, update_store, journal, disk >>
    /\ LeaveGenerations

ConnectionMsg(next) ==
    /\ connection' = next
    /\ UNCHANGED << workflow, timer, task, completion, lease, ticket,
                    object_store, update_store, journal, disk >>
    /\ LeaveGenerations

ConnectionOpen(slot, budget)   == ConnectionMsg(connection_open(connection, slot, budget))
ConnectionReceive(slot, value) == ConnectionMsg(connection_receive(connection, slot, value))
ConnectionSend(slot)           == ConnectionMsg(connection_send(connection, slot))
ConnectionClose(slot, state)   == ConnectionMsg(connection_close(connection, slot, state))

\* Leases are issued for what clients can see; args are the bytes of the
\* message, and an update lease records the version of its object.
LeaseIssue(kind, args, generation) ==
    /\ kind \in LeaseKinds
    /\ lease.next <= MaxLeases
    /\ lease_can_issue(lease)
    /\ lease' = lease_issue(lease, kind, args, generation)
    /\ UNCHANGED << workflow, timer, task, completion, connection, ticket,
                    object_store, update_store, journal, disk >>
    /\ LeaveGenerations

IssueCompletionLease(wf) ==
    /\ wf # 0
    /\ LeaseIssue(LEASE_KIND_COMPLETION, << wf, 0, 0 >>, completion_generation)

IssueInstallerLease ==
    LeaseIssue(LEASE_KIND_INSTALLER_APPLY, << 0, 0, 0 >>, workset_generation)

IssueObjectLease(name, value) ==
    LET version == object_current_version(object_store, name)
    IN  /\ version # 0
        /\ LeaseIssue(LEASE_KIND_OBJECT_UPDATE, << name, value, version >>,
                      workset_generation)

IssueTicketLease(epoch, id) ==
    /\ epoch # 0 /\ id # 0
    /\ LeaseIssue(LEASE_KIND_EXTERNAL_TICKET, << epoch, id, 0 >>, ticket.epoch)

TicketMsg(next) ==
    /\ LEASE_KIND_EXTERNAL_TICKET \in LeaseKinds
    /\ ticket' = next
    /\ UNCHANGED << workflow, timer, task, completion, connection, lease,
                    object_store, update_store, journal, disk >>
    /\ LeaveGenerations

TicketIssue == /\ ticket.next <= MaxLeases
               /\ ticket_can_issue(ticket)
               /\ TicketMsg(ticket_issue(ticket))

TicketUse(epoch, id) == TicketMsg(ticket_use(ticket, epoch, id))

\* Mutant of ObjectMsg: the new state is kept although its write failed.
ObjectMsg_commit_first(next) ==
    /\ \E p \in write_all([ok |-> TRUE, disk |-> disk], next # object_store,
                          "object", next) : disk' = p.disk
    /\ object_store' = next
    /\ UNCHANGED << workflow, timer, task, completion, connection, lease, ticket,
                    update_store, journal >>
    /\ LeaveGenerations

ObjectMsg(next) ==
    /\ \E p \in write_all([ok |-> TRUE, disk |-> disk], next # object_store,
                          "object", next) :
          /\ disk' = p.disk
          /\ object_store' = IF p.ok THEN next ELSE object_store
    /\ UNCHANGED << workflow, timer, task, completion, connection, lease, ticket,
                    update_store, journal >>
    /\ LeaveGenerations

ObjectCreate(name, value)  == ObjectMsg(object_create(object_store, name, value).state)
ObjectReplace(name, value) ==
    /\ object_current_version(object_store, name) < MaxVersion
    /\ ObjectMsg(object_replace(object_store, name, value).state)

UpdateMsg(next) ==
    /\ \E p \in update_store_persist([ok |-> TRUE, disk |-> disk],
                                     next # update_store, next) :
          /\ disk' = p.disk
          /\ update_store' = IF p.ok THEN next ELSE update_store
    /\ UNCHANGED << workflow, timer, task, completion, connection, lease, ticket,
                    object_store, journal >>
    /\ LeaveGenerations

UpdateStage(value)  == UpdateMsg(update_stage(update_store, value).state)
UpdateManifest(m)   == UpdateMsg(update_record_manifest(update_store, m.version,
                                                        m.expected_len).state)
UpdateClear         == Artifacts # {} /\ UpdateMsg(update_clear(update_store))

JournalMsg(next) ==
    /\ \E p \in write_all([ok |-> TRUE, disk |-> disk], next # journal,
                          "journal", next) :
          /\ disk' = p.disk
          /\ journal' = IF p.ok THEN next ELSE journal
    /\ UNCHANGED << workflow, timer, task, completion, connection, lease, ticket,
                    object_store, update_store >>
    /\ LeaveGenerations

JournalAppend(b)   == JournalMsg(journal_append(journal, b.lane, b.value))
JournalClear(lane) == JournalMsg(journal_clear(journal, lane))
-----------------------------------------------------------------------------
(* Restarts.                                                                 *)

Restart(service) == /\ service \in Restarts
                    /\ restarts < MaxRestarts
                    /\ restarts' = restarts + 1
                    /\ UNCHANGED << disk, accepted >>

\* The timer is rearmed for a workflow that resumes and cancelled otherwise;
\* lane B keeps the record from before the restart.
restart_workflow ==
    /\ Restart("workflow")
    /\ workflow' = workflow_restart_reload(runtime)
    /\ timer' = IF workflow_is_waiting(workflow')
                THEN timer_create(timer, WORKFLOW_TIMER_ID,
                                  workflow_restart_timer_due(workflow')).state
                ELSE timer_cancel(timer, WORKFLOW_TIMER_ID).state
    /\ UNCHANGED << task, completion, connection, lease, ticket, object_store,
                    update_store, journal, workset_generation,
                    completion_generation >>

restart_task ==
    /\ Restart("task")
    /\ task' = task_init
    /\ UNCHANGED << workflow, timer, completion, connection, lease, ticket,
                    object_store, update_store, journal, workset_generation,
                    completion_generation >>

restart_connection ==
    /\ Restart("connection")
    /\ connection' = connection_init
    /\ UNCHANGED << workflow, timer, task, completion, lease, ticket, object_store,
                    update_store, journal, workset_generation,
                    completion_generation >>

restart_completion_mailbox ==
    /\ Restart("completion")
    /\ completion' = completion_mailbox_reload(completion)
    /\ completion_generation' = u8(completion_generation + 1)
    /\ UNCHANGED << workflow, timer, task, connection, lease, ticket, object_store,
                    update_store, journal, workset_generation >>

restart_lease ==
    /\ Restart("lease")
    /\ lease' = lease_init
    /\ UNCHANGED << workflow, timer, task, completion, connection, ticket,
                    object_store, update_store, journal, workset_generation,
                    completion_generation >>

restart_ticket ==
    /\ Restart("ticket")
    /\ ticket' = ticket_init(u8(ticket.epoch + 1))
    /\ UNCHANGED << workflow, timer, task, completion, connection, lease,
                    object_store, update_store, journal, workset_generation,
                    completion_generation >>

\* The durable services are reloaded from their files.
restart_durable ==
    /\ \/ /\ Restart("object_store")
          /\ object_store' = disk.object
          /\ UNCHANGED << update_store, journal >>
       \/ /\ Restart("update_store")
          /\ update_store' = disk.update
          /\ UNCHANGED << object_store, journal >>
       \/ /\ Restart("journal")
          /\ journal' = disk.journal
          /\ UNCHANGED << object_store, update_store >>
    /\ UNCHANGED << workflow, timer, task, completion, connection, lease, ticket,
                    workset_generation, completion_generation >>

\* The work set (kv and queue) reloads itself; its generation moves on.
restart_retained_workset ==
    /\ Restart("workset")
    /\ workset_generation' = u8(workset_generation + 1)
    /\ UNCHANGED << services, completion_generation >>
-----------------------------------------------------------------------------
\* Clients name leases, tickets and epochs by bytes.
LeaseIds == Byte \intersect (1 .. MaxLeases)
Epochs   == Byte \intersect (1 .. MaxRestarts + 1)

ConnectionEnds == {CONNECTION_STATE_DISCONNECTED, CONNECTION_STATE_TIMED_OUT,
                   CONNECTION_STATE_INVALID}

Next ==
    \/ \E m \in Messages : WorkflowMsg(m)
    \/ \E slot \in Slots : ConnectionExecute(slot)
    \/ LEASE_KIND_COMPLETION \in LeaseKinds
       /\ \E id \in LeaseIds, m \in Messages :
             m.op = "schedule" /\ ConsumeCompletionLease(id, m.id)
    \/ LEASE_KIND_OBJECT_UPDATE \in LeaseKinds
       /\ \E id \in LeaseIds : ConsumeObjectLease(id)
    \/ \E t \in UserTimers : TimerCreate(t) \/ TimerCancel(t)
    \/ TimerPoll
    \/ \E opcode \in UserTasks : TaskSubmit(opcode)
    \/ \E id \in UserEnds : TaskCancel(id) \/ TaskComplete(id)
    \/ CompletionAck
    \/ \E slot \in Slots :
          \/ \E budget \in Budgets : ConnectionOpen(slot, budget)
          \/ \E value \in Ingress : ConnectionReceive(slot, value)
          \/ ConnectionSend(slot)
          \/ \E state \in ConnectionEnds : ConnectionClose(slot, state)
    \/ \E m \in Messages : m.op = "schedule" /\ IssueCompletionLease(m.id)
    \/ IssueInstallerLease
    \/ \E name \in Names, value \in Values : IssueObjectLease(name, value)
    \/ \E epoch \in Epochs, id \in LeaseIds :
          IssueTicketLease(epoch, id) \/ TicketUse(epoch, id)
    \/ TicketIssue
    \/ \E name \in Names, value \in Values :
          ObjectCreate(name, value) \/ ObjectReplace(name, value)
    \/ \E value \in Artifacts : UpdateStage(value)
    \/ \E m \in Manifests : UpdateManifest(m)
    \/ UpdateClear
    \/ \E b \in LaneBytes : JournalAppend(b) \/ JournalClear(b.lane)
    \/ restart_workflow \/ restart_task \/ restart_connection
    \/ restart_completion_mailbox \/ restart_lease \/ restart_ticket
    \/ restart_durable \/ restart_retained_workset

Spec == Init /\ [][Next]_vars

\* A message to the workflow endpoint would change something.
effective(m) == [step(runtime, m) EXCEPT !.effect = "Ok"] # runtime

\* There is no clock: only messages move a workflow on.  What is assumed of
\* the clients is that one polls again whenever that has an effect, and that
\* one acknowledges.  The first is WF_vars(WorkflowMsg(m)) with its ENABLED
\* written out, which TLC evaluates faster.
FairSpec ==
    /\ Spec
    /\ \A m \in Messages : m.op = "poll" =>
          []<>~effective(m) \/ []<><<WorkflowMsg(m)>>_vars
    /\ WF_vars(CompletionAck)
-----------------------------------------------------------------------------
(* Properties.                                                               *)

IsObjectStore(s) == DOMAIN s \subseteq Byte /\ Range(s) \subseteq Object

\* Every state the kernel commits, and every file it leaves, is one the
\* services can represent: counters stay bytes, tables within their capacity
\* and lane B within its four bytes, whoever writes it.
TypeOK ==
    /\ workflow \in WorkflowServiceState
    /\ timer \in TimerServiceState
    /\ task \in TaskServiceState
    /\ completion \in CompletionMailboxServiceState
    /\ connection \in ConnectionServiceState
    /\ lease \in LeaseServiceState
    /\ ticket \in TicketServiceState
    /\ IsObjectStore(object_store) /\ IsObjectStore(disk.object)
    /\ {update_store, disk.update} \subseteq UpdateStoreServiceState
    /\ {journal, disk.journal} \subseteq JournalServiceState
    /\ {workset_generation, completion_generation} \subseteq Byte
    /\ {accepted, restarts} \subseteq Nat
    /\ Len(timer) <= TIMER_CAPACITY
    /\ Len(task.tasks) <= TASK_CAPACITY
    /\ Len(completion.queue) <= MAILBOX_CAPACITY
    /\ Len(lease.leases) <= LEASE_CAPACITY
    /\ Len(ticket.ids) <= TICKET_CAPACITY
    /\ \A s \in {object_store, disk.object} :
          Cardinality(DOMAIN s) <= OBJECT_STORE_CAPACITY
    /\ \A s \in {update_store, disk.update} :
          {Len(s.data), Len(s.installed.data)} \subseteq 0 .. UPDATE_ARTIFACT_CAPACITY
    /\ \A s \in {journal, disk.journal} :
          \A name \in DOMAIN s : Len(s[name]) <= JOURNAL_RECORD_CAPACITY

CancelledOutcomes == {WORKFLOW_STATE_CANCELLED, WORKFLOW_STATE_OBJECT_CANCELLED,
                      WORKFLOW_STATE_UPDATE_CANCELLED,
                      WORKFLOW_STATE_CONNECTION_CANCELLED,
                      WORKFLOW_STATE_CONNECTION_RESTART_CANCELLED}

\* All outcomes; the code of TICKET_INVALID is also that of an unused record.
Outcomes == CancelledOutcomes \union
    {WORKFLOW_STATE_DONE, WORKFLOW_STATE_FAILED,
     WORKFLOW_STATE_OBJECT_UPDATED, WORKFLOW_STATE_OBJECT_CONFLICT,
     WORKFLOW_STATE_OBJECT_REJECTED, WORKFLOW_STATE_UPDATE_APPLIED,
     WORKFLOW_STATE_UPDATE_REJECTED, WORKFLOW_STATE_UPDATE_LEASE_INVALID,
     WORKFLOW_STATE_UPDATE_LEASE_STALE, WORKFLOW_STATE_UPDATE_LEASE_CONSUMED,
     WORKFLOW_STATE_CONNECTION_EXECUTED, WORKFLOW_STATE_CONNECTION_TICKET_USED,
     WORKFLOW_STATE_CONNECTION_TICKET_INVALID,
     WORKFLOW_STATE_CONNECTION_TICKET_STALE,
     WORKFLOW_STATE_CONNECTION_TICKET_CONSUMED}

\* What a client sees of the workflow record and of the mailbox.
Contract == INSTANCE WorkflowContract WITH
    Id <- Byte, Outcome <- Outcomes, Cancelled <- CancelledOutcomes, None <- 0,
    Capacity <- MAILBOX_CAPACITY,
    record  <- [id |-> workflow.id,
                outcome |-> IF workflow_is_active(workflow) THEN 0
                            ELSE workflow.state],
    reports <- [i \in DOMAIN completion.queue |->
                   [id |-> completion.queue[i].id,
                    outcome |-> completion.queue[i].state]]

\* The kernel implements the contract: whatever the interleaving of clients,
\* restarts and failing writes, a client is told that its workflow is accepted
\* exactly if one begins (dispatch_workflow), a workflow that ends is reported
\* once, with the outcome its record shows, and a full mailbox delays the
\* report but does not lose it (workflow_deliver_completion,
\* workflow_advance_delivering).
ImplementsContract == Contract!Spec

Unreported == /\ workflow_is_active(workflow)
              /\ ~workflow_is_active(workflow)'
              /\ completion'.queue = completion.queue

\* A workflow ends without a report only if a client cancelled it by its id,
\* or if the workflow service restarted while it was a task workflow of an
\* older generation or one whose journal lane was overwritten
\* (workflow_step_cancel, workflow_restart_reload).
CancelOnlyWhenAsked ==
    [][Unreported =>
          \/ \E m \in Messages : /\ m.op = "cancel"
                                 /\ m.id = workflow.id
                                 /\ WorkflowMsg(m)
          \/ /\ restart_workflow
             /\ workflow.kind = WORKFLOW_KIND_TASK
             /\ workflow_restart_cancels(runtime, workflow)]_vars

executing == workflow_is_waiting(workflow) \/ workflow_is_running(workflow)

\* A restart of the workflow service resumes a waiting or running workflow only
\* if the record still is of the work set's generation and lane B still holds
\* it; and nothing else moves the generation of such a record, so that one made
\* stale by a restart of the work set stays stale until its end.  That restart
\* itself stops nothing: a workflow under way executes on, its record naming
\* the older generation (workflow_restart_reload, restart_retained_workset).
ResumedOnlyIfCurrent ==
    [][executing /\ executing' /\ accepted' = accepted =>
          /\ workflow'.generation = workflow.generation
          /\ restart_workflow =>
                /\ workflow.generation = workset_generation
                /\ journal[JOURNAL_LANE_B] = workflow_lane_bytes(workflow)]_vars

\* The kernel empties an occupied connection slot (the connection itself
\* staying as it is) only in the step that reports the request, or that a
\* client cancels it with: not while the report still waits for the mailbox.
SlotHeldUntilReported ==
    [][\A slot \in ConnectionSlot :
          LET before == connection.slots[slot]
              after  == connection'.slots[slot]
          IN  before.work # 0 /\ after.work = 0 /\ after.state = before.state =>
                 \/ /\ completion'.queue # completion.queue
                    /\ Last(completion'.queue).id = before.work
                 \/ \E m \in Messages : /\ m.op = "cancel"
                                        /\ m.id = before.work
                                        /\ WorkflowMsg(m)]_vars

\* A version stands for one value of its object, which is what a conditional
\* update relies on: an object never disappears, its version moves by one when
\* its value changes and stays when it does not, even when a write fails and
\* the object store is reloaded from what the write left.
ObjectsMoveOn ==
    [][\A name \in DOMAIN object_store :
          /\ name \in DOMAIN object_store'
          /\ LET before == object_store[name]
                 after  == object_store'[name]
             IN  after.version = IF after.value = before.value THEN before.version
                                 ELSE object_next_version(before.version)]_vars

\* The step settles the outcome of the workflow: it is reported, or kept in
\* the record until the mailbox takes it.
Settles(outcome) ==
    /\ executing
    /\ \/ /\ Len(completion'.queue) > Len(completion.queue)
          /\ Last(completion'.queue).state = outcome
       \/ /\ workflow_is_delivering(workflow)'
          /\ workflow'.task = outcome

\* What is reported as installed is on disk: the step that settles a workflow
\* with UPDATE_APPLIED leaves the staged program installed in memory and in
\* the file, also when the program was staged again after a failed write.
AppliedIsDurable ==
    [][workflow_is_update_apply(workflow) /\ Settles(WORKFLOW_STATE_UPDATE_APPLIED)
       => /\ update_store'.installed.data = update_store.data
          /\ update_store'.installed.version = update_store.manifest.version
          /\ disk'.update.installed = update_store'.installed]_vars

\* The lease stands for a ticket of the current epoch, and the step takes that
\* lease and that ticket out of their tables, and no other ticket.
SpendsLeased(id) ==
    \E held \in Range(lease.leases) :
        /\ held.kind = LEASE_KIND_EXTERNAL_TICKET
        /\ held.id = id
        /\ held.first = ticket.epoch
        /\ Contains(ticket.ids, held.second)
        /\ ticket' = [ticket EXCEPT !.ids = RemoveFirst(@, held.second)]
        /\ Len(lease'.leases) < Len(lease.leases)

\* A leased ticket is spent exactly when the request reports TICKET_USED: the
\* ticket is the one its lease stands for, and no ticket goes without such a
\* report unless a client used it directly, the ticket service restarted, or a
\* client cancelled the request in the step that settled it.
TicketSpentIffReported ==
    [][LET used  == /\ workflow_is_connection(workflow)
                    /\ Settles(WORKFLOW_STATE_CONNECTION_TICKET_USED)
           spent == /\ ticket'.epoch = ticket.epoch
                    /\ Len(ticket'.ids) < Len(ticket.ids)
       IN  /\ used => SpendsLeased(workflow.opcode - CONNECTION_EXTERNAL_TICKET_BASE)
           /\ spent /\ lease' # lease =>
                 \/ used
                 \/ \E m \in Messages : /\ m.op = "cancel"
                                        /\ m.id = workflow.id
                                        /\ WorkflowMsg(m)]_vars

\* Every accepted workflow comes to an end if clients keep sending to the
\* workflow endpoint and keep emptying the mailbox: neither a full mailbox nor
\* restarts nor the other clients can hold it up for ever.
EveryWorkflowEnds ==
    \A n \in 1 .. MaxWorkflows :
        workflow_is_active(workflow) /\ accepted = n
            ~> ~workflow_is_active(workflow) \/ accepted > n
-----------------------------------------------------------------------------
(* A property that the documentation states and the code does not have.      *)

\* An occupied slot stands for a request that is still on its way: occupancy
\* is kept until the completion is delivered and no longer.
OccupiedIsPending ==
    \A slot \in ConnectionSlot :
        connection.slots[slot].work # 0 =>
            /\ workflow_is_active(workflow)
            /\ workflow_is_connection(workflow)
            /\ workflow.id = connection.slots[slot].work
=============================================================================
