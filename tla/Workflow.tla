------------------------------ MODULE Workflow ------------------------------
(* kernel/src/services/workflow/{core,advance,protocol,restart}.mc: the one  *)
(* workflow record, and what a message or a restart does to it and to the    *)
(* services it drives.                                                       *)
(*                                                                           *)
(* The operators map a runtime r (WorkflowStepContext with the record and    *)
(* the effect added) to the runtime after them.  r.effect is the status the  *)
(* client is answered with.                                                  *)
EXTENDS TimerService, TaskService, CompletionMailbox, ConnectionService,
        LeaseService, DurableServices, TicketService

WORKFLOW_STATE_IDLE       == 73
WORKFLOW_STATE_WAITING    == 87
WORKFLOW_STATE_RUNNING    == 82
WORKFLOW_STATE_DELIVERING == 77

\* Outcomes.  Values are shared between kinds, and with IDLE: a connection
\* workflow that ends with TICKET_INVALID leaves a record that looks idle.
WORKFLOW_STATE_DONE                         == 68
WORKFLOW_STATE_CANCELLED                    == 67
WORKFLOW_STATE_FAILED                       == 70
WORKFLOW_STATE_OBJECT_UPDATED               == 85
WORKFLOW_STATE_OBJECT_CONFLICT              == 86
WORKFLOW_STATE_OBJECT_REJECTED              == 88
WORKFLOW_STATE_OBJECT_CANCELLED             == 75
WORKFLOW_STATE_UPDATE_APPLIED               == 65
WORKFLOW_STATE_UPDATE_REJECTED              == 88
WORKFLOW_STATE_UPDATE_CANCELLED             == 75
WORKFLOW_STATE_UPDATE_LEASE_INVALID         == 74
WORKFLOW_STATE_UPDATE_LEASE_STALE           == 83
WORKFLOW_STATE_UPDATE_LEASE_CONSUMED        == 80
WORKFLOW_STATE_CONNECTION_EXECUTED          == 69
WORKFLOW_STATE_CONNECTION_CANCELLED         == 89
WORKFLOW_STATE_CONNECTION_RESTART_CANCELLED == 90
WORKFLOW_STATE_CONNECTION_TICKET_USED       == 86
WORKFLOW_STATE_CONNECTION_TICKET_INVALID    == 73
WORKFLOW_STATE_CONNECTION_TICKET_STALE      == 83
WORKFLOW_STATE_CONNECTION_TICKET_CONSUMED   == 80

WORKFLOW_RESTART_NONE      == 78
WORKFLOW_RESTART_RESUMED   == 82
WORKFLOW_RESTART_CANCELLED == 67

WORKFLOW_KIND_TASK          == 0
WORKFLOW_KIND_OBJECT_UPDATE == 1
WORKFLOW_KIND_CONNECTION    == 2
WORKFLOW_KIND_UPDATE_APPLY  == 3

WORKFLOW_TIMER_ID               == 1
WORKFLOW_DELIVERY_WOULDBLOCK    == 2
WORKFLOW_DELIVERY_EXHAUSTED     == 7
WORKFLOW_OBJECT_UPDATE_DELAY    == 2
WORKFLOW_UPDATE_APPLY_DELAY     == 2
WORKFLOW_CONNECTION_DELAY       == 2
WORKFLOW_CONNECTION_SLOT_MARKER == 128
WORKFLOW_UPDATE_APPLY_ID        == 200
-----------------------------------------------------------------------------
(* core.mc *)

\* due and task are overlaid: the ticks left and 0 while waiting, 0 and the
\* task while running, delivery status and outcome while delivering; an
\* object update keeps its value in due, a connection its slot plus a marker.
WorkflowServiceState == [kind : 0 .. 3, id : Byte, due : Byte, opcode : Byte,
                         task : Byte, state : Byte, restart : Byte,
                         generation : Byte]

workflow_state_init ==
    [kind |-> WORKFLOW_KIND_TASK, id |-> 0, due |-> 0, opcode |-> 0, task |-> 0,
     state |-> WORKFLOW_STATE_IDLE, restart |-> WORKFLOW_RESTART_NONE,
     generation |-> 0]

workflow_is_idle(s)       == s.state = WORKFLOW_STATE_IDLE
workflow_is_waiting(s)    == s.state = WORKFLOW_STATE_WAITING
workflow_is_running(s)    == s.state = WORKFLOW_STATE_RUNNING
workflow_is_delivering(s) == s.state = WORKFLOW_STATE_DELIVERING

workflow_is_active(s) == \/ workflow_is_waiting(s)
                         \/ workflow_is_running(s)
                         \/ workflow_is_delivering(s)

workflow_is_kind(s, kind) == ~workflow_is_idle(s) /\ s.kind = kind

workflow_is_object_update(s) == workflow_is_kind(s, WORKFLOW_KIND_OBJECT_UPDATE)
workflow_is_connection(s)    == workflow_is_kind(s, WORKFLOW_KIND_CONNECTION)
workflow_is_update_apply(s)  == workflow_is_kind(s, WORKFLOW_KIND_UPDATE_APPLY)

\* The slot is in due while the request waits or runs; a pending delivery has
\* its status there and the slot in opcode.
workflow_connection_slot(s) ==
    IF s.due < WORKFLOW_CONNECTION_SLOT_MARKER THEN s.opcode
    ELSE s.due - WORKFLOW_CONNECTION_SLOT_MARKER

workflow_restate(s, due, task, state) ==
    [s EXCEPT !.due = due, !.task = task, !.state = state]

workflow_terminal(s, outcome) == workflow_restate(s, 0, 0, outcome)

workflow_pending_delivery(s, outcome, status) ==
    LET pending == workflow_restate(s, status, outcome, WORKFLOW_STATE_DELIVERING)
    IN  IF workflow_is_connection(s)
        THEN [pending EXCEPT !.opcode = workflow_connection_slot(s)]
        ELSE pending

workflow_cancelled_outcome(s) ==
    CASE workflow_is_connection(s) ->
            IF s.restart = WORKFLOW_RESTART_CANCELLED
            THEN WORKFLOW_STATE_CONNECTION_RESTART_CANCELLED
            ELSE WORKFLOW_STATE_CONNECTION_CANCELLED
      [] workflow_is_object_update(s) -> WORKFLOW_STATE_OBJECT_CANCELLED
      [] workflow_is_update_apply(s)  -> WORKFLOW_STATE_UPDATE_CANCELLED
      [] OTHER -> WORKFLOW_STATE_CANCELLED

\* The four bytes of journal lane B: everything but task and generation.
workflow_lane_bytes(s) ==
    << IF s.kind = WORKFLOW_KIND_CONNECTION
       THEN u8(s.state + WORKFLOW_CONNECTION_SLOT_MARKER) ELSE s.state,
       s.id, s.due, s.opcode >>

\* Mutant of workflow_deliver_completion: a refused delivery is not retried.
workflow_deliver_completion_once(r, s, outcome) ==
    LET queued == completion_mailbox_enqueue(r.completion,
                      [id |-> s.id, state |-> outcome, restart |-> s.restart,
                       generation |-> s.generation])
    IN  [r EXCEPT !.completion = queued.state,
                  !.workflow = workflow_terminal(s, outcome)]

\* The record ends if the mailbox took the report and stays DELIVERING, to be
\* retried by the next step, if the mailbox was full.
workflow_delivered(r, s, outcome, queued) ==
    [r EXCEPT !.completion = queued.state,
              !.workflow = CASE queued.status = "Ok" -> workflow_terminal(s, outcome)
                             [] queued.status = "WouldBlock" ->
                                  workflow_pending_delivery(s, outcome,
                                      WORKFLOW_DELIVERY_WOULDBLOCK)
                             [] queued.status = "Exhausted" ->
                                  workflow_pending_delivery(s, outcome,
                                      WORKFLOW_DELIVERY_EXHAUSTED)]

workflow_deliver_completion(r, s, outcome) ==
    workflow_delivered(r, s, outcome,
        completion_mailbox_enqueue(r.completion,
            [id |-> s.id, state |-> outcome, restart |-> s.restart,
             generation |-> s.generation]))
-----------------------------------------------------------------------------
(* advance.mc *)

\* Mutant of workflow_execute_connection_ticket: the ticket is looked up but
\* not taken out of the table.
workflow_execute_connection_ticket_keeps(r, s) ==
    LET lease   == s.opcode - CONNECTION_EXTERNAL_TICKET_BASE
        consume == lease_consume_external_ticket(r.lease, lease, r.ticket_generation)
        held    == r.lease.leases[lease_find(r.lease, lease)]
    IN  workflow_deliver_completion([r EXCEPT !.lease = lease_consume(@, lease, consume)],
            s,
            IF consume = "Ok" /\ ticket_use_code(r.ticket, held.first, held.second) = "Ok"
            THEN WORKFLOW_STATE_CONNECTION_TICKET_USED
            ELSE WORKFLOW_STATE_CONNECTION_TICKET_STALE)

workflow_connection_ticket_outcome(code) ==
    CASE code = "Ok"       -> WORKFLOW_STATE_CONNECTION_TICKET_USED
      [] code = "Stale"    -> WORKFLOW_STATE_CONNECTION_TICKET_STALE
      [] code = "Consumed" -> WORKFLOW_STATE_CONNECTION_TICKET_CONSUMED
      [] code = "Invalid"  -> WORKFLOW_STATE_CONNECTION_TICKET_INVALID

\* The lease is consumed first, and stays consumed if the ticket is refused.
workflow_ticket_leased(r, s, lease, consume) ==
    LET held == r.lease.leases[lease_find(r.lease, lease)]
        next == [r EXCEPT !.lease = lease_consume(@, lease, consume)]
    IN  IF consume = "Ok"
        THEN workflow_deliver_completion(
                 [next EXCEPT !.ticket = ticket_use(@, held.first, held.second)], s,
                 workflow_connection_ticket_outcome(
                     ticket_use_code(r.ticket, held.first, held.second)))
        ELSE workflow_deliver_completion(next, s,
                 workflow_connection_ticket_outcome(consume))

workflow_execute_connection_ticket(r, s) ==
    LET lease == s.opcode - CONNECTION_EXTERNAL_TICKET_BASE
    IN  workflow_ticket_leased(r, s, lease,
            lease_consume_external_ticket(r.lease, lease, r.ticket_generation))

\* The installer lease, if there is one, is consumed before the update is
\* looked at, and stays consumed if the update is rejected.
workflow_update_applied(r, s, consume, apply) ==
    workflow_deliver_completion(
        [r EXCEPT !.lease = IF s.opcode = 0 THEN @
                            ELSE lease_consume(@, s.opcode, consume),
                  !.update_store = IF consume = "Ok" THEN apply.state ELSE @],
        s,
        CASE consume = "Ok" -> IF apply.status = "Ok"
                               THEN WORKFLOW_STATE_UPDATE_APPLIED
                               ELSE WORKFLOW_STATE_UPDATE_REJECTED
          [] consume = "Stale"    -> WORKFLOW_STATE_UPDATE_LEASE_STALE
          [] consume = "Consumed" -> WORKFLOW_STATE_UPDATE_LEASE_CONSUMED
          [] OTHER                -> WORKFLOW_STATE_UPDATE_LEASE_INVALID)

workflow_execute_update_apply(r, s) ==
    workflow_update_applied(r, s,
        IF s.opcode = 0 THEN "Ok"
        ELSE lease_consume_installer_apply(r.lease, s.opcode, r.workset_generation),
        update_apply(r.update_store))

workflow_object_updated(r, s, update) ==
    workflow_deliver_completion([r EXCEPT !.object_store = update.state], s,
        CASE update.status = "Ok"       -> WORKFLOW_STATE_OBJECT_UPDATED
          [] update.status = "Conflict" -> WORKFLOW_STATE_OBJECT_CONFLICT
          [] OTHER                      -> WORKFLOW_STATE_OBJECT_REJECTED)

workflow_execute_object_update(r, s) ==
    workflow_object_updated(r, s,
        IF s.opcode = 0 THEN object_update(r.object_store, s.id - 1, s.due)
        ELSE object_update_if_version(r.object_store, s.id - 1, s.due, s.opcode))

\* A task or connection workflow submits a task with its opcode.
workflow_submitted(r, s, submit) ==
    IF submit.status # "Ok" \/ submit.task.state = TASK_STATE_FAILED
    THEN workflow_deliver_completion([r EXCEPT !.task = submit.state], s,
             IF workflow_is_connection(s) THEN WORKFLOW_STATE_CONNECTION_CANCELLED
             ELSE WORKFLOW_STATE_FAILED)
    ELSE [r EXCEPT !.task = submit.state,
                   !.workflow = workflow_restate(s,
                       IF workflow_is_connection(s) THEN s.due ELSE 0,
                       submit.task.id, WORKFLOW_STATE_RUNNING)]

workflow_execute_task(r, s) ==
    workflow_submitted(r, s, task_submit(r.task, s.opcode))

workflow_execute(r, s) ==
    CASE workflow_is_object_update(s) -> workflow_execute_object_update(r, s)
      [] workflow_is_update_apply(s)  -> workflow_execute_update_apply(r, s)
      [] workflow_is_connection(s)
         /\ s.opcode >= CONNECTION_EXTERNAL_TICKET_BASE ->
             workflow_execute_connection_ticket(r, s)
      [] OTHER -> workflow_execute_task(r, s)

workflow_connection_lost(r, s) ==
    /\ workflow_is_connection(s)
    /\ ~connection_request_active(r.connection, workflow_connection_slot(s), s.id)

\* A waiting workflow polls timer 1.  (The code has one more answer, for a
\* timer neither active, cancelled nor expired: there is no such timer.)
workflow_advance_waiting(r, s) ==
    LET idx == timer_find(r.timer, WORKFLOW_TIMER_ID)
    IN  IF workflow_connection_lost(r, s)
        THEN workflow_deliver_completion(r,
                 [s EXCEPT !.restart = WORKFLOW_RESTART_NONE],
                 WORKFLOW_STATE_CONNECTION_CANCELLED)
        ELSE IF idx = 0 \/ r.timer[idx].state = TIMER_STATE_CANCELLED
        THEN workflow_deliver_completion(r, s, workflow_cancelled_outcome(s))
        ELSE IF r.timer[idx].state = TIMER_STATE_EXPIRED
        THEN workflow_execute(r, s)
        ELSE [r EXCEPT !.workflow.due =
                 IF s.kind = WORKFLOW_KIND_TASK THEN r.timer[idx].due ELSE @]

\* A running workflow completes its own task, unless someone else ended it
\* first; if its slot was reused meanwhile nothing is known about the task.
workflow_advance_running(r, s) ==
    LET complete == task_complete(r.task, s.task)
        found    == task_query(r.task, s.task)
        outcome  == CASE found \in {TASK_STATE_ACTIVE, TASK_STATE_DONE} ->
                            IF workflow_is_connection(s)
                            THEN WORKFLOW_STATE_CONNECTION_EXECUTED
                            ELSE WORKFLOW_STATE_DONE
                      [] found = 0 -> WORKFLOW_STATE_FAILED
                      [] found \in {TASK_STATE_CANCELLED, TASK_STATE_FAILED} ->
                            IF workflow_is_connection(s)
                            THEN WORKFLOW_STATE_CONNECTION_CANCELLED
                            ELSE IF found = TASK_STATE_FAILED
                            THEN WORKFLOW_STATE_FAILED ELSE WORKFLOW_STATE_CANCELLED
    IN  IF workflow_connection_lost(r, s)
        THEN workflow_deliver_completion(
                 [r EXCEPT !.task = task_cancel(@, s.task).state],
                 [s EXCEPT !.restart = WORKFLOW_RESTART_NONE],
                 WORKFLOW_STATE_CONNECTION_CANCELLED)
        ELSE workflow_deliver_completion([r EXCEPT !.task = complete.state], s, outcome)

\* Mutant of workflow_advance: a refused delivery is not tried again.
workflow_advance_no_retry(r) ==
    LET s == r.workflow
    IN  CASE workflow_is_waiting(s) -> workflow_advance_waiting(r, s)
          [] workflow_is_running(s) -> workflow_advance_running(r, s)
          [] OTHER                  -> r

workflow_advance(r) ==
    LET s == r.workflow
    IN  CASE workflow_is_waiting(s)    -> workflow_advance_waiting(r, s)
          [] workflow_is_running(s)    -> workflow_advance_running(r, s)
          [] workflow_is_delivering(s) -> workflow_deliver_completion(r, s, s.task)
          [] OTHER                     -> r
-----------------------------------------------------------------------------
(* protocol.mc *)

\* The new record, in the current generation, replaces an inactive one; it is
\* only kept if timer 1 can be armed.
workflow_step_schedule(r, valid, kind, spec, delay) ==
    LET create == timer_create(r.timer, WORKFLOW_TIMER_ID, delay)
        new    == [kind |-> kind, id |-> spec.id, due |-> spec.due,
                   opcode |-> spec.opcode, task |-> 0,
                   state |-> WORKFLOW_STATE_WAITING,
                   restart |-> WORKFLOW_RESTART_NONE,
                   generation |-> r.workset_generation]
    IN  IF ~valid \/ workflow_is_active(r.workflow)
        THEN [r EXCEPT !.effect = "InvalidArgument"]
        ELSE [r EXCEPT !.effect = create.status, !.timer = create.state,
                       !.workflow = IF create.status = "Ok" THEN new ELSE @]

\* Mutant of workflow_step_cancel: any id cancels the workflow.
workflow_step_cancel_any(r, id) ==
    LET s    == r.workflow
        task == task_cancel(r.task, s.task)
    IN  IF workflow_is_running(s) /\ task.status = "Ok"
        THEN [r EXCEPT !.effect = "Ok", !.task = task.state,
                       !.workflow = workflow_terminal(s, workflow_cancelled_outcome(s))]
        ELSE [r EXCEPT !.effect = "InvalidArgument"]

\* Cancelling ends the record with no report.  A waiting workflow needs its
\* timer still active; any other one needs an active task of id s.task.
workflow_step_cancel(r, id) ==
    LET s      == r.workflow
        timer  == timer_cancel(r.timer, WORKFLOW_TIMER_ID)
        task   == task_cancel(r.task, s.task)
        status == IF workflow_is_waiting(s) THEN timer.status ELSE task.status
    IN  IF s.id # id \/ ~workflow_is_active(s)
        THEN [r EXCEPT !.effect = "InvalidArgument"]
        ELSE [r EXCEPT !.effect = status,
                       !.timer = IF workflow_is_waiting(s) THEN timer.state ELSE @,
                       !.task = IF workflow_is_waiting(s) THEN @ ELSE task.state,
                       !.workflow = IF status = "Ok"
                                    THEN workflow_terminal(s, workflow_cancelled_outcome(s))
                                    ELSE @]

\* Lane B is rewritten by every step, even a refused one.
workflow_sync_journal(r) ==
    [r EXCEPT !.journal = journal_write_lane(@, JOURNAL_LANE_B,
        IF workflow_is_idle(r.workflow) /\ r.workflow.restart = WORKFLOW_RESTART_NONE
        THEN << >> ELSE workflow_lane_bytes(r.workflow))]

\* The messages of the workflow endpoint.  "poll" stands for a query and for
\* every malformed message; version 0 and lease 0 for the forms without one.
WorkflowMessage ==
         [op : {"poll"}]
  \union [op : {"schedule"}, id : Byte, due : Byte]
  \union [op : {"update"}, name : Byte, value : Byte, version : Byte]
  \union [op : {"apply"}, lease : Byte]
  \union [op : {"cancel"}, id : Byte]

workflow_step_message(r, m) ==
    CASE m.op = "schedule" ->
           workflow_step_schedule(r, m.id # 0, WORKFLOW_KIND_TASK,
               [id |-> m.id, due |-> m.due, opcode |-> m.id], m.due)
      [] m.op = "update" ->
           workflow_step_schedule(r, m.name # 255, WORKFLOW_KIND_OBJECT_UPDATE,
               [id |-> u8(m.name + 1), due |-> m.value, opcode |-> m.version],
               WORKFLOW_OBJECT_UPDATE_DELAY)
      [] m.op = "apply" ->
           workflow_step_schedule(r, TRUE, WORKFLOW_KIND_UPDATE_APPLY,
               [id |-> WORKFLOW_UPDATE_APPLY_ID, due |-> 0, opcode |-> m.lease],
               WORKFLOW_UPDATE_APPLY_DELAY)
      [] m.op = "cancel" -> workflow_step_cancel(r, m.id)
      [] m.op = "poll"   -> [r EXCEPT !.effect = "InvalidArgument"]

\* A step counts the timers down and advances the workflow before it looks at
\* its message.
step(r, m) ==
    workflow_sync_journal(workflow_step_message(
        workflow_advance([r EXCEPT !.timer = timer_tick(@)]), m))

\* The handoff of a received request: no tick and no advance.
workflow_step_schedule_connection(r, id, slot, opcode) ==
    workflow_sync_journal(
        workflow_step_schedule(r, id # 0 /\ opcode # 0, WORKFLOW_KIND_CONNECTION,
            [id |-> id, due |-> u8(slot + WORKFLOW_CONNECTION_SLOT_MARKER),
             opcode |-> opcode],
            WORKFLOW_CONNECTION_DELAY))
-----------------------------------------------------------------------------
(* restart.mc *)

\* Mutant of workflow_restart_cancels: the generation is not compared.
workflow_restart_cancels_lane_only(r, s) ==
    r.journal[JOURNAL_LANE_B] # workflow_lane_bytes(s)

\* A workflow that still waits or runs is given up if the work set restarted
\* since it was scheduled, or if lane B does not hold this record.
workflow_restart_cancels(r, s) ==
    \/ s.generation # r.workset_generation
    \/ r.journal[JOURNAL_LANE_B] # workflow_lane_bytes(s)

\* The record after a restart of the workflow service.
workflow_restart_reload(r) ==
    LET s == r.workflow
        marked(w, restart) == [w EXCEPT !.restart = restart,
                                        !.generation = r.workset_generation]
        undelivered(outcome) ==
            marked(workflow_restate(s, 0, outcome, WORKFLOW_STATE_DELIVERING),
                   WORKFLOW_RESTART_CANCELLED)
    IN  CASE workflow_is_idle(s)       -> s
          [] workflow_is_delivering(s) -> marked(s, WORKFLOW_RESTART_RESUMED)
          [] ~workflow_is_idle(s) /\ ~workflow_is_active(s) ->
                [s EXCEPT !.restart = WORKFLOW_RESTART_NONE]
          [] workflow_is_waiting(s) \/ workflow_is_running(s) ->
                IF workflow_is_connection(s)
                   /\ (workflow_restart_cancels(r, s) \/ workflow_connection_lost(r, s))
                THEN undelivered(WORKFLOW_STATE_CONNECTION_RESTART_CANCELLED)
                ELSE IF workflow_restart_cancels(r, s)
                THEN CASE workflow_is_object_update(s) ->
                             undelivered(WORKFLOW_STATE_OBJECT_CANCELLED)
                       [] workflow_is_update_apply(s) ->
                             undelivered(WORKFLOW_STATE_UPDATE_CANCELLED)
                       [] OTHER -> marked(workflow_terminal(s, WORKFLOW_STATE_CANCELLED),
                                          WORKFLOW_RESTART_CANCELLED)
                ELSE marked(workflow_restate(s,
                                IF workflow_is_running(s) /\ ~workflow_is_connection(s)
                                THEN 0 ELSE s.due,
                                0, WORKFLOW_STATE_WAITING),
                            WORKFLOW_RESTART_RESUMED)

\* The delay timer 1 is rearmed with: one tick more than was left.  The due of
\* a connection is its slot plus the marker, so a resumed request waits for
\* that many ticks.
workflow_restart_timer_due(s) ==
    CASE workflow_is_object_update(s) -> WORKFLOW_OBJECT_UPDATE_DELAY
      [] workflow_is_update_apply(s)  -> WORKFLOW_UPDATE_APPLY_DELAY
      [] OTHER                        -> u8(s.due + 1)
=============================================================================
