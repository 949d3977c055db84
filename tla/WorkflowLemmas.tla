--------------------------- MODULE WorkflowLemmas ---------------------------
(* What the operations of the compact services keep of their states, and     *)
(* what a step of the workflow service does to the runtime: the facts the    *)
(* proofs about WorkflowKernel rest on.                                      *)
EXTENDS WorkflowKernel, ServiceLemmas, FiniteSetTheorems

\* The codes of the program are bytes, and none of them is read as another.
LEMMA Codes == 0 .. 200 \subseteq Byte /\ Byte \subseteq Nat
BY KernelAssumption, U8Assumption DEF Byte, WORKFLOW_UPDATE_APPLY_ID
-----------------------------------------------------------------------------
(* The tables, each with the bound of its array.                             *)

TimerTable == {s \in TimerServiceState : Len(s) <= TIMER_CAPACITY}

TaskStates == {TASK_STATE_ACTIVE, TASK_STATE_DONE, TASK_STATE_CANCELLED,
               TASK_STATE_FAILED}

TaskTable == {s \in TaskServiceState :
                 /\ Len(s.tasks) <= TASK_CAPACITY
                 /\ \A i \in 1 .. Len(s.tasks) : s.tasks[i].state \in TaskStates}

Mailbox == {s \in CompletionMailboxServiceState : Len(s.queue) <= MAILBOX_CAPACITY}

LeaseTable == {s \in LeaseServiceState : Len(s.leases) <= LEASE_CAPACITY}

TicketTable == {s \in TicketServiceState : Len(s.ids) <= TICKET_CAPACITY}

ObjectTable == {s \in UNION {[names -> Object] : names \in SUBSET Byte} :
                   Cardinality(DOMAIN s) <= OBJECT_STORE_CAPACITY}

UpdateTable == {s \in UpdateStoreServiceState :
                   /\ Len(s.data) <= UPDATE_ARTIFACT_CAPACITY
                   /\ Len(s.installed.data) <= UPDATE_ARTIFACT_CAPACITY}

JournalTable == {s \in JournalServiceState :
                    \A name \in {JOURNAL_LANE_A, JOURNAL_LANE_B} :
                        Len(s[name]) <= JOURNAL_RECORD_CAPACITY}

\* A record that is not active shows an outcome, one whose report is pending
\* keeps it in task.
WorkflowRecord == {s \in WorkflowServiceState :
                      /\ workflow_is_active(s) \/ s.state \in Outcomes
                      /\ workflow_is_delivering(s) => s.task \in Outcomes}
-----------------------------------------------------------------------------
(* Timers (timer_service.mc).                                                *)

\* timer_find returns a slot of the table or 0.
LEMMA TimerFound ==
    ASSUME NEW s \in TimerTable, NEW id
    PROVE  timer_find(s, id) \in 0 .. Len(s)
<1> DEFINE I == {i \in 1 .. Len(s) : s[i].id = id}
<1>1. timer_find(s, id) = IF I # {} THEN Min(I) ELSE 0
  BY DEF timer_find, SelectInSeq
<1>2. Len(s) \in Nat BY DEF TimerTable, TimerServiceState
<1>3. I # {} => Min(I) \in I
  <2>1. I \subseteq Nat OBVIOUS
  <2>2. QED BY <2>1, MinNat
<1>4. QED BY <1>1, <1>2, <1>3

\* A countdown leaves a timer a timer (timer_tick).
LEMMA TimerTick ==
    ASSUME NEW s \in TimerTable
    PROVE  timer_tick(s) \in TimerTable
<1>1. s \in Seq(Timer) /\ Len(s) <= TIMER_CAPACITY /\ Len(s) \in Nat /\ DOMAIN s = 1 .. Len(s)
  BY DEF TimerTable, TimerServiceState
<1>2. ASSUME NEW i \in 1 .. Len(s) PROVE timer_count_down(s[i]) \in Timer
  <2>1. s[i] \in Timer BY <1>1
  <2>2. s[i].due # 0 => s[i].due - 1 \in Byte BY <2>1, U8Assumption DEF Timer, Byte
  <2>3. TIMER_STATE_EXPIRED \in Byte /\ 0 \in Byte BY Codes DEF TIMER_STATE_EXPIRED
  <2>4. QED BY <2>1, <2>2, <2>3 DEF Timer, timer_count_down
<1>3. timer_tick(s) = [i \in 1 .. Len(s) |-> timer_count_down(s[i])]
  BY <1>1 DEF timer_tick
<1>4. timer_tick(s) \in Seq(Timer) /\ Len(timer_tick(s)) = Len(s)
  BY <1>1, <1>2, <1>3
<1>5. QED BY <1>1, <1>4 DEF TimerTable, TimerServiceState

\* Arming a timer (timer_create) keeps the table within its capacity.
LEMMA TimerCreated ==
    ASSUME NEW s \in TimerTable, NEW id \in Byte, NEW due \in Byte
    PROVE  timer_create(s, id, due).state \in TimerTable
<1> DEFINE armed == [id |-> id, due |-> due, state |-> TIMER_STATE_ACTIVE]
           idx == timer_find(s, id)
<1>1. s \in Seq(Timer) /\ Len(s) <= TIMER_CAPACITY /\ Len(s) \in Nat
  BY DEF TimerTable, TimerServiceState
<1>2. armed \in Timer BY Codes DEF Timer, TIMER_STATE_ACTIVE
<1>3. idx \in 0 .. Len(s) BY TimerFound
<1>4. CASE idx # 0
  <2>1. idx \in 1 .. Len(s) BY <1>1, <1>3, <1>4
  <2>2. [s EXCEPT ![idx] = armed] \in Seq(Timer) /\ Len([s EXCEPT ![idx] = armed]) = Len(s)
    BY <1>1, <1>2, <2>1, ExceptSeq
  <2>3. timer_create(s, id, due).state = [s EXCEPT ![idx] = armed]
    BY <1>4 DEF timer_create
  <2>4. QED BY <1>1, <2>2, <2>3 DEF TimerTable, TimerServiceState
<1>5. CASE idx = 0 /\ Len(s) >= TIMER_CAPACITY BY <1>5 DEF timer_create
<1>6. CASE idx = 0 /\ ~(Len(s) >= TIMER_CAPACITY)
  <2>1. timer_create(s, id, due).state = Append(s, armed) BY <1>6 DEF timer_create
  <2>2. Append(s, armed) \in Seq(Timer) /\ Len(Append(s, armed)) = Len(s) + 1
    BY <1>1, <1>2, AppendProperties
  <2>3. Len(s) + 1 <= TIMER_CAPACITY BY <1>1, <1>6, TimerAssumption
  <2>4. QED BY <2>1, <2>2, <2>3 DEF TimerTable, TimerServiceState
<1>7. QED BY <1>4, <1>5, <1>6

\* Cancelling (timer_cancel) changes at most the state of one timer.
LEMMA TimerCancelled ==
    ASSUME NEW s \in TimerTable, NEW id
    PROVE  timer_cancel(s, id).state \in TimerTable
<1> DEFINE idx == timer_find(s, id)
           c   == [s[idx] EXCEPT !.state = TIMER_STATE_CANCELLED]
<1>1. s \in Seq(Timer) /\ Len(s) <= TIMER_CAPACITY /\ Len(s) \in Nat
  BY DEF TimerTable, TimerServiceState
<1>2. idx \in 0 .. Len(s) BY TimerFound
<1>3. CASE idx # 0 /\ s[idx].state = TIMER_STATE_ACTIVE
  <2>1. idx \in 1 .. Len(s) BY <1>1, <1>2, <1>3
  <2>2. c \in Timer
    <3>1. s[idx] \in Timer BY <1>1, <2>1
    <3>2. QED BY <3>1, Codes DEF Timer, TIMER_STATE_CANCELLED
  <2>3. [s EXCEPT ![idx] = c] \in Seq(Timer) /\ Len([s EXCEPT ![idx] = c]) = Len(s)
    BY <1>1, <2>1, <2>2, ExceptSeq
  <2>4. timer_cancel(s, id).state = [s EXCEPT ![idx] = c]
    BY <1>3 DEF timer_cancel
  <2>5. QED BY <1>1, <2>3, <2>4 DEF TimerTable, TimerServiceState
<1>4. CASE ~(idx # 0 /\ s[idx].state = TIMER_STATE_ACTIVE)
  BY <1>4 DEF timer_cancel
<1>5. QED BY <1>3, <1>4
-----------------------------------------------------------------------------
(* Tasks (task_service.mc).                                                  *)

\* task_find returns a slot of the table or 0.
LEMMA TaskFound ==
    ASSUME NEW s \in TaskTable, NEW id
    PROVE  task_find(s, id) \in 0 .. Len(s.tasks)
<1> DEFINE I == {i \in 1 .. Len(s.tasks) : s.tasks[i].id = id}
<1>1. task_find(s, id) = IF I # {} THEN Min(I) ELSE 0
  BY DEF task_find, SelectInSeq
<1>2. Len(s.tasks) \in Nat BY DEF TaskTable, TaskServiceState
<1>3. I # {} => Min(I) \in I
  <2>1. I \subseteq Nat OBVIOUS
  <2>2. QED BY <2>1, MinNat
<1>4. QED BY <1>1, <1>2, <1>3

\* What a query answers is the state of a task, or 0 (task_query).
LEMMA TaskQueried ==
    ASSUME NEW s \in TaskTable, NEW id
    PROVE  task_query(s, id) \in TaskStates \cup {0}
<1>1. Len(s.tasks) \in Nat /\ \A i \in 1 .. Len(s.tasks) : s.tasks[i].state \in TaskStates
  BY DEF TaskTable, TaskServiceState
<1>2. QED BY <1>1, TaskFound DEF task_query

\* Replacing one task, or adding one below the capacity, keeps the table.
LEMMA TaskWritten ==
    ASSUME NEW s \in TaskTable, NEW t \in Task, t.state \in TaskStates, NEW next \in Byte
    PROVE  /\ \A i \in 1 .. Len(s.tasks) :
                  [tasks |-> [s.tasks EXCEPT ![i] = t], next |-> next] \in TaskTable
           /\ Len(s.tasks) < TASK_CAPACITY =>
                  [tasks |-> Append(s.tasks, t), next |-> next] \in TaskTable
<1> DEFINE q == s.tasks
           N == Len(q)
<1>1. /\ q \in Seq(Task) /\ N <= TASK_CAPACITY /\ N \in Nat
      /\ \A i \in 1 .. N : q[i].state \in TaskStates
  BY DEF TaskTable, TaskServiceState
<1>2. ASSUME NEW i \in 1 .. N
      PROVE  [tasks |-> [q EXCEPT ![i] = t], next |-> next] \in TaskTable
  <2>1. /\ [q EXCEPT ![i] = t] \in Seq(Task) /\ Len([q EXCEPT ![i] = t]) = N
        /\ \A j \in 1 .. N : [q EXCEPT ![i] = t][j] = IF j = i THEN t ELSE q[j]
    BY <1>1, ExceptSeq
  <2>2. \A j \in 1 .. N : [q EXCEPT ![i] = t][j].state \in TaskStates
    BY <1>1, <2>1
  <2>3. QED BY <1>1, <2>1, <2>2 DEF TaskTable, TaskServiceState
<1>3. ASSUME N < TASK_CAPACITY
      PROVE  [tasks |-> Append(q, t), next |-> next] \in TaskTable
  <2>1. /\ Append(q, t) \in Seq(Task) /\ Len(Append(q, t)) = N + 1
        /\ \A j \in 1 .. N : Append(q, t)[j] = q[j]
        /\ Append(q, t)[N + 1] = t
    BY <1>1, AppendProperties
  <2>n. N \in Nat BY <1>1
  <2> HIDE DEF N
  <2>2. \A j \in 1 .. N + 1 : j \in 1 .. N \/ j = N + 1 BY <2>n
  <2>3. \A j \in 1 .. N + 1 : Append(q, t)[j].state \in TaskStates
    BY <1>1, <2>1, <2>2
  <2>4. N + 1 <= TASK_CAPACITY BY <2>n, <1>3, TaskAssumption
  <2>5. QED BY <2>1, <2>3, <2>4 DEF TaskTable, TaskServiceState
<1>4. QED BY <1>2, <1>3

\* An accepted submission takes a slot within the capacity, and its answer is
\* the new task (task_submit).
LEMMA TaskSubmitted ==
    ASSUME NEW s \in TaskTable, NEW opcode
    PROVE  /\ task_submit(s, opcode).state \in TaskTable
           /\ task_submit(s, opcode).task.id \in Byte
<1> DEFINE ended == SelectInSeq(s.tasks, LAMBDA t : t.state # TASK_STATE_ACTIVE)
           I     == {i \in 1 .. Len(s.tasks) : s.tasks[i].state # TASK_STATE_ACTIVE}
           slot  == task_find_free(s)
           new   == [id    |-> s.next,
                     state |-> IF opcode = TASK_OPCODE_FAILS THEN TASK_STATE_FAILED
                               ELSE TASK_STATE_ACTIVE]
           next  == u8(s.next + 1)
           made  == [next  |-> next,
                     tasks |-> IF slot > Len(s.tasks) THEN Append(s.tasks, new)
                               ELSE [s.tasks EXCEPT ![slot] = new]]
<1>1. Len(s.tasks) \in Nat /\ s.next \in Byte
  BY DEF TaskTable, TaskServiceState
<1>2. slot \in 1 .. Len(s.tasks) \/ slot = Len(s.tasks) + 1
  <2>1. ended = IF I # {} THEN Min(I) ELSE 0 BY DEF SelectInSeq
  <2>2. I # {} => Min(I) \in I
    <3>1. I \subseteq Nat OBVIOUS
    <3>2. QED BY <3>1, MinNat
  <2>3. slot = IF ended # 0 THEN ended ELSE Len(s.tasks) + 1 BY DEF task_find_free
  <2>4. QED BY <2>1, <2>2, <2>3
<1>3. new \in Task /\ new.state \in TaskStates
  BY <1>1, Codes DEF Task, TaskStates, TASK_STATE_FAILED, TASK_STATE_ACTIVE,
     TASK_STATE_DONE, TASK_STATE_CANCELLED
<1>4. next \in Byte
  <2>1. s.next + 1 \in Nat BY <1>1, U8Assumption DEF Byte
  <2>2. QED BY <2>1, U8Facts
<1>5. 0 \in Byte /\ new.id \in Byte BY <1>1, Codes
<1>6. CASE opcode = 0 \/ slot > TASK_CAPACITY
  BY <1>5, <1>6 DEF task_submit
<1>7. CASE ~(opcode = 0 \/ slot > TASK_CAPACITY)
  <2>1. task_submit(s, opcode).state = made /\ task_submit(s, opcode).task = new
    BY <1>7 DEF task_submit
  <2> HIDE DEF new, next, slot
  <2>2. CASE slot \in 1 .. Len(s.tasks)
    <3>1. made = [tasks |-> [s.tasks EXCEPT ![slot] = new], next |-> next]
      BY <1>1, <2>2
    <3>2. [tasks |-> [s.tasks EXCEPT ![slot] = new], next |-> next] \in TaskTable
      BY <1>3, <1>4, <2>2, TaskWritten, Zenon
    <3>3. QED BY <1>5, <2>1, <3>1, <3>2
  <2>3. CASE slot = Len(s.tasks) + 1
    <3>1. made = [tasks |-> Append(s.tasks, new), next |-> next] BY <1>1, <2>3
    <3>2. Len(s.tasks) < TASK_CAPACITY BY <1>1, <1>7, <2>3, TaskAssumption
    <3>3. QED BY <1>3, <1>4, <1>5, <2>1, <3>1, <3>2, TaskWritten
  <2>4. QED BY <1>2, <2>2, <2>3
<1>8. QED BY <1>6, <1>7

\* Ending a task, cancelled or done, changes its state only (task_end).
LEMMA TaskEnded ==
    ASSUME NEW s \in TaskTable, NEW id
    PROVE  /\ task_cancel(s, id).state \in TaskTable
           /\ task_complete(s, id).state \in TaskTable
<1>1. ASSUME NEW state \in TaskStates
      PROVE  task_end(s, id, state).state \in TaskTable
  <2> DEFINE idx == task_find(s, id)
             t   == [s.tasks[idx] EXCEPT !.state = state]
  <2>1. CASE task_query(s, id) = TASK_STATE_ACTIVE
    <3>1. idx \in 1 .. Len(s.tasks)
      <4>1. idx # 0 BY <2>1 DEF task_query, TASK_STATE_ACTIVE
      <4>2. Len(s.tasks) \in Nat BY DEF TaskTable, TaskServiceState
      <4>3. QED BY <4>1, <4>2, TaskFound
    <3>2. s.tasks[idx] \in Task /\ s = [tasks |-> s.tasks, next |-> s.next] /\ s.next \in Byte
      BY <3>1 DEF TaskTable, TaskServiceState
    <3>3. state \in Byte
      BY Codes DEF TaskStates, TASK_STATE_FAILED, TASK_STATE_ACTIVE, TASK_STATE_DONE,
         TASK_STATE_CANCELLED
    <3>4. t \in Task /\ t.state = state BY <3>2, <3>3 DEF Task
    <3>5. task_end(s, id, state).state = [tasks |-> [s.tasks EXCEPT ![idx] = t], next |-> s.next]
      BY <2>1, <3>2 DEF task_end
    <3>6. QED BY <3>1, <3>2, <3>4, <3>5, TaskWritten, ZenonT(30)
  <2>2. CASE task_query(s, id) # TASK_STATE_ACTIVE BY <2>2 DEF task_end
  <2>3. QED BY <2>1, <2>2
<1>2. QED BY <1>1 DEF task_cancel, task_complete, TaskStates
-----------------------------------------------------------------------------
(* The completion mailbox (completion_mailbox_service.mc).                   *)

\* A delivery is queued last if there is room, and leaves the queue alone
\* otherwise (completion_mailbox_enqueue).
LEMMA Enqueued ==
    ASSUME NEW s \in Mailbox, NEW c \in Completion
    PROVE  LET result == completion_mailbox_enqueue(s, c)
           IN  /\ result.state \in Mailbox
               /\ \/ /\ result.status = "Ok"
                     /\ Len(s.queue) < MAILBOX_CAPACITY
                     /\ result.state.queue = Append(s.queue, c)
                  \/ /\ result.status \in {"WouldBlock", "Exhausted"}
                     /\ result.state.queue = s.queue
<1>1. /\ s.queue \in Seq(Completion) /\ Len(s.queue) <= MAILBOX_CAPACITY /\ Len(s.queue) \in Nat
      /\ s \in [queue : Seq(Completion), stalled : BOOLEAN]
  BY DEF Mailbox, CompletionMailboxServiceState
<1>2. CASE Len(s.queue) >= MAILBOX_CAPACITY
  <2>1. /\ [s EXCEPT !.stalled = TRUE] \in [queue : Seq(Completion), stalled : BOOLEAN]
        /\ [s EXCEPT !.stalled = TRUE].queue = s.queue
    BY <1>1
  <2>2. [s EXCEPT !.stalled = TRUE] \in Mailbox
    BY <1>1, <2>1 DEF Mailbox, CompletionMailboxServiceState
  <2>3. QED BY <1>2, <2>1, <2>2 DEF completion_mailbox_enqueue
<1>3. CASE Len(s.queue) < MAILBOX_CAPACITY
  <2>1. Append(s.queue, c) \in Seq(Completion) /\ Len(Append(s.queue, c)) = Len(s.queue) + 1
    BY <1>1, AppendProperties
  <2>2. Len(s.queue) + 1 <= MAILBOX_CAPACITY BY <1>1, <1>3, MailboxAssumption
  <2>3. [queue |-> Append(s.queue, c), stalled |-> FALSE] \in Mailbox
    BY <2>1, <2>2 DEF Mailbox, CompletionMailboxServiceState
  <2>4. ~(Len(s.queue) >= MAILBOX_CAPACITY) BY <1>1, <1>3, MailboxAssumption
  <2>5. QED BY <1>3, <2>3, <2>4 DEF completion_mailbox_enqueue
<1>4. QED BY <1>1, <1>2, <1>3, MailboxAssumption

\* An acknowledgement takes the head or nothing, and so does a take; a reload
\* keeps the queue.
LEMMA Taken ==
    ASSUME NEW s \in Mailbox, NEW id
    PROVE  /\ \A t \in {completion_mailbox_ack(s), completion_mailbox_take(s, id)} :
                 /\ t \in Mailbox
                 /\ t.queue = s.queue \/ (s.queue # << >> /\ t.queue = Tail(s.queue))
           /\ completion_mailbox_reload(s) \in Mailbox
           /\ completion_mailbox_reload(s).queue = s.queue
<1>1. /\ s.queue \in Seq(Completion) /\ Len(s.queue) <= MAILBOX_CAPACITY /\ Len(s.queue) \in Nat
      /\ s \in [queue : Seq(Completion), stalled : BOOLEAN]
  BY DEF Mailbox, CompletionMailboxServiceState
<1>2. /\ completion_mailbox_ack(s) \in Mailbox
      /\ \/ completion_mailbox_ack(s).queue = s.queue
         \/ s.queue # << >> /\ completion_mailbox_ack(s).queue = Tail(s.queue)
  <2>1. CASE s.queue = << >> BY <2>1 DEF completion_mailbox_ack
  <2>2. CASE s.queue # << >>
    <3>1. Tail(s.queue) \in Seq(Completion) /\ Len(Tail(s.queue)) = Len(s.queue) - 1
      BY <1>1, <2>2, HeadTailProperties
    <3>2. /\ [s EXCEPT !.queue = Tail(@)] \in [queue : Seq(Completion), stalled : BOOLEAN]
          /\ [s EXCEPT !.queue = Tail(@)].queue = Tail(s.queue)
      BY <1>1, <3>1
    <3>3. Len(s.queue) - 1 <= MAILBOX_CAPACITY BY <1>1, MailboxAssumption
    <3>4. [s EXCEPT !.queue = Tail(@)] \in Mailbox
      BY <3>1, <3>2, <3>3 DEF Mailbox, CompletionMailboxServiceState
    <3>5. QED BY <2>2, <3>2, <3>4 DEF completion_mailbox_ack
  <2>3. QED BY <2>1, <2>2
<1>3. completion_mailbox_reload(s) \in Mailbox /\ completion_mailbox_reload(s).queue = s.queue
  <2>1. /\ [s EXCEPT !.stalled = FALSE] \in [queue : Seq(Completion), stalled : BOOLEAN]
        /\ [s EXCEPT !.stalled = FALSE].queue = s.queue
    BY <1>1
  <2>2. QED BY <1>1, <2>1 DEF completion_mailbox_reload, Mailbox, CompletionMailboxServiceState
<1>4. QED BY <1>2, <1>3 DEF completion_mailbox_take
-----------------------------------------------------------------------------
(* Connections (connection_service.mc).                                      *)

\* Writing a connection into its slot keeps the table and the request counter.
LEMMA ConnectionWritten ==
    ASSUME NEW s \in ConnectionServiceState, NEW slot \in ConnectionSlot, NEW c \in Connection
    PROVE  /\ connection_with(s, slot, c) \in ConnectionServiceState
           /\ connection_with(s, slot, c).next = s.next
BY DEF connection_with, ConnectionServiceState

\* What the messages of clients leave is a table of connections: an operation
\* that uses up the budget has some left (connection_validate).
LEMMA ConnectionUsed ==
    ASSUME NEW s \in ConnectionServiceState, NEW slot \in ConnectionSlot, NEW value \in Byte,
           NEW state \in ConnectionEnds
    PROVE  {connection_open(s, slot, value), connection_receive(s, slot, value),
            connection_send(s, slot), connection_close(s, slot, state)}
               \subseteq ConnectionServiceState
<1> DEFINE c == s.slots[slot]
<1> USE DEF CONNECTION_STATE_INVALID, CONNECTION_STATE_OPEN, CONNECTION_STATE_RECEIVED,
        CONNECTION_STATE_REPLIED, CONNECTION_STATE_DISCONNECTED, CONNECTION_STATE_TIMED_OUT
<1>1. c \in Connection BY DEF ConnectionServiceState
<1>2. {0, 73, 79, 82, 83, 68, 84} \subseteq Byte BY Codes
<1>3. c.idle # 0 => c.idle - 1 \in Byte
  BY <1>1, U8Assumption DEF Connection, Byte
<1>4. connection_open(s, slot, value) \in ConnectionServiceState
  <2>1. [state |-> CONNECTION_STATE_OPEN, ingress |-> 0, work |-> 0, idle |-> value] \in Connection
    BY <1>2 DEF Connection
  <2>2. QED BY <2>1, ConnectionWritten DEF connection_open
<1>5. connection_mark_timed_out(c) \in Connection
  BY <1>1, <1>2 DEF Connection, connection_mark_timed_out
<1>6. ASSUME NEW ok, NEW d, c.idle # 0 => d \in Connection
      PROVE  connection_checked(s, slot, ok, d) \in ConnectionServiceState
  <2>1. connection_with(s, slot, connection_mark_timed_out(c)) \in ConnectionServiceState
    BY <1>5, ConnectionWritten
  <2>2. connection_validate(s, slot) = "usable" => connection_with(s, slot, d) \in ConnectionServiceState
    BY <1>6, ConnectionWritten DEF connection_validate
  <2>3. QED BY <2>1, <2>2 DEF connection_checked
<1>7. connection_receive(s, slot, value) \in ConnectionServiceState
  <2> DEFINE d == [c EXCEPT !.state = CONNECTION_STATE_RECEIVED, !.ingress = value, !.idle = @ - 1]
  <2>1. c.idle # 0 => d \in Connection BY <1>1, <1>2, <1>3, ZenonT(30) DEF Connection
  <2>2. connection_receive(s, slot, value) = connection_checked(s, slot, c.work = 0, d)
    BY DEF connection_receive
  <2>3. QED BY <1>6, <2>1, <2>2
<1>8. connection_send(s, slot) \in ConnectionServiceState
  <2> DEFINE d  == [c EXCEPT !.state = CONNECTION_STATE_REPLIED, !.idle = @ - 1]
             ok == /\ c.state \in {CONNECTION_STATE_RECEIVED, CONNECTION_STATE_REPLIED}
                   /\ c.work = 0
  <2>1. c.idle # 0 => d \in Connection BY <1>1, <1>2, <1>3 DEF Connection
  <2>2. connection_send(s, slot) = connection_checked(s, slot, ok, d) BY DEF connection_send
  <2> HIDE DEF d, ok
  <2>3. QED BY <1>6, <2>1, <2>2
<1>9. connection_close(s, slot, state) \in ConnectionServiceState
  <2>1. [c EXCEPT !.state = state, !.work = 0, !.idle = 0] \in Connection
    BY <1>1, <1>2 DEF Connection, ConnectionEnds
  <2>2. QED BY <2>1, ConnectionWritten DEF connection_close
<1>10. QED BY <1>4, <1>7, <1>8, <1>9

\* The request that occupies a slot has an id of its own, never 0, and a byte
\* as its opcode (connection_execute_prepare).
LEMMA ConnectionPrepared ==
    ASSUME NEW s \in ConnectionServiceState, NEW slot \in ConnectionSlot,
           connection_can_execute(s, slot)
    PROVE  LET prepared == connection_execute_prepare(s, slot)
           IN  /\ prepared.state \in ConnectionServiceState
               /\ prepared.request \in Byte \ {0}
               /\ prepared.opcode \in Byte
<1> DEFINE request == connection_next_request_id(s.next)
           next    == connection_next_request_id(u8(request + 1))
           c       == [s.slots[slot] EXCEPT !.work = request, !.idle = @ - 1]
           slots   == [s.slots EXCEPT ![slot] = c]
<1>1. s.slots \in [ConnectionSlot -> Connection] /\ s.slots[slot] \in Connection /\ s.next \in Byte
  BY DEF ConnectionServiceState
<1>2. \A n \in Byte : connection_next_request_id(n) \in Byte \ {0}
  BY Codes DEF connection_next_request_id
<1>3. request \in Byte \ {0} BY <1>1, <1>2
<1>4. next \in Byte
  <2>1. request + 1 \in Nat BY <1>3, U8Assumption DEF Byte
  <2>2. QED BY <1>2, <2>1, U8Facts
<1>5. s.slots[slot].idle - 1 \in Byte
  BY <1>1, U8Assumption DEF Connection, Byte, connection_can_execute, connection_validate
<1>6. c \in Connection BY <1>1, <1>3, <1>5 DEF Connection
<1>7. slots \in [ConnectionSlot -> Connection] BY <1>1, <1>6
<1>8. [s.slots EXCEPT ![slot].work = request, ![slot].idle = @ - 1] = slots
  BY <1>1 DEF Connection
<1>9. s.slots[slot].ingress \in Byte BY <1>1 DEF Connection
<1> HIDE DEF request, next, c, slots
<1>10. connection_execute_prepare(s, slot)
          = [state |-> [slots |-> slots, next |-> next], request |-> request,
             opcode |-> s.slots[slot].ingress]
  BY <1>8 DEF connection_execute_prepare, request, next
<1>11. QED BY <1>3, <1>4, <1>7, <1>9, <1>10 DEF ConnectionServiceState

\* Freeing a slot keeps the table (connection_request_finish).
LEMMA ConnectionFinished ==
    ASSUME NEW s \in ConnectionServiceState, NEW slot, NEW request
    PROVE  connection_request_finish(s, slot, request) \in ConnectionServiceState
<1>1. CASE slot \in ConnectionSlot /\ s.slots[slot].work = request
  <2> DEFINE c == [s.slots[slot] EXCEPT !.work = 0]
  <2>1. c \in Connection BY <1>1, Codes DEF Connection, ConnectionServiceState
  <2>2. [s EXCEPT !.slots[slot].work = 0] = connection_with(s, slot, c)
    BY DEF connection_with
  <2>3. QED BY <1>1, <2>1, <2>2, ConnectionWritten DEF connection_request_finish
<1>2. CASE ~(slot \in ConnectionSlot /\ s.slots[slot].work = request)
  BY <1>2 DEF connection_request_finish
<1>3. QED BY <1>1, <1>2
-----------------------------------------------------------------------------
(* Leases and tickets (lease_service.mc, ticket_service.mc).                 *)

\* lease_find returns the slot of an entry with this id, or 0.
LEMMA LeaseFound ==
    ASSUME NEW s \in LeaseTable, NEW id
    PROVE  /\ lease_find(s, id) \in 0 .. Len(s.leases)
           /\ lease_find(s, id) # 0 => s.leases[lease_find(s, id)].id = id
<1> DEFINE I == {i \in 1 .. Len(s.leases) : s.leases[i].id = id}
<1>1. lease_find(s, id) = IF I # {} THEN Min(I) ELSE 0
  BY DEF lease_find, SelectInSeq
<1>2. Len(s.leases) \in Nat BY DEF LeaseTable, LeaseServiceState
<1>3. I # {} => Min(I) \in I
  <2>1. I \subseteq Nat OBVIOUS
  <2>2. QED BY <2>1, MinNat
<1>4. QED BY <1>1, <1>2, <1>3

\* An issued lease is an entry more, within the capacity (lease_issue).
LEMMA LeaseIssued ==
    ASSUME NEW s \in LeaseTable, lease_can_issue(s), NEW kind \in Byte, NEW a \in Byte,
           NEW b \in Byte, NEW c \in Byte, NEW generation \in Byte
    PROVE  lease_issue(s, kind, <<a, b, c>>, generation) \in LeaseTable
<1> DEFINE e    == [id |-> s.next, kind |-> kind, first |-> a, second |-> b, third |-> c,
                    generation |-> generation]
           next == u8(s.next + 1)
           N    == Len(s.leases)
<1>1. s.leases \in Seq(Lease) /\ N \in Nat /\ s.next \in Byte
  BY DEF LeaseTable, LeaseServiceState
<1>2. e \in Lease BY <1>1 DEF Lease
<1>3. next \in Byte
  <2>1. s.next + 1 \in Nat BY <1>1, U8Assumption DEF Byte
  <2>2. QED BY <2>1, U8Facts
<1>4. Append(s.leases, e) \in Seq(Lease) /\ Len(Append(s.leases, e)) = N + 1
  BY <1>1, <1>2, AppendProperties
<1>5. N + 1 <= LEASE_CAPACITY BY <1>1, LeaseAssumption DEF lease_can_issue
<1>6. lease_issue(s, kind, <<a, b, c>>, generation) = [leases |-> Append(s.leases, e), next |-> next]
  BY DEF lease_issue
<1> DEFINE all == Append(s.leases, e)
<1>7. all \in Seq(Lease) /\ Len(all) <= LEASE_CAPACITY BY <1>4, <1>5
<1> HIDE DEF e, N, next, all
<1>8. [leases |-> all, next |-> next] \in LeaseTable
  BY <1>3, <1>7 DEF LeaseTable, LeaseServiceState
<1>9. QED BY <1>6, <1>8 DEF all

\* Consuming answers one of four codes; a lease that is honoured or stale is in
\* the table (lease_consume_code).
LEMMA ConsumeCode ==
    ASSUME NEW s \in LeaseTable, NEW id, NEW kind, NEW firsts, NEW generation
    PROVE  LET code == lease_consume_code(s, id, kind, firsts, generation)
           IN  /\ code \in {"Ok", "Stale", "Consumed", "Invalid"}
               /\ code \in {"Ok", "Stale"} => lease_find(s, id) \in 1 .. Len(s.leases)
<1>1. Len(s.leases) \in Nat BY DEF LeaseTable, LeaseServiceState
<1>2. lease_find(s, id) # 0 => lease_find(s, id) \in 1 .. Len(s.leases)
  BY <1>1, LeaseFound
<1>3. QED BY <1>2 DEF lease_consume_code

\* Consuming drops one entry or none (lease_consume).
LEMMA Consumed ==
    ASSUME NEW s \in LeaseTable, NEW id, NEW code,
           code \in {"Ok", "Stale"} => lease_find(s, id) \in 1 .. Len(s.leases)
    PROVE  lease_consume(s, id, code) \in LeaseTable
<1> DEFINE k == lease_find(s, id)
<1>1. /\ s \in [leases : Seq(Lease), next : Byte] /\ Len(s.leases) \in Nat
      /\ Len(s.leases) <= LEASE_CAPACITY
  BY DEF LeaseTable, LeaseServiceState
<1>2. CASE code \in {"Ok", "Stale"}
  <2>1. k \in 1 .. Len(s.leases) BY <1>2
  <2>2. RemoveAt(s.leases, k) \in Seq(Lease) /\ Len(RemoveAt(s.leases, k)) = Len(s.leases) - 1
    BY <1>1, <2>1, RemoveAtFacts
  <2>3. lease_consume(s, id, code) = [s EXCEPT !.leases = RemoveAt(s.leases, k)]
    BY <1>2 DEF lease_consume
  <2>4. Len(s.leases) - 1 <= LEASE_CAPACITY BY <1>1, LeaseAssumption
  <2>5. QED BY <1>1, <2>2, <2>3, <2>4 DEF LeaseTable, LeaseServiceState
<1>3. CASE code \notin {"Ok", "Stale"} BY <1>3 DEF lease_consume
<1>4. QED BY <1>2, <1>3

\* The codes of the four ways to consume a lease, and what they leave.
LEMMA ConsumedBy ==
    ASSUME NEW s \in LeaseTable, NEW id, NEW wf, NEW generation
    PROVE  \A code \in {lease_consume_completion(s, id, wf, generation),
                        lease_consume_installer_apply(s, id, generation),
                        lease_consume_object_update(s, id, generation),
                        lease_consume_external_ticket(s, id, generation)} :
              /\ code \in {"Ok", "Stale", "Consumed", "Invalid"}
              /\ code \in {"Ok", "Stale"} => lease_find(s, id) \in 1 .. Len(s.leases)
              /\ lease_consume(s, id, code) \in LeaseTable
<1> SUFFICES ASSUME NEW code \in {lease_consume_completion(s, id, wf, generation),
                                  lease_consume_installer_apply(s, id, generation),
                                  lease_consume_object_update(s, id, generation),
                                  lease_consume_external_ticket(s, id, generation)}
             PROVE  /\ code \in {"Ok", "Stale", "Consumed", "Invalid"}
                    /\ code \in {"Ok", "Stale"} => lease_find(s, id) \in 1 .. Len(s.leases)
                    /\ lease_consume(s, id, code) \in LeaseTable
  OBVIOUS
<1>1. PICK kind, firsts : code = lease_consume_code(s, id, kind, firsts, generation)
  BY DEF lease_consume_completion, lease_consume_installer_apply,
     lease_consume_object_update, lease_consume_external_ticket
<1>2. /\ code \in {"Ok", "Stale", "Consumed", "Invalid"}
      /\ code \in {"Ok", "Stale"} => lease_find(s, id) \in 1 .. Len(s.leases)
  BY <1>1, ConsumeCode
<1>3. QED BY <1>2, Consumed

\* An external ticket is leased by a lease of that kind and of that id, which is
\* used up with it (lease_consume_external_ticket).
LEMMA TicketLeaseUsed ==
    ASSUME NEW s \in LeaseTable, NEW id, NEW generation,
           lease_consume_external_ticket(s, id, generation) = "Ok"
    PROVE  /\ lease_find(s, id) \in 1 .. Len(s.leases)
           /\ s.leases[lease_find(s, id)].kind = LEASE_KIND_EXTERNAL_TICKET
           /\ s.leases[lease_find(s, id)].id = id
           /\ Len(lease_consume(s, id, "Ok").leases) = Len(s.leases) - 1
<1> DEFINE k == lease_find(s, id)
<1>1. s.leases \in Seq(Lease) /\ Len(s.leases) \in Nat
      /\ s \in [leases : Seq(Lease), next : Byte]
  BY DEF LeaseTable, LeaseServiceState
<1>2. k # 0 /\ s.leases[k].kind = LEASE_KIND_EXTERNAL_TICKET
  BY DEF lease_consume_external_ticket, lease_consume_code, LEASE_KIND_EXTERNAL_TICKET,
     LEASE_KIND_INSTALLER_APPLY
<1>3. k \in 1 .. Len(s.leases) /\ s.leases[k].id = id BY <1>1, <1>2, LeaseFound
<1>4. Len(RemoveAt(s.leases, k)) = Len(s.leases) - 1 BY <1>1, <1>3, RemoveAtFacts
<1>5. lease_consume(s, id, "Ok").leases = RemoveAt(s.leases, k) BY <1>1 DEF lease_consume
<1>6. QED BY <1>2, <1>3, <1>4, <1>5

\* Consuming adds no lease (lease_consume).
LEMMA LeasesOnlyGo ==
    ASSUME NEW s \in LeaseTable, NEW id, NEW code,
           code \in {"Ok", "Stale"} => lease_find(s, id) \in 1 .. Len(s.leases)
    PROVE  LET t == lease_consume(s, id, code)
           IN  /\ Len(t.leases) <= Len(s.leases)
               /\ \A i \in DOMAIN t.leases : \E j \in DOMAIN s.leases : t.leases[i] = s.leases[j]
<1> DEFINE k == lease_find(s, id)
           left == RemoveAt(s.leases, k)
<1>1. s \in [leases : Seq(Lease), next : Byte] /\ Len(s.leases) \in Nat
      /\ DOMAIN s.leases = 1 .. Len(s.leases)
  BY DEF LeaseTable, LeaseServiceState
<1>2. CASE code \in {"Ok", "Stale"}
  <2>1. k \in 1 .. Len(s.leases) BY <1>2
  <2>2. /\ left \in Seq(Lease) /\ Len(left) = Len(s.leases) - 1
        /\ \A i \in 1 .. Len(s.leases) - 1 :
              left[i] = IF i < k THEN s.leases[i] ELSE s.leases[i + 1]
    BY <1>1, <2>1, RemoveAtFacts
  <2>3. lease_consume(s, id, code).leases = left BY <1>1, <1>2 DEF lease_consume
  <2> HIDE DEF left
  <2>4. DOMAIN left = 1 .. Len(s.leases) - 1 BY <1>1, <2>2
  <2>5. \A i \in DOMAIN left : \E j \in DOMAIN s.leases : left[i] = s.leases[j]
    <3>1. \A i \in DOMAIN left : i \in DOMAIN s.leases /\ i + 1 \in DOMAIN s.leases
      BY <1>1, <2>4
    <3>2. QED BY <2>2, <2>4, <3>1
  <2>6. QED BY <1>1, <2>2, <2>3, <2>5
<1>3. CASE code \notin {"Ok", "Stale"} BY <1>1, <1>3 DEF lease_consume
<1>4. QED BY <1>2, <1>3

\* Issuing and using tickets keep the table, and its epoch (ticket_issue,
\* ticket_use).
LEMMA TicketKept ==
    ASSUME NEW s \in TicketTable, NEW epoch, NEW id
    PROVE  /\ ticket_can_issue(s) => ticket_issue(s) \in TicketTable
           /\ ticket_use(s, epoch, id) \in TicketTable
           /\ ticket_use_code(s, epoch, id) \in {"Ok", "Stale", "Consumed", "Invalid"}
<1>1. /\ s \in [epoch : Byte, next : Byte, ids : Seq(Byte)] /\ Len(s.ids) \in Nat
      /\ Len(s.ids) <= TICKET_CAPACITY
  BY DEF TicketTable, TicketServiceState
<1>2. ASSUME ticket_can_issue(s) PROVE ticket_issue(s) \in TicketTable
  <2>1. u8(s.next + 1) \in Byte
    <3>1. s.next + 1 \in Nat BY <1>1, U8Assumption DEF Byte
    <3>2. QED BY <3>1, U8Facts
  <2>2. Append(s.ids, s.next) \in Seq(Byte) /\ Len(Append(s.ids, s.next)) = Len(s.ids) + 1
    BY <1>1, AppendProperties
  <2>3. Len(s.ids) + 1 <= TICKET_CAPACITY BY <1>1, <1>2, TicketAssumption DEF ticket_can_issue
  <2>4. QED BY <1>1, <2>1, <2>2, <2>3 DEF ticket_issue, TicketTable, TicketServiceState
<1>3. ticket_use(s, epoch, id) \in TicketTable
  <2> DEFINE I == {i \in 1 .. Len(s.ids) : s.ids[i] = id}
  <2>1. CASE ticket_use_code(s, epoch, id) = "Ok"
    <3>1. I # {} BY <2>1 DEF ticket_use_code, Contains
    <3>2. Min(I) \in I
      <4>1. I \subseteq Nat OBVIOUS
      <4>2. QED BY <3>1, <4>1, MinNat
    <3>3. RemoveFirst(s.ids, id) = RemoveAt(s.ids, Min(I))
      BY <3>1 DEF RemoveFirst, SelectInSeq
    <3>4. /\ RemoveFirst(s.ids, id) \in Seq(Byte)
          /\ Len(RemoveFirst(s.ids, id)) = Len(s.ids) - 1
      BY <1>1, <3>2, <3>3, RemoveAtFacts
    <3>5. Len(s.ids) - 1 <= TICKET_CAPACITY BY <1>1, TicketAssumption
    <3>6. QED BY <1>1, <2>1, <3>4, <3>5 DEF ticket_use, TicketTable, TicketServiceState
  <2>2. CASE ticket_use_code(s, epoch, id) # "Ok" BY <2>2 DEF ticket_use
  <2>3. QED BY <2>1, <2>2
<1>4. QED BY <1>2, <1>3 DEF ticket_use_code
-----------------------------------------------------------------------------
(* Objects (object_store_service.mc).                                        *)

\* A version is a byte other than 0, and the next one is another such byte.
LEMMA Versions ==
    \A v \in Byte \ {0} : /\ object_next_version(v) \in Byte \ {0}
                          /\ U8 > 2 => object_next_version(v) # v
BY U8Assumption DEF object_next_version, Byte

\* Creating an object adds it, within the capacity, and leaves the others
\* alone (object_create).
LEMMA ObjectCreated ==
    ASSUME NEW s \in ObjectTable, NEW name \in Byte, NEW value \in Byte
    PROVE  LET new == object_create(s, name, value).state
           IN  /\ new \in ObjectTable
               /\ \A n \in DOMAIN s : n \in DOMAIN new /\ new[n] = s[n]
<1> DEFINE names == DOMAIN s
           made  == [n \in names \union {name} |->
                        IF n = name THEN [value |-> value, version |-> 1] ELSE s[n]]
<1>1. /\ names \subseteq Byte /\ s \in [names -> Object]
      /\ Cardinality(names) <= OBJECT_STORE_CAPACITY
  BY DEF ObjectTable
<1>2. IsFiniteSet(names)
  <2>1. IsFiniteSet(Byte) BY U8Assumption, FS_Interval DEF Byte
  <2>2. QED BY <1>1, <2>1, FS_Subset
<1>3. CASE name \in names \/ Cardinality(names) >= OBJECT_STORE_CAPACITY
  BY <1>3 DEF object_create
<1>4. CASE ~(name \in names \/ Cardinality(names) >= OBJECT_STORE_CAPACITY)
  <2>1. object_create(s, name, value).state = made BY <1>4 DEF object_create
  <2>2. [value |-> value, version |-> 1] \in Object BY Codes, 1 \in Byte DEF Object
  <2>3. made \in [names \union {name} -> Object] BY <1>1, <2>2
  <2>4. Cardinality(names \union {name}) = Cardinality(names) + 1 /\ Cardinality(names) \in Nat
    BY <1>2, <1>4, FS_AddElement, FS_CardinalityType
  <2>5. Cardinality(names \union {name}) <= OBJECT_STORE_CAPACITY
    BY <1>4, <2>4, ObjectStoreAssumption
  <2>6. DOMAIN made = names \union {name} OBVIOUS
  <2>7. \A n \in names : n \in DOMAIN made /\ made[n] = s[n] BY <1>4
  <2>8. names \union {name} \in SUBSET Byte BY <1>1
  <2> HIDE DEF made, names
  <2>9. made \in ObjectTable BY <2>3, <2>5, <2>6, <2>8 DEF ObjectTable
  <2>10. QED BY <2>1, <2>7, <2>9 DEF names
<1>5. QED BY <1>3, <1>4

\* A version moves exactly if the value of its object changes, and no object
\* disappears: what one write of the object store may do.
Moves(s, t) ==
    \A name \in DOMAIN s :
        /\ name \in DOMAIN t
        /\ t[name].version = IF t[name].value = s[name].value THEN s[name].version
                             ELSE object_next_version(s[name].version)

\* Replacing a value, with or without a version to compare, moves the version
\* of that object if it changes the value (object_replace).
LEMMA ObjectReplaced ==
    ASSUME NEW s \in ObjectTable, NEW name, NEW value \in Byte, NEW version
    PROVE  \A new \in {object_replace(s, name, value).state,
                       object_update(s, name, value).state,
                       object_update_if_version(s, name, value, version).state} :
              new \in ObjectTable /\ Moves(s, new)
<1> DEFINE names == DOMAIN s
           e     == [value |-> value, version |-> object_next_version(s[name].version)]
           made  == [s EXCEPT ![name] = e]
<1>1. names \subseteq Byte /\ s \in [names -> Object] /\ Cardinality(names) <= OBJECT_STORE_CAPACITY
  BY DEF ObjectTable
<1>2. Moves(s, s) BY DEF Moves
<1>3. /\ object_replace(s, name, value).state \in ObjectTable
      /\ Moves(s, object_replace(s, name, value).state)
  <2>1. CASE name \notin names \/ s[name].value = value
    BY <1>2, <2>1 DEF object_replace
  <2>2. CASE ~(name \notin names \/ s[name].value = value)
    <3>1. object_replace(s, name, value).state = made BY <2>2 DEF object_replace
    <3>2. s[name] \in Object BY <1>1, <2>2
    <3>3. e \in Object BY <3>2, Versions DEF Object
    <3>4. made \in [names -> Object] BY <1>1, <3>3
    <3>5. \A n \in names : made[n] = IF n = name THEN e ELSE s[n] BY <1>1
    <3>6. e.value # s[name].value /\ e.version = object_next_version(s[name].version) BY <2>2
    <3> HIDE DEF made, e
    <3>7. Moves(s, made) BY <3>4, <3>5, <3>6 DEF Moves
    <3>8. made \in ObjectTable BY <1>1, <3>4 DEF ObjectTable
    <3>9. QED BY <3>1, <3>7, <3>8
  <2>3. QED BY <2>1, <2>2
<1>4. QED BY <1>2, <1>3 DEF object_update, object_update_if_version
-----------------------------------------------------------------------------
(* The update store and the journal (update_store_service.mc,                *)
(* journal_service.mc).                                                      *)

\* Every operation of the update store keeps both artifacts within the
\* capacity.
LEMMA UpdateKept ==
    ASSUME NEW s \in UpdateTable, NEW value \in Byte, NEW version \in Byte, NEW len \in Byte
    PROVE  {update_stage(s, value).state, update_record_manifest(s, version, len).state,
            update_apply(s).state, update_clear(s)} \subseteq UpdateTable
<1>1. /\ s \in [data : Seq(Byte), manifest : Manifest, installed : Installed]
      /\ Len(s.data) <= UPDATE_ARTIFACT_CAPACITY /\ Len(s.data) \in Nat
      /\ Len(s.installed.data) <= UPDATE_ARTIFACT_CAPACITY
  BY DEF UpdateTable, UpdateStoreServiceState, Artifact
<1>2. ASSUME NEW data \in Seq(Byte), Len(data) <= UPDATE_ARTIFACT_CAPACITY,
             NEW manifest \in Manifest
      PROVE  /\ [s EXCEPT !.data = data] \in UpdateTable
             /\ [s EXCEPT !.manifest = manifest] \in UpdateTable
             /\ [s EXCEPT !.data = data, !.manifest = manifest] \in UpdateTable
  BY <1>1, <1>2 DEF UpdateTable, UpdateStoreServiceState, Artifact
<1>3. update_stage(s, value).state \in UpdateTable
  <2>1. CASE Len(s.data) >= UPDATE_ARTIFACT_CAPACITY BY <2>1 DEF update_stage
  <2>2. CASE ~(Len(s.data) >= UPDATE_ARTIFACT_CAPACITY)
    <3>1. Append(s.data, value) \in Seq(Byte) /\ Len(Append(s.data, value)) = Len(s.data) + 1
      BY <1>1, AppendProperties
    <3>2. Len(s.data) + 1 <= UPDATE_ARTIFACT_CAPACITY BY <1>1, <2>2, UpdateAssumption
    <3>3. s.manifest \in Manifest BY <1>1
    <3>4. update_stage(s, value).state = [s EXCEPT !.data = Append(s.data, value)]
      BY <2>2 DEF update_stage
    <3>5. QED BY <1>2, <3>1, <3>2, <3>3, <3>4
  <2>3. QED BY <2>1, <2>2
<1>4. update_record_manifest(s, version, len).state \in UpdateTable
  <2>1. [present |-> TRUE, version |-> version, expected_len |-> len] \in Manifest
    BY DEF Manifest
  <2>2. QED BY <1>1, <1>2, <2>1 DEF update_record_manifest
<1>5. update_apply(s).state \in UpdateTable
  <2> DEFINE new == [present |-> TRUE, version |-> s.manifest.version, data |-> s.data]
  <2>1. new \in Installed /\ new.data = s.data BY <1>1 DEF Installed, Artifact, Manifest
  <2>2. [s EXCEPT !.installed = new] \in UpdateTable
    <3> HIDE DEF new
    <3>1. /\ [s EXCEPT !.installed = new] \in [data : Seq(Byte), manifest : Manifest, installed : Installed]
          /\ [s EXCEPT !.installed = new].installed = new
          /\ [s EXCEPT !.installed = new].data = s.data
      BY <1>1, <2>1
    <3>2. QED BY <1>1, <2>1, <3>1 DEF UpdateTable, UpdateStoreServiceState, Artifact
  <2>3. QED BY <2>2 DEF update_apply
<1>6. update_clear(s) \in UpdateTable
  <2>1. update_manifest_init \in Manifest BY Codes DEF Manifest, update_manifest_init
  <2>2. << >> \in Seq(Byte) /\ Len(<< >>) <= UPDATE_ARTIFACT_CAPACITY BY UpdateAssumption
  <2>3. QED BY <1>2, <2>1, <2>2 DEF update_clear
<1>7. QED BY <1>3, <1>4, <1>5, <1>6

\* A lane is only written within its four bytes.
LEMMA JournalKept ==
    ASSUME NEW s \in JournalTable, NEW name \in {JOURNAL_LANE_A, JOURNAL_LANE_B},
           NEW value \in Byte, NEW data \in Seq(Byte), Len(data) <= JOURNAL_RECORD_CAPACITY
    PROVE  {journal_append(s, name, value), journal_clear(s, name),
            journal_write_lane(s, name, data)} \subseteq JournalTable
<1> DEFINE lanes == {JOURNAL_LANE_A, JOURNAL_LANE_B}
<1>1. /\ s \in [lanes -> Seq(Byte)] /\ s[name] \in Seq(Byte) /\ Len(s[name]) \in Nat
      /\ \A n \in lanes : Len(s[n]) <= JOURNAL_RECORD_CAPACITY
  BY DEF JournalTable, JournalServiceState, Lane
<1>2. \A d \in Seq(Byte) : Len(d) <= JOURNAL_RECORD_CAPACITY => [s EXCEPT ![name] = d] \in JournalTable
  BY <1>1 DEF JournalTable, JournalServiceState, Lane
<1>3. journal_append(s, name, value) \in JournalTable
  <2>1. CASE Len(s[name]) >= JOURNAL_RECORD_CAPACITY BY <2>1 DEF journal_append
  <2>2. CASE ~(Len(s[name]) >= JOURNAL_RECORD_CAPACITY)
    <3>1. Append(s[name], value) \in Seq(Byte) /\ Len(Append(s[name], value)) = Len(s[name]) + 1
      BY <1>1, AppendProperties
    <3>2. Len(s[name]) + 1 <= JOURNAL_RECORD_CAPACITY
      BY <1>1, <2>2 DEF JOURNAL_RECORD_CAPACITY
    <3>3. QED BY <1>2, <2>2, <3>1, <3>2 DEF journal_append
  <2>3. QED BY <2>1, <2>2
<1>4. << >> \in Seq(Byte) /\ Len(<< >>) <= JOURNAL_RECORD_CAPACITY
  BY DEF JOURNAL_RECORD_CAPACITY
<1>5. QED BY <1>2, <1>3, <1>4 DEF journal_clear, journal_write_lane
-----------------------------------------------------------------------------
(* The workflow record (workflow/core.mc).                                   *)

Runtime ==
    [workflow : WorkflowRecord, timer : TimerTable, task : TaskTable,
     completion : Mailbox, connection : ConnectionServiceState, lease : LeaseTable,
     ticket : TicketTable, object_store : ObjectTable, update_store : UpdateTable,
     journal : JournalTable, workset_generation : Byte, ticket_generation : Byte,
     effect : {"Ok", "InvalidArgument", "Exhausted"}]

\* The codes of outcomes and of activity are bytes and differ.
LEMMA OutcomeCodes ==
    /\ Outcomes \subseteq Byte /\ CancelledOutcomes \subseteq Outcomes
    /\ {WORKFLOW_STATE_WAITING, WORKFLOW_STATE_RUNNING, WORKFLOW_STATE_DELIVERING} \subseteq Byte
    /\ WORKFLOW_STATE_WAITING \notin Outcomes /\ WORKFLOW_STATE_RUNNING \notin Outcomes
    /\ WORKFLOW_STATE_DELIVERING \notin Outcomes /\ 0 \notin Outcomes
    /\ WORKFLOW_STATE_IDLE \in Outcomes
    /\ WORKFLOW_STATE_WAITING # WORKFLOW_STATE_DELIVERING
    /\ WORKFLOW_STATE_RUNNING # WORKFLOW_STATE_DELIVERING
<1> USE DEF Outcomes, CancelledOutcomes, WORKFLOW_STATE_IDLE, WORKFLOW_STATE_WAITING,
        WORKFLOW_STATE_RUNNING, WORKFLOW_STATE_DELIVERING, WORKFLOW_STATE_DONE,
        WORKFLOW_STATE_CANCELLED, WORKFLOW_STATE_FAILED, WORKFLOW_STATE_OBJECT_UPDATED,
        WORKFLOW_STATE_OBJECT_CONFLICT, WORKFLOW_STATE_OBJECT_REJECTED,
        WORKFLOW_STATE_OBJECT_CANCELLED, WORKFLOW_STATE_UPDATE_APPLIED,
        WORKFLOW_STATE_UPDATE_REJECTED, WORKFLOW_STATE_UPDATE_CANCELLED,
        WORKFLOW_STATE_UPDATE_LEASE_INVALID, WORKFLOW_STATE_UPDATE_LEASE_STALE,
        WORKFLOW_STATE_UPDATE_LEASE_CONSUMED, WORKFLOW_STATE_CONNECTION_EXECUTED,
        WORKFLOW_STATE_CONNECTION_CANCELLED, WORKFLOW_STATE_CONNECTION_RESTART_CANCELLED,
        WORKFLOW_STATE_CONNECTION_TICKET_USED, WORKFLOW_STATE_CONNECTION_TICKET_INVALID,
        WORKFLOW_STATE_CONNECTION_TICKET_STALE, WORKFLOW_STATE_CONNECTION_TICKET_CONSUMED
<1>1. Outcomes \subseteq 0 .. 200 OBVIOUS
<1>2. {87, 82, 77} \subseteq Byte BY Codes
<1>3. QED BY <1>1, <1>2, Codes

\* An active state is not the state of an ended record.
LEMMA Ended ==
    ASSUME NEW s, s.state \in Outcomes
    PROVE  ~workflow_is_active(s) /\ ~workflow_is_delivering(s)
BY OutcomeCodes DEF workflow_is_active, workflow_is_waiting, workflow_is_running,
   workflow_is_delivering

\* The slot of a connection workflow is a byte, wherever it is kept.
LEMMA SlotIsByte ==
    ASSUME NEW s \in WorkflowServiceState
    PROVE  workflow_connection_slot(s) \in Byte
BY U8Assumption DEF WorkflowServiceState, workflow_connection_slot, Byte,
   WORKFLOW_CONNECTION_SLOT_MARKER

\* An ended record shows its outcome, a record whose report is pending keeps it
\* (workflow_terminal, workflow_pending_delivery); both keep who it is.
LEMMA Restated ==
    ASSUME NEW s \in WorkflowServiceState, NEW outcome \in Outcomes,
           NEW status \in {WORKFLOW_DELIVERY_WOULDBLOCK, WORKFLOW_DELIVERY_EXHAUSTED}
    PROVE  /\ workflow_terminal(s, outcome) \in WorkflowRecord
           /\ workflow_terminal(s, outcome).state = outcome
           /\ workflow_pending_delivery(s, outcome, status) \in WorkflowRecord
           /\ workflow_pending_delivery(s, outcome, status).state = WORKFLOW_STATE_DELIVERING
           /\ workflow_pending_delivery(s, outcome, status).task = outcome
           /\ \A t \in {workflow_terminal(s, outcome), workflow_pending_delivery(s, outcome, status)} :
                 t.id = s.id /\ t.kind = s.kind /\ t.generation = s.generation
<1> DEFINE ended   == [s EXCEPT !.due = 0, !.task = 0, !.state = outcome]
           pending == [s EXCEPT !.due = status, !.task = outcome,
                                !.state = WORKFLOW_STATE_DELIVERING]
           slotted == [pending EXCEPT !.opcode = workflow_connection_slot(s)]
<1>1. outcome \in Byte /\ 0 \in Byte /\ status \in Byte /\ WORKFLOW_STATE_DELIVERING \in Byte
  <2>1. {0, 2, 7} \subseteq Byte BY Codes
  <2>2. QED BY <2>1, OutcomeCodes DEF WORKFLOW_DELIVERY_WOULDBLOCK, WORKFLOW_DELIVERY_EXHAUSTED
<1>2. /\ ended \in WorkflowServiceState /\ ended.state = outcome
      /\ ended.id = s.id /\ ended.kind = s.kind /\ ended.generation = s.generation
  BY <1>1 DEF WorkflowServiceState
<1>3. /\ pending \in WorkflowServiceState /\ pending.state = WORKFLOW_STATE_DELIVERING
      /\ pending.task = outcome
      /\ pending.id = s.id /\ pending.kind = s.kind /\ pending.generation = s.generation
  BY <1>1 DEF WorkflowServiceState
<1> HIDE DEF pending
<1>4. /\ slotted \in WorkflowServiceState /\ slotted.state = WORKFLOW_STATE_DELIVERING
      /\ slotted.task = outcome
      /\ slotted.id = s.id /\ slotted.kind = s.kind /\ slotted.generation = s.generation
  BY <1>3, SlotIsByte DEF WorkflowServiceState
<1> HIDE DEF ended, slotted
<1>5. workflow_terminal(s, outcome) = ended
  BY DEF workflow_terminal, workflow_restate, ended
<1>6. workflow_pending_delivery(s, outcome, status) \in {pending, slotted}
  BY DEF workflow_pending_delivery, workflow_restate, pending, slotted
<1>7. ended \in WorkflowRecord BY <1>2, Ended DEF WorkflowRecord
<1>8. \A t \in {pending, slotted} : t \in WorkflowRecord
  BY <1>3, <1>4 DEF WorkflowRecord, workflow_is_active, workflow_is_delivering
<1>9. QED BY <1>2, <1>3, <1>4, <1>5, <1>6, <1>7, <1>8

\* The outcome of the workflow id settles: it is reported and shown, or kept in
\* the record while the mailbox is full.
Settled(r, t, id, outcome) ==
    /\ t.workflow.id = id
    /\ \/ /\ t.workflow.state = outcome
          /\ Len(r.completion.queue) < MAILBOX_CAPACITY
          /\ \E c \in Completion : /\ c.id = id /\ c.state = outcome
                                   /\ t.completion.queue = Append(r.completion.queue, c)
       \/ /\ t.workflow.state = WORKFLOW_STATE_DELIVERING
          /\ t.workflow.task = outcome
          /\ t.completion.queue = r.completion.queue

\* The parts of the runtime that only clients and restarts change.
Aside(r, t) ==
    /\ t.connection = r.connection /\ t.journal = r.journal /\ t.effect = r.effect
    /\ t.workset_generation = r.workset_generation
    /\ t.ticket_generation = r.ticket_generation

\* A delivery settles the outcome and touches nothing but the mailbox and the
\* record (workflow_deliver_completion).
LEMMA Delivered ==
    ASSUME NEW r \in Runtime, NEW s \in WorkflowServiceState, NEW outcome \in Outcomes
    PROVE  LET t == workflow_deliver_completion(r, s, outcome)
           IN  /\ t \in Runtime /\ Aside(r, t)
               /\ Settled(r, t, s.id, outcome)
               /\ t.workflow.generation = s.generation /\ t.workflow.kind = s.kind
               /\ t.timer = r.timer /\ t.task = r.task /\ t.lease = r.lease
               /\ t.ticket = r.ticket /\ t.object_store = r.object_store
               /\ t.update_store = r.update_store
<1> DEFINE c == [id |-> s.id, state |-> outcome, restart |-> s.restart,
                 generation |-> s.generation]
           queued == completion_mailbox_enqueue(r.completion, c)
           wf == CASE queued.status = "Ok" -> workflow_terminal(s, outcome)
                   [] queued.status = "WouldBlock" ->
                        workflow_pending_delivery(s, outcome, WORKFLOW_DELIVERY_WOULDBLOCK)
                   [] queued.status = "Exhausted" ->
                        workflow_pending_delivery(s, outcome, WORKFLOW_DELIVERY_EXHAUSTED)
           t == [r EXCEPT !.completion = queued.state, !.workflow = wf]
<1>1. r.completion \in Mailbox BY DEF Runtime
<1>2. c \in Completion /\ c.id = s.id /\ c.state = outcome
  BY OutcomeCodes DEF Completion, WorkflowServiceState
<1>3. /\ queued.state \in Mailbox
      /\ \/ /\ queued.status = "Ok" /\ Len(r.completion.queue) < MAILBOX_CAPACITY
            /\ queued.state.queue = Append(r.completion.queue, c)
         \/ /\ queued.status \in {"WouldBlock", "Exhausted"}
            /\ queued.state.queue = r.completion.queue
  BY <1>1, <1>2, Enqueued
<1>4. workflow_deliver_completion(r, s, outcome) = t
  BY DEF workflow_deliver_completion, workflow_delivered
<1> HIDE DEF c, queued
<1>5. /\ wf \in WorkflowRecord /\ wf.id = s.id /\ wf.generation = s.generation /\ wf.kind = s.kind
      /\ queued.status = "Ok" => wf.state = outcome
      /\ queued.status # "Ok" => wf.state = WORKFLOW_STATE_DELIVERING /\ wf.task = outcome
  BY <1>3, Restated
<1> HIDE DEF wf
<1>6. /\ t \in Runtime /\ t.workflow = wf /\ t.completion = queued.state
      /\ Aside(r, t) /\ t.timer = r.timer /\ t.task = r.task /\ t.lease = r.lease
      /\ t.ticket = r.ticket /\ t.object_store = r.object_store
      /\ t.update_store = r.update_store
  BY <1>3, <1>5 DEF Runtime, Aside
<1> HIDE DEF t
<1>7. Settled(r, t, s.id, outcome)
  BY <1>2, <1>3, <1>5, <1>6 DEF Settled
<1>8. QED BY <1>4, <1>5, <1>6, <1>7
-----------------------------------------------------------------------------
(* One advance of the workflow (workflow/advance.mc).                        *)

Executing(s) == workflow_is_waiting(s) \/ workflow_is_running(s)

\* An advance takes the ticket that the lease of the request stands for, and the
\* lease.
SpendsTicket(r, t) ==
    \E i \in DOMAIN r.lease.leases :
        LET held == r.lease.leases[i]
        IN  /\ held.kind = LEASE_KIND_EXTERNAL_TICKET
            /\ held.id = r.workflow.opcode - CONNECTION_EXTERNAL_TICKET_BASE
            /\ held.first = r.ticket.epoch
            /\ Contains(r.ticket.ids, held.second)
            /\ t.ticket = [r.ticket EXCEPT !.ids = RemoveFirst(@, held.second)]
            /\ Len(t.lease.leases) < Len(r.lease.leases)

\* A ticket is spent, or the staged update applied, exactly if this outcome of
\* the workflow says so.
Earned(r, t, outcome) ==
    LET s == r.workflow
    IN  /\ IF /\ Executing(s) /\ workflow_is_connection(s)
              /\ outcome = WORKFLOW_STATE_CONNECTION_TICKET_USED
           THEN SpendsTicket(r, t)
           ELSE t.ticket = r.ticket
        /\ IF /\ Executing(s) /\ workflow_is_update_apply(s)
              /\ outcome = WORKFLOW_STATE_UPDATE_APPLIED
           THEN /\ update_apply(r.update_store).status = "Ok"
                /\ t.update_store = update_apply(r.update_store).state
           ELSE t.update_store = r.update_store

\* The outcomes that say so.
Earnings == {WORKFLOW_STATE_CONNECTION_TICKET_USED, WORKFLOW_STATE_UPDATE_APPLIED}

\* Any other outcome is earned by leaving tickets and updates alone, and so is
\* any that was pending, and any of an object update: WORKFLOW_STATE_OBJECT_CONFLICT
\* has the code of TICKET_USED.
LEMMA NothingEarned ==
    ASSUME NEW r, NEW t, t.ticket = r.ticket, t.update_store = r.update_store, NEW outcome,
           \/ outcome \notin Earnings
           \/ ~Executing(r.workflow)
           \/ workflow_is_object_update(r.workflow)
    PROVE  Earned(r, t, outcome)
BY DEF Earned, Earnings, workflow_is_object_update, workflow_is_connection,
   workflow_is_update_apply, workflow_is_kind, WORKFLOW_KIND_OBJECT_UPDATE,
   WORKFLOW_KIND_CONNECTION, WORKFLOW_KIND_UPDATE_APPLY

\* The codes of the other outcomes.
LEMMA PlainOutcomes ==
    CancelledOutcomes \union
        {WORKFLOW_STATE_DONE, WORKFLOW_STATE_FAILED,
         WORKFLOW_STATE_OBJECT_UPDATED, WORKFLOW_STATE_OBJECT_REJECTED,
         WORKFLOW_STATE_UPDATE_REJECTED, WORKFLOW_STATE_UPDATE_LEASE_INVALID,
         WORKFLOW_STATE_UPDATE_LEASE_STALE, WORKFLOW_STATE_UPDATE_LEASE_CONSUMED,
         WORKFLOW_STATE_CONNECTION_EXECUTED, WORKFLOW_STATE_CONNECTION_TICKET_INVALID,
         WORKFLOW_STATE_CONNECTION_TICKET_STALE,
         WORKFLOW_STATE_CONNECTION_TICKET_CONSUMED} \subseteq Outcomes \ Earnings
BY DEF Outcomes, CancelledOutcomes, Earnings, WORKFLOW_STATE_DONE,
   WORKFLOW_STATE_CANCELLED, WORKFLOW_STATE_FAILED, WORKFLOW_STATE_OBJECT_UPDATED,
   WORKFLOW_STATE_OBJECT_CONFLICT, WORKFLOW_STATE_OBJECT_REJECTED,
   WORKFLOW_STATE_OBJECT_CANCELLED, WORKFLOW_STATE_UPDATE_APPLIED,
   WORKFLOW_STATE_UPDATE_REJECTED, WORKFLOW_STATE_UPDATE_CANCELLED,
   WORKFLOW_STATE_UPDATE_LEASE_INVALID, WORKFLOW_STATE_UPDATE_LEASE_STALE,
   WORKFLOW_STATE_UPDATE_LEASE_CONSUMED, WORKFLOW_STATE_CONNECTION_EXECUTED,
   WORKFLOW_STATE_CONNECTION_CANCELLED, WORKFLOW_STATE_CONNECTION_RESTART_CANCELLED,
   WORKFLOW_STATE_CONNECTION_TICKET_USED, WORKFLOW_STATE_CONNECTION_TICKET_INVALID,
   WORKFLOW_STATE_CONNECTION_TICKET_STALE, WORKFLOW_STATE_CONNECTION_TICKET_CONSUMED

\* What an advance may do, whatever kind of workflow it meets: settle its
\* outcome, or leave it as active as it was.
Advanced(r, t) ==
    /\ t \in Runtime /\ Aside(r, t)
    /\ Moves(r.object_store, t.object_store)
    /\ t.workflow.id = r.workflow.id /\ t.workflow.kind = r.workflow.kind
    /\ t.workflow.generation = r.workflow.generation
    /\ \/ /\ workflow_is_active(r.workflow)
          /\ \E outcome \in Outcomes : /\ Settled(r, t, r.workflow.id, outcome)
                                       /\ Earned(r, t, outcome)
       \/ /\ t.completion = r.completion
          /\ t.ticket = r.ticket /\ t.update_store = r.update_store
          /\ t.workflow = r.workflow \/ (Executing(r.workflow) /\ Executing(t.workflow))

\* A service used on the way to a delivery does not show in what it settles.
LEMMA SettlesAfter ==
    ASSUME NEW r \in Runtime, NEW u \in Runtime, Aside(r, u), u.completion = r.completion,
           Moves(r.object_store, u.object_store), workflow_is_active(r.workflow),
           NEW s \in WorkflowServiceState, s.id = r.workflow.id, s.kind = r.workflow.kind,
           s.generation = r.workflow.generation, NEW outcome \in Outcomes,
           Earned(r, u, outcome)
    PROVE  Advanced(r, workflow_deliver_completion(u, s, outcome))
<1> DEFINE t == workflow_deliver_completion(u, s, outcome)
<1>1. /\ t \in Runtime /\ Aside(u, t) /\ Settled(u, t, s.id, outcome)
      /\ t.workflow.generation = s.generation /\ t.workflow.kind = s.kind
      /\ t.object_store = u.object_store
      /\ t.ticket = u.ticket /\ t.lease = u.lease /\ t.update_store = u.update_store
  BY Delivered
<1> HIDE DEF t
<1>2. Settled(r, t, r.workflow.id, outcome) BY <1>1 DEF Settled
<1>3. t.workflow.id = r.workflow.id BY <1>2 DEF Settled
<1>4. Aside(r, t) BY <1>1 DEF Aside
<1>5. Earned(r, t, outcome) BY <1>1 DEF Earned, SpendsTicket
<1>6. Advanced(r, t) BY <1>1, <1>2, <1>3, <1>4, <1>5 DEF Advanced
<1>7. QED BY <1>6 DEF t

\* A task or a request is submitted: it fails at once or the workflow runs.
LEMMA TaskExecuted ==
    ASSUME NEW r \in Runtime, workflow_is_waiting(r.workflow)
    PROVE  Advanced(r, workflow_execute_task(r, r.workflow))
<1> DEFINE s == r.workflow
           submit == task_submit(r.task, s.opcode)
           u == [r EXCEPT !.task = submit.state]
           due == IF workflow_is_connection(s) THEN s.due ELSE 0
           w == [s EXCEPT !.due = due, !.task = submit.task.id, !.state = WORKFLOW_STATE_RUNNING]
           t == [r EXCEPT !.task = submit.state, !.workflow = w]
           failed == submit.status # "Ok" \/ submit.task.state = TASK_STATE_FAILED
           outcome == IF workflow_is_connection(s) THEN WORKFLOW_STATE_CONNECTION_CANCELLED
                      ELSE WORKFLOW_STATE_FAILED
<1>1. /\ r.task \in TaskTable /\ s \in WorkflowServiceState
      /\ submit.state \in TaskTable /\ submit.task.id \in Byte
  BY TaskSubmitted DEF Runtime, WorkflowRecord
<1>2. workflow_execute_task(r, s) = IF failed THEN workflow_deliver_completion(u, s, outcome) ELSE t
  BY DEF workflow_execute_task, workflow_submitted, workflow_restate
<1>3. outcome \in Outcomes \ Earnings BY PlainOutcomes DEF CancelledOutcomes
<1>4. due \in Byte BY <1>1, Codes DEF WorkflowServiceState
<1> HIDE DEF submit, due, outcome, failed
<1>5. /\ u \in Runtime /\ Aside(r, u) /\ u.completion = r.completion
      /\ u.object_store = r.object_store
      /\ u.ticket = r.ticket /\ u.update_store = r.update_store
  BY <1>1 DEF Runtime, Aside
<1>6. Moves(r.object_store, r.object_store) BY DEF Moves
<1>7. workflow_is_active(s) BY DEF workflow_is_active
<1>8. CASE failed
  <2> HIDE DEF u
  <2>1. Advanced(r, workflow_deliver_completion(u, s, outcome))
    BY <1>1, <1>3, <1>5, <1>6, <1>7, NothingEarned, SettlesAfter
  <2>2. QED BY <1>2, <1>8, <2>1
<1>9. CASE ~failed
  <2>1. /\ w \in WorkflowServiceState /\ w.state = WORKFLOW_STATE_RUNNING
        /\ w.id = s.id /\ w.kind = s.kind /\ w.generation = s.generation
    BY <1>1, <1>4, OutcomeCodes DEF WorkflowServiceState
  <2> HIDE DEF w
  <2>2. w \in WorkflowRecord /\ workflow_is_running(w)
    BY <2>1, OutcomeCodes DEF WorkflowRecord, workflow_is_active, workflow_is_running,
       workflow_is_delivering
  <2>3. /\ t \in Runtime /\ Aside(r, t) /\ t.completion = r.completion
        /\ t.object_store = r.object_store /\ t.workflow = w
        /\ t.ticket = r.ticket /\ t.update_store = r.update_store
    BY <1>1, <2>2 DEF Runtime, Aside
  <2> HIDE DEF t
  <2>4. Advanced(r, t)
    BY <1>6, <2>1, <2>2, <2>3 DEF Advanced, Executing
  <2>5. QED BY <1>2, <1>9, <2>4
<1>10. QED BY <1>8, <1>9

\* A leased ticket is used, or the lease or the ticket is refused.
LEMMA TicketExecuted ==
    ASSUME NEW r \in Runtime, workflow_is_waiting(r.workflow), workflow_is_connection(r.workflow)
    PROVE  Advanced(r, workflow_execute_connection_ticket(r, r.workflow))
<1> DEFINE s == r.workflow
           id == s.opcode - CONNECTION_EXTERNAL_TICKET_BASE
           consume == lease_consume_external_ticket(r.lease, id, r.ticket_generation)
           held == r.lease.leases[lease_find(r.lease, id)]
           left == lease_consume(r.lease, id, consume)
           used == ticket_use(r.ticket, held.first, held.second)
           code == ticket_use_code(r.ticket, held.first, held.second)
           u == [r EXCEPT !.lease = left]
           v == [[r EXCEPT !.lease = left] EXCEPT !.ticket = used]
<1>1. /\ s \in WorkflowServiceState /\ r.lease \in LeaseTable /\ r.ticket \in TicketTable
  BY DEF Runtime, WorkflowRecord
<1>2. consume \in {"Ok", "Stale", "Consumed", "Invalid"} /\ left \in LeaseTable
  BY <1>1, ConsumedBy
<1>3. used \in TicketTable /\ code \in {"Ok", "Stale", "Consumed", "Invalid"}
  BY <1>1, TicketKept
<1>4. /\ workflow_connection_ticket_outcome("Ok") = WORKFLOW_STATE_CONNECTION_TICKET_USED
      /\ \A c \in {"Stale", "Consumed", "Invalid"} :
            workflow_connection_ticket_outcome(c) \in Outcomes \ Earnings
  BY PlainOutcomes DEF workflow_connection_ticket_outcome
<1>e. WORKFLOW_STATE_CONNECTION_TICKET_USED \in Outcomes
      /\ WORKFLOW_STATE_CONNECTION_TICKET_USED # WORKFLOW_STATE_UPDATE_APPLIED
  BY DEF Outcomes, WORKFLOW_STATE_CONNECTION_TICKET_USED, WORKFLOW_STATE_UPDATE_APPLIED
<1>s. ASSUME consume = "Ok", code = "Ok"
      PROVE  SpendsTicket(r, [[r EXCEPT !.lease = left] EXCEPT !.ticket = used])
  <2> DEFINE k == lease_find(r.lease, id)
  <2>1. /\ k \in 1 .. Len(r.lease.leases)
        /\ r.lease.leases[k].kind = LEASE_KIND_EXTERNAL_TICKET /\ r.lease.leases[k].id = id
        /\ Len(lease_consume(r.lease, id, "Ok").leases) = Len(r.lease.leases) - 1
    BY <1>1, <1>s, TicketLeaseUsed
  <2>2. /\ held.first = r.ticket.epoch /\ Contains(r.ticket.ids, held.second)
        /\ used = [r.ticket EXCEPT !.ids = RemoveFirst(@, held.second)]
    BY <1>s DEF ticket_use_code, ticket_use
  <2>3. k \in DOMAIN r.lease.leases /\ Len(r.lease.leases) \in Nat
    BY <1>1, <2>1 DEF LeaseTable, LeaseServiceState
  <2>4. Len(left.leases) < Len(r.lease.leases) BY <1>s, <2>1, <2>3
  <2>5. v.ticket = used /\ v.lease = left BY DEF Runtime
  <2> HIDE DEF v, used, left, consume, code
  <2>6. QED BY <2>1, <2>2, <2>3, <2>4, <2>5 DEF SpendsTicket, v
<1> HIDE DEF left, code, consume
<1>5. workflow_execute_connection_ticket(r, s) =
         IF consume = "Ok"
         THEN workflow_deliver_completion(v, s, workflow_connection_ticket_outcome(code))
         ELSE workflow_deliver_completion(u, s, workflow_connection_ticket_outcome(consume))
  <2>1. u.ticket = r.ticket BY DEF Runtime
  <2>2. QED BY <2>1 DEF workflow_execute_connection_ticket, workflow_ticket_leased, left, code, consume
<1>r. code # "Ok" => used = r.ticket BY DEF ticket_use, code
<1> HIDE DEF used
<1>6. /\ u \in Runtime /\ Aside(r, u) /\ u.completion = r.completion
      /\ u.object_store = r.object_store /\ u.ticket = r.ticket
      /\ u.update_store = r.update_store
  BY <1>2 DEF Runtime, Aside
<1>7. /\ v \in Runtime /\ Aside(r, v) /\ v.completion = r.completion
      /\ v.object_store = r.object_store /\ v.ticket = used
      /\ v.update_store = r.update_store
  BY <1>2, <1>3 DEF Runtime, Aside
<1>8. Moves(r.object_store, r.object_store) BY DEF Moves
<1>9. workflow_is_active(s) /\ Executing(s) BY DEF workflow_is_active, Executing
<1>t. consume = "Ok" /\ code = "Ok" => SpendsTicket(r, v) BY <1>s
<1> HIDE DEF u, v
<1>10. CASE consume = "Ok" /\ code = "Ok"
  <2>1. Earned(r, v, WORKFLOW_STATE_CONNECTION_TICKET_USED)
    BY <1>7, <1>9, <1>10, <1>e, <1>t DEF Earned
  <2>2. QED BY <1>1, <1>4, <1>5, <1>7, <1>8, <1>9, <1>10, <1>e, <2>1, SettlesAfter
<1>11. CASE consume = "Ok" /\ code # "Ok"
  <2> DEFINE outcome == workflow_connection_ticket_outcome(code)
  <2>1. outcome \in Outcomes \ Earnings BY <1>3, <1>4, <1>11
  <2>2. v.ticket = r.ticket BY <1>7, <1>11, <1>r
  <2>3. workflow_execute_connection_ticket(r, s) = workflow_deliver_completion(v, s, outcome)
    BY <1>5, <1>11
  <2> HIDE DEF outcome
  <2>4. Earned(r, v, outcome) BY <1>7, <2>1, <2>2, NothingEarned
  <2>5. QED BY <1>1, <1>7, <1>8, <1>9, <2>1, <2>3, <2>4, SettlesAfter
<1>12. CASE consume # "Ok"
  <2> DEFINE outcome == workflow_connection_ticket_outcome(consume)
  <2>1. outcome \in Outcomes \ Earnings BY <1>2, <1>4, <1>12
  <2>2. workflow_execute_connection_ticket(r, s) = workflow_deliver_completion(u, s, outcome)
    BY <1>5, <1>12
  <2> HIDE DEF outcome
  <2>3. Earned(r, u, outcome) BY <1>6, <2>1, NothingEarned
  <2>4. QED BY <1>1, <1>6, <1>8, <1>9, <2>1, <2>2, <2>3, SettlesAfter
<1>13. QED BY <1>10, <1>11, <1>12

\* The staged update is applied or rejected, or its lease is refused.
LEMMA ApplyExecuted ==
    ASSUME NEW r \in Runtime, workflow_is_waiting(r.workflow), workflow_is_update_apply(r.workflow)
    PROVE  Advanced(r, workflow_execute_update_apply(r, r.workflow))
<1> DEFINE s == r.workflow
           consume == IF s.opcode = 0 THEN "Ok"
                      ELSE lease_consume_installer_apply(r.lease, s.opcode, r.workset_generation)
           apply == update_apply(r.update_store)
           left == IF s.opcode = 0 THEN r.lease ELSE lease_consume(r.lease, s.opcode, consume)
           store == IF consume = "Ok" THEN apply.state ELSE r.update_store
           outcome == CASE consume = "Ok" -> IF apply.status = "Ok"
                                             THEN WORKFLOW_STATE_UPDATE_APPLIED
                                             ELSE WORKFLOW_STATE_UPDATE_REJECTED
                        [] consume = "Stale"    -> WORKFLOW_STATE_UPDATE_LEASE_STALE
                        [] consume = "Consumed" -> WORKFLOW_STATE_UPDATE_LEASE_CONSUMED
                        [] OTHER                -> WORKFLOW_STATE_UPDATE_LEASE_INVALID
           u == [r EXCEPT !.lease = left, !.update_store = store]
<1>1. /\ s \in WorkflowServiceState /\ r.lease \in LeaseTable /\ r.update_store \in UpdateTable
  BY DEF Runtime, WorkflowRecord
<1>2. consume \in {"Ok", "Stale", "Consumed", "Invalid"} /\ left \in LeaseTable
  BY <1>1, ConsumedBy
<1>3. store \in UpdateTable
  <2>1. 0 \in Byte BY Codes
  <2>2. QED BY <1>1, <2>1, UpdateKept
<1>4. outcome \in Outcomes BY <1>2 DEF Outcomes
<1>5. workflow_execute_update_apply(r, s) = workflow_deliver_completion(u, s, outcome)
  BY DEF workflow_execute_update_apply, workflow_update_applied
<1>e. /\ WORKFLOW_STATE_UPDATE_APPLIED # WORKFLOW_STATE_CONNECTION_TICKET_USED
      /\ {WORKFLOW_STATE_UPDATE_REJECTED, WORKFLOW_STATE_UPDATE_LEASE_STALE,
          WORKFLOW_STATE_UPDATE_LEASE_CONSUMED, WORKFLOW_STATE_UPDATE_LEASE_INVALID}
            \cap Earnings = {}
  BY PlainOutcomes DEF WORKFLOW_STATE_CONNECTION_TICKET_USED, WORKFLOW_STATE_UPDATE_APPLIED
<1>a. apply.status # "Ok" => apply.state = r.update_store BY DEF update_apply
<1> HIDE DEF apply, consume
<1>o. \/ outcome = WORKFLOW_STATE_UPDATE_APPLIED /\ apply.status = "Ok" /\ store = apply.state
      \/ outcome \notin Earnings /\ store = r.update_store
  BY <1>2, <1>a, <1>e
<1> HIDE DEF left, store, outcome
<1>6. /\ u \in Runtime /\ Aside(r, u) /\ u.completion = r.completion
      /\ u.object_store = r.object_store
      /\ u.ticket = r.ticket /\ u.update_store = store
  BY <1>2, <1>3 DEF Runtime, Aside
<1>7. Moves(r.object_store, r.object_store) BY DEF Moves
<1>8. workflow_is_active(s) /\ Executing(s) BY DEF workflow_is_active, Executing
<1> HIDE DEF u
<1>9. Earned(r, u, outcome)
  <2>1. CASE outcome = WORKFLOW_STATE_UPDATE_APPLIED /\ apply.status = "Ok" /\ store = apply.state
    BY <1>6, <1>8, <1>e, <2>1 DEF Earned, apply
  <2>2. CASE outcome \notin Earnings /\ store = r.update_store
    BY <1>6, <2>2, NothingEarned
  <2>3. QED BY <1>o, <2>1, <2>2
<1>10. QED BY <1>1, <1>4, <1>5, <1>6, <1>7, <1>8, <1>9, SettlesAfter

\* The object is updated, found at another version or not found.
LEMMA ObjectExecuted ==
    ASSUME NEW r \in Runtime, workflow_is_waiting(r.workflow),
           workflow_is_object_update(r.workflow)
    PROVE  Advanced(r, workflow_execute_object_update(r, r.workflow))
<1> DEFINE s == r.workflow
           update == IF s.opcode = 0 THEN object_update(r.object_store, s.id - 1, s.due)
                     ELSE object_update_if_version(r.object_store, s.id - 1, s.due, s.opcode)
           outcome == CASE update.status = "Ok"       -> WORKFLOW_STATE_OBJECT_UPDATED
                        [] update.status = "Conflict" -> WORKFLOW_STATE_OBJECT_CONFLICT
                        [] OTHER                      -> WORKFLOW_STATE_OBJECT_REJECTED
           u == [r EXCEPT !.object_store = update.state]
<1>1. /\ s \in WorkflowServiceState /\ s.due \in Byte /\ r.object_store \in ObjectTable
  BY DEF Runtime, WorkflowRecord, WorkflowServiceState
<1>2. update.state \in ObjectTable /\ Moves(r.object_store, update.state)
  BY <1>1, ObjectReplaced
<1>3. outcome \in Outcomes BY DEF Outcomes
<1>4. workflow_execute_object_update(r, s) = workflow_deliver_completion(u, s, outcome)
  BY DEF workflow_execute_object_update, workflow_object_updated
<1> HIDE DEF update, outcome
<1>5. /\ u \in Runtime /\ Aside(r, u) /\ u.completion = r.completion
      /\ u.object_store = update.state
      /\ u.ticket = r.ticket /\ u.update_store = r.update_store
  BY <1>2 DEF Runtime, Aside
<1>6. workflow_is_active(s) BY DEF workflow_is_active
<1> HIDE DEF u
<1>7. Earned(r, u, outcome) BY <1>5, NothingEarned
<1>8. QED BY <1>1, <1>2, <1>3, <1>4, <1>5, <1>6, <1>7, SettlesAfter

\* Every kind of workflow settles or runs when its timer has expired.
LEMMA Executed ==
    ASSUME NEW r \in Runtime, workflow_is_waiting(r.workflow)
    PROVE  Advanced(r, workflow_execute(r, r.workflow))
BY ObjectExecuted, ApplyExecuted, TicketExecuted, TaskExecuted DEF workflow_execute

\* A cancelled workflow ends with the outcome of its kind.
LEMMA CancelledOutcome ==
    ASSUME NEW s
    PROVE  workflow_cancelled_outcome(s) \in CancelledOutcomes
BY DEF workflow_cancelled_outcome, CancelledOutcomes

\* Waiting: the connection is lost, the timer was cancelled, expired or runs on.
LEMMA WaitingAdvanced ==
    ASSUME NEW r \in Runtime, workflow_is_waiting(r.workflow)
    PROVE  Advanced(r, workflow_advance_waiting(r, r.workflow))
<1> DEFINE s == r.workflow
           idx == timer_find(r.timer, WORKFLOW_TIMER_ID)
           lost == [s EXCEPT !.restart = WORKFLOW_RESTART_NONE]
           due == IF s.kind = WORKFLOW_KIND_TASK THEN r.timer[idx].due ELSE s.due
           w == [s EXCEPT !.due = due]
           t == [r EXCEPT !.workflow = w]
<1>1. s \in WorkflowServiceState /\ s \in WorkflowRecord /\ r.timer \in TimerTable
  BY DEF Runtime, WorkflowRecord
<1>2. Moves(r.object_store, r.object_store) /\ Aside(r, r) BY DEF Moves, Aside
<1>3. workflow_is_active(s) BY DEF workflow_is_active
<1>4. CASE workflow_connection_lost(r, s)
  <2>1. WORKFLOW_RESTART_NONE \in Byte BY Codes DEF WORKFLOW_RESTART_NONE
  <2>2. /\ lost \in WorkflowServiceState
        /\ lost.id = s.id /\ lost.kind = s.kind /\ lost.generation = s.generation
    BY <1>1, <2>1 DEF WorkflowServiceState
  <2>3. WORKFLOW_STATE_CONNECTION_CANCELLED \in Outcomes \ Earnings
    BY PlainOutcomes DEF CancelledOutcomes
  <2> HIDE DEF lost
  <2>4. Advanced(r, workflow_deliver_completion(r, lost, WORKFLOW_STATE_CONNECTION_CANCELLED))
    BY <1>1, <1>2, <1>3, <2>2, <2>3, NothingEarned, SettlesAfter
  <2>5. QED BY <1>4, <2>4 DEF workflow_advance_waiting, lost
<1>5. CASE ~workflow_connection_lost(r, s) /\ (idx = 0 \/ r.timer[idx].state = TIMER_STATE_CANCELLED)
  <2>1. Advanced(r, workflow_deliver_completion(r, s, workflow_cancelled_outcome(s)))
    <3> DEFINE outcome == workflow_cancelled_outcome(s)
    <3>1. outcome \in Outcomes \ Earnings BY CancelledOutcome, PlainOutcomes
    <3> HIDE DEF outcome
    <3>2. Advanced(r, workflow_deliver_completion(r, s, outcome))
      BY <1>1, <1>2, <1>3, <3>1, NothingEarned, SettlesAfter
    <3>3. QED BY <3>2 DEF outcome
  <2>2. QED BY <1>5, <2>1 DEF workflow_advance_waiting
<1>6. CASE /\ ~workflow_connection_lost(r, s)
           /\ ~(idx = 0 \/ r.timer[idx].state = TIMER_STATE_CANCELLED)
  <2>1. CASE r.timer[idx].state = TIMER_STATE_EXPIRED
    BY <1>6, <2>1, Executed DEF workflow_advance_waiting
  <2>2. CASE r.timer[idx].state # TIMER_STATE_EXPIRED
    <3>1. due \in Byte
      <4>1. r.timer \in Seq(Timer) /\ Len(r.timer) \in Nat
        BY <1>1 DEF TimerTable, TimerServiceState
      <4>2. idx \in 1 .. Len(r.timer) BY <1>1, <1>6, <4>1, TimerFound
      <4>3. r.timer[idx] \in Timer BY <4>1, <4>2
      <4>4. QED BY <1>1, <4>3 DEF Timer, WorkflowServiceState
    <3> HIDE DEF due
    <3>2. /\ w \in WorkflowServiceState /\ w.state = s.state /\ w.task = s.task
          /\ w.id = s.id /\ w.kind = s.kind /\ w.generation = s.generation
      BY <1>1, <3>1 DEF WorkflowServiceState
    <3>3. workflow_advance_waiting(r, s) = t
      <4>1. [r EXCEPT !.workflow.due = due] = t OBVIOUS
      <4>2. QED BY <1>6, <2>2, <4>1 DEF workflow_advance_waiting, due
    <3> HIDE DEF w
    <3>4. w \in WorkflowRecord /\ Executing(w) /\ Executing(s)
      BY <1>1, <3>2 DEF WorkflowRecord, workflow_is_active, workflow_is_waiting,
         workflow_is_running, workflow_is_delivering, Executing
    <3>5. /\ t \in Runtime /\ Aside(r, t) /\ t.completion = r.completion
          /\ t.object_store = r.object_store /\ t.workflow = w
          /\ t.ticket = r.ticket /\ t.update_store = r.update_store
      BY <3>4 DEF Runtime, Aside
    <3> HIDE DEF t
    <3>6. Advanced(r, t) BY <1>2, <3>2, <3>4, <3>5 DEF Advanced
    <3>7. QED BY <3>3, <3>6
  <2>3. QED BY <2>1, <2>2
<1>7. QED BY <1>4, <1>5, <1>6

\* Running: the task is cancelled if the connection is lost, else the workflow
\* settles with what became of its task.
LEMMA RunningAdvanced ==
    ASSUME NEW r \in Runtime, workflow_is_running(r.workflow)
    PROVE  Advanced(r, workflow_advance_running(r, r.workflow))
<1> DEFINE s == r.workflow
           complete == task_complete(r.task, s.task).state
           cancel == task_cancel(r.task, s.task).state
           found == task_query(r.task, s.task)
           lost == [s EXCEPT !.restart = WORKFLOW_RESTART_NONE]
           outcome == CASE found \in {TASK_STATE_ACTIVE, TASK_STATE_DONE} ->
                              IF workflow_is_connection(s)
                              THEN WORKFLOW_STATE_CONNECTION_EXECUTED
                              ELSE WORKFLOW_STATE_DONE
                        [] found = 0 -> WORKFLOW_STATE_FAILED
                        [] found \in {TASK_STATE_CANCELLED, TASK_STATE_FAILED} ->
                              IF workflow_is_connection(s)
                              THEN WORKFLOW_STATE_CONNECTION_CANCELLED
                              ELSE IF found = TASK_STATE_FAILED
                              THEN WORKFLOW_STATE_FAILED ELSE WORKFLOW_STATE_CANCELLED
           u == [r EXCEPT !.task = cancel]
           v == [r EXCEPT !.task = complete]
<1>1. s \in WorkflowServiceState /\ r.task \in TaskTable BY DEF Runtime, WorkflowRecord
<1>2. found \in TaskStates \cup {0} BY <1>1, TaskQueried
<1>3. cancel \in TaskTable /\ complete \in TaskTable BY <1>1, TaskEnded
<1>4. outcome \in Outcomes \ Earnings
  <2> HIDE DEF found
  <2>1. {WORKFLOW_STATE_CONNECTION_EXECUTED, WORKFLOW_STATE_DONE, WORKFLOW_STATE_FAILED,
         WORKFLOW_STATE_CONNECTION_CANCELLED, WORKFLOW_STATE_CANCELLED} \subseteq Outcomes \ Earnings
    BY PlainOutcomes DEF CancelledOutcomes
  <2>2. QED BY <1>2, <2>1 DEF TaskStates
<1>5. workflow_advance_running(r, s) =
         IF workflow_connection_lost(r, s)
         THEN workflow_deliver_completion(u, lost, WORKFLOW_STATE_CONNECTION_CANCELLED)
         ELSE workflow_deliver_completion(v, s, outcome)
  BY DEF workflow_advance_running
<1> HIDE DEF complete, cancel, outcome
<1>6. /\ u \in Runtime /\ Aside(r, u) /\ u.completion = r.completion
      /\ u.object_store = r.object_store
      /\ u.ticket = r.ticket /\ u.update_store = r.update_store
      /\ v \in Runtime /\ Aside(r, v) /\ v.completion = r.completion
      /\ v.object_store = r.object_store
      /\ v.ticket = r.ticket /\ v.update_store = r.update_store
  BY <1>3 DEF Runtime, Aside
<1>7. Moves(r.object_store, r.object_store) BY DEF Moves
<1>8. workflow_is_active(s) BY DEF workflow_is_active
<1>9. /\ lost \in WorkflowServiceState
      /\ lost.id = s.id /\ lost.kind = s.kind /\ lost.generation = s.generation
  <2>1. WORKFLOW_RESTART_NONE \in Byte BY Codes DEF WORKFLOW_RESTART_NONE
  <2>2. QED BY <1>1, <2>1 DEF WorkflowServiceState
<1>10. WORKFLOW_STATE_CONNECTION_CANCELLED \in Outcomes \ Earnings
  BY PlainOutcomes DEF CancelledOutcomes
<1> HIDE DEF u, v, lost
<1>11. CASE workflow_connection_lost(r, s)
  BY <1>5, <1>6, <1>7, <1>8, <1>9, <1>10, <1>11, NothingEarned, SettlesAfter
<1>12. CASE ~workflow_connection_lost(r, s)
  BY <1>1, <1>4, <1>5, <1>6, <1>7, <1>8, <1>12, NothingEarned, SettlesAfter
<1>13. QED BY <1>11, <1>12

\* An advance settles the workflow or keeps it (workflow_advance).
LEMMA Advances ==
    ASSUME NEW r \in Runtime
    PROVE  Advanced(r, workflow_advance(r))
<1> DEFINE s == r.workflow
<1>1. s \in WorkflowRecord /\ s \in WorkflowServiceState BY DEF Runtime, WorkflowRecord
<1>2. Moves(r.object_store, r.object_store) /\ Aside(r, r) BY DEF Moves, Aside
<1>3. CASE workflow_is_waiting(s)
  <2>1. ~workflow_is_running(s) /\ ~workflow_is_delivering(s)
    BY <1>3 DEF workflow_is_waiting, workflow_is_running, workflow_is_delivering,
       WORKFLOW_STATE_WAITING, WORKFLOW_STATE_RUNNING, WORKFLOW_STATE_DELIVERING
  <2>2. QED BY <1>3, <2>1, WaitingAdvanced DEF workflow_advance
<1>4. CASE workflow_is_running(s)
  <2>1. ~workflow_is_waiting(s) /\ ~workflow_is_delivering(s)
    BY <1>4 DEF workflow_is_waiting, workflow_is_running, workflow_is_delivering,
       WORKFLOW_STATE_WAITING, WORKFLOW_STATE_RUNNING, WORKFLOW_STATE_DELIVERING
  <2>2. QED BY <1>4, <2>1, RunningAdvanced DEF workflow_advance
<1>5. CASE workflow_is_delivering(s)
  <2>1. ~workflow_is_waiting(s) /\ ~workflow_is_running(s)
    BY <1>5 DEF workflow_is_waiting, workflow_is_running, workflow_is_delivering,
       WORKFLOW_STATE_WAITING, WORKFLOW_STATE_RUNNING, WORKFLOW_STATE_DELIVERING
  <2>2. s.task \in Outcomes /\ workflow_is_active(s)
    BY <1>1, <1>5 DEF WorkflowRecord, workflow_is_active
  <2>3. Advanced(r, workflow_deliver_completion(r, s, s.task))
    <3>1. Earned(r, r, s.task) BY <2>1, NothingEarned DEF Executing
    <3>2. QED BY <1>1, <1>2, <2>2, <3>1, SettlesAfter
  <2>4. QED BY <1>5, <2>1, <2>3 DEF workflow_advance
<1>6. CASE ~workflow_is_waiting(s) /\ ~workflow_is_running(s) /\ ~workflow_is_delivering(s)
  <2>1. workflow_advance(r) = r BY <1>6 DEF workflow_advance
  <2>2. QED BY <1>2, <2>1 DEF Advanced
<1>7. QED BY <1>3, <1>4, <1>5, <1>6
-----------------------------------------------------------------------------
(* One message (workflow/protocol.mc).                                       *)

\* What a message may do after the advance: begin a workflow if none is active,
\* cancel the active one, or leave the record.
Answered(r, t) ==
    /\ t \in Runtime
    /\ t.object_store = r.object_store /\ t.completion = r.completion
    /\ t.connection = r.connection
    /\ t.workset_generation = r.workset_generation
    /\ t.update_store = r.update_store /\ t.lease = r.lease /\ t.ticket = r.ticket

Begun(r, t) ==
    /\ ~workflow_is_active(r.workflow)
    /\ workflow_is_waiting(t.workflow)
    /\ t.workflow.generation = r.workset_generation

Cancels(r, t) ==
    /\ workflow_is_active(r.workflow)
    /\ t.workflow.id = r.workflow.id
    /\ t.workflow.state \in CancelledOutcomes

\* A new workflow begins exactly if the answer is Ok (workflow_step_schedule).
LEMMA Scheduled ==
    ASSUME NEW r \in Runtime, NEW valid \in BOOLEAN, NEW kind \in 0 .. 3, NEW id \in Byte,
           NEW due \in Byte, NEW opcode \in Byte, NEW delay \in Byte
    PROVE  LET t == workflow_step_schedule(r, valid, kind,
                        [id |-> id, due |-> due, opcode |-> opcode], delay)
           IN  /\ Answered(r, t) /\ t.journal = r.journal
               /\ t.effect = "Ok" => Begun(r, t) /\ t.workflow.id = id /\ t.workflow.kind = kind
               /\ t.effect # "Ok" => t.workflow = r.workflow
<1> DEFINE spec == [id |-> id, due |-> due, opcode |-> opcode]
           create == timer_create(r.timer, WORKFLOW_TIMER_ID, delay)
           new == [kind |-> kind, id |-> id, due |-> due,
                   opcode |-> opcode, task |-> 0,
                   state |-> WORKFLOW_STATE_WAITING,
                   restart |-> WORKFLOW_RESTART_NONE,
                   generation |-> r.workset_generation]
           wf == IF create.status = "Ok" THEN new ELSE r.workflow
           u == [r EXCEPT !.effect = "InvalidArgument"]
           v == [r EXCEPT !.effect = create.status, !.timer = create.state, !.workflow = wf]
           refused == ~valid \/ workflow_is_active(r.workflow)
           t == workflow_step_schedule(r, valid, kind, spec, delay)
<1>1. /\ r.timer \in TimerTable /\ r.workset_generation \in Byte /\ r.workflow \in WorkflowRecord
  BY DEF Runtime
<1>2. create.state \in TimerTable /\ create.status \in {"Ok", "Exhausted"}
  <2>1. WORKFLOW_TIMER_ID \in Byte BY Codes DEF WORKFLOW_TIMER_ID
  <2>2. create.status \in {"Ok", "Exhausted"} BY DEF timer_create
  <2>3. QED BY <1>1, <2>1, <2>2, TimerCreated
<1>3. new \in WorkflowRecord /\ workflow_is_waiting(new)
  <2>1. {0, WORKFLOW_STATE_WAITING, WORKFLOW_RESTART_NONE} \subseteq Byte
    BY Codes DEF WORKFLOW_STATE_WAITING, WORKFLOW_RESTART_NONE
  <2>2. new \in WorkflowServiceState BY <1>1, <2>1 DEF WorkflowServiceState
  <2>3. QED BY <2>2, OutcomeCodes DEF WorkflowRecord, workflow_is_active, workflow_is_waiting,
           workflow_is_delivering
<1>4. /\ new.generation = r.workset_generation
      /\ new.id = id /\ new.kind = kind
  OBVIOUS
<1>5. t = IF refused THEN u ELSE v BY DEF workflow_step_schedule
<1> HIDE DEF create, new, t
<1>6. wf \in WorkflowRecord BY <1>1, <1>3
<1>7. u \in Runtime /\ u.effect = "InvalidArgument" /\ Answered(r, u) /\ u.workflow = r.workflow
      /\ u.journal = r.journal
  BY DEF Runtime, Answered
<1>8. v \in Runtime /\ v.effect = create.status /\ Answered(r, v) /\ v.workflow = wf
      /\ v.journal = r.journal
  BY <1>2, <1>6 DEF Runtime, Answered
<1> HIDE DEF u, v
<1>9. CASE refused
  <2>1. t = u BY <1>5, <1>9
  <2> HIDE DEF refused
  <2>2. QED BY <1>7, <2>1 DEF t
<1>10. CASE ~refused
  <2>1. t = v /\ ~workflow_is_active(r.workflow) BY <1>5, <1>10
  <2>2. t.effect = "Ok" => t.workflow = new BY <1>8, <2>1
  <2>3. t.effect # "Ok" => t.workflow = r.workflow BY <1>8, <2>1
  <2>4. t.effect = "Ok" => Begun(r, t) /\ t.workflow.id = id /\ t.workflow.kind = kind
    BY <1>3, <1>4, <2>1, <2>2 DEF Begun
  <2> HIDE DEF refused
  <2>5. QED BY <1>8, <2>1, <2>3, <2>4 DEF t
<1>11. QED BY <1>9, <1>10
\* A cancelled workflow ends without a report; a refused cancel leaves the
\* record (workflow_step_cancel).
LEMMA CancelAnswered ==
    ASSUME NEW r \in Runtime, NEW id
    PROVE  LET t == workflow_step_cancel(r, id)
           IN  /\ Answered(r, t) /\ t.journal = r.journal
               /\ \/ t.workflow = r.workflow
                  \/ /\ r.workflow.id = id /\ Cancels(r, t)
                     /\ t.workflow.generation = r.workflow.generation
<1> DEFINE s == r.workflow
           stop == timer_cancel(r.timer, WORKFLOW_TIMER_ID)
           end == task_cancel(r.task, s.task)
           status == IF workflow_is_waiting(s) THEN stop.status ELSE end.status
           timers == IF workflow_is_waiting(s) THEN stop.state ELSE r.timer
           tasks == IF workflow_is_waiting(s) THEN r.task ELSE end.state
           ended == workflow_terminal(s, workflow_cancelled_outcome(s))
           wf == IF status = "Ok" THEN ended ELSE s
           refused == s.id # id \/ ~workflow_is_active(s)
           u == [r EXCEPT !.effect = "InvalidArgument"]
           v == [r EXCEPT !.effect = status, !.timer = timers, !.task = tasks, !.workflow = wf]
           t == workflow_step_cancel(r, id)
<1>1. r.timer \in TimerTable /\ r.task \in TaskTable /\ s \in WorkflowRecord
      /\ s \in WorkflowServiceState
  BY DEF Runtime, WorkflowRecord
<1>2. timers \in TimerTable /\ tasks \in TaskTable BY <1>1, TimerCancelled, TaskEnded
<1>3. status \in {"Ok", "InvalidArgument"} BY DEF timer_cancel, task_cancel, task_end
<1>4. workflow_cancelled_outcome(s) \in CancelledOutcomes
      /\ workflow_cancelled_outcome(s) \in Outcomes
  BY CancelledOutcome, OutcomeCodes
<1>5. /\ ended \in WorkflowRecord /\ ended.state = workflow_cancelled_outcome(s)
      /\ ended.id = s.id /\ ended.generation = s.generation
  BY <1>1, <1>4, Restated
<1>6. t = IF refused THEN u ELSE v BY DEF workflow_step_cancel
<1> HIDE DEF timers, tasks, status, ended, t
<1>7. wf \in WorkflowRecord BY <1>1, <1>5
<1>8. u \in Runtime /\ Answered(r, u) /\ u.workflow = s /\ u.journal = r.journal
  BY DEF Runtime, Answered
<1>9. v \in Runtime /\ Answered(r, v) /\ v.workflow = wf /\ v.journal = r.journal
  BY <1>2, <1>3, <1>7 DEF Runtime, Answered
<1> HIDE DEF u, v
<1>10. CASE refused
  <2>1. t = u BY <1>6, <1>10
  <2> HIDE DEF refused
  <2>2. QED BY <1>8, <2>1 DEF t
<1>11. CASE ~refused
  <2>1. t = v /\ workflow_is_active(s) /\ s.id = id BY <1>6, <1>11
  <2>2. \/ t.workflow = s
        \/ /\ s.id = id /\ Cancels(r, t) /\ t.workflow.generation = s.generation
    BY <1>4, <1>5, <1>9, <2>1 DEF Cancels
  <2> HIDE DEF refused
  <2>3. QED BY <1>9, <2>1, <2>2 DEF t
<1>12. QED BY <1>10, <1>11

\* Lane B takes the four bytes of the record (workflow_sync_journal).
LEMMA Synced ==
    ASSUME NEW r \in Runtime
    PROVE  LET t == workflow_sync_journal(r)
           IN  /\ Answered(r, t) /\ t.workflow = r.workflow /\ t.effect = r.effect
<1> DEFINE s == r.workflow
           first == IF s.kind = WORKFLOW_KIND_CONNECTION
                    THEN u8(s.state + WORKFLOW_CONNECTION_SLOT_MARKER) ELSE s.state
           data == IF workflow_is_idle(s) /\ s.restart = WORKFLOW_RESTART_NONE
                   THEN << >> ELSE workflow_lane_bytes(s)
           lanes == journal_write_lane(r.journal, JOURNAL_LANE_B, data)
           t == [r EXCEPT !.journal = lanes]
<1>1. /\ r.journal \in JournalTable /\ s.state \in Byte /\ s.id \in Byte /\ s.due \in Byte
      /\ s.opcode \in Byte
  BY DEF Runtime, WorkflowRecord, WorkflowServiceState
<1>2. first \in Byte
  <2>1. s.state + WORKFLOW_CONNECTION_SLOT_MARKER \in Nat
    BY <1>1, U8Assumption DEF Byte, WORKFLOW_CONNECTION_SLOT_MARKER
  <2>2. QED BY <1>1, <2>1, U8Facts
<1>3. data \in Seq(Byte) /\ Len(data) <= JOURNAL_RECORD_CAPACITY
  <2>1. workflow_lane_bytes(s) = <<first, s.id, s.due, s.opcode>> BY DEF workflow_lane_bytes
  <2> HIDE DEF first
  <2>2. <<first, s.id, s.due, s.opcode>> \in Seq(Byte)
        /\ Len(<<first, s.id, s.due, s.opcode>>) = 4
    BY <1>1, <1>2
  <2>3. << >> \in Seq(Byte) /\ Len(<< >>) = 0 OBVIOUS
  <2>4. QED BY <2>1, <2>2, <2>3 DEF JOURNAL_RECORD_CAPACITY
<1> HIDE DEF data
<1>4. lanes \in JournalTable
  <2>1. 0 \in Byte BY Codes
  <2>2. QED BY <1>1, <1>3, <2>1, JournalKept
<1>5. workflow_sync_journal(r) = t BY DEF workflow_sync_journal, data
<1> HIDE DEF lanes
<1>6. t \in Runtime /\ Answered(r, t) /\ t.workflow = s /\ t.effect = r.effect
  BY <1>4 DEF Runtime, Answered
<1>7. QED BY <1>5, <1>6

\* A message to the workflow endpoint begins a workflow exactly if it asks for
\* one and is answered Ok; only a cancel with the id of the record ends one.
LEMMA MessageAnswered ==
    ASSUME NEW r \in Runtime, NEW m \in WorkflowMessage
    PROVE  LET t == workflow_step_message(r, m)
           IN  /\ Answered(r, t)
               /\ \/ IsSchedule(m) /\ t.effect = "Ok" /\ Begun(r, t)
                  \/ /\ ~(IsSchedule(m) /\ t.effect = "Ok")
                     /\ t.workflow = r.workflow
                  \/ /\ m.op = "cancel" /\ m.id = r.workflow.id /\ Cancels(r, t)
                     /\ t.workflow.generation = r.workflow.generation
<1> DEFINE t == workflow_step_message(r, m)
<1>0. /\ {0, 2, 200} \subseteq Byte /\ {0, 1, 2, 3} \subseteq 0 .. 3 BY Codes
<1>1. CASE m.op = "schedule"
  <2>1. m.id \in Byte /\ m.due \in Byte BY <1>1 DEF WorkflowMessage
  <2> DEFINE valid == m.id # 0
             u == workflow_step_schedule(r, valid, WORKFLOW_KIND_TASK,
                    [id |-> m.id, due |-> m.due, opcode |-> m.id], m.due)
  <2>2. t = u BY <1>1 DEF workflow_step_message
  <2>3. /\ Answered(r, u)
        /\ u.effect = "Ok" => Begun(r, u)
        /\ u.effect # "Ok" => u.workflow = r.workflow
    <3>1. valid \in BOOLEAN /\ WORKFLOW_KIND_TASK \in 0 .. 3 BY DEF WORKFLOW_KIND_TASK
    <3> HIDE DEF valid
    <3>2. QED BY <2>1, <3>1, Scheduled
  <2>4. IsSchedule(m) BY <1>1 DEF IsSchedule
  <2> HIDE DEF t, u
  <2>5. QED BY <2>2, <2>3, <2>4 DEF t
<1>2. CASE m.op = "update"
  <2>1. m.name \in Byte /\ m.value \in Byte /\ m.version \in Byte /\ u8(m.name + 1) \in Byte
    <3>1. m.name \in Byte /\ m.value \in Byte /\ m.version \in Byte
      BY <1>2 DEF WorkflowMessage
    <3>2. m.name + 1 \in Nat BY <3>1, U8Assumption DEF Byte
    <3>3. QED BY <3>1, <3>2, U8Facts
  <2> DEFINE valid == m.name # 255
             u == workflow_step_schedule(r, valid, WORKFLOW_KIND_OBJECT_UPDATE,
                    [id |-> u8(m.name + 1), due |-> m.value, opcode |-> m.version],
                    WORKFLOW_OBJECT_UPDATE_DELAY)
  <2>2. t = u BY <1>2 DEF workflow_step_message
  <2>3. /\ Answered(r, u)
        /\ u.effect = "Ok" => Begun(r, u)
        /\ u.effect # "Ok" => u.workflow = r.workflow
    <3>1. /\ valid \in BOOLEAN /\ WORKFLOW_KIND_OBJECT_UPDATE \in 0 .. 3
          /\ WORKFLOW_OBJECT_UPDATE_DELAY \in Byte
      BY <1>0 DEF WORKFLOW_KIND_OBJECT_UPDATE, WORKFLOW_OBJECT_UPDATE_DELAY
    <3> HIDE DEF valid
    <3>2. QED BY <2>1, <3>1, Scheduled
  <2>4. IsSchedule(m) BY <1>2 DEF IsSchedule
  <2> HIDE DEF t, u
  <2>5. QED BY <2>2, <2>3, <2>4 DEF t
<1>3. CASE m.op = "apply"
  <2>1. m.lease \in Byte BY <1>3 DEF WorkflowMessage
  <2> DEFINE valid == TRUE
             u == workflow_step_schedule(r, valid, WORKFLOW_KIND_UPDATE_APPLY,
                    [id |-> WORKFLOW_UPDATE_APPLY_ID, due |-> 0, opcode |-> m.lease],
                    WORKFLOW_UPDATE_APPLY_DELAY)
  <2>2. t = u BY <1>3 DEF workflow_step_message
  <2>3. /\ Answered(r, u)
        /\ u.effect = "Ok" => Begun(r, u)
        /\ u.effect # "Ok" => u.workflow = r.workflow
    <3>1. /\ valid \in BOOLEAN /\ WORKFLOW_KIND_UPDATE_APPLY \in 0 .. 3 /\ 0 \in Byte
          /\ WORKFLOW_UPDATE_APPLY_DELAY \in Byte /\ WORKFLOW_UPDATE_APPLY_ID \in Byte
      BY <1>0 DEF WORKFLOW_KIND_UPDATE_APPLY, WORKFLOW_UPDATE_APPLY_DELAY,
         WORKFLOW_UPDATE_APPLY_ID
    <3> HIDE DEF valid
    <3>2. QED BY <2>1, <3>1, Scheduled
  <2>4. IsSchedule(m) BY <1>3 DEF IsSchedule
  <2> HIDE DEF t, u
  <2>5. QED BY <2>2, <2>3, <2>4 DEF t
<1>4. CASE m.op = "cancel"
  <2>1. t = workflow_step_cancel(r, m.id) BY <1>4 DEF workflow_step_message
  <2>2. ~IsSchedule(m) BY <1>4 DEF IsSchedule
  <2>3. /\ Answered(r, t)
        /\ \/ t.workflow = r.workflow
           \/ /\ r.workflow.id = m.id /\ Cancels(r, t)
              /\ t.workflow.generation = r.workflow.generation
    BY <2>1, CancelAnswered
  <2> HIDE DEF t
  <2>4. QED BY <1>4, <2>2, <2>3 DEF t
<1>5. CASE m.op = "poll"
  <2> DEFINE u == [r EXCEPT !.effect = "InvalidArgument"]
  <2>1. t = u BY <1>5 DEF workflow_step_message
  <2>2. ~IsSchedule(m) BY <1>5 DEF IsSchedule
  <2>3. u \in Runtime /\ Answered(r, u) /\ u.workflow = r.workflow BY DEF Runtime, Answered
  <2> HIDE DEF t, u
  <2>4. QED BY <2>1, <2>2, <2>3 DEF t
<1>6. m.op \in {"schedule", "update", "apply", "cancel", "poll"} BY DEF WorkflowMessage
<1>7. QED BY <1>1, <1>2, <1>3, <1>4, <1>5, <1>6

\* A step: an advance, then what its message asks for.
Stepped(r, m, t) ==
    /\ t \in Runtime /\ t.connection = r.connection
    /\ t.workset_generation = r.workset_generation
    /\ \E u \in Runtime :
          /\ Advanced(r, u)
          /\ t.object_store = u.object_store /\ t.completion = u.completion
          /\ t.update_store = u.update_store /\ t.lease = u.lease /\ t.ticket = u.ticket
          /\ \/ IsSchedule(m) /\ t.effect = "Ok" /\ Begun(u, t)
             \/ ~(IsSchedule(m) /\ t.effect = "Ok") /\ t.workflow = u.workflow
             \/ /\ m.op = "cancel" /\ m.id = u.workflow.id /\ Cancels(u, t)
                /\ t.workflow.generation = u.workflow.generation

\* What a message to the workflow endpoint does (workflow_step).
LEMMA Steps ==
    ASSUME NEW r \in Runtime, NEW m \in WorkflowMessage
    PROVE  Stepped(r, m, step(r, m))
<1> DEFINE ticked == [r EXCEPT !.timer = timer_tick(@)]
           u == workflow_advance(ticked)
           v == workflow_step_message(u, m)
           t == workflow_sync_journal(v)
<1>1. timer_tick(r.timer) \in TimerTable BY TimerTick DEF Runtime
<1>2. /\ ticked \in Runtime /\ Aside(r, ticked) /\ ticked.completion = r.completion
      /\ ticked.workflow = r.workflow /\ ticked.object_store = r.object_store
      /\ ticked.lease = r.lease /\ ticked.ticket = r.ticket
      /\ ticked.update_store = r.update_store
  BY <1>1 DEF Runtime, Aside
<1> HIDE DEF ticked
<1>3. Advanced(ticked, u) BY <1>2, Advances
<1> HIDE DEF u
<1>4. Advanced(r, u)
  <2>1. \A outcome : Earned(ticked, u, outcome) => Earned(r, u, outcome)
    BY <1>2 DEF Earned, SpendsTicket
  <2>2. QED BY <1>2, <1>3, <2>1 DEF Advanced, Aside, Settled
<1>5. u \in Runtime BY <1>3 DEF Advanced
<1>6. /\ Answered(u, v)
      /\ \/ IsSchedule(m) /\ v.effect = "Ok" /\ Begun(u, v)
         \/ ~(IsSchedule(m) /\ v.effect = "Ok") /\ v.workflow = u.workflow
         \/ /\ m.op = "cancel" /\ m.id = u.workflow.id /\ Cancels(u, v)
            /\ v.workflow.generation = u.workflow.generation
  BY <1>5, MessageAnswered
<1> HIDE DEF v
<1>7. Answered(v, t) /\ t.workflow = v.workflow /\ t.effect = v.effect
  BY <1>6, Synced DEF Answered
<1>8. step(r, m) = t BY DEF step, t, v, u, ticked
<1> HIDE DEF t
<1>9. t.workset_generation = r.workset_generation /\ t.connection = r.connection
  BY <1>4, <1>6, <1>7 DEF Advanced, Aside, Answered
<1>10. Stepped(r, m, t)
  <2>1. /\ t.object_store = u.object_store /\ t.completion = u.completion /\ t \in Runtime
        /\ t.update_store = u.update_store /\ t.lease = u.lease /\ t.ticket = u.ticket
    BY <1>6, <1>7 DEF Answered
  <2>2. \/ IsSchedule(m) /\ t.effect = "Ok" /\ Begun(u, t)
        \/ ~(IsSchedule(m) /\ t.effect = "Ok") /\ t.workflow = u.workflow
        \/ /\ m.op = "cancel" /\ m.id = u.workflow.id /\ Cancels(u, t)
           /\ t.workflow.generation = u.workflow.generation
    BY <1>6, <1>7 DEF Begun, Cancels
  <2>3. QED BY <1>4, <1>5, <1>9, <2>1, <2>2 DEF Stepped
<1>11. QED BY <1>8, <1>10

\* The handoff of a request begins a connection workflow or changes nothing
\* but lane B (workflow_step_schedule_connection).
LEMMA HandedOff ==
    ASSUME NEW r \in Runtime, NEW id \in Byte, NEW slot \in Nat, NEW opcode \in Byte
    PROVE  LET t == workflow_step_schedule_connection(r, id, slot, opcode)
           IN  /\ Answered(r, t)
               /\ t.effect = "Ok" => Begun(r, t)
<1> DEFINE due == u8(slot + WORKFLOW_CONNECTION_SLOT_MARKER)
           u == workflow_step_schedule(r, id # 0 /\ opcode # 0, WORKFLOW_KIND_CONNECTION,
                   [id |-> id, due |-> due, opcode |-> opcode], WORKFLOW_CONNECTION_DELAY)
           t == workflow_sync_journal(u)
<1>1. due \in Byte
  <2>1. slot + WORKFLOW_CONNECTION_SLOT_MARKER \in Nat BY DEF WORKFLOW_CONNECTION_SLOT_MARKER
  <2>2. QED BY <2>1, U8Facts
<1> HIDE DEF due
<1>2. /\ (id # 0 /\ opcode # 0) \in BOOLEAN /\ WORKFLOW_KIND_CONNECTION \in 0 .. 3
      /\ WORKFLOW_CONNECTION_DELAY \in Byte
  BY Codes DEF WORKFLOW_KIND_CONNECTION, WORKFLOW_CONNECTION_DELAY
<1>3. /\ Answered(r, u)
      /\ u.effect = "Ok" => Begun(r, u)
  BY <1>1, <1>2, Scheduled
<1> HIDE DEF u
<1>4. Answered(u, t) /\ t.workflow = u.workflow /\ t.effect = u.effect
  BY <1>3, Synced DEF Answered
<1>5. workflow_step_schedule_connection(r, id, slot, opcode) = t
  BY DEF workflow_step_schedule_connection, t, u, due
<1> HIDE DEF t
<1>6. /\ Answered(r, t)
      /\ t.effect = "Ok" => Begun(r, t)
  BY <1>3, <1>4 DEF Answered, Begun
<1>7. QED BY <1>5, <1>6
-----------------------------------------------------------------------------
(* A restart of the workflow service (workflow/restart.mc).                  *)

\* The record after a restart is that workflow still: as ended as it was, to be
\* reported later, resumed in the generation it was scheduled in, or, for a
\* task, cancelled.
LEMMA Reloaded ==
    ASSUME NEW r \in Runtime
    PROVE  LET s == r.workflow
               t == workflow_restart_reload(r)
           IN  /\ t \in WorkflowRecord /\ t.id = s.id
               /\ ~workflow_is_active(s) => ~workflow_is_active(t) /\ t.state = s.state
               /\ workflow_is_active(s) /\ ~workflow_is_active(t) =>
                     /\ t.state = WORKFLOW_STATE_CANCELLED
                     /\ s.kind = WORKFLOW_KIND_TASK /\ workflow_restart_cancels(r, s)
               /\ Executing(s) /\ Executing(t) =>
                     t.generation = s.generation /\ ~workflow_restart_cancels(r, s)
               /\ Executing(s) /\ workflow_is_delivering(t) => t.task \in CancelledOutcomes
<1> DEFINE s == r.workflow
           t == workflow_restart_reload(r)
           g == r.workset_generation
           Marked(w, restart) == [w EXCEPT !.restart = restart, !.generation = g]
           Parked(outcome) == [s EXCEPT !.due = 0, !.task = outcome,
                                        !.state = WORKFLOW_STATE_DELIVERING]
           due == IF workflow_is_running(s) /\ ~workflow_is_connection(s) THEN 0 ELSE s.due
           resumed == [s EXCEPT !.due = due, !.task = 0, !.state = WORKFLOW_STATE_WAITING]
           given == workflow_terminal(s, WORKFLOW_STATE_CANCELLED)
<1> USE DEF workflow_is_active, workflow_is_waiting, workflow_is_running, workflow_is_delivering,
        workflow_is_idle, Executing
<1>1. s \in WorkflowRecord /\ s \in WorkflowServiceState /\ g \in Byte
  BY DEF Runtime, WorkflowRecord
<1>2. {0, WORKFLOW_RESTART_NONE, WORKFLOW_RESTART_RESUMED, WORKFLOW_RESTART_CANCELLED} \subseteq Byte
  BY Codes DEF WORKFLOW_RESTART_NONE, WORKFLOW_RESTART_RESUMED, WORKFLOW_RESTART_CANCELLED
<1>4. CASE workflow_is_idle(s)
  <2>2. ~workflow_is_active(s)
    BY <1>4 DEF WORKFLOW_STATE_IDLE, WORKFLOW_STATE_WAITING, WORKFLOW_STATE_RUNNING,
       WORKFLOW_STATE_DELIVERING
  <2>1. t = s BY <1>4, <2>2 DEF workflow_restart_reload
  <2>3. QED BY <1>1, <2>1, <2>2
<1>5. CASE workflow_is_delivering(s)
  <2>1. ~workflow_is_idle(s) /\ ~workflow_is_waiting(s) /\ ~workflow_is_running(s)
    BY <1>5 DEF WORKFLOW_STATE_IDLE, WORKFLOW_STATE_WAITING, WORKFLOW_STATE_RUNNING,
       WORKFLOW_STATE_DELIVERING
  <2>2. t = Marked(s, WORKFLOW_RESTART_RESUMED) BY <1>5, <2>1 DEF workflow_restart_reload
  <2>3. t \in WorkflowServiceState /\ t.state = s.state /\ t.id = s.id /\ t.task = s.task
    BY <1>1, <1>2, <2>2 DEF WorkflowServiceState
  <2>4. QED BY <1>1, <1>5, <2>1, <2>3 DEF WorkflowRecord
<1>6. CASE ~workflow_is_idle(s) /\ ~workflow_is_active(s)
  <2> DEFINE w == [s EXCEPT !.restart = WORKFLOW_RESTART_NONE]
  <2>1. t = w BY <1>6 DEF workflow_restart_reload
  <2>2. w \in WorkflowServiceState /\ w.state = s.state /\ w.id = s.id /\ w.task = s.task
    BY <1>1, <1>2 DEF WorkflowServiceState
  <2>3. QED BY <1>1, <1>6, <2>1, <2>2 DEF WorkflowRecord
<1>7. CASE Executing(s)
  <2>1. ~workflow_is_idle(s) /\ ~workflow_is_delivering(s) /\ workflow_is_active(s)
    BY <1>7 DEF WORKFLOW_STATE_IDLE, WORKFLOW_STATE_WAITING, WORKFLOW_STATE_RUNNING,
       WORKFLOW_STATE_DELIVERING
  <2>0. CancelledOutcomes \subseteq Outcomes BY OutcomeCodes
  <2>2. ASSUME NEW outcome \in CancelledOutcomes,
               t = Marked(Parked(outcome), WORKFLOW_RESTART_CANCELLED)
        PROVE  /\ t \in WorkflowRecord /\ t.id = s.id
               /\ workflow_is_active(t) /\ ~Executing(t) /\ t.task \in CancelledOutcomes
    <3>1. /\ Parked(outcome) \in WorkflowServiceState
          /\ Parked(outcome).state = WORKFLOW_STATE_DELIVERING
          /\ Parked(outcome).task = outcome /\ Parked(outcome).id = s.id
      BY <1>1, <1>2, <2>0, OutcomeCodes DEF WorkflowServiceState
    <3> HIDE DEF Parked
    <3>2. /\ t \in WorkflowServiceState /\ t.state = WORKFLOW_STATE_DELIVERING
          /\ t.task = outcome /\ t.id = s.id
      BY <1>1, <1>2, <2>2, <3>1 DEF WorkflowServiceState
    <3>3. QED BY <2>0, <3>2, OutcomeCodes DEF WorkflowRecord
  <2>3. CASE workflow_is_connection(s)
             /\ (workflow_restart_cancels(r, s) \/ workflow_connection_lost(r, s))
    <3>1. t = Marked(Parked(WORKFLOW_STATE_CONNECTION_RESTART_CANCELLED), WORKFLOW_RESTART_CANCELLED)
      BY <1>7, <2>1, <2>3 DEF workflow_restart_reload, workflow_restate
    <3>2. WORKFLOW_STATE_CONNECTION_RESTART_CANCELLED \in CancelledOutcomes
      BY DEF CancelledOutcomes
    <3> HIDE DEF t, Marked, Parked, Executing, workflow_is_active, workflow_is_delivering
    <3>3. QED BY <2>1, <2>2, <3>1, <3>2 DEF t
  <2>4. CASE ~(workflow_is_connection(s)
                /\ (workflow_restart_cancels(r, s) \/ workflow_connection_lost(r, s)))
             /\ workflow_restart_cancels(r, s)
    <3>1. ~workflow_is_connection(s) BY <2>4
    <3>2. CASE workflow_is_object_update(s) \/ workflow_is_update_apply(s)
      <4>1. PICK outcome \in {WORKFLOW_STATE_OBJECT_CANCELLED, WORKFLOW_STATE_UPDATE_CANCELLED} :
               t = Marked(Parked(outcome), WORKFLOW_RESTART_CANCELLED)
        BY <1>7, <2>1, <2>4, <3>2 DEF workflow_restart_reload, workflow_restate
      <4>2. outcome \in CancelledOutcomes BY DEF CancelledOutcomes
      <4> HIDE DEF t, Marked, Parked, Executing, workflow_is_active, workflow_is_delivering
      <4>3. QED BY <2>1, <2>2, <4>1, <4>2 DEF t
    <3>3. CASE ~(workflow_is_object_update(s) \/ workflow_is_update_apply(s))
      <4>1. t = Marked(given, WORKFLOW_RESTART_CANCELLED)
        BY <1>7, <2>1, <2>4, <3>3 DEF workflow_restart_reload
      <4>2. WORKFLOW_STATE_CANCELLED \in Outcomes
            /\ WORKFLOW_DELIVERY_WOULDBLOCK \in {WORKFLOW_DELIVERY_WOULDBLOCK,
                                                 WORKFLOW_DELIVERY_EXHAUSTED}
        BY DEF Outcomes, CancelledOutcomes
      <4>3. given \in WorkflowRecord /\ given \in WorkflowServiceState
            /\ given.state = WORKFLOW_STATE_CANCELLED /\ given.id = s.id
        BY <1>1, <4>2, Restated DEF WorkflowRecord
      <4> HIDE DEF given
      <4>4. t \in WorkflowServiceState /\ t.state = WORKFLOW_STATE_CANCELLED /\ t.id = s.id
        BY <1>1, <1>2, <4>1, <4>3 DEF WorkflowServiceState
      <4>5. s.kind = WORKFLOW_KIND_TASK
        <5>1. s.kind \in 0 .. 3 BY <1>1 DEF WorkflowServiceState
        <5>2. QED
          BY <2>1, <3>1, <3>3, <5>1 DEF workflow_is_connection, workflow_is_object_update,
             workflow_is_update_apply, workflow_is_kind, WORKFLOW_KIND_TASK,
             WORKFLOW_KIND_OBJECT_UPDATE, WORKFLOW_KIND_CONNECTION, WORKFLOW_KIND_UPDATE_APPLY
      <4>6. t \in WorkflowRecord BY <4>2, <4>4, Ended DEF WorkflowRecord
      <4>7. ~workflow_is_active(t) /\ ~Executing(t) /\ ~workflow_is_delivering(t)
        BY <4>2, <4>4, Ended
      <4> HIDE DEF t, Executing, workflow_is_active, workflow_is_delivering
      <4>8. QED BY <2>1, <2>4, <4>4, <4>5, <4>6, <4>7 DEF t
    <3>4. QED BY <3>2, <3>3
  <2>5. CASE ~workflow_restart_cancels(r, s)
             /\ ~(workflow_is_connection(s) /\ workflow_connection_lost(r, s))
    <3>1. t = Marked(resumed, WORKFLOW_RESTART_RESUMED)
      BY <1>7, <2>1, <2>5 DEF workflow_restart_reload, workflow_restate
    <3>2. due \in Byte BY <1>1, <1>2 DEF WorkflowServiceState
    <3> HIDE DEF due
    <3>3. /\ resumed \in WorkflowServiceState /\ resumed.state = WORKFLOW_STATE_WAITING
          /\ resumed.id = s.id
      BY <1>1, <1>2, <3>2, OutcomeCodes DEF WorkflowServiceState
    <3> HIDE DEF resumed
    <3>4. t \in WorkflowServiceState /\ t.state = WORKFLOW_STATE_WAITING /\ t.id = s.id
          /\ t.generation = g
      BY <1>1, <1>2, <3>1, <3>3 DEF WorkflowServiceState
    <3>5. s.generation = g BY <2>5 DEF workflow_restart_cancels
    <3>6. t \in WorkflowRecord /\ workflow_is_active(t) /\ ~workflow_is_delivering(t)
      BY <3>4, OutcomeCodes DEF WorkflowRecord
    <3> HIDE DEF t, Executing, workflow_is_active, workflow_is_delivering
    <3>7. QED BY <2>1, <2>5, <3>4, <3>5, <3>6 DEF t
  <2>6. QED BY <2>3, <2>4, <2>5
<1>8. QED BY <1>4, <1>5, <1>6, <1>7
=============================================================================
