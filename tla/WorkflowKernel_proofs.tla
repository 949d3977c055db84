----------------------- MODULE WorkflowKernel_proofs -----------------------
(* What the kernel around the workflow service guarantees for every table    *)
(* size, every set of clients, any restarts and any failing writes: its      *)
(* states are those the services can represent, it implements                *)
(* WorkflowContract, a workflow executes in one generation of the work set,  *)
(* ends unreported only when it was given up, object versions move on, a     *)
(* ticket goes exactly with the report that it was used, and what is         *)
(* reported as applied is installed.                                         *)
EXTENDS WorkflowLemmas

DiskFiles == [object : ObjectTable, journal : JournalTable, update : UpdateTable]

\* The inductive invariant: every table with its bound, on disk as well, the
\* states of tasks, and the outcomes the record stands for.
KernelTypes ==
    /\ workflow \in WorkflowRecord /\ timer \in TimerTable /\ task \in TaskTable
    /\ completion \in Mailbox /\ connection \in ConnectionServiceState
    /\ lease \in LeaseTable /\ ticket \in TicketTable
    /\ object_store \in ObjectTable /\ update_store \in UpdateTable
    /\ journal \in JournalTable /\ disk \in DiskFiles
    /\ workset_generation \in Byte /\ completion_generation \in Byte
    /\ accepted \in Nat /\ restarts \in Nat
-----------------------------------------------------------------------------
(* The start.                                                                *)

\* The states services start in fit their tables.
LEMMA FreshTables ==
    /\ workflow_state_init \in WorkflowRecord /\ timer_init \in TimerTable
    /\ task_init \in TaskTable /\ completion_mailbox_init \in Mailbox
    /\ connection_init \in ConnectionServiceState /\ lease_init \in LeaseTable
    /\ \A epoch \in Byte : ticket_init(epoch) \in TicketTable
    /\ object_store_init \in ObjectTable /\ update_store_init \in UpdateTable
    /\ journal_init \in JournalTable /\ fresh_disk \in DiskFiles
<1>1. {0, 1, WORKFLOW_STATE_IDLE, WORKFLOW_RESTART_NONE} \subseteq Byte
  BY Codes DEF WORKFLOW_STATE_IDLE, WORKFLOW_RESTART_NONE
<1>2. \A S : << >> \in Seq(S) /\ Len(<< >>) = 0 OBVIOUS
<1>3. workflow_state_init \in WorkflowRecord
  <2>1. workflow_state_init \in WorkflowServiceState /\ workflow_state_init.state = WORKFLOW_STATE_IDLE
    BY <1>1 DEF workflow_state_init, WorkflowServiceState, WORKFLOW_KIND_TASK
  <2>2. QED BY <2>1, OutcomeCodes, Ended DEF WorkflowRecord
<1>4. timer_init \in TimerTable
  BY <1>2, TimerAssumption DEF timer_init, TimerTable, TimerServiceState
<1>5. task_init \in TaskTable
  BY <1>1, <1>2, TaskAssumption DEF task_init, TaskTable, TaskServiceState
<1>6. completion_mailbox_init \in Mailbox
  BY <1>2, MailboxAssumption DEF completion_mailbox_init, Mailbox, CompletionMailboxServiceState
<1>7. connection_init \in ConnectionServiceState
  BY <1>1 DEF connection_init, ConnectionServiceState, Connection
<1>8. lease_init \in LeaseTable
  BY <1>1, <1>2, LeaseAssumption DEF lease_init, LeaseTable, LeaseServiceState
<1>9. ASSUME NEW epoch \in Byte PROVE ticket_init(epoch) \in TicketTable
  BY <1>1, <1>2, TicketAssumption DEF ticket_init, TicketTable, TicketServiceState
<1>10. object_store_init \in ObjectTable
  <2>1. object_store_init \in [{} -> Object] /\ DOMAIN object_store_init = {}
    BY DEF object_store_init
  <2>2. Cardinality({}) = 0 BY FS_EmptySet
  <2>3. {} \in SUBSET Byte OBVIOUS
  <2> HIDE DEF object_store_init
  <2>4. object_store_init \in UNION {[names -> Object] : names \in SUBSET Byte} BY <2>1, <2>3
  <2>5. QED BY <2>1, <2>2, <2>4, ObjectStoreAssumption, SMTT(30) DEF ObjectTable
<1>11. update_store_init \in UpdateTable
  BY <1>1, <1>2, UpdateAssumption DEF update_store_init, update_manifest_init,
     update_installed_init, UpdateTable, UpdateStoreServiceState, Manifest, Installed, Artifact
<1>12. journal_init \in JournalTable
  BY <1>2 DEF journal_init, JournalTable, JournalServiceState, Lane, JOURNAL_RECORD_CAPACITY
<1>13. fresh_disk \in DiskFiles BY <1>10, <1>11, <1>12 DEF fresh_disk, DiskFiles
<1>14. QED BY <1>3, <1>4, <1>5, <1>6, <1>7, <1>8, <1>9, <1>10, <1>11, <1>12, <1>13

\* The kernel boots in such a state.
LEMMA KernelInit == Init => KernelTypes
BY FreshTables, Codes DEF Init, KernelTypes
-----------------------------------------------------------------------------
(* Writing the files.                                                        *)

\* What one file holds after a sequence of writes that was to write next to it
\* if the service changed: the old content only if nothing had to be written or
\* a write failed, nothing at all only if a write was cut short.
FileLeft(old, changed, next, fresh, ok, left) ==
    \/ left = old /\ (ok => ~changed)
    \/ left = next /\ changed
    \/ left = fresh /\ ~ok /\ "torn" \in Faults

\* One write leaves the other files alone (write_all).
LEMMA Written ==
    ASSUME NEW p \in [ok : BOOLEAN, disk : DiskFiles], NEW changed \in BOOLEAN,
           NEW file \in {"object", "journal", "update"}, NEW new,
           [p.disk EXCEPT ![file] = new] \in DiskFiles,
           NEW q \in write_all(p, changed, file, new)
    PROVE  /\ q \in [ok : BOOLEAN, disk : DiskFiles]
           /\ q.ok => p.ok
           /\ \A f \in {"object", "journal", "update"} : f # file => q.disk[f] = p.disk[f]
           /\ ~p.ok => q = p
           /\ p.ok => FileLeft(p.disk[file], changed, new, fresh_disk[file], q.ok, q.disk[file])
<1>1. CASE ~p.ok \/ ~changed
  <2>1. q = p BY <1>1 DEF write_all
  <2>2. QED BY <1>1, <2>1 DEF FileLeft
<1>2. CASE p.ok /\ changed
  <2>1. [p.disk EXCEPT ![file] = fresh_disk[file]] \in DiskFiles
    BY FreshTables DEF DiskFiles, fresh_disk
  <2>2. [p.disk EXCEPT ![file] = p.disk[file]] \in DiskFiles BY DEF DiskFiles
  <2>3. DOMAIN p.disk = {"object", "journal", "update"} BY DEF DiskFiles
  <2>4. PICK c : /\ q.disk = [p.disk EXCEPT ![file] = c] /\ q.ok \in BOOLEAN
                 /\ q = [ok |-> q.ok, disk |-> q.disk]
                 /\ \/ c = new
                    \/ q.ok = FALSE /\ c = p.disk[file]
                    \/ q.ok = FALSE /\ c = fresh_disk[file] /\ "torn" \in Faults
    <3>1. CASE q = [ok |-> TRUE, disk |-> [p.disk EXCEPT ![file] = new]] BY <3>1
    <3>2. ASSUME NEW c \in write_failures(p.disk[file], new, fresh_disk[file]),
                 q = [ok |-> FALSE, disk |-> [p.disk EXCEPT ![file] = c]]
          PROVE  /\ q.disk = [p.disk EXCEPT ![file] = c] /\ q.ok = FALSE
                 /\ q = [ok |-> q.ok, disk |-> q.disk]
                 /\ \/ c = new
                    \/ c = p.disk[file]
                    \/ c = fresh_disk[file] /\ "torn" \in Faults
      BY <3>2 DEF write_failures
    <3>3. \/ q = [ok |-> TRUE, disk |-> [p.disk EXCEPT ![file] = new]]
          \/ \E c \in write_failures(p.disk[file], new, fresh_disk[file]) :
                q = [ok |-> FALSE, disk |-> [p.disk EXCEPT ![file] = c]]
      BY <1>2 DEF write_all
    <3>4. CASE \E c \in write_failures(p.disk[file], new, fresh_disk[file]) :
                  q = [ok |-> FALSE, disk |-> [p.disk EXCEPT ![file] = c]]
      <4>1. PICK c \in write_failures(p.disk[file], new, fresh_disk[file]) :
                  q = [ok |-> FALSE, disk |-> [p.disk EXCEPT ![file] = c]]
        BY <3>4
      <4>2. QED BY <3>2, <4>1
    <3>5. QED BY <3>1, <3>3, <3>4
  <2>5. q.disk \in DiskFiles BY <2>1, <2>2, <2>4
  <2>6. q.disk[file] = c /\ \A f \in {"object", "journal", "update"} : f # file => q.disk[f] = p.disk[f]
    BY <2>3, <2>4
  <2>7. FileLeft(p.disk[file], changed, new, fresh_disk[file], q.ok, q.disk[file])
    BY <1>2, <2>4, <2>6 DEF FileLeft
  <2>8. QED BY <1>2, <2>4, <2>5, <2>6, <2>7
<1>3. QED BY <1>1, <1>2

\* What a sequence of writes may leave of a file, judged by how it ended.
LEMMA LeftStays ==
    ASSUME NEW old, NEW changed \in BOOLEAN, NEW next, NEW fresh, NEW left,
           NEW ok \in BOOLEAN, FileLeft(old, changed, next, fresh, ok, left)
    PROVE  FileLeft(old, changed, next, fresh, FALSE, left)
BY DEF FileLeft

\* The update store is written like the others; the launch record behind it can
\* fail when it is written already (update_store_persist).
LEMMA UpdatePersisted ==
    ASSUME NEW p \in [ok : BOOLEAN, disk : DiskFiles], NEW changed \in BOOLEAN,
           NEW new \in UpdateTable, NEW q \in update_store_persist(p, changed, new)
    PROVE  /\ q \in [ok : BOOLEAN, disk : DiskFiles]
           /\ q.ok => p.ok
           /\ \A f \in {"object", "journal"} : q.disk[f] = p.disk[f]
           /\ ~p.ok => q.disk = p.disk
           /\ p.ok => FileLeft(p.disk.update, changed, new, fresh_disk.update, q.ok, q.disk.update)
<1>1. [p.disk EXCEPT !["update"] = new] \in DiskFiles BY DEF DiskFiles
<1>2. PICK u \in write_all(p, changed, "update", new) : q = u \/ q = [u EXCEPT !.ok = FALSE]
  BY DEF update_store_persist
<1>3. /\ u \in [ok : BOOLEAN, disk : DiskFiles]
      /\ u.ok => p.ok
      /\ \A f \in {"object", "journal", "update"} : f # "update" => u.disk[f] = p.disk[f]
      /\ ~p.ok => u = p
      /\ p.ok => FileLeft(p.disk.update, changed, new, fresh_disk.update, u.ok, u.disk.update)
  BY <1>1, Written
<1>4. CASE q = u BY <1>3, <1>4
<1>5. CASE q = [u EXCEPT !.ok = FALSE]
  <2>1. q \in [ok : BOOLEAN, disk : DiskFiles] /\ q.ok = FALSE /\ q.disk = u.disk
    BY <1>3, <1>5
  <2>2. p.ok => FileLeft(p.disk.update, changed, new, fresh_disk.update, FALSE, q.disk.update)
    BY <1>3, <2>1 DEF FileLeft
  <2>3. QED BY <1>3, <2>1, <2>2
<1>6. QED BY <1>2, <1>4, <1>5

\* A workflow step writes each service it changed, or stops at a failure; what
\* it writes is the state before or after the step (persist_workflow_step).
LEMMA StepPersisted ==
    ASSUME KernelTypes, NEW before \in Runtime, NEW after \in Runtime,
           NEW p \in persist_workflow_step(before, after)
    PROVE  /\ p.ok \in BOOLEAN /\ p.disk \in DiskFiles
           /\ FileLeft(disk.object, before.object_store # after.object_store,
                       after.object_store, fresh_disk.object, p.ok, p.disk.object)
           /\ FileLeft(disk.update, before.update_store # after.update_store,
                       after.update_store, fresh_disk.update, p.ok, p.disk.update)
<1> DEFINE start == [ok |-> TRUE, disk |-> disk]
           objects == before.object_store # after.object_store
           lanes == before.journal # after.journal
           updates == before.update_store # after.update_store
<1>1. objects \in BOOLEAN /\ lanes \in BOOLEAN /\ updates \in BOOLEAN OBVIOUS
<1>2. start \in [ok : BOOLEAN, disk : DiskFiles] /\ start.disk = disk /\ start.ok
  BY DEF KernelTypes
<1>3. /\ after.object_store \in ObjectTable /\ after.journal \in JournalTable
      /\ after.update_store \in UpdateTable
  BY DEF Runtime
<1> DEFINE First == write_all(start, objects, "object", after.object_store)
           Second(u) == write_all(u, lanes, "journal", after.journal)
           Third(u) == update_store_persist(u, updates, after.update_store)
           Inner(u) == UNION {Third(v) : v \in Second(u)}
<1>4. p \in UNION {Inner(u) : u \in First} BY DEF persist_workflow_step
<1> HIDE DEF First
<1>u. PICK u \in First : p \in Inner(u) BY <1>4
<1> HIDE DEF Second
<1>v. PICK v \in Second(u) : p \in Third(v) BY <1>u
<1> USE DEF First, Second
<1> HIDE DEF objects, lanes, updates, start
<1>5. /\ u \in [ok : BOOLEAN, disk : DiskFiles]
      /\ \A f \in {"object", "journal", "update"} : f # "object" => u.disk[f] = disk[f]
      /\ FileLeft(disk.object, objects, after.object_store, fresh_disk.object, u.ok, u.disk.object)
  <2>1. [disk EXCEPT !["object"] = after.object_store] \in DiskFiles
    BY <1>3 DEF DiskFiles, KernelTypes
  <2>2. QED BY <1>1, <1>2, <2>1, Written
<1>6. /\ v \in [ok : BOOLEAN, disk : DiskFiles] /\ (v.ok => u.ok)
      /\ \A f \in {"object", "journal", "update"} : f # "journal" => v.disk[f] = u.disk[f]
  <2>1. [u.disk EXCEPT !["journal"] = after.journal] \in DiskFiles
    BY <1>3, <1>5 DEF DiskFiles
  <2>2. QED BY <1>1, <1>5, <2>1, Written
<1>7. /\ p \in [ok : BOOLEAN, disk : DiskFiles] /\ (p.ok => v.ok)
      /\ \A f \in {"object", "journal"} : p.disk[f] = v.disk[f]
      /\ ~v.ok => p.disk = v.disk
      /\ v.ok => FileLeft(v.disk.update, updates, after.update_store, fresh_disk.update,
                          p.ok, p.disk.update)
  BY <1>1, <1>3, <1>6, <1>v, UpdatePersisted
<1>8. p.disk.object = u.disk.object BY <1>6, <1>7
<1>9. FileLeft(disk.object, objects, after.object_store, fresh_disk.object, p.ok, p.disk.object)
  <2>1. CASE p.ok
    <3>1. u.ok = TRUE /\ p.ok = TRUE BY <1>5, <1>6, <1>7, <2>1
    <3>2. QED BY <1>5, <1>8, <3>1
  <2>2. CASE ~p.ok
    <3>1. FileLeft(disk.object, objects, after.object_store, fresh_disk.object, FALSE, u.disk.object)
      BY <1>1, <1>5, LeftStays
    <3>2. p.ok = FALSE BY <1>7, <2>2
    <3>3. QED BY <1>8, <3>1, <3>2
  <2>3. QED BY <2>1, <2>2
<1>10. FileLeft(disk.update, updates, after.update_store, fresh_disk.update, p.ok, p.disk.update)
  <2>1. v.disk.update = disk.update BY <1>5, <1>6
  <2>2. CASE v.ok BY <1>7, <2>1, <2>2
  <2>3. CASE ~v.ok
    <3>1. p.disk.update = disk.update /\ p.ok = FALSE BY <1>7, <2>1, <2>3
    <3>2. QED BY <3>1 DEF FileLeft
  <2>4. QED BY <2>2, <2>3
<1>11. QED BY <1>7, <1>9, <1>10 DEF objects, updates
-----------------------------------------------------------------------------
(* The steps that drive the workflow.                                        *)

\* The services form a runtime the workflow service can work on.
LEMMA RuntimeTyped == KernelTypes => runtime \in Runtime
<1> SUFFICES ASSUME KernelTypes PROVE runtime \in Runtime OBVIOUS
<1>1. ticket.epoch \in Byte BY DEF KernelTypes, TicketTable, TicketServiceState
<1>2. QED BY <1>1 DEF KernelTypes, runtime, Runtime

\* The ids a message asks to cancel.
Asked(m) == IF m.op = "cancel" THEN {m.id} ELSE {}

\* The workflow advanced; then a new one began and was counted as accepted, or
\* it stayed as it was, or it was cancelled because its id was asked for.
WorkflowMoved(asked) ==
    \E u \in Runtime :
        /\ Advanced(runtime, u)
        /\ completion' = u.completion
        /\ ticket' = u.ticket /\ update_store' = u.update_store
        /\ \/ u = runtime
           \/ /\ lease' = u.lease
              /\ disk'.update = IF u.update_store = update_store THEN disk.update
                                ELSE u.update_store
        /\ \/ /\ ~workflow_is_active(u.workflow) /\ workflow_is_waiting(workflow')
              /\ workflow'.generation = workset_generation /\ accepted' = accepted + 1
           \/ workflow' = u.workflow /\ accepted' = accepted
           \/ /\ u.workflow.id \in asked /\ workflow_is_active(u.workflow)
              /\ workflow'.id = u.workflow.id /\ workflow'.state \in CancelledOutcomes
              /\ workflow'.generation = u.workflow.generation /\ accepted' = accepted

\* The file of the update store differs in what is installed only as long as
\* the staged update is still to be applied.
InstalledFollows(store, file) ==
    file.installed = store.installed \/ update_apply(store).state # store

\* What is on disk is at most one write ahead of the services in memory, unless
\* writes may be cut short.
DiskFollows == "torn" \notin Faults => /\ Moves(object_store, disk.object)
                                       /\ InstalledFollows(update_store, disk.update)

DurablesKept == "torn" \notin Faults => /\ Moves(object_store, object_store')
                                        /\ Moves(object_store', disk'.object)
                                        /\ InstalledFollows(update_store', disk'.update)

\* Nothing happening is an advance.
LEMMA AdvancedNot ==
    ASSUME NEW r \in Runtime
    PROVE  Advanced(r, r)
BY DEF Advanced, Aside, Moves

\* Ending a request touches the connections only (workflow_finish_request).
LEMMA RequestFinished ==
    ASSUME NEW r \in Runtime, NEW t \in Runtime
    PROVE  LET q == workflow_finish_request(r, t)
           IN  /\ q \in Runtime /\ q.workflow = t.workflow /\ q.completion = t.completion
               /\ q.object_store = t.object_store /\ q.update_store = t.update_store
               /\ q.lease = t.lease /\ q.ticket = t.ticket /\ q.effect = t.effect
<1> DEFINE slot == workflow_connection_slot(r.workflow)
           c == connection_request_finish(t.connection, slot, r.workflow.id)
           u == [t EXCEPT !.connection = c]
<1>1. c \in ConnectionServiceState BY ConnectionFinished DEF Runtime
<1>2. workflow_finish_request(r, t) = IF request_finished(r.workflow, t.workflow) THEN u ELSE t
  BY DEF workflow_finish_request
<1> HIDE DEF c
<1>3. /\ u \in Runtime /\ u.workflow = t.workflow /\ u.completion = t.completion
      /\ u.object_store = t.object_store /\ u.update_store = t.update_store
      /\ u.lease = t.lease /\ u.ticket = t.ticket /\ u.effect = t.effect
  BY <1>1 DEF Runtime
<1> HIDE DEF u
<1>4. QED BY <1>2, <1>3

\* What the failure or the success of the writes leaves of the object store.
LEMMA ObjectsWritten ==
    ASSUME KernelTypes, DiskFollows, NEW next \in ObjectTable, NEW ok \in BOOLEAN,
           "torn" \notin Faults => Moves(object_store, next),
           FileLeft(disk.object, object_store # next, next, fresh_disk.object, ok, disk'.object),
           object_store' = IF ok THEN next ELSE object_store
    PROVE  "torn" \notin Faults =>
               Moves(object_store, object_store') /\ Moves(object_store', disk'.object)
<1> SUFFICES ASSUME "torn" \notin Faults
             PROVE  Moves(object_store, object_store') /\ Moves(object_store', disk'.object)
  OBVIOUS
<1>1. \A t \in ObjectTable : Moves(t, t) BY DEF Moves
<1>2. object_store \in ObjectTable BY DEF KernelTypes
<1>3. Moves(object_store, next) /\ Moves(object_store, disk.object) BY DEF DiskFollows
<1>4. CASE ok BY <1>1, <1>2, <1>3, <1>4 DEF FileLeft
<1>5. CASE ~ok BY <1>1, <1>2, <1>3, <1>5 DEF FileLeft
<1>6. QED BY <1>4, <1>5

\* What it leaves of the update store, if the write is to keep what is installed
\* or to install what is staged.
LEMMA UpdateWritten ==
    ASSUME DiskFollows, NEW next, NEW ok \in BOOLEAN,
           next.installed = update_store.installed \/ next = update_apply(update_store).state,
           FileLeft(disk.update, update_store # next, next, fresh_disk.update, ok, disk'.update),
           update_store' = IF ok THEN next ELSE update_store
    PROVE  "torn" \notin Faults => InstalledFollows(update_store', disk'.update)
BY DEF DiskFollows, InstalledFollows, FileLeft

\* A message to the workflow service, with or without a lease used up first
\* (dispatch_workflow).
LEMMA Dispatched ==
    ASSUME KernelTypes, DiskFollows, NEW l \in LeaseTable, NEW r,
           Len(l.leases) <= Len(lease.leases),
           \A i \in DOMAIN l.leases : \E j \in DOMAIN lease.leases :
               l.leases[i] = lease.leases[j],
           r = [runtime EXCEPT !.lease = l], NEW m \in WorkflowMessage,
           dispatch_workflow(r, m)
    PROVE  /\ KernelTypes' /\ DurablesKept
           /\ WorkflowMoved(Asked(m))
<1> DEFINE t == step(r, m)
           next == workflow_finish_request(r, t)
<1>1. runtime \in Runtime BY RuntimeTyped
<1>2. /\ r \in Runtime /\ r.workflow = workflow /\ r.completion = completion
      /\ r.object_store = object_store /\ r.update_store = update_store
      /\ r.workset_generation = workset_generation
      /\ r.connection = runtime.connection /\ r.journal = runtime.journal
      /\ r.effect = runtime.effect /\ r.ticket_generation = runtime.ticket_generation
      /\ r.lease = l /\ r.ticket = ticket
  BY <1>1 DEF Runtime, runtime
<1>3. runtime.workflow = workflow /\ runtime.completion = completion
      /\ runtime.object_store = object_store /\ runtime.workset_generation = workset_generation
      /\ runtime.lease = lease /\ runtime.ticket = ticket /\ runtime.update_store = update_store
  BY DEF runtime
<1>4. PICK p \in persist_workflow_step(r, next) :
         /\ disk' = p.disk
         /\ commit(IF p.ok THEN next ELSE r)
         /\ accepted' = IF p.ok /\ IsSchedule(m) /\ next.effect = "Ok"
                        THEN accepted + 1 ELSE accepted
  BY DEF dispatch_workflow
<1>5. /\ workset_generation' = workset_generation
      /\ completion_generation' = completion_generation /\ restarts' = restarts
  BY DEF dispatch_workflow
<1>6. Stepped(r, m, t) BY <1>2, Steps
<1> HIDE DEF t
<1>7. t \in Runtime BY <1>6 DEF Stepped
<1>8. /\ next \in Runtime /\ next.workflow = t.workflow /\ next.completion = t.completion
      /\ next.object_store = t.object_store /\ next.update_store = t.update_store
      /\ next.lease = t.lease /\ next.ticket = t.ticket /\ next.effect = t.effect
  BY <1>2, <1>7, RequestFinished
<1> HIDE DEF next
<1>9. /\ p.ok \in BOOLEAN /\ p.disk \in DiskFiles
      /\ FileLeft(disk.object, r.object_store # next.object_store, next.object_store,
                  fresh_disk.object, p.ok, p.disk.object)
      /\ FileLeft(disk.update, r.update_store # next.update_store, next.update_store,
                  fresh_disk.update, p.ok, p.disk.update)
  BY <1>2, <1>4, <1>8, StepPersisted
<1> DEFINE done == IF p.ok THEN next ELSE r
<1>10. done \in Runtime BY <1>2, <1>8
<1>11. KernelTypes'
  <2>1. accepted' \in Nat BY <1>4 DEF KernelTypes
  <2>2. commit(done) BY <1>4
  <2> HIDE DEF done
  <2>3. QED BY <1>4, <1>5, <1>9, <1>10, <2>1, <2>2 DEF KernelTypes, commit, Runtime
<1>12. /\ completion' = IF p.ok THEN t.completion ELSE completion
       /\ workflow' = IF p.ok THEN t.workflow ELSE workflow
       /\ object_store' = IF p.ok THEN next.object_store ELSE object_store
       /\ update_store' = IF p.ok THEN next.update_store ELSE update_store
       /\ ticket' = IF p.ok THEN t.ticket ELSE ticket
       /\ lease' = IF p.ok THEN t.lease ELSE l
  BY <1>2, <1>4, <1>8 DEF commit
<1>13. PICK u \in Runtime :
         /\ Advanced(r, u)
         /\ t.object_store = u.object_store /\ t.completion = u.completion
         /\ t.update_store = u.update_store /\ t.lease = u.lease /\ t.ticket = u.ticket
         /\ \/ IsSchedule(m) /\ t.effect = "Ok" /\ Begun(u, t)
            \/ ~(IsSchedule(m) /\ t.effect = "Ok") /\ t.workflow = u.workflow
            \/ /\ m.op = "cancel" /\ m.id = u.workflow.id /\ Cancels(u, t)
               /\ t.workflow.generation = u.workflow.generation
  BY <1>6 DEF Stepped
<1>14. Advanced(runtime, u) /\ u.workset_generation = workset_generation
  <2>1. \A outcome : Earned(r, u, outcome) => Earned(runtime, u, outcome)
    <3>1. Len(l.leases) \in Nat /\ Len(lease.leases) \in Nat /\ Len(u.lease.leases) \in Nat
      BY DEF KernelTypes, Runtime, LeaseTable, LeaseServiceState
    <3>2. ASSUME SpendsTicket(r, u) PROVE SpendsTicket(runtime, u)
      <4>1. PICK i \in DOMAIN l.leases :
              LET held == l.leases[i]
              IN  /\ held.kind = LEASE_KIND_EXTERNAL_TICKET
                  /\ held.id = workflow.opcode - CONNECTION_EXTERNAL_TICKET_BASE
                  /\ held.first = ticket.epoch
                  /\ Contains(ticket.ids, held.second)
                  /\ u.ticket = [ticket EXCEPT !.ids = RemoveFirst(@, held.second)]
                  /\ Len(u.lease.leases) < Len(l.leases)
        BY <1>2, <3>2 DEF SpendsTicket
      <4>2. PICK j \in DOMAIN lease.leases : l.leases[i] = lease.leases[j] OBVIOUS
      <4>3. Len(u.lease.leases) < Len(lease.leases) BY <3>1, <4>1
      <4>4. QED BY <1>3, <4>1, <4>2, <4>3 DEF SpendsTicket
    <3>3. QED BY <1>2, <1>3, <3>2 DEF Earned
  <2>2. QED BY <1>2, <1>3, <1>13, <2>1 DEF Advanced, Aside, Settled
<1>a. \/ u.update_store = update_store
      \/ u.update_store = update_apply(update_store).state
  BY <1>3, <1>14 DEF Advanced, Earned
<1>b. p.ok => disk'.update = IF u.update_store = update_store THEN disk.update
                             ELSE u.update_store
  BY <1>2, <1>4, <1>8, <1>9, <1>13 DEF FileLeft
<1>15. DurablesKept
  <2>1. Moves(object_store, next.object_store) BY <1>2, <1>8, <1>13 DEF Advanced
  <2>2. next.object_store \in ObjectTable BY <1>8 DEF Runtime
  <2>3. "torn" \notin Faults => Moves(object_store, object_store') /\ Moves(object_store', disk'.object)
    BY <1>2, <1>4, <1>9, <1>12, <2>1, <2>2, ObjectsWritten
  <2>4. /\ \/ next.update_store.installed = update_store.installed
           \/ next.update_store = update_apply(update_store).state
        /\ FileLeft(disk.update, update_store # next.update_store, next.update_store,
                    fresh_disk.update, p.ok, disk'.update)
    BY <1>2, <1>4, <1>8, <1>9, <1>13, <1>a
  <2>5. "torn" \notin Faults => InstalledFollows(update_store', disk'.update)
    BY <1>9, <1>12, <2>4, UpdateWritten
  <2>6. QED BY <2>3, <2>5 DEF DurablesKept
<1>16. WorkflowMoved(Asked(m))
  <2>o. p.ok => /\ ticket' = u.ticket /\ update_store' = u.update_store /\ lease' = u.lease
                /\ disk'.update = IF u.update_store = update_store THEN disk.update
                                  ELSE u.update_store
    BY <1>8, <1>12, <1>13, <1>b
  <2>1. CASE ~p.ok
    <3>1. /\ runtime \in Runtime /\ Advanced(runtime, runtime)
          /\ completion' = runtime.completion /\ workflow' = runtime.workflow
          /\ accepted' = accepted
          /\ ticket' = runtime.ticket /\ update_store' = runtime.update_store
      BY <1>1, <1>3, <1>4, <1>12, <2>1, AdvancedNot
    <3>2. QED BY <3>1 DEF WorkflowMoved
  <2>2. CASE p.ok /\ IsSchedule(m) /\ t.effect = "Ok" /\ Begun(u, t)
    <3>1. accepted' = accepted + 1 /\ completion' = u.completion /\ workflow' = t.workflow
      BY <1>4, <1>8, <1>12, <1>13, <2>2
    <3>2. QED BY <1>14, <2>o, <2>2, <3>1 DEF WorkflowMoved, Begun
  <2>3. CASE p.ok /\ ~(IsSchedule(m) /\ t.effect = "Ok") /\ t.workflow = u.workflow
    <3>1. accepted' = accepted /\ completion' = u.completion /\ workflow' = u.workflow
      BY <1>4, <1>8, <1>12, <1>13, <2>3
    <3>2. QED BY <1>14, <2>o, <2>3, <3>1 DEF WorkflowMoved
  <2>4. CASE /\ p.ok /\ m.op = "cancel" /\ m.id = u.workflow.id /\ Cancels(u, t)
             /\ t.workflow.generation = u.workflow.generation
    <3>1. accepted' = accepted /\ completion' = u.completion /\ workflow' = t.workflow
      BY <1>4, <1>12, <1>13, <2>4 DEF IsSchedule
    <3>2. QED BY <1>14, <2>o, <2>4, <3>1 DEF WorkflowMoved, Cancels, Asked
  <2>5. QED BY <1>9, <1>13, <2>1, <2>2, <2>3, <2>4
<1>17. QED BY <1>11, <1>15, <1>16

\* The handoff of a request (ConnectionExecute).
LEMMA RequestHandedOver ==
    ASSUME KernelTypes, DiskFollows, NEW slot \in Slots, ConnectionExecute(slot)
    PROVE  KernelTypes' /\ DurablesKept /\ WorkflowMoved({})
<1> DEFINE prepared == connection_execute_prepare(connection, slot)
           next == workflow_step_schedule_connection(runtime, prepared.request, slot,
                                                     prepared.opcode)
<1>1. runtime \in Runtime BY RuntimeTyped
<1>2. /\ runtime.workflow = workflow /\ runtime.completion = completion
      /\ runtime.object_store = object_store
      /\ runtime.workset_generation = workset_generation
      /\ runtime.lease = lease /\ runtime.ticket = ticket /\ runtime.update_store = update_store
  BY DEF runtime
<1>3. slot \in ConnectionSlot /\ slot \in Nat
  BY KernelAssumption, ConnectionAssumption DEF ConnectionSlot
<1>4. prepared.state \in ConnectionServiceState /\ prepared.request \in Byte
      /\ prepared.opcode \in Byte
  BY <1>3, ConnectionPrepared DEF ConnectionExecute, KernelTypes
<1>5. PICK p \in persist_workflow_step(runtime, next) :
         /\ disk' = p.disk
         /\ IF p.ok /\ next.effect = "Ok"
            THEN /\ commit([next EXCEPT !.connection = prepared.state])
                 /\ accepted' = accepted + 1
            ELSE UNCHANGED << services, accepted >>
  BY DEF ConnectionExecute
<1>6. /\ workset_generation' = workset_generation
      /\ completion_generation' = completion_generation /\ restarts' = restarts
  BY DEF ConnectionExecute
<1> HIDE DEF prepared
<1>7. Answered(runtime, next) /\ (next.effect = "Ok" => Begun(runtime, next))
  BY <1>1, <1>3, <1>4, HandedOff
<1> HIDE DEF next
<1>8. /\ next \in Runtime /\ next.object_store = object_store /\ next.completion = completion
      /\ next.update_store = update_store /\ next.ticket = ticket
  BY <1>2, <1>7 DEF Answered
<1>9. /\ p.ok \in BOOLEAN /\ p.disk \in DiskFiles
      /\ FileLeft(disk.object, object_store # object_store, object_store,
                  fresh_disk.object, p.ok, p.disk.object)
      /\ FileLeft(disk.update, update_store # update_store, update_store,
                  fresh_disk.update, p.ok, p.disk.update)
  BY <1>1, <1>2, <1>5, <1>8, StepPersisted
<1> DEFINE done == [next EXCEPT !.connection = prepared.state]
<1>10. /\ done \in Runtime /\ done.object_store = object_store /\ done.completion = completion
       /\ done.workflow = next.workflow
       /\ done.update_store = update_store /\ done.ticket = ticket
  BY <1>4, <1>8 DEF Runtime
<1>11. CASE p.ok /\ next.effect = "Ok"
  <2>1. commit(done) /\ accepted' = accepted + 1 BY <1>5, <1>11
  <2> HIDE DEF done
  <2>2. KernelTypes' BY <1>5, <1>6, <1>9, <1>10, <2>1 DEF KernelTypes, commit, Runtime
  <2>3. /\ object_store' = object_store /\ completion' = runtime.completion
        /\ workflow' = next.workflow
        /\ update_store' = runtime.update_store /\ ticket' = runtime.ticket
    BY <1>2, <1>10, <2>1 DEF commit
  <2>4. DurablesKept
    <3>1. \A t : Moves(t, t) BY DEF Moves
    <3>2. object_store \in ObjectTable BY DEF KernelTypes
    <3>3. "torn" \notin Faults =>
             Moves(object_store, object_store') /\ Moves(object_store', disk'.object)
      BY <1>5, <1>9, <2>3, <3>1, <3>2, ObjectsWritten
    <3>4. "torn" \notin Faults => InstalledFollows(update_store', disk'.update)
      BY <1>2, <1>5, <1>9, <2>3, UpdateWritten
    <3>5. QED BY <3>3, <3>4 DEF DurablesKept
  <2>5. Begun(runtime, next) BY <1>7, <1>11
  <2>6. WorkflowMoved({})
    <3>1. Advanced(runtime, runtime) BY <1>1, AdvancedNot
    <3>2. /\ ~workflow_is_active(runtime.workflow) /\ workflow_is_waiting(workflow')
          /\ workflow'.generation = workset_generation
      BY <1>2, <2>3, <2>5 DEF Begun
    <3>3. QED BY <1>1, <2>1, <2>3, <3>1, <3>2 DEF WorkflowMoved
  <2>7. QED BY <2>2, <2>4, <2>6
<1>12. CASE ~(p.ok /\ next.effect = "Ok")
  <2>1. UNCHANGED << services, accepted >> BY <1>5, <1>12
  <2>2. KernelTypes' BY <1>5, <1>6, <1>9, <2>1 DEF KernelTypes, services
  <2>3. /\ object_store' = object_store /\ completion' = runtime.completion
        /\ workflow' = runtime.workflow /\ accepted' = accepted
        /\ update_store' = runtime.update_store /\ ticket' = runtime.ticket
    BY <1>2, <2>1 DEF services
  <2>4. DurablesKept
    <3>1. \A t : Moves(t, t) BY DEF Moves
    <3>2. object_store \in ObjectTable BY DEF KernelTypes
    <3>3. "torn" \notin Faults =>
             Moves(object_store, object_store') /\ Moves(object_store', disk'.object)
      BY <1>5, <1>9, <2>3, <3>1, <3>2, ObjectsWritten
    <3>4. "torn" \notin Faults => InstalledFollows(update_store', disk'.update)
      BY <1>2, <1>5, <1>9, <2>3, UpdateWritten
    <3>5. QED BY <3>3, <3>4 DEF DurablesKept
  <2>5. WorkflowMoved({})
    <3>1. Advanced(runtime, runtime) BY <1>1, AdvancedNot
    <3>2. QED BY <1>1, <2>3, <3>1 DEF WorkflowMoved
  <2>6. QED BY <2>2, <2>4, <2>5
<1>13. QED BY <1>11, <1>12

\* Steps that leave the workflow alone, of the reports take at most the first,
\* and never a lease with a ticket.
Quiet ==
    /\ workflow' = workflow /\ accepted' = accepted
    /\ lease' = lease \/ ticket' = ticket
    /\ \/ completion'.queue = completion.queue
       \/ completion.queue # << >> /\ completion'.queue = Tail(completion.queue)

\* A step that writes no file keeps what is known of the files.
LEMMA DurablesAlone ==
    ASSUME DiskFollows, object_store' = object_store, update_store' = update_store, disk' = disk
    PROVE  DurablesKept
BY DEF DiskFollows, DurablesKept, Moves

\* An update of an object by a lease (ConsumeObjectLease).
LEMMA ObjectLeaseUsed ==
    ASSUME KernelTypes, DiskFollows, NEW id, ConsumeObjectLease(id)
    PROVE  KernelTypes' /\ DurablesKept /\ (WorkflowMoved({}) \/ Quiet)
<1> DEFINE code == lease_consume_object_update(lease, id, workset_generation)
           l    == lease_consume(lease, id, code)
           next == [runtime EXCEPT !.lease = l]
           held == lease.leases[lease_find(lease, id)]
           m    == [op |-> "update", name |-> held.first, value |-> held.second,
                    version |-> held.third]
<1>1. lease \in LeaseTable /\ workset_generation \in Byte BY DEF KernelTypes
<1>2. /\ code \in {"Ok", "Stale", "Consumed", "Invalid"}
      /\ code \in {"Ok", "Stale"} => lease_find(lease, id) \in 1 .. Len(lease.leases)
  BY <1>1, ConsumedBy
<1>3. l \in LeaseTable BY <1>1, <1>2, Consumed
<1>4. IF code = "Ok" THEN dispatch_workflow(next, m)
      ELSE /\ commit(next)
           /\ UNCHANGED << workset_generation, completion_generation, disk, accepted, restarts >>
  BY DEF ConsumeObjectLease
<1> HIDE DEF code
<1>5. CASE code = "Ok"
  <2>1. held \in Lease BY <1>1, <1>2, <1>5 DEF LeaseTable, LeaseServiceState
  <2>2. m \in WorkflowMessage BY <2>1 DEF WorkflowMessage, Lease
  <2>3. dispatch_workflow(next, m) BY <1>4, <1>5
  <2>4. Asked(m) = {} BY DEF Asked
  <2>l. /\ Len(l.leases) <= Len(lease.leases)
        /\ \A i \in DOMAIN l.leases : \E j \in DOMAIN lease.leases :
              l.leases[i] = lease.leases[j]
    BY <1>1, <1>2, LeasesOnlyGo
  <2> HIDE DEF l, m
  <2>5. KernelTypes' /\ DurablesKept /\ WorkflowMoved(Asked(m))
    BY <1>3, <2>l, <2>2, <2>3, Dispatched
  <2>6. QED BY <2>4, <2>5
<1>6. CASE code # "Ok"
  <2> HIDE DEF l
  <2>1. /\ lease' = l /\ workflow' = workflow /\ timer' = timer /\ task' = task
        /\ completion' = completion /\ connection' = connection /\ ticket' = ticket
        /\ object_store' = object_store /\ update_store' = update_store
        /\ journal' = journal
    BY <1>4, <1>6 DEF commit, runtime
  <2>2. UNCHANGED << workset_generation, completion_generation, disk, accepted, restarts >>
    BY <1>4, <1>6
  <2>3. QED BY <1>3, <2>1, <2>2, DurablesAlone DEF KernelTypes, Quiet
<1>7. QED BY <1>5, <1>6

\* The messages to the services in memory: timer, task, mailbox, connection.
LEMMA VolatileMessages ==
    ASSUME KernelTypes, DiskFollows,
           \/ \E t \in UserTimers : TimerCreate(t) \/ TimerCancel(t)
           \/ TimerPoll
           \/ \E opcode \in UserTasks : TaskSubmit(opcode)
           \/ \E id \in UserEnds : TaskCancel(id) \/ TaskComplete(id)
           \/ CompletionAck
           \/ \E slot \in Slots :
                 \/ \E budget \in Budgets : ConnectionOpen(slot, budget)
                 \/ \E value \in Ingress : ConnectionReceive(slot, value)
                 \/ ConnectionSend(slot)
                 \/ \E state \in ConnectionEnds : ConnectionClose(slot, state)
    PROVE  KernelTypes' /\ DurablesKept /\ Quiet
<1>1. ASSUME NEW next \in TimerTable, TimerMsg(next)
      PROVE  KernelTypes' /\ DurablesKept /\ Quiet
  BY <1>1, DurablesAlone DEF KernelTypes, TimerMsg, LeaveGenerations, Quiet
<1>2. ASSUME NEW next \in TaskTable, TaskMsg(next)
      PROVE  KernelTypes' /\ DurablesKept /\ Quiet
  BY <1>2, DurablesAlone DEF KernelTypes, TaskMsg, LeaveGenerations, Quiet
<1>3. ASSUME NEW next \in ConnectionServiceState, ConnectionMsg(next)
      PROVE  KernelTypes' /\ DurablesKept /\ Quiet
  BY <1>3, DurablesAlone DEF KernelTypes, ConnectionMsg, LeaveGenerations, Quiet
<1>4. CASE (\E t \in UserTimers : TimerCreate(t) \/ TimerCancel(t)) \/ TimerPoll
  <2>1. timer_tick(timer) \in TimerTable BY TimerTick DEF KernelTypes
  <2>2. ASSUME NEW t \in UserTimers
        PROVE  /\ timer_create(timer_tick(timer), t.id, t.due).state \in TimerTable
               /\ timer_cancel(timer_tick(timer), t.id).state \in TimerTable
    <3>1. t.id \in Byte /\ t.due \in Byte BY KernelAssumption
    <3>2. QED BY <2>1, <3>1, TimerCreated, TimerCancelled
  <2>3. QED BY <1>1, <1>4, <2>1, <2>2 DEF TimerCreate, TimerCancel, TimerPoll
<1>5. CASE \/ \E opcode \in UserTasks : TaskSubmit(opcode)
           \/ \E id \in UserEnds : TaskCancel(id) \/ TaskComplete(id)
  <2>1. task \in TaskTable BY DEF KernelTypes
  <2>2. QED BY <1>2, <1>5, <2>1, TaskSubmitted, TaskEnded DEF TaskSubmit, TaskCancel, TaskComplete
<1>6. CASE CompletionAck
  <2>1. completion \in Mailbox BY DEF KernelTypes
  <2>2. /\ completion' \in Mailbox
        /\ \/ completion'.queue = completion.queue
           \/ completion.queue # << >> /\ completion'.queue = Tail(completion.queue)
    BY <1>6, <2>1, Taken DEF CompletionAck
  <2>3. QED BY <1>6, <2>2, DurablesAlone DEF KernelTypes, CompletionAck, LeaveGenerations, Quiet
<1>7. CASE \E slot \in Slots :
              \/ \E budget \in Budgets : ConnectionOpen(slot, budget)
              \/ \E value \in Ingress : ConnectionReceive(slot, value)
              \/ ConnectionSend(slot)
              \/ \E state \in ConnectionEnds : ConnectionClose(slot, state)
  <2>1. connection \in ConnectionServiceState BY DEF KernelTypes
  <2>2. Slots \subseteq ConnectionSlot /\ Budgets \subseteq Byte /\ Ingress \subseteq Byte
    BY KernelAssumption
  <2>3. 0 \in Byte /\ CONNECTION_STATE_INVALID \in ConnectionEnds BY Codes DEF ConnectionEnds
  <2>4. ASSUME NEW slot \in Slots, NEW value \in Byte, NEW state \in ConnectionEnds
        PROVE  {connection_open(connection, slot, value), connection_receive(connection, slot, value),
                connection_send(connection, slot), connection_close(connection, slot, state)}
                   \subseteq ConnectionServiceState
    BY <2>1, <2>2, ConnectionUsed
  <2>5. QED
    BY <1>3, <1>7, <2>2, <2>3, <2>4 DEF ConnectionOpen, ConnectionReceive, ConnectionSend, ConnectionClose
<1>8. QED BY <1>4, <1>5, <1>6, <1>7

\* Leases and tickets, which are kept in memory, and the completion a lease
\* stands for (ConsumeCompletionLease, LeaseIssue, TicketMsg).
LEMMA LeaseMessages ==
    ASSUME KernelTypes, DiskFollows,
           \/ \E id \in LeaseIds, m \in Messages :
                 m.op = "schedule" /\ ConsumeCompletionLease(id, m.id)
           \/ \E m \in Messages : m.op = "schedule" /\ IssueCompletionLease(m.id)
           \/ IssueInstallerLease
           \/ \E name \in Names, value \in Values : IssueObjectLease(name, value)
           \/ \E epoch \in Epochs, id \in LeaseIds :
                 IssueTicketLease(epoch, id) \/ TicketUse(epoch, id)
           \/ TicketIssue
    PROVE  KernelTypes' /\ DurablesKept /\ Quiet
<1>1. /\ lease \in LeaseTable /\ ticket \in TicketTable /\ completion \in Mailbox
      /\ object_store \in ObjectTable
      /\ workset_generation \in Byte /\ completion_generation \in Byte
  BY DEF KernelTypes
<1>2. /\ ticket.epoch \in Byte /\ 0 \in Byte
      /\ {LEASE_KIND_COMPLETION, LEASE_KIND_INSTALLER_APPLY, LEASE_KIND_OBJECT_UPDATE,
          LEASE_KIND_EXTERNAL_TICKET} \subseteq Byte
  BY <1>1, Codes DEF TicketTable, TicketServiceState, LEASE_KIND_COMPLETION,
     LEASE_KIND_INSTALLER_APPLY, LEASE_KIND_OBJECT_UPDATE, LEASE_KIND_EXTERNAL_TICKET
<1>3. /\ \A m \in Messages : m.op = "schedule" => m.id \in Byte
      /\ Names \subseteq Byte /\ Values \subseteq Byte
      /\ Epochs \subseteq Byte /\ LeaseIds \subseteq Byte
  BY KernelAssumption DEF WorkflowMessage, Epochs, LeaseIds
<1>4. ASSUME NEW kind \in Byte, NEW a \in Byte, NEW b \in Byte, NEW c \in Byte,
             NEW generation \in Byte, LeaseIssue(kind, <<a, b, c>>, generation)
      PROVE  KernelTypes' /\ DurablesKept /\ Quiet
  <2>1. lease' \in LeaseTable BY <1>1, <1>4, LeaseIssued DEF LeaseIssue
  <2>2. QED BY <1>4, <2>1, DurablesAlone DEF KernelTypes, LeaseIssue, LeaveGenerations, Quiet
<1>5. ASSUME NEW next \in TicketTable, TicketMsg(next)
      PROVE  KernelTypes' /\ DurablesKept /\ Quiet
  BY <1>5, DurablesAlone DEF KernelTypes, TicketMsg, LeaveGenerations, Quiet
<1>6. ASSUME NEW id, NEW wf, ConsumeCompletionLease(id, wf)
      PROVE  KernelTypes' /\ DurablesKept /\ Quiet
  <2> DEFINE code == lease_consume_completion(lease, id, wf, completion_generation)
  <2>1. code \in {"Ok", "Stale"} => lease_find(lease, id) \in 1 .. Len(lease.leases)
    BY <1>1, ConsumedBy
  <2>2. lease' = lease_consume(lease, id, code)
        /\ completion' = IF code = "Ok" THEN completion_mailbox_take(completion, wf) ELSE completion
    BY <1>6 DEF ConsumeCompletionLease
  <2> HIDE DEF code
  <2>3. lease' \in LeaseTable BY <1>1, <2>1, <2>2, Consumed
  <2>4. /\ completion' \in Mailbox
        /\ \/ completion'.queue = completion.queue
           \/ completion.queue # << >> /\ completion'.queue = Tail(completion.queue)
    BY <1>1, <2>2, Taken
  <2>5. QED BY <1>6, <2>3, <2>4, DurablesAlone DEF KernelTypes, ConsumeCompletionLease, Quiet
<1>7. CASE \E id \in LeaseIds, m \in Messages :
              m.op = "schedule" /\ ConsumeCompletionLease(id, m.id)
  BY <1>6, <1>7
<1>8. CASE \E m \in Messages : m.op = "schedule" /\ IssueCompletionLease(m.id)
  BY <1>1, <1>2, <1>3, <1>4, <1>8 DEF IssueCompletionLease
<1>9. CASE IssueInstallerLease
  BY <1>1, <1>2, <1>4, <1>9 DEF IssueInstallerLease
<1>10. CASE \E name \in Names, value \in Values : IssueObjectLease(name, value)
  <2>1. PICK name \in Names, value \in Values : IssueObjectLease(name, value) BY <1>10
  <2>2. object_current_version(object_store, name) \in Byte
    BY <1>1, <1>2 DEF object_current_version, ObjectTable, Object
  <2>3. QED BY <1>1, <1>2, <1>3, <1>4, <2>1, <2>2 DEF IssueObjectLease
<1>11. CASE \E epoch \in Epochs, id \in LeaseIds :
               IssueTicketLease(epoch, id) \/ TicketUse(epoch, id)
  <2>1. PICK epoch \in Epochs, id \in LeaseIds :
               IssueTicketLease(epoch, id) \/ TicketUse(epoch, id)
    BY <1>11
  <2>2. CASE IssueTicketLease(epoch, id)
    BY <1>2, <1>3, <1>4, <2>2 DEF IssueTicketLease
  <2>3. CASE TicketUse(epoch, id) BY <1>1, <1>5, <2>3, TicketKept DEF TicketUse
  <2>4. QED BY <2>1, <2>2, <2>3
<1>12. CASE TicketIssue BY <1>1, <1>5, <1>12, TicketKept DEF TicketIssue
<1>13. ASSUME \/ \E id \in LeaseIds, m \in Messages :
                    m.op = "schedule" /\ ConsumeCompletionLease(id, m.id)
              \/ \E m \in Messages : m.op = "schedule" /\ IssueCompletionLease(m.id)
              \/ IssueInstallerLease
              \/ \E name \in Names, value \in Values : IssueObjectLease(name, value)
              \/ \E epoch \in Epochs, id \in LeaseIds :
                    IssueTicketLease(epoch, id) \/ TicketUse(epoch, id)
              \/ TicketIssue
       PROVE  KernelTypes' /\ DurablesKept /\ Quiet
  BY <1>7, <1>8, <1>9, <1>10, <1>11, <1>12, <1>13
<1>14. QED BY <1>13

\* The durable services write their file before they answer (ObjectMsg,
\* UpdateMsg, JournalMsg).
LEMMA DurableMessages ==
    ASSUME KernelTypes, DiskFollows,
           \/ \E name \in Names, value \in Values :
                 ObjectCreate(name, value) \/ ObjectReplace(name, value)
           \/ \E value \in Artifacts : UpdateStage(value)
           \/ \E m \in Manifests : UpdateManifest(m)
           \/ UpdateClear
           \/ \E b \in LaneBytes : JournalAppend(b) \/ JournalClear(b.lane)
    PROVE  KernelTypes' /\ DurablesKept /\ Quiet
<1> DEFINE start == [ok |-> TRUE, disk |-> disk]
<1>1. /\ object_store \in ObjectTable /\ update_store \in UpdateTable
      /\ journal \in JournalTable /\ disk \in DiskFiles
  BY DEF KernelTypes
<1>2. start \in [ok : BOOLEAN, disk : DiskFiles] /\ start.disk = disk /\ start.ok
  BY <1>1
<1>3. ASSUME NEW next \in ObjectTable, "torn" \notin Faults => Moves(object_store, next),
             ObjectMsg(next)
      PROVE  KernelTypes' /\ DurablesKept /\ Quiet
  <2>1. PICK p \in write_all(start, next # object_store, "object", next) :
           disk' = p.disk /\ object_store' = IF p.ok THEN next ELSE object_store
    BY <1>3 DEF ObjectMsg
  <2> DEFINE changed == next # object_store
  <2>2. [start.disk EXCEPT !["object"] = next] \in DiskFiles BY <1>1, <1>3 DEF DiskFiles
  <2>3. changed \in BOOLEAN OBVIOUS
  <2>4. p \in write_all(start, changed, "object", next) BY <2>1
  <2> HIDE DEF start, changed
  <2>5. /\ p \in [ok : BOOLEAN, disk : DiskFiles]
        /\ FileLeft(disk.object, next # object_store, next, fresh_disk.object, p.ok, p.disk.object)
        /\ p.disk["update"] = disk["update"]
    <3>1. /\ p \in [ok : BOOLEAN, disk : DiskFiles]
          /\ \A f \in {"object", "journal", "update"} : f # "object" => p.disk[f] = start.disk[f]
          /\ FileLeft(start.disk["object"], changed, next, fresh_disk["object"], p.ok,
                      p.disk["object"])
      BY <1>2, <2>2, <2>3, <2>4, Written
    <3>2. QED BY <1>2, <3>1 DEF changed
  <2>6. FileLeft(disk.object, object_store # next, next, fresh_disk.object, p.ok, disk'.object)
    BY <2>1, <2>5 DEF FileLeft
  <2>7. DurablesKept
    <3>1. "torn" \notin Faults =>
             Moves(object_store, object_store') /\ Moves(object_store', disk'.object)
      BY <1>3, <2>1, <2>5, <2>6, ObjectsWritten
    <3>2. update_store' = update_store /\ disk'.update = disk.update
      BY <1>3, <2>1, <2>5 DEF ObjectMsg
    <3>3. QED BY <3>1, <3>2 DEF DurablesKept, DiskFollows
  <2>8. object_store' \in ObjectTable /\ disk' \in DiskFiles BY <1>1, <1>3, <2>1, <2>5
  <2>9. QED BY <1>3, <2>7, <2>8 DEF KernelTypes, ObjectMsg, LeaveGenerations, Quiet
<1>4. ASSUME NEW next \in UpdateTable, next.installed = update_store.installed, UpdateMsg(next)
      PROVE  KernelTypes' /\ DurablesKept /\ Quiet
  <2>1. PICK p \in update_store_persist(start, next # update_store, next) :
           disk' = p.disk /\ update_store' = IF p.ok THEN next ELSE update_store
    BY <1>4 DEF UpdateMsg
  <2>2. (next # update_store) \in BOOLEAN OBVIOUS
  <2> HIDE DEF start
  <2>3. /\ p \in [ok : BOOLEAN, disk : DiskFiles] /\ p.disk.object = disk.object
        /\ FileLeft(disk.update, next # update_store, next, fresh_disk.update, p.ok, p.disk.update)
    BY <1>2, <1>4, <2>1, <2>2, UpdatePersisted
  <2>4. object_store' = object_store BY <1>4 DEF UpdateMsg
  <2>5. DurablesKept
    <3>1. FileLeft(disk.update, update_store # next, next, fresh_disk.update, p.ok, disk'.update)
      BY <2>1, <2>3 DEF FileLeft
    <3>2. "torn" \notin Faults => InstalledFollows(update_store', disk'.update)
      BY <1>4, <2>1, <2>3, <3>1, UpdateWritten
    <3>3. QED BY <2>1, <2>3, <2>4, <3>2 DEF DiskFollows, DurablesKept, Moves
  <2>6. update_store' \in UpdateTable /\ disk' \in DiskFiles BY <1>1, <1>4, <2>1, <2>3
  <2>7. QED BY <1>4, <2>5, <2>6 DEF KernelTypes, UpdateMsg, LeaveGenerations, Quiet
<1>5. ASSUME NEW next \in JournalTable, JournalMsg(next)
      PROVE  KernelTypes' /\ DurablesKept /\ Quiet
  <2>1. PICK p \in write_all(start, next # journal, "journal", next) :
           disk' = p.disk /\ journal' = IF p.ok THEN next ELSE journal
    BY <1>5 DEF JournalMsg
  <2> DEFINE changed == next # journal
  <2>2. [start.disk EXCEPT !["journal"] = next] \in DiskFiles BY <1>1, <1>5 DEF DiskFiles
  <2>3. changed \in BOOLEAN OBVIOUS
  <2>4. p \in write_all(start, changed, "journal", next) BY <2>1
  <2> HIDE DEF start, changed
  <2>5. /\ p \in [ok : BOOLEAN, disk : DiskFiles] /\ p.disk.object = disk.object
        /\ p.disk.update = disk.update
    <3>1. /\ p \in [ok : BOOLEAN, disk : DiskFiles]
          /\ \A f \in {"object", "journal", "update"} : f # "journal" => p.disk[f] = start.disk[f]
      BY <1>2, <2>2, <2>3, <2>4, Written
    <3>2. QED BY <1>2, <3>1
  <2>6. object_store' = object_store /\ update_store' = update_store BY <1>5 DEF JournalMsg
  <2>7. DurablesKept BY <2>1, <2>5, <2>6 DEF DiskFollows, DurablesKept, Moves
  <2>8. journal' \in JournalTable /\ disk' \in DiskFiles BY <1>1, <1>5, <2>1, <2>5
  <2>9. QED BY <1>5, <2>7, <2>8 DEF KernelTypes, JournalMsg, LeaveGenerations, Quiet
<1>6. CASE \E name \in Names, value \in Values :
              ObjectCreate(name, value) \/ ObjectReplace(name, value)
  <2>1. PICK name \in Names, value \in Values :
              ObjectCreate(name, value) \/ ObjectReplace(name, value)
    BY <1>6
  <2>2. name \in Byte /\ value \in Byte BY KernelAssumption
  <2>3. CASE ObjectCreate(name, value)
    <3>1. object_create(object_store, name, value).state \in ObjectTable
          /\ Moves(object_store, object_create(object_store, name, value).state)
      BY <1>1, <2>2, ObjectCreated DEF Moves
    <3>2. QED BY <1>3, <2>3, <3>1 DEF ObjectCreate
  <2>4. CASE ObjectReplace(name, value)
    <3>1. object_replace(object_store, name, value).state \in ObjectTable
          /\ Moves(object_store, object_replace(object_store, name, value).state)
      BY <1>1, <2>2, ObjectReplaced
    <3>2. QED BY <1>3, <2>4, <3>1 DEF ObjectReplace
  <2>5. QED BY <2>1, <2>3, <2>4
<1>7. CASE (\E value \in Artifacts : UpdateStage(value)) \/ UpdateClear
           \/ \E m \in Manifests : UpdateManifest(m)
  <2>1. ASSUME NEW value \in Byte, NEW version \in Byte, NEW len \in Byte
        PROVE  /\ update_stage(update_store, value).state \in UpdateTable
               /\ update_record_manifest(update_store, version, len).state \in UpdateTable
               /\ update_clear(update_store) \in UpdateTable
               /\ \A new \in {update_stage(update_store, value).state, update_clear(update_store),
                              update_record_manifest(update_store, version, len).state} :
                     new.installed = update_store.installed
    <3>1. \A new \in {update_stage(update_store, value).state, update_clear(update_store),
                      update_record_manifest(update_store, version, len).state} :
             new.installed = update_store.installed
      BY <1>1 DEF UpdateTable, UpdateStoreServiceState, update_stage, update_clear,
         update_record_manifest
    <3>2. QED BY <1>1, <3>1, UpdateKept
  <2>2. /\ Artifacts \subseteq Byte /\ 0 \in Byte
        /\ \A m \in Manifests : m.version \in Byte /\ m.expected_len \in Byte
    BY KernelAssumption, Codes
  <2>3. QED BY <1>4, <1>7, <2>1, <2>2 DEF UpdateStage, UpdateManifest, UpdateClear
<1>8. CASE \E b \in LaneBytes : JournalAppend(b) \/ JournalClear(b.lane)
  <2>1. PICK b \in LaneBytes : JournalAppend(b) \/ JournalClear(b.lane) BY <1>8
  <2>2. b.lane \in {JOURNAL_LANE_A, JOURNAL_LANE_B} /\ b.value \in Byte
    BY KernelAssumption
  <2>3. << >> \in Seq(Byte) /\ Len(<< >>) <= JOURNAL_RECORD_CAPACITY
    BY DEF JOURNAL_RECORD_CAPACITY
  <2>4. journal_append(journal, b.lane, b.value) \in JournalTable
        /\ journal_clear(journal, b.lane) \in JournalTable
    BY <1>1, <2>2, <2>3, JournalKept
  <2>5. QED BY <1>5, <2>1, <2>4 DEF JournalAppend, JournalClear
<1>9. QED BY <1>6, <1>7, <1>8
-----------------------------------------------------------------------------
(* Restarts, and every step.                                                 *)

\* The workflow service reloads its record and rearms its timer.
LEMMA WorkflowRestarts ==
    ASSUME KernelTypes, DiskFollows, restart_workflow
    PROVE  KernelTypes' /\ DurablesKept
<1>1. runtime \in Runtime /\ timer \in TimerTable BY RuntimeTyped DEF KernelTypes
<1>2. workflow' \in WorkflowRecord BY <1>1, Reloaded DEF restart_workflow
<1>3. WORKFLOW_TIMER_ID \in Byte BY Codes DEF WORKFLOW_TIMER_ID
<1>4. workflow_restart_timer_due(workflow') \in Byte
  <2>1. workflow'.due \in Byte BY <1>2 DEF WorkflowRecord, WorkflowServiceState
  <2>2. u8(workflow'.due + 1) \in Byte
    <3>1. workflow'.due + 1 \in Nat BY <2>1, U8Assumption DEF Byte
    <3>2. QED BY <3>1, U8Facts
  <2>3. WORKFLOW_OBJECT_UPDATE_DELAY \in Byte /\ WORKFLOW_UPDATE_APPLY_DELAY \in Byte
    BY Codes DEF WORKFLOW_OBJECT_UPDATE_DELAY, WORKFLOW_UPDATE_APPLY_DELAY
  <2>4. ~(workflow_is_object_update(workflow') /\ workflow_is_update_apply(workflow'))
    BY DEF workflow_is_object_update, workflow_is_update_apply, workflow_is_kind,
       WORKFLOW_KIND_OBJECT_UPDATE, WORKFLOW_KIND_UPDATE_APPLY
  <2>5. QED BY <2>2, <2>3, <2>4 DEF workflow_restart_timer_due
<1>5. timer' \in TimerTable
  BY <1>1, <1>3, <1>4, TimerCreated, TimerCancelled DEF restart_workflow
<1>6. restarts' \in Nat /\ UNCHANGED << disk, accepted >>
  BY DEF restart_workflow, Restart, KernelTypes
<1>7. QED BY <1>2, <1>5, <1>6, DurablesAlone DEF restart_workflow, KernelTypes

\* The other services start fresh or from their file.
LEMMA OtherRestarts ==
    ASSUME KernelTypes, DiskFollows,
           \/ restart_task \/ restart_connection \/ restart_completion_mailbox
           \/ restart_lease \/ restart_ticket \/ restart_durable \/ restart_retained_workset
    PROVE  KernelTypes' /\ DurablesKept /\ Quiet
<1>1. ASSUME NEW service, Restart(service)
      PROVE  restarts' \in Nat /\ disk' = disk /\ accepted' = accepted
  BY <1>1 DEF Restart, KernelTypes
<1>2. ASSUME NEW n \in Byte PROVE u8(n + 1) \in Byte
  <2>1. n + 1 \in Nat BY U8Assumption DEF Byte
  <2>2. QED BY <2>1, U8Facts
<1>3. CASE restart_task
  BY <1>1, <1>3, FreshTables, DurablesAlone DEF restart_task, KernelTypes, Quiet
<1>4. CASE restart_connection
  BY <1>1, <1>4, FreshTables, DurablesAlone DEF restart_connection, KernelTypes, Quiet
<1>5. CASE restart_completion_mailbox
  <2>1. completion \in Mailbox /\ completion_generation \in Byte BY DEF KernelTypes
  <2>2. completion' \in Mailbox /\ completion'.queue = completion.queue
    BY <1>5, <2>1, Taken DEF restart_completion_mailbox, completion_mailbox_reload
  <2>3. completion_generation' \in Byte BY <1>2, <1>5, <2>1 DEF restart_completion_mailbox
  <2>4. QED BY <1>1, <1>5, <2>2, <2>3, DurablesAlone DEF restart_completion_mailbox, KernelTypes, Quiet
<1>6. CASE restart_lease
  BY <1>1, <1>6, FreshTables, DurablesAlone DEF restart_lease, KernelTypes, Quiet
<1>7. CASE restart_ticket
  <2>1. ticket.epoch \in Byte BY DEF KernelTypes, TicketTable, TicketServiceState
  <2>2. ticket' \in TicketTable BY <1>2, <1>7, <2>1, FreshTables DEF restart_ticket
  <2>3. QED BY <1>1, <1>7, <2>2, DurablesAlone DEF restart_ticket, KernelTypes, Quiet
<1>8. CASE restart_durable
  <2>1. disk' = disk /\ accepted' = accepted /\ restarts' \in Nat
    BY <1>1, <1>8 DEF restart_durable
  <2>2. /\ disk.object \in ObjectTable /\ disk.update \in UpdateTable /\ disk.journal \in JournalTable
    BY DEF KernelTypes, DiskFiles
  <2>3. KernelTypes'
    BY <1>8, <2>1, <2>2 DEF restart_durable, KernelTypes
  <2>4. /\ object_store' = object_store \/ object_store' = disk.object
        /\ update_store' = update_store \/ update_store' = disk.update
    BY <1>8 DEF restart_durable
  <2>5. DurablesKept
    BY <2>1, <2>4 DEF DiskFollows, DurablesKept, Moves, InstalledFollows
  <2>6. QED BY <1>8, <2>1, <2>3, <2>5 DEF restart_durable, Quiet
<1>9. CASE restart_retained_workset
  <2>1. workset_generation' \in Byte
    BY <1>2, <1>9 DEF restart_retained_workset, KernelTypes
  <2>2. QED BY <1>1, <1>9, <2>1, DurablesAlone DEF restart_retained_workset, services, KernelTypes, Quiet
<1>10. QED BY <1>3, <1>4, <1>5, <1>6, <1>7, <1>8, <1>9

\* Every step of the kernel: a message to the workflow service, a request or a
\* lease handed to it, its restart, or a step that leaves the workflow alone.
LEMMA KernelSteps ==
    ASSUME KernelTypes, DiskFollows, [Next]_vars
    PROVE  /\ KernelTypes' /\ DurablesKept
           /\ \/ \E m \in Messages : WorkflowMsg(m) /\ WorkflowMoved(Asked(m))
              \/ WorkflowMoved({})
              \/ restart_workflow
              \/ Quiet
<1>1. CASE \E m \in Messages : WorkflowMsg(m)
  <2>1. PICK m \in Messages : WorkflowMsg(m) BY <1>1
  <2>2. m \in WorkflowMessage BY KernelAssumption
  <2>3. lease \in LeaseTable /\ runtime = [runtime EXCEPT !.lease = lease]
    BY DEF KernelTypes, runtime
  <2>l. /\ Len(lease.leases) <= Len(lease.leases)
        /\ \A i \in DOMAIN lease.leases : \E j \in DOMAIN lease.leases :
              lease.leases[i] = lease.leases[j]
    BY <2>3 DEF LeaseTable, LeaseServiceState
  <2>4. dispatch_workflow(runtime, m) BY <2>1 DEF WorkflowMsg
  <2>5. QED BY <2>1, <2>2, <2>3, <2>l, <2>4, Dispatched
<1>2. CASE \E slot \in Slots : ConnectionExecute(slot) BY <1>2, RequestHandedOver
<1>3. CASE \E id \in LeaseIds : ConsumeObjectLease(id) BY <1>3, ObjectLeaseUsed
<1>4. CASE \/ \E t \in UserTimers : TimerCreate(t) \/ TimerCancel(t)
           \/ TimerPoll
           \/ \E opcode \in UserTasks : TaskSubmit(opcode)
           \/ \E id \in UserEnds : TaskCancel(id) \/ TaskComplete(id)
           \/ CompletionAck
           \/ \E slot \in Slots :
                 \/ \E budget \in Budgets : ConnectionOpen(slot, budget)
                 \/ \E value \in Ingress : ConnectionReceive(slot, value)
                 \/ ConnectionSend(slot)
                 \/ \E state \in ConnectionEnds : ConnectionClose(slot, state)
  BY <1>4, VolatileMessages
<1>5. CASE \/ \E id \in LeaseIds, m \in Messages :
                 m.op = "schedule" /\ ConsumeCompletionLease(id, m.id)
           \/ \E m \in Messages : m.op = "schedule" /\ IssueCompletionLease(m.id)
           \/ IssueInstallerLease
           \/ \E name \in Names, value \in Values : IssueObjectLease(name, value)
           \/ \E epoch \in Epochs, id \in LeaseIds :
                 IssueTicketLease(epoch, id) \/ TicketUse(epoch, id)
           \/ TicketIssue
  BY <1>5, LeaseMessages
<1>6. CASE \/ \E name \in Names, value \in Values :
                 ObjectCreate(name, value) \/ ObjectReplace(name, value)
           \/ \E value \in Artifacts : UpdateStage(value)
           \/ \E m \in Manifests : UpdateManifest(m)
           \/ UpdateClear
           \/ \E b \in LaneBytes : JournalAppend(b) \/ JournalClear(b.lane)
  BY <1>6, DurableMessages
<1>7. CASE restart_workflow BY <1>7, WorkflowRestarts
<1>8. CASE \/ restart_task \/ restart_connection \/ restart_completion_mailbox
           \/ restart_lease \/ restart_ticket \/ restart_durable \/ restart_retained_workset
  BY <1>8, OtherRestarts
<1>9. CASE UNCHANGED vars
  BY <1>9, DurablesAlone DEF vars, services, KernelTypes, Quiet
<1>10. QED BY <1>1, <1>2, <1>3, <1>4, <1>5, <1>6, <1>7, <1>8, <1>9 DEF Next
-----------------------------------------------------------------------------
(* The theorems.                                                             *)

\* The inductive invariant.
KernelInv == KernelTypes /\ DiskFollows

\* It holds of every state of the kernel.
LEMMA KernelInductive == Spec => []KernelInv
<1>1. Init => KernelInv
  <2>1. Init => DiskFollows BY DEF Init, fresh_disk, DiskFollows, Moves, InstalledFollows
  <2>2. QED BY <2>1, KernelInit DEF KernelInv
<1>2. KernelInv /\ [Next]_vars => KernelInv'
  <2>1. KernelInv /\ [Next]_vars => KernelTypes' /\ DurablesKept
    BY KernelSteps DEF KernelInv
  <2>2. QED BY <2>1 DEF KernelInv, DurablesKept, DiskFollows
<1>3. QED BY <1>1, <1>2, PTL DEF Spec

\* Whatever the clients send and whatever restarts or fails, every state the
\* kernel commits and every file it leaves is one the services can represent.
THEOREM TypeCorrect == Spec => []TypeOK
<1>1. KernelInv => TypeOK
  <2> SUFFICES ASSUME KernelTypes PROVE TypeOK BY DEF KernelInv
  <2>1. /\ workflow \in WorkflowServiceState
        /\ timer \in TimerServiceState /\ Len(timer) <= TIMER_CAPACITY
        /\ task \in TaskServiceState /\ Len(task.tasks) <= TASK_CAPACITY
        /\ completion \in CompletionMailboxServiceState
        /\ Len(completion.queue) <= MAILBOX_CAPACITY
        /\ connection \in ConnectionServiceState
        /\ lease \in LeaseServiceState /\ Len(lease.leases) <= LEASE_CAPACITY
        /\ ticket \in TicketServiceState /\ Len(ticket.ids) <= TICKET_CAPACITY
        /\ {workset_generation, completion_generation} \subseteq Byte
        /\ {accepted, restarts} \subseteq Nat
    BY DEF KernelTypes, WorkflowRecord, TimerTable, TaskTable, Mailbox, LeaseTable, TicketTable
  <2>2. ASSUME NEW s \in ObjectTable
        PROVE  IsObjectStore(s) /\ Cardinality(DOMAIN s) <= OBJECT_STORE_CAPACITY
    BY DEF ObjectTable, IsObjectStore, Range
  <2>3. ASSUME NEW s \in UpdateTable
        PROVE  /\ s \in UpdateStoreServiceState
               /\ {Len(s.data), Len(s.installed.data)} \subseteq 0 .. UPDATE_ARTIFACT_CAPACITY
    BY UpdateAssumption DEF UpdateTable, UpdateStoreServiceState, Artifact, Installed
  <2>4. ASSUME NEW s \in JournalTable
        PROVE  s \in JournalServiceState
               /\ \A name \in DOMAIN s : Len(s[name]) <= JOURNAL_RECORD_CAPACITY
    BY DEF JournalTable, JournalServiceState
  <2>5. /\ {object_store, disk.object} \subseteq ObjectTable
        /\ {update_store, disk.update} \subseteq UpdateTable
        /\ {journal, disk.journal} \subseteq JournalTable
    BY DEF KernelTypes, DiskFiles
  <2>6. QED BY <2>1, <2>2, <2>3, <2>4, <2>5 DEF TypeOK
<1>2. QED BY <1>1, KernelInductive, PTL

\* A restart of the workflow service resumes only a workflow of the work set's
\* generation that lane B still holds, and no step moves the generation of a
\* workflow under way (workflow_step_schedule, workflow_restart_reload).
THEOREM StaleNotResumed == Spec => ResumedOnlyIfCurrent
<1> DEFINE Kept == workflow'.generation = workflow.generation
           Current == /\ workflow.generation = workset_generation
                      /\ journal[JOURNAL_LANE_B] = workflow_lane_bytes(workflow)
<1>1. KernelInv /\ [Next]_vars =>
         (executing /\ executing' /\ accepted' = accepted
            => Kept /\ (restart_workflow => Current))
  <2> SUFFICES ASSUME KernelInv, [Next]_vars, executing, executing', accepted' = accepted
               PROVE  Kept /\ (restart_workflow => Current)
    OBVIOUS
  <2>1. /\ runtime.workflow = workflow /\ runtime \in Runtime
        /\ runtime.workset_generation = workset_generation /\ runtime.journal = journal
    BY RuntimeTyped DEF runtime, KernelInv
  <2>2. accepted \in Nat BY DEF KernelInv, KernelTypes
  <2>3. ASSUME NEW asked, WorkflowMoved(asked)
        PROVE  Kept
    <3>1. PICK u \in Runtime :
             /\ Advanced(runtime, u)
             /\ \/ accepted' = accepted + 1
                \/ workflow' = u.workflow
                \/ workflow'.generation = u.workflow.generation
      BY <2>3 DEF WorkflowMoved
    <3>2. QED BY <2>1, <2>2, <3>1 DEF Advanced
  <2>4. CASE restart_workflow
    <3>1. workflow' = workflow_restart_reload(runtime) BY <2>4 DEF restart_workflow
    <3>2. Executing(workflow) /\ Executing(workflow') BY DEF executing, Executing
    <3>3. Kept /\ ~workflow_restart_cancels(runtime, workflow)
      BY <2>1, <3>1, <3>2, Reloaded
    <3>4. Current BY <2>1, <3>3 DEF workflow_restart_cancels
    <3>5. QED BY <3>3, <3>4
  <2>5. CASE Quiet /\ ~restart_workflow BY <2>5 DEF Quiet
  <2>6. QED BY <2>3, <2>4, <2>5, KernelSteps DEF KernelInv
<1>2. QED BY <1>1, KernelInductive, PTL DEF Spec, ResumedOnlyIfCurrent

\* A workflow ends without a report only if a client cancels it by its id, or
\* if the workflow service restarts and gives a task workflow up
\* (workflow_step_cancel, workflow_restart_reload).
THEOREM SilentOnlyIfCancelled == Spec => CancelOnlyWhenAsked
<1> DEFINE Right ==
             Unreported =>
                 \/ \E m \in Messages : /\ m.op = "cancel"
                                        /\ m.id = workflow.id
                                        /\ WorkflowMsg(m)
                 \/ /\ restart_workflow
                    /\ workflow.kind = WORKFLOW_KIND_TASK
                    /\ workflow_restart_cancels(runtime, workflow)
<1>1. KernelInv /\ [Next]_vars => Right
  <2> SUFFICES ASSUME KernelInv, [Next]_vars, Unreported
               PROVE  \/ \E m \in Messages : m.op = "cancel" /\ m.id = workflow.id /\ WorkflowMsg(m)
                      \/ /\ restart_workflow
                         /\ workflow.kind = WORKFLOW_KIND_TASK
                         /\ workflow_restart_cancels(runtime, workflow)
    OBVIOUS
  <2>1. runtime.workflow = workflow /\ runtime.completion = completion /\ runtime \in Runtime
    BY RuntimeTyped DEF runtime, KernelInv
  <2>2. /\ workflow_is_active(workflow) /\ ~workflow_is_active(workflow')
        /\ completion'.queue = completion.queue
    BY DEF Unreported, workflow_is_active, workflow_is_waiting, workflow_is_running,
       workflow_is_delivering
  <2>3. completion.queue \in Seq(Completion)
    BY DEF KernelInv, KernelTypes, Mailbox, CompletionMailboxServiceState
  <2>4. ASSUME NEW asked, WorkflowMoved(asked)
        PROVE  workflow.id \in asked
    <3>1. PICK u \in Runtime :
             /\ Advanced(runtime, u)
             /\ completion' = u.completion
             /\ \/ workflow_is_waiting(workflow')
                \/ workflow' = u.workflow
                \/ u.workflow.id \in asked
      BY <2>4 DEF WorkflowMoved
    <3>2. u.workflow.id = workflow.id BY <2>1, <3>1 DEF Advanced
    <3>3. CASE workflow_is_waiting(workflow') BY <2>2, <3>3 DEF workflow_is_active
    <3>4. CASE workflow' = u.workflow
      <4>1. CASE \E outcome \in Outcomes : Settled(runtime, u, workflow.id, outcome)
        <5>1. PICK outcome \in Outcomes : Settled(runtime, u, workflow.id, outcome) BY <4>1
        <5>2. u.workflow.state # WORKFLOW_STATE_DELIVERING
          BY <2>2, <3>4 DEF workflow_is_active, workflow_is_delivering
        <5>3. PICK c \in Completion : u.completion.queue = Append(completion.queue, c)
          BY <2>1, <5>1, <5>2 DEF Settled
        <5>4. Len(Append(completion.queue, c)) = Len(completion.queue) + 1
              /\ Len(completion.queue) \in Nat
          BY <2>3
        <5>5. QED BY <2>2, <3>1, <5>3, <5>4
      <4>2. CASE u.workflow = workflow \/ Executing(u.workflow)
        BY <2>2, <3>4, <4>2 DEF Executing, workflow_is_active
      <4>3. QED BY <2>1, <3>1, <4>1, <4>2 DEF Advanced
    <3>5. QED BY <3>1, <3>2, <3>3, <3>4
  <2>5. ASSUME NEW m \in Messages, WorkflowMsg(m), WorkflowMoved(Asked(m))
        PROVE  m.op = "cancel" /\ m.id = workflow.id
    BY <2>4, <2>5 DEF Asked
  <2>6. CASE restart_workflow
    <3>1. workflow' = workflow_restart_reload(runtime) BY <2>6 DEF restart_workflow
    <3>2. QED BY <2>1, <2>2, <2>6, <3>1, Reloaded
  <2>7. CASE Quiet BY <2>2, <2>7 DEF Quiet
  <2>8. QED BY <2>4, <2>5, <2>6, <2>7, KernelSteps DEF KernelInv
<1> HIDE DEF Right
<1>2. Spec => [][Right]_vars BY <1>1, KernelInductive, PTL DEF Spec
<1>3. QED BY <1>2, PTL DEF CancelOnlyWhenAsked, Right

\* If writes are not cut short, an object never disappears and its version
\* moves exactly if its value changes, also when the object store restarts from
\* what a failed write left (object_replace, write_all).
THEOREM VersionsMoveOn == "torn" \notin Faults /\ Spec => ObjectsMoveOn
<1> SUFFICES ASSUME "torn" \notin Faults PROVE Spec => ObjectsMoveOn OBVIOUS
<1>1. KernelInv /\ [Next]_vars => Moves(object_store, object_store')
  BY KernelSteps DEF KernelInv, DurablesKept
<1>2. Moves(object_store, object_store') =>
         \A name \in DOMAIN object_store :
             /\ name \in DOMAIN object_store'
             /\ LET before == object_store[name]
                    after  == object_store'[name]
                IN  after.version = IF after.value = before.value THEN before.version
                                    ELSE object_next_version(before.version)
  BY DEF Moves
<1>3. QED BY <1>1, <1>2, KernelInductive, PTL DEF Spec, ObjectsMoveOn

\* A step that settles an executing workflow with an outcome advances it, and
\* the outcome is earned by that advance, unless the workflow service restarts
\* and cancels it (workflow_deliver_completion, workflow_restart_reload).
LEMMA SettledEarned ==
    ASSUME KernelInv, [Next]_vars, NEW outcome \in Earnings, Settles(outcome)
    PROVE  \E u \in Runtime :
              /\ Executing(workflow) /\ Earned(runtime, u, outcome)
              /\ ticket' = u.ticket /\ lease' = u.lease /\ update_store' = u.update_store
              /\ disk'.update = IF u.update_store = update_store THEN disk.update
                                ELSE u.update_store
<1> DEFINE q == completion.queue
           q1 == completion'.queue
<1>1. /\ runtime \in Runtime /\ runtime.workflow = workflow /\ runtime.completion = completion
      /\ q \in Seq(Completion)
  BY RuntimeTyped DEF runtime, KernelInv, KernelTypes, Mailbox, CompletionMailboxServiceState
<1>2. /\ Executing(workflow)
      /\ \/ Len(q1) > Len(q) /\ Last(q1).state = outcome
         \/ workflow_is_delivering(workflow') /\ workflow'.task = outcome
  BY DEF Settles, executing, Executing, workflow_is_delivering
<1>3. \A s : ~(workflow_is_delivering(s) /\ Executing(s))
  BY OutcomeCodes DEF Executing, workflow_is_delivering, workflow_is_waiting, workflow_is_running
<1>4. q1 = q => workflow_is_delivering(workflow') /\ workflow'.task = outcome
  <2>1. Len(q) \in Nat BY <1>1
  <2>2. QED BY <1>2, <2>1
<1>5. ASSUME NEW asked, WorkflowMoved(asked)
      PROVE  \E u \in Runtime :
                /\ Earned(runtime, u, outcome)
                /\ ticket' = u.ticket /\ lease' = u.lease /\ update_store' = u.update_store
                /\ disk'.update = IF u.update_store = update_store THEN disk.update
                                  ELSE u.update_store
  <2>1. PICK u \in Runtime :
          /\ Advanced(runtime, u)
          /\ completion' = u.completion
          /\ ticket' = u.ticket /\ update_store' = u.update_store
          /\ \/ u = runtime
             \/ /\ lease' = u.lease
                /\ disk'.update = IF u.update_store = update_store THEN disk.update
                                  ELSE u.update_store
          /\ \/ ~workflow_is_active(u.workflow) /\ workflow_is_waiting(workflow')
             \/ workflow' = u.workflow
             \/ workflow_is_active(u.workflow) /\ workflow'.state \in CancelledOutcomes
    BY <1>5 DEF WorkflowMoved
  <2>2. workflow_is_delivering(workflow') => workflow' = u.workflow
    <3>1. workflow_is_waiting(workflow') => ~workflow_is_delivering(workflow')
      BY <1>3 DEF Executing
    <3>2. workflow'.state \in CancelledOutcomes => ~workflow_is_delivering(workflow')
      BY OutcomeCodes, Ended
    <3>3. QED BY <2>1, <3>1, <3>2
  <2>3. ~(q1 = q /\ (u.workflow = workflow \/ Executing(u.workflow)))
    BY <1>2, <1>3, <1>4, <2>2
  <2>4. PICK o \in Outcomes : Settled(runtime, u, workflow.id, o) /\ Earned(runtime, u, o)
    BY <1>1, <2>1, <2>3 DEF Advanced
  <2>5. CASE /\ u.workflow.state = o
             /\ \E c \in Completion : c.state = o /\ u.completion.queue = Append(q, c)
    <3>1. PICK c \in Completion : c.state = o /\ q1 = Append(q, c) BY <2>1, <2>5
    <3>2. Last(q1) = c BY <1>1, <3>1 DEF Last
    <3>3. ~workflow_is_delivering(u.workflow) BY <2>5, Ended
    <3>4. o = outcome BY <1>2, <2>2, <3>1, <3>2, <3>3
    <3>5. QED BY <1>1, <2>1, <2>3, <2>4, <3>1, <3>3, <3>4
  <2>6. CASE /\ u.workflow.state = WORKFLOW_STATE_DELIVERING /\ u.workflow.task = o
             /\ u.completion.queue = q
    <3>1. o = outcome BY <1>4, <2>1, <2>2, <2>6
    <3>2. u # runtime BY <1>1, <2>1, <2>3, <2>6
    <3>3. QED BY <2>1, <2>4, <3>1, <3>2
  <2>7. QED BY <1>1, <2>4, <2>5, <2>6 DEF Settled
<1>6. ~restart_workflow
  <2> SUFFICES ASSUME restart_workflow PROVE FALSE OBVIOUS
  <2>1. workflow' = workflow_restart_reload(runtime) /\ completion' = completion
    BY DEF restart_workflow, Restart
  <2>2. outcome \in CancelledOutcomes BY <1>1, <1>2, <1>4, <2>1, Reloaded
  <2>3. QED BY <2>2, PlainOutcomes
<1>7. ~Quiet
  <2> SUFFICES ASSUME Quiet PROVE FALSE OBVIOUS
  <2>1. workflow' = workflow BY DEF Quiet
  <2>2. Len(q1) > Len(q) BY <1>2, <1>3, <2>1
  <2>3. q1 = q \/ (q # << >> /\ q1 = Tail(q)) BY DEF Quiet
  <2>4. Len(q) \in Nat BY <1>1
  <2>5. q # << >> => Len(Tail(q)) = Len(q) - 1 BY <1>1
  <2> HIDE DEF q, q1
  <2>6. QED BY <2>2, <2>3, <2>4, <2>5
<1>8. \E asked : WorkflowMoved(asked) BY <1>6, <1>7, KernelSteps DEF KernelInv
<1>9. QED BY <1>2, <1>5, <1>8

\* A step of the workflow that takes a ticket settles the workflow with
\* TICKET_USED, unless its id was asked for (workflow_advance_running_connection).
LEMMA TicketTaken ==
    ASSUME KernelInv, NEW asked, WorkflowMoved(asked), ticket' # ticket
    PROVE  \/ /\ workflow_is_connection(workflow)
              /\ Settles(WORKFLOW_STATE_CONNECTION_TICKET_USED)
           \/ workflow.id \in asked
<1> DEFINE q == completion.queue
<1>1. /\ runtime \in Runtime /\ runtime.workflow = workflow /\ runtime.completion = completion
      /\ runtime.ticket = ticket /\ q \in Seq(Completion)
  BY RuntimeTyped DEF runtime, KernelInv, KernelTypes, Mailbox, CompletionMailboxServiceState
<1>2. PICK u \in Runtime :
        /\ Advanced(runtime, u)
        /\ completion' = u.completion /\ ticket' = u.ticket
        /\ \/ ~workflow_is_active(u.workflow)
           \/ workflow' = u.workflow
           \/ u.workflow.id \in asked
  BY DEF WorkflowMoved
<1>3. u.workflow.id = workflow.id BY <1>1, <1>2 DEF Advanced
<1>4. PICK o \in Outcomes : Settled(runtime, u, workflow.id, o) /\ Earned(runtime, u, o)
  BY <1>1, <1>2 DEF Advanced
<1>5. /\ Executing(workflow) /\ workflow_is_connection(workflow)
      /\ o = WORKFLOW_STATE_CONNECTION_TICKET_USED
  BY <1>1, <1>2, <1>4 DEF Earned
<1>6. CASE \E c \in Completion : c.state = o /\ u.completion.queue = Append(q, c)
  <2>1. PICK c \in Completion : c.state = o /\ completion'.queue = Append(q, c) BY <1>2, <1>6
  <2>2. Last(completion'.queue) = c /\ Len(completion'.queue) > Len(q) BY <1>1, <2>1 DEF Last
  <2>3. QED BY <1>5, <2>1, <2>2 DEF Settles, executing, Executing
<1>7. CASE u.workflow.state = WORKFLOW_STATE_DELIVERING /\ u.workflow.task = o
  <2>1. workflow' = u.workflow \/ u.workflow.id \in asked
    BY <1>2, <1>7 DEF workflow_is_active, workflow_is_delivering
  <2>2. workflow' = u.workflow =>
           workflow_is_delivering(workflow)' /\ workflow'.task = o
    BY <1>7 DEF workflow_is_delivering
  <2>3. QED BY <1>3, <1>5, <2>1, <2>2 DEF Settles, executing, Executing
<1>8. QED BY <1>1, <1>4, <1>6, <1>7 DEF Settled

\* A request reports TICKET_USED exactly in the step that spends the ticket its
\* lease stands for (workflow_advance_running_connection, lease_consume,
\* ticket_consume).
THEOREM TicketsSpentAsReported == Spec => TicketSpentIffReported
<1> DEFINE used  == /\ workflow_is_connection(workflow)
                    /\ Settles(WORKFLOW_STATE_CONNECTION_TICKET_USED)
           spent == /\ ticket'.epoch = ticket.epoch
                    /\ Len(ticket'.ids) < Len(ticket.ids)
           cancelled == \E m \in Messages : /\ m.op = "cancel"
                                            /\ m.id = workflow.id
                                            /\ WorkflowMsg(m)
           Right == /\ used => SpendsLeased(workflow.opcode - CONNECTION_EXTERNAL_TICKET_BASE)
                    /\ spent /\ lease' # lease => used \/ cancelled
<1>1. KernelInv /\ [Next]_vars => Right
  <2> SUFFICES ASSUME KernelInv, [Next]_vars PROVE Right OBVIOUS
  <2>1. /\ runtime.workflow = workflow /\ runtime.ticket = ticket /\ runtime.lease = lease
        /\ lease.leases \in Seq(Lease)
    BY DEF runtime, KernelInv, KernelTypes, LeaseTable, LeaseServiceState
  <2>2. ASSUME used PROVE SpendsLeased(workflow.opcode - CONNECTION_EXTERNAL_TICKET_BASE)
    <3>1. PICK u \in Runtime :
            /\ Executing(workflow)
            /\ Earned(runtime, u, WORKFLOW_STATE_CONNECTION_TICKET_USED)
            /\ ticket' = u.ticket /\ lease' = u.lease
      BY <2>2, SettledEarned DEF Earnings
    <3>2. SpendsTicket(runtime, u) BY <2>1, <2>2, <3>1 DEF Earned
    <3>3. PICK i \in DOMAIN lease.leases :
            LET held == lease.leases[i]
            IN  /\ held.kind = LEASE_KIND_EXTERNAL_TICKET
                /\ held.id = workflow.opcode - CONNECTION_EXTERNAL_TICKET_BASE
                /\ held.first = ticket.epoch
                /\ Contains(ticket.ids, held.second)
                /\ ticket' = [ticket EXCEPT !.ids = RemoveFirst(@, held.second)]
                /\ Len(lease'.leases) < Len(lease.leases)
      BY <2>1, <3>1, <3>2 DEF SpendsTicket
    <3>4. lease.leases[i] \in Range(lease.leases) BY DEF Range
    <3>5. QED BY <3>3, <3>4 DEF SpendsLeased
  <2>3. ASSUME spent, lease' # lease PROVE used \/ cancelled
    <3>1. ticket' # ticket
      <4>1. Len(ticket.ids) \in Nat
        BY DEF KernelInv, KernelTypes, TicketTable, TicketServiceState
      <4>2. QED BY <2>3, <4>1
    <3>2. ~restart_workflow /\ ~Quiet BY <2>3, <3>1 DEF restart_workflow, Restart, Quiet
    <3>3. CASE WorkflowMoved({}) BY <3>1, <3>3, TicketTaken
    <3>4. CASE \E m \in Messages : WorkflowMsg(m) /\ WorkflowMoved(Asked(m))
      <4>1. PICK m \in Messages : WorkflowMsg(m) /\ WorkflowMoved(Asked(m)) BY <3>4
      <4>2. used \/ workflow.id \in Asked(m) BY <3>1, <4>1, TicketTaken
      <4>3. QED BY <4>1, <4>2 DEF Asked
    <3>5. QED BY <3>2, <3>3, <3>4, KernelSteps DEF KernelInv
  <2>4. QED BY <2>2, <2>3
<1> HIDE DEF Right
<1>2. Spec => [][Right]_vars BY <1>1, KernelInductive, PTL DEF Spec
<1>3. QED BY <1>2, PTL DEF TicketSpentIffReported, Right, used, spent, cancelled

\* If writes are not cut short, what is reported as applied is installed, in
\* memory and in the file, also when the update was staged or written again
\* after a failed write (update_apply, update_store_persist).
THEOREM AppliedStaysInstalled == "torn" \notin Faults /\ Spec => AppliedIsDurable
<1> SUFFICES ASSUME "torn" \notin Faults PROVE Spec => AppliedIsDurable OBVIOUS
<1> DEFINE Right ==
             workflow_is_update_apply(workflow) /\ Settles(WORKFLOW_STATE_UPDATE_APPLIED)
             => /\ update_store'.installed.data = update_store.data
                /\ update_store'.installed.version = update_store.manifest.version
                /\ disk'.update.installed = update_store'.installed
<1>1. KernelInv /\ [Next]_vars => Right
  <2> SUFFICES ASSUME KernelInv, [Next]_vars, workflow_is_update_apply(workflow),
                      Settles(WORKFLOW_STATE_UPDATE_APPLIED)
               PROVE  /\ update_store'.installed.data = update_store.data
                      /\ update_store'.installed.version = update_store.manifest.version
                      /\ disk'.update.installed = update_store'.installed
    OBVIOUS
  <2>1. runtime.workflow = workflow /\ runtime.update_store = update_store BY DEF runtime
  <2>2. PICK u \in Runtime :
          /\ Executing(workflow)
          /\ Earned(runtime, u, WORKFLOW_STATE_UPDATE_APPLIED)
          /\ update_store' = u.update_store
          /\ disk'.update = IF u.update_store = update_store THEN disk.update
                            ELSE u.update_store
    BY SettledEarned DEF Earnings
  <2>3. /\ update_apply(update_store).status = "Ok"
        /\ update_store' = update_apply(update_store).state
    BY <2>1, <2>2 DEF Earned
  <2>4. update_store \in UpdateStoreServiceState BY DEF KernelInv, KernelTypes, UpdateTable
  <2>5. /\ update_store'.installed.data = update_store.data
        /\ update_store'.installed.version = update_store.manifest.version
    BY <2>3, <2>4 DEF update_apply, UpdateStoreServiceState
  <2>6. InstalledFollows(update_store, disk.update) BY DEF KernelInv, DiskFollows
  <2>7. disk'.update.installed = update_store'.installed
    BY <2>2, <2>3, <2>6 DEF InstalledFollows
  <2>8. QED BY <2>5, <2>7
<1> HIDE DEF Right
<1>2. Spec => [][Right]_vars BY <1>1, KernelInductive, PTL DEF Spec
<1>3. QED BY <1>2, PTL DEF AppliedIsDurable, Right
-----------------------------------------------------------------------------
(* The contract.                                                             *)

\* What clients see of the record and of the mailbox.
RecordOf(s)  == [id |-> s.id, outcome |-> IF workflow_is_active(s) THEN 0 ELSE s.state]
ReportsOf(q) == [i \in DOMAIN q |-> [id |-> q[i].id, outcome |-> q[i].state]]

\* A report more in the mailbox is a report more, one taken is the first.
LEMMA ReportsFollow ==
    ASSUME NEW q \in Seq(Completion)
    PROVE  /\ Len(ReportsOf(q)) = Len(q) /\ Len(q) \in Nat
           /\ \A c \in Completion :
                 ReportsOf(Append(q, c))
                     = Append(ReportsOf(q), [id |-> c.id, outcome |-> c.state])
           /\ q # << >> => /\ ReportsOf(q) # << >>
                           /\ ReportsOf(Tail(q)) = Tail(ReportsOf(q))
<1> DEFINE rs == ReportsOf(q)
<1>1. /\ DOMAIN q = 1 .. Len(q) /\ Len(q) \in Nat
      /\ rs = [i \in 1 .. Len(q) |-> [id |-> q[i].id, outcome |-> q[i].state]]
  BY DEF ReportsOf
<1>2. rs \in Seq([id : Byte, outcome : Byte]) /\ Len(rs) = Len(q)
  <2>1. \A c \in Completion : [id |-> c.id, outcome |-> c.state] \in [id : Byte, outcome : Byte]
    BY DEF Completion
  <2>2. \A i \in 1 .. Len(q) : q[i] \in Completion OBVIOUS
  <2>3. QED BY <1>1, <2>1, <2>2
<1>3. ASSUME NEW c \in Completion
      PROVE  ReportsOf(Append(q, c)) = Append(rs, [id |-> c.id, outcome |-> c.state])
  <2> DEFINE a == Append(q, c)
             b == Append(rs, [id |-> c.id, outcome |-> c.state])
  <2>1. /\ a \in Seq(Completion) /\ Len(a) = Len(q) + 1 /\ DOMAIN a = 1 .. Len(q) + 1
        /\ \A i \in 1 .. Len(q) : a[i] = q[i]
        /\ a[Len(q) + 1] = c
    BY <1>1
  <2>2. [id |-> c.id, outcome |-> c.state] \in [id : Byte, outcome : Byte] BY DEF Completion
  <2>3. /\ b \in Seq([id : Byte, outcome : Byte]) /\ Len(b) = Len(q) + 1
        /\ DOMAIN b = 1 .. Len(q) + 1
        /\ \A i \in 1 .. Len(q) : b[i] = rs[i]
        /\ b[Len(q) + 1] = [id |-> c.id, outcome |-> c.state]
    BY <1>1, <1>2, <2>2
  <2>4. b = [i \in 1 .. Len(q) + 1 |-> b[i]] BY <2>3
  <2> HIDE DEF a, b
  <2>5. \A i \in 1 .. Len(q) + 1 : b[i] = [id |-> a[i].id, outcome |-> a[i].state]
    <3>1. \A i \in 1 .. Len(q) : rs[i] = [id |-> q[i].id, outcome |-> q[i].state] BY <1>1
    <3> HIDE DEF rs
    <3>2. QED BY <1>1, <2>1, <2>3, <3>1
  <2>6. ReportsOf(a) = [i \in 1 .. Len(q) + 1 |-> [id |-> a[i].id, outcome |-> a[i].state]]
    BY <2>1 DEF ReportsOf
  <2>7. ReportsOf(a) = b BY <2>4, <2>5, <2>6
  <2>8. QED BY <2>7 DEF a, b
<1>4. ASSUME q # << >> PROVE rs # << >> /\ ReportsOf(Tail(q)) = Tail(rs)
  <2>1. Len(q) # 0 BY <1>4
  <2>2. /\ Tail(q) \in Seq(Completion) /\ DOMAIN Tail(q) = 1 .. Len(q) - 1
        /\ \A i \in 1 .. Len(q) - 1 : Tail(q)[i] = q[i + 1]
    BY <1>1, <2>1
  <2>3. rs # << >> BY <1>1, <1>2, <2>1
  <2>4. Tail(rs) = [i \in 1 .. Len(q) - 1 |-> rs[i + 1]]
    BY <1>1, <1>2, <2>1, <2>3
  <2>5. \A i \in 1 .. Len(q) - 1 :
           rs[i + 1] = [id |-> Tail(q)[i].id, outcome |-> Tail(q)[i].state]
    BY <1>1, <2>2
  <2> HIDE DEF rs
  <2>6. ReportsOf(Tail(q))
           = [i \in 1 .. Len(q) - 1 |-> [id |-> Tail(q)[i].id, outcome |-> Tail(q)[i].state]]
    BY <2>2 DEF ReportsOf
  <2>7. QED BY <2>3, <2>4, <2>5, <2>6
<1>5. QED BY <1>1, <1>2, <1>3, <1>4

\* The kernel implements the contract: a client is told that its workflow is
\* accepted exactly if one begins, a workflow that ends is reported once, with
\* the outcome its record shows, and a full mailbox delays the report but does
\* not lose it (dispatch_workflow, workflow_deliver_completion).
THEOREM ContractImplemented == Spec => ImplementsContract
<1> DEFINE rec == RecordOf(workflow)
           reps == ReportsOf(completion.queue)
<1>1. Init => Contract!Init
  <2> SUFFICES ASSUME Init PROVE Contract!Init OBVIOUS
  <2>1. workflow \in WorkflowRecord /\ ~workflow_is_active(workflow) /\ accepted = 0
    <3>1. workflow.state = WORKFLOW_STATE_IDLE BY DEF Init, workflow_state_init
    <3>2. QED BY <3>1, KernelInit, OutcomeCodes, Ended DEF Init, KernelTypes
  <2>2. completion.queue = << >> BY DEF Init, completion_mailbox_init
  <2>3. reps = << >> BY <2>2 DEF ReportsOf
  <2>4. rec \in [id : Byte, outcome : Outcomes]
    BY <2>1 DEF WorkflowRecord, WorkflowServiceState, RecordOf
  <2>5. QED BY <2>1, <2>3, <2>4 DEF Contract!Init, RecordOf, ReportsOf
<1>2. KernelInv /\ [Next]_vars => [Contract!Next]_<< rec, reps, accepted >>
  <2> SUFFICES ASSUME KernelInv, [Next]_vars
               PROVE  [Contract!Next]_<< rec, reps, accepted >>
    OBVIOUS
  <2> DEFINE q == completion.queue
  <2>1. /\ runtime.workflow = workflow /\ runtime.completion = completion
        /\ runtime \in Runtime /\ workflow \in WorkflowRecord
        /\ q \in Seq(Completion)
    BY RuntimeTyped
       DEF runtime, KernelInv, KernelTypes, Mailbox, CompletionMailboxServiceState
  <2>2. workflow' \in WorkflowRecord /\ completion'.queue \in Seq(Completion)
    BY KernelSteps DEF KernelInv, KernelTypes, Mailbox, CompletionMailboxServiceState
  <2>3. rec' = RecordOf(workflow') /\ reps' = ReportsOf(completion'.queue)
    BY DEF RecordOf, ReportsOf, workflow_is_active, workflow_is_waiting, workflow_is_running,
       workflow_is_delivering
  <2>4. ASSUME NEW s \in WorkflowRecord
        PROVE  /\ RecordOf(s) \in [id : Byte, outcome : Outcomes \union {0}]
               /\ RecordOf(s).id = s.id
               /\ workflow_is_active(s) => RecordOf(s).outcome = 0
               /\ ~workflow_is_active(s) => /\ RecordOf(s).outcome = s.state
                                            /\ s.state \in Outcomes
    BY DEF RecordOf, WorkflowRecord, WorkflowServiceState
  <2>5. CASE Quiet
    <3>1. rec' = rec /\ accepted' = accepted BY <2>3, <2>5 DEF Quiet
    <3>2. CASE completion'.queue = q BY <2>3, <3>1, <3>2
    <3>3. CASE q # << >> /\ completion'.queue = Tail(q)
      <4>1. reps # << >> /\ reps' = Tail(reps) BY <2>1, <2>3, <3>3, ReportsFollow
      <4>2. Contract!Take BY <3>1, <4>1 DEF Contract!Take, RecordOf, ReportsOf
      <4>3. QED BY <4>2 DEF Contract!Next
    <3>4. QED BY <2>5, <3>2, <3>3 DEF Quiet
  <2>6. ASSUME workflow_is_active(workflow), workflow'.id = workflow.id,
               workflow'.state \in CancelledOutcomes, completion'.queue = q,
               accepted' = accepted
        PROVE  [Contract!Next]_<< rec, reps, accepted >>
    <3>1. ~workflow_is_active(workflow') BY <2>6, OutcomeCodes, Ended
    <3>2. rec.outcome = 0 /\ rec' = [rec EXCEPT !.outcome = workflow'.state]
      BY <2>1, <2>2, <2>3, <2>4, <2>6, <3>1 DEF RecordOf
    <3>3. reps' = reps BY <2>3, <2>6
    <3>4. Contract!Cancel
      BY <2>6, <3>2, <3>3 DEF Contract!Cancel, Contract!End, Contract!active, RecordOf, ReportsOf
    <3>5. QED BY <3>4 DEF Contract!Next
  <2>7. ASSUME workflow'.id = workflow.id, completion'.queue = q, accepted' = accepted,
               \/ workflow_is_active(workflow) /\ workflow_is_active(workflow')
               \/ /\ ~workflow_is_active(workflow) /\ ~workflow_is_active(workflow')
                  /\ workflow'.state = workflow.state
        PROVE  UNCHANGED << rec, reps, accepted >>
    BY <2>3, <2>7 DEF RecordOf
  <2>8. CASE restart_workflow
    <3>1. workflow' = workflow_restart_reload(runtime) /\ completion' = completion
          /\ accepted' = accepted
      BY <2>8 DEF restart_workflow, Restart
    <3>2. WORKFLOW_STATE_CANCELLED \in CancelledOutcomes BY DEF CancelledOutcomes
    <3>3. /\ workflow'.id = workflow.id
          /\ ~workflow_is_active(workflow) => /\ ~workflow_is_active(workflow')
                                              /\ workflow'.state = workflow.state
          /\ workflow_is_active(workflow) /\ ~workflow_is_active(workflow') =>
                workflow'.state = WORKFLOW_STATE_CANCELLED
      BY <2>1, <3>1, Reloaded
    <3>4. CASE workflow_is_active(workflow) /\ ~workflow_is_active(workflow')
      BY <2>6, <3>1, <3>2, <3>3, <3>4
    <3>5. CASE ~(workflow_is_active(workflow) /\ ~workflow_is_active(workflow'))
      BY <2>7, <3>1, <3>3, <3>5
    <3>6. QED BY <3>4, <3>5
  <2>9. ASSUME NEW asked, WorkflowMoved(asked)
        PROVE  [Contract!Next]_<< rec, reps, accepted >>
    <3>1. PICK u \in Runtime :
            /\ Advanced(runtime, u)
            /\ completion' = u.completion
            /\ \/ /\ ~workflow_is_active(u.workflow) /\ workflow_is_waiting(workflow')
                  /\ accepted' = accepted + 1
               \/ workflow' = u.workflow /\ accepted' = accepted
               \/ /\ workflow_is_active(u.workflow)
                  /\ workflow'.id = u.workflow.id /\ workflow'.state \in CancelledOutcomes
                  /\ accepted' = accepted
      BY <2>9 DEF WorkflowMoved
    <3>2. u.workflow.id = workflow.id /\ u.workflow \in WorkflowRecord
      BY <2>1, <3>1 DEF Advanced, Runtime
    <3>3. workflow_is_waiting(workflow') => rec' \in [id : Byte, outcome : {0}]
      BY <2>2, <2>3, <2>4 DEF workflow_is_active
    <3>4. ASSUME workflow_is_active(workflow), NEW outcome \in Outcomes,
                 u.workflow.state = outcome, Len(q) < MAILBOX_CAPACITY,
                 NEW c \in Completion, c.id = workflow.id, c.state = outcome,
                 u.completion.queue = Append(q, c)
          PROVE  Contract!Next
      <4>1. ~workflow_is_active(u.workflow) BY <3>4, Ended
      <4>2. rec.outcome = 0 /\ [rec EXCEPT !.outcome = outcome] = [id |-> c.id, outcome |-> c.state]
        BY <2>1, <2>4, <3>4 DEF RecordOf
      <4>3. reps' = Append(reps, [rec EXCEPT !.outcome = outcome]) /\ Len(reps) < MAILBOX_CAPACITY
        BY <2>1, <2>3, <3>1, <3>4, <4>2, ReportsFollow
      <4>4. CASE workflow_is_waiting(workflow') /\ accepted' = accepted + 1
        <5>1. rec' \in [id : Byte, outcome : {0}] BY <3>3, <4>4
        <5>2. Contract!FinishAndAccept
          BY <4>2, <4>3, <4>4, <5>1
             DEF Contract!FinishAndAccept, Contract!Begin, Contract!Tell, Contract!active,
                 RecordOf, ReportsOf
        <5>3. QED BY <5>2 DEF Contract!Next
      <4>5. CASE workflow' = u.workflow /\ accepted' = accepted
        <5>1. rec' = [rec EXCEPT !.outcome = outcome] /\ rec'.outcome = outcome
          BY <2>3, <3>2, <3>4, <4>1, <4>5 DEF RecordOf
        <5>2. Contract!Finish
          BY <4>2, <4>3, <4>5, <5>1
             DEF Contract!Finish, Contract!End, Contract!Tell, Contract!active, RecordOf, ReportsOf
        <5>3. QED BY <5>2 DEF Contract!Next
      <4>6. QED BY <3>1, <4>1, <4>4, <4>5
    <3>5. ASSUME u.completion.queue = q,
                 \/ workflow_is_active(workflow) /\ workflow_is_active(u.workflow)
                 \/ u.workflow = workflow
          PROVE  [Contract!Next]_<< rec, reps, accepted >>
      <4>1. CASE /\ ~workflow_is_active(u.workflow) /\ workflow_is_waiting(workflow')
                 /\ accepted' = accepted + 1
        <5>1. ~workflow_is_active(workflow) BY <3>5, <4>1
        <5>2. rec.outcome # 0 BY <2>1, <2>4, <5>1, OutcomeCodes
        <5>3. reps' = reps BY <2>3, <3>1, <3>5
        <5>4. rec' \in [id : Byte, outcome : {0}] BY <3>3, <4>1
        <5>5. Contract!Accept
          BY <4>1, <5>2, <5>3, <5>4
             DEF Contract!Accept, Contract!Begin, Contract!active, RecordOf, ReportsOf
        <5>6. QED BY <5>5 DEF Contract!Next
      <4>2. CASE workflow' = u.workflow /\ accepted' = accepted
        BY <2>7, <3>1, <3>2, <3>5, <4>2
      <4>3. CASE /\ workflow_is_active(u.workflow)
                 /\ workflow'.id = u.workflow.id /\ workflow'.state \in CancelledOutcomes
                 /\ accepted' = accepted
        BY <2>6, <3>1, <3>2, <3>5, <4>3
      <4>4. QED BY <3>1, <4>1, <4>2, <4>3
    <3>6. CASE workflow_is_active(workflow)
               /\ \E outcome \in Outcomes : Settled(runtime, u, workflow.id, outcome)
      <4>1. PICK outcome \in Outcomes : Settled(runtime, u, workflow.id, outcome) BY <3>6
      <4>2. workflow_is_active(workflow) BY <3>6
      <4>3. CASE u.workflow.state = outcome /\ Len(q) < MAILBOX_CAPACITY
                 /\ \E c \in Completion : /\ c.id = workflow.id /\ c.state = outcome
                                          /\ u.completion.queue = Append(q, c)
        BY <3>4, <4>2, <4>3
      <4>4. CASE u.workflow.state = WORKFLOW_STATE_DELIVERING /\ u.completion.queue = q
        BY <3>5, <4>2, <4>4 DEF workflow_is_active, workflow_is_delivering
      <4>5. QED BY <2>1, <4>1, <4>3, <4>4 DEF Settled
    <3>7. CASE /\ u.completion = completion
               /\ u.workflow = workflow \/ (Executing(workflow) /\ Executing(u.workflow))
      BY <3>5, <3>7 DEF Executing, workflow_is_active
    <3>8. QED BY <2>1, <3>1, <3>6, <3>7 DEF Advanced
  <2>10. QED BY <2>5, <2>8, <2>9, KernelSteps DEF KernelInv
<1>3. QED BY <1>1, <1>2, KernelInductive, PTL
          DEF Spec, ImplementsContract, Contract!Spec, RecordOf, ReportsOf
=============================================================================
