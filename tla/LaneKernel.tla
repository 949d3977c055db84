----------------------------- MODULE LaneKernel -----------------------------
(* The kernel around the lane services and the transfer service: the routes  *)
(* of kernel/src/kernel_dispatch.mc to log, kv, queue, echo, file and        *)
(* transfer, grants of endpoints to processes, and the restarts of           *)
(* kernel/src/boot/init.mc, of one service or of a lane.                     *)
EXTENDS LaneServices, RestartLedger

CONSTANTS Pids,             \* the processes that hold grants
          Granted,          \* the endpoints grants are issued for
          Messages,         \* what clients send, as [endpoint, payload]
          TransferPayloads, \* what they send to transfer, with or without handles
          Restarts,         \* the services and lanes that are restarted
          MaxGrants,        \* bound on the grants issued
          MaxRestarts,      \* bound on the restarts
          MaxPushes,        \* bound on the pushes the queue accepts
          MaxWrites         \* bound on the marked kv writes

ASSUME LaneKernelAssumption == /\ Pids \subseteq Nat
                               /\ Granted \subseteq Nat \ {0}
                               /\ Messages \subseteq [endpoint : Nat, payload : Seq(Nat)]
                               /\ TransferPayloads \subseteq Seq(Nat)
                               /\ Restarts \subseteq Cell
                               /\ MaxGrants \in Nat

VARIABLES log, kv, queue, echo, file, transfer,
          grants,   \* the grant table
          granted,  \* ghost: the grants ever issued, by id: owner, endpoint and,
                    \* once redeemed, by whom and in which generation of the
                    \* transfer service (spent, 0 until then)
          pushed,   \* ghost: what the queue accepted, in order
          popped,   \* ghost: what it gave out
          marked    \* ghost: the kv writes accepted with their log marker

services == << log, kv, queue, echo, file, transfer >>
ghosts   == << pushed, popped, marked >>
vars     == << services, grants, granted, ghosts, ledger >>

KV_WRITE_LOG_MARKER    == 75
MAX_EFFECT_CHAIN_DEPTH == 8

Init == /\ log = log_init
        /\ kv = kv_init
        /\ queue = queue_init
        /\ echo = echo_init
        /\ file = file_init
        /\ transfer = transfer_init
        /\ grants = grant_init
        /\ granted = << >>
        /\ pushed = << >>
        /\ popped = << >>
        /\ marked = 0
        /\ LedgerInit
-----------------------------------------------------------------------------
(* Dispatch.  The operators map the service states with an effect, as a      *)
(* record r, to those after one more message.                                *)

runtime == [log |-> log, kv |-> kv, queue |-> queue, echo |-> echo,
            file |-> file, transfer |-> transfer, pushed |-> pushed,
            popped |-> popped, marked |-> marked, effect |-> [kind |-> "None"]]

commit(r) == /\ log' = r.log
             /\ kv' = r.kv
             /\ queue' = r.queue
             /\ echo' = r.echo
             /\ file' = r.file
             /\ transfer' = r.transfer
             /\ pushed' = r.pushed
             /\ popped' = r.popped
             /\ marked' = r.marked

dispatch_log(r, result) == [r EXCEPT !.log = result.state, !.effect = result.effect]

dispatch_queue(r, payload, result) ==
    LET ok == result.effect.status = "Ok"
    IN  [r EXCEPT !.queue = result.state, !.effect = result.effect,
                  !.pushed = IF ok /\ Len(payload) = 1 THEN Append(@, payload[1]) ELSE @,
                  !.popped = IF ok /\ payload = << >>
                             THEN Append(@, result.effect.payload[1]) ELSE @]

\* Mutant of dispatch_kv: a full log is not reported.
dispatch_kv_silent(r, payload, result, advisory) ==
    IF Len(payload) < 2
    THEN [r EXCEPT !.kv = result.state, !.effect = result.effect]
    ELSE [r EXCEPT !.kv = result.state, !.log = advisory.state,
                   !.marked = IF result.effect.status = "Ok" THEN @ + 1 ELSE @,
                   !.effect = result.effect]

\* A message of two bytes is a write, accepted or not: the log gets a marker,
\* and the answer says so if the log had no room for it.
dispatch_kv(r, payload, result, advisory) ==
    IF Len(payload) < 2
    THEN [r EXCEPT !.kv = result.state, !.effect = result.effect]
    ELSE IF advisory.effect.status = "Exhausted"
    THEN [r EXCEPT !.kv = result.state, !.log = advisory.state,
                   !.effect = effect_mark_send_dropped(result.effect)]
    ELSE [r EXCEPT !.kv = result.state, !.log = advisory.state,
                   !.marked = IF result.effect.status = "Ok" THEN @ + 1 ELSE @,
                   !.effect = result.effect]

dispatch_transfer(r, result) ==
    [r EXCEPT !.transfer = result.state, !.effect = result.effect]

kernel_dispatch_leaf(r, endpoint, endpoints, payload) ==
    CASE endpoint = LOG_ENDPOINT_ID -> dispatch_log(r, log_handle(r.log, payload))
      [] endpoint = KV_ENDPOINT_ID ->
             dispatch_kv(r, payload, kv_handle(r.kv, payload),
                         log_handle(r.log, << KV_WRITE_LOG_MARKER >>))
      [] endpoint = QUEUE_ENDPOINT_ID ->
             dispatch_queue(r, payload, queue_handle(r.queue, payload))
      [] endpoint = ECHO_ENDPOINT_ID ->
             [r EXCEPT !.echo = echo_handle(@, payload).state,
                       !.effect = echo_handle(r.echo, payload).effect]
      [] endpoint = FILE_ENDPOINT_ID ->
             [r EXCEPT !.file = file_handle(@, payload).state,
                       !.effect = file_handle(r.file, payload).effect]
      [] endpoint = TRANSFER_ENDPOINT_ID ->
             dispatch_transfer(r, transfer_handle(r.transfer, endpoints, payload))
      [] OTHER -> [r EXCEPT !.effect = effect_reply("InvalidEndpoint", << >>)]

\* An effect that sends is followed, without handles, until some service
\* replies; a chain that is too long is answered with Exhausted.
follow(r) ==
    IF r.effect.kind = "Send"
    THEN kernel_dispatch_leaf(r, r.effect.endpoint, << >>, r.effect.payload)
    ELSE r

execute_effect(r) ==
    LET chain[depth \in 0 .. MAX_EFFECT_CHAIN_DEPTH] ==
            IF depth = 0 THEN r ELSE follow(chain[depth - 1])
    IN  IF chain[MAX_EFFECT_CHAIN_DEPTH - 1].effect.kind = "Send"
        THEN [chain[MAX_EFFECT_CHAIN_DEPTH] EXCEPT
                 !.effect = effect_reply("Exhausted", << >>)]
        ELSE chain[MAX_EFFECT_CHAIN_DEPTH]

\* The bounds of the ghosts.
Bounded(r) == Len(r.pushed) <= MaxPushes /\ r.marked <= MaxWrites

\* An ordinary message to a named endpoint.
Receive(m) ==
    /\ \E r \in {kernel_dispatch_leaf(runtime, m.endpoint, << >>, m.payload)} :
          Bounded(r) /\ commit(r)
    /\ UNCHANGED << grants, granted, ledger >>

\* A message to the transfer service without handles.
ReceiveTransfer(payload) ==
    /\ \E r \in {execute_effect(kernel_dispatch_leaf(runtime, TRANSFER_ENDPOINT_ID,
                                                     << >>, payload))} :
          Bounded(r) /\ commit(r)
    /\ UNCHANGED << grants, granted, ledger >>

\* A message with handles: the grants are redeemed before the transfer service
\* sees the message, and stay redeemed whatever it answers.
ReceiveHandles(pid, slot, count, payload) ==
    /\ grant_can_consume(grants, pid, slot, count)
    /\ grants' = grant_consume(grants, pid, slot, count)
    /\ granted' = [id \in DOMAIN granted |->
                      IF id \in slot .. slot + count - 1
                      THEN [granted[id] EXCEPT !.spent = generation["transfer"],
                                               !.by = pid]
                      ELSE granted[id]]
    /\ \E r \in {execute_effect(kernel_dispatch_leaf(runtime, TRANSFER_ENDPOINT_ID,
                     [k \in 1 .. count |-> grant_endpoint(grants, pid, slot + k - 1)],
                     payload))} :
          Bounded(r) /\ commit(r)
    /\ UNCHANGED ledger

GrantIssue(pid, endpoint) ==
    /\ Len(granted) < MaxGrants
    /\ grant_free(grants) # {}
    /\ grants' = grant_issue(grants, pid, endpoint)
    /\ granted' = Append(granted, [owner |-> pid, endpoint |-> endpoint,
                                 spent |-> 0, by |-> 0])
    /\ UNCHANGED << services, ghosts, ledger >>
-----------------------------------------------------------------------------
(* Restarts: init.restart and the lanes, from lifecycle_restart_reply.       *)

Restart(c) == /\ c \in Restarts
              /\ generation[c] <= MaxRestarts
              /\ UNCHANGED << grants, granted, ghosts >>

\* log, kv and file reload what they hold.
restart_retained(s) ==
    /\ Restart(s)
    /\ bootrestart(s)
    /\ UNCHANGED services

restart_queue ==
    /\ Restart("queue")
    /\ bootrestart("queue")
    /\ queue' = queue_reload(queue)
    /\ UNCHANGED << log, kv, echo, file, transfer >>

restart_echo ==
    /\ Restart("echo")
    /\ bootrestart("echo")
    /\ echo' = echo_init
    /\ UNCHANGED << log, kv, queue, file, transfer >>

\* Mutant of restart_transfer: the bound pair is reloaded.
restart_transfer_keeps ==
    /\ Restart("transfer")
    /\ bootrestart("transfer")
    /\ UNCHANGED services

restart_transfer ==
    /\ Restart("transfer")
    /\ bootrestart("transfer")
    /\ transfer' = transfer_init
    /\ UNCHANGED << log, kv, queue, echo, file >>

restart_retained_workset ==
    /\ Restart("workset")
    /\ bootrestart_lane("workset", {"kv", "queue"})
    /\ queue' = queue_reload(queue)
    /\ UNCHANGED << log, kv, echo, file, transfer >>

restart_retained_audit_lane ==
    /\ Restart("audit")
    /\ bootrestart_lane("audit", {"kv", "log"})
    /\ UNCHANGED services

\* The other services, whose states are not part of this module.
restart_other(s) ==
    /\ Restart(s)
    /\ bootrestart(s)
    /\ UNCHANGED services

Modelled == {"log", "kv", "queue", "echo", "file", "transfer"}
-----------------------------------------------------------------------------
Next ==
    \/ \E m \in Messages : Receive(m)
    \/ \E payload \in TransferPayloads : ReceiveTransfer(payload)
    \/ \E pid \in Pids, slot \in 0 .. MaxGrants, count \in 1 .. 2,
          payload \in TransferPayloads : ReceiveHandles(pid, slot, count, payload)
    \/ \E pid \in Pids, endpoint \in Granted : GrantIssue(pid, endpoint)
    \/ \E s \in {"log", "kv", "file"} : restart_retained(s)
    \/ restart_queue \/ restart_echo \/ restart_transfer
    \/ restart_retained_workset \/ restart_retained_audit_lane
    \/ \E s \in Service \ Modelled : restart_other(s)

Spec == Init /\ [][Next]_vars
-----------------------------------------------------------------------------
(* Properties.                                                               *)

TypeOK ==
    /\ grants \in GrantTable
    /\ transfer \in TransferServiceState
    /\ granted \in Seq([owner : Nat, endpoint : Nat \ {0}, spent : Nat, by : Nat])
    /\ Len(log) <= LOG_BUFFER_CAPACITY
    /\ Len(queue.items) <= QUEUE_CAPACITY
    /\ queue.stalled \in BOOLEAN
    /\ echo \in 0 .. ECHO_CAPACITY
    /\ Cardinality(DOMAIN kv) <= KV_CAPACITY
    /\ Cardinality(DOMAIN file) <= FILE_CAPACITY
    /\ generation \in [Cell -> Nat \ {0}]
    /\ outcome \in [Cell -> Outcome]

Live(i) == grants.slots[i].endpoint # 0

Unspent(id) == id \in DOMAIN granted /\ granted[id].spent = 0

\* The grant table (transfer_grant.mc) is the truth about the grants issued:
\* a slot in use holds one that was never redeemed, with the owner and the
\* endpoint it was issued for; each unredeemed grant has exactly one slot,
\* however slots were freed and taken again; the next id is new; and a grant
\* was redeemed, alone or with another, by its owner only.
GrantTruth ==
    /\ grants.next = Len(granted) + 1
    /\ \A i \in GrantSlot :
          Live(i) => /\ Unspent(grants.slots[i].id)
                     /\ granted[grants.slots[i].id].owner = grants.slots[i].owner
                     /\ granted[grants.slots[i].id].endpoint = grants.slots[i].endpoint
    /\ \A i, j \in GrantSlot :
          Live(i) /\ Live(j) /\ grants.slots[i].id = grants.slots[j].id => i = j
    /\ \A id \in DOMAIN granted :
          Unspent(id) => \E i \in GrantSlot : Live(i) /\ grants.slots[i].id = id
    /\ \A id \in DOMAIN granted :
          ~ Unspent(id) => granted[id].by = granted[id].owner

\* The pair the transfer service holds (transfer_bind) is log and kv, and was
\* handed over in this generation of the service by one process that owned
\* both grants: a restart revives no authority, and a refused bind, which has
\* redeemed its grants all the same, adds none.
PairFromGrants ==
    transfer # transfer_init =>
        /\ {transfer.left, transfer.right} = {LOG_ENDPOINT_ID, KV_ENDPOINT_ID}
        /\ \E id \in DOMAIN granted :
              /\ id + 1 \in DOMAIN granted
              /\ granted[id].endpoint = transfer.left
              /\ granted[id + 1].endpoint = transfer.right
              /\ granted[id].owner = granted[id + 1].owner
              /\ \A k \in {id, id + 1} : granted[k].spent = generation["transfer"]

\* What the queue accepted is what it gave out and what it holds, in order,
\* through stalls, restarts of the queue and of the work set (queue_reload).
QueueInOrder == pushed = popped \o queue.items

\* Every kv write that was accepted, and whose answer does not say that the
\* advisory was dropped, has its own marker in the log (kernel_dispatch_kv),
\* sent directly or through the transfer service, restarts or not.
AuditTruth ==
    marked <= Cardinality({n \in DOMAIN log : log[n] = KV_WRITE_LOG_MARKER})

\* The ledger of restarts adds up: a lane never counts a restart its members
\* do not (bootrestart_workset, bootrestart_audit); a service that restarted
\* says how, workflow excepted; it says it was replaced exactly if the policy
\* clients are told is to clear, which is so exactly if the topology has it
\* reset; and it says it was part of a lane restart only if a lane it is a
\* member of restarted.
LedgerAddsUp ==
    /\ generation["workset"] + generation["audit"] <= generation["kv"] + 1
    /\ generation["workset"] <= generation["queue"]
    /\ generation["audit"] <= generation["log"]
    /\ \A s \in Service \ {"workflow"} :
          /\ outcome[s] = "None" <=> generation[s] = 1
          /\ outcome[s] = "OrdinaryReplaced" <=>
                 generation[s] > 1 /\ restart_policy(s) = "clear"
    /\ \A s \in Service : restart_policy(s) = "clear" <=> ~service_restart_reloads_state(s)
    /\ outcome["queue"] = "CoordinatedRetainedReloaded" => generation["workset"] > 1
    /\ outcome["log"] = "CoordinatedRetainedReloaded" => generation["audit"] > 1
    /\ \A s \in Service : outcome[s] = "CoordinatedRetainedReloaded" =>
                               s \in {"log", "kv", "queue"}
=============================================================================
