---------------------------- MODULE LaneServices ----------------------------
(* The small services behind the named endpoints: kernel/src/services/       *)
(* {log,kv,queue,echo,file,transfer}_service.mc and the grant table of       *)
(* transfer_grant.mc.  Each handler maps a state and the payload of a        *)
(* message to [state, effect].                                               *)
EXTENDS Naturals, Functions, FiniteSets, SequencesExt

CONSTANTS LOG_BUFFER_CAPACITY, KV_CAPACITY, QUEUE_CAPACITY, ECHO_CAPACITY,
          FILE_CAPACITY  \* all 4 in the code

ASSUME LaneAssumption ==
    {LOG_BUFFER_CAPACITY, KV_CAPACITY, QUEUE_CAPACITY, ECHO_CAPACITY,
     FILE_CAPACITY} \subseteq Nat \ {0}

CONSTANT GRANT_CAPACITY  \* 4 in the code

ASSUME GrantAssumption == GRANT_CAPACITY \in Nat \ {0}
-----------------------------------------------------------------------------
(* kernel/src/transport/service_effect.mc: what a service answers a message  *)
(* with, a reply to the client or a message to another service.              *)

\* The payload of a message or reply: up to four bytes.
effect_reply(status, payload) ==
    [kind |-> "Reply", status |-> status, payload |-> payload,
     send_dropped |-> FALSE]

effect_send(endpoint, payload) ==
    [kind |-> "Send", endpoint |-> endpoint, payload |-> payload]

effect_mark_send_dropped(effect) == [effect EXCEPT !.send_dropped = TRUE]
-----------------------------------------------------------------------------
(* The codes of their messages.                                              *)

FILE_OP_CREATE == 67
FILE_OP_WRITE  == 87
FILE_OP_READ   == 82
FILE_LENGTH    == 4

CMD_BANG == 33
CMD_C    == 67
CMD_P    == 80
CMD_W    == 87

answer(s, status, payload) == [state |-> s, effect |-> effect_reply(status, payload)]
-----------------------------------------------------------------------------
(* The log: its first bytes, in order.  Nothing ever empties it.             *)

log_init == << >>

log_handle(s, payload) ==
    IF payload = << >> THEN answer(s, "Ok", s)
    ELSE IF Len(s) >= LOG_BUFFER_CAPACITY THEN answer(s, "Exhausted", << >>)
    ELSE answer(Append(s, payload[1]), "Ok", << >>)
-----------------------------------------------------------------------------
(* The kv store: slots are filled in order and never freed, so it is a       *)
(* function from the keys in use.                                            *)

kv_init == [key \in {} |-> 0]

kvset(s, key, value) ==
    [k \in DOMAIN s \union {key} |-> IF k = key THEN value ELSE s[k]]

kv_has_room(s, key) == key \in DOMAIN s \/ Cardinality(DOMAIN s) < KV_CAPACITY

kvget(s, key) ==
    IF key \in DOMAIN s THEN answer(s, "Ok", << key, s[key] >>)
    ELSE answer(s, "InvalidArgument", << >>)

kv_handle(s, payload) ==
    CASE payload = << >>    -> answer(s, "Ok", << >>)
      [] Len(payload) = 1   -> kvget(s, payload[1])
      [] Len(payload) >= 2  ->
            IF kv_has_room(s, payload[1])
            THEN answer(kvset(s, payload[1], payload[2]), "Ok", << >>)
            ELSE answer(s, "Exhausted", << >>)
-----------------------------------------------------------------------------
(* The queue: full, it answers Exhausted once and WouldBlock from then on,   *)
(* so of stall_count only "some push was refused" is kept.  Popping leaves   *)
(* that mark, the next push clears it.                                       *)

queue_init == [items |-> << >>, stalled |-> FALSE]

queue_reload(s) == [s EXCEPT !.stalled = FALSE]

queue_push(s, value) ==
    IF Len(s.items) >= QUEUE_CAPACITY
    THEN answer([s EXCEPT !.stalled = TRUE],
                IF s.stalled THEN "WouldBlock" ELSE "Exhausted", << >>)
    ELSE answer([items |-> Append(s.items, value), stalled |-> FALSE], "Ok", << >>)

\* Mutant of queue_pop: the last item is taken.
queue_pop_last(s) ==
    IF s.items = << >> THEN answer(s, "InvalidArgument", << >>)
    ELSE answer([s EXCEPT !.items = Front(@)], "Ok", << Last(s.items) >>)

queue_pop(s) ==
    IF s.items = << >> THEN answer(s, "InvalidArgument", << >>)
    ELSE answer([s EXCEPT !.items = Tail(@)], "Ok", << Head(s.items) >>)

queue_peek(s) ==
    IF s.items = << >> THEN answer(s, "InvalidArgument", << >>)
    ELSE answer(s, "Ok", << Head(s.items) >>)

\* Two bytes ask: the number of items, the first item or the refused pushes.
queue_handle(s, payload) ==
    CASE payload = << >>  -> queue_pop(s)
      [] Len(payload) = 1 -> queue_push(s, payload[1])
      [] payload = << CMD_P, CMD_BANG >> -> queue_peek(s)
      [] payload \in {<< CMD_C, CMD_BANG >>, << CMD_W, CMD_BANG >>} ->
             answer(s, "Ok", << >>)
      [] OTHER -> answer(s, "InvalidArgument", << >>)
-----------------------------------------------------------------------------
(* Echo answers a bounded number of two-byte messages, then none until it is *)
(* restarted.                                                                *)

echo_init == 0

echo_handle(s, payload) ==
    IF Len(payload) # 2 THEN answer(s, "InvalidArgument", << >>)
    ELSE IF s >= ECHO_CAPACITY THEN answer(s, "Exhausted", << >>)
    ELSE answer(s + 1, "Ok", payload)
-----------------------------------------------------------------------------
(* Files: a function from the names in use to their content.                 *)

file_init == [name \in {} |-> << >>]

file_create(s, name) ==
    IF name \in DOMAIN s THEN answer(s, "Ok", << >>)
    ELSE IF Cardinality(DOMAIN s) >= FILE_CAPACITY THEN answer(s, "Exhausted", << >>)
    ELSE answer([n \in DOMAIN s \union {name} |->
                    IF n = name THEN << >> ELSE s[n]], "Ok", << >>)

file_write(s, name, value) ==
    IF name \notin DOMAIN s THEN answer(s, "InvalidArgument", << >>)
    ELSE IF Len(s[name]) >= FILE_LENGTH THEN answer(s, "Exhausted", << >>)
    ELSE answer([s EXCEPT ![name] = Append(@, value)], "Ok", << >>)

file_read(s, name) ==
    IF name \in DOMAIN s THEN answer(s, "Ok", s[name])
    ELSE answer(s, "InvalidArgument", << >>)

file_handle(s, payload) ==
    CASE payload = << >> -> answer(s, "Ok", << >>)
      [] Len(payload) >= 2 /\ payload[1] = FILE_OP_CREATE -> file_create(s, payload[2])
      [] Len(payload) >= 2 /\ payload[1] = FILE_OP_READ -> file_read(s, payload[2])
      [] Len(payload) >= 3 /\ payload[1] = FILE_OP_WRITE ->
             file_write(s, payload[2], payload[3])
      [] OTHER -> answer(s, "InvalidArgument", << >>)
-----------------------------------------------------------------------------
(* transfer_grant.mc: a bounded table of grants, each the right of one       *)
(* process to hand one endpoint to the transfer service; and                 *)
(* transfer_service.mc, which uses an endpoint once or keeps a pair of them. *)
(* Grant ids count up from 1 and are u32: the model has no bound on them and *)
(* speaks of the first 2^32 grants.                                          *)

LOG_ENDPOINT_ID      == 12
KV_ENDPOINT_ID       == 13
ECHO_ENDPOINT_ID     == 14
TRANSFER_ENDPOINT_ID == 15
QUEUE_ENDPOINT_ID    == 16
FILE_ENDPOINT_ID     == 18

TRANSFER_CMD_BIND == 66
TRANSFER_CMD_LOG  == 76
TRANSFER_CMD_KV   == 75
-----------------------------------------------------------------------------
(* transfer_grant.mc *)

GrantSlot == 1 .. GRANT_CAPACITY

\* A slot with endpoint 0 is free.
Grant == [owner : Nat, endpoint : Nat, id : Nat]

GrantTable == [slots : [GrantSlot -> Grant], next : Nat \ {0}]

no_grant == [owner |-> 0, endpoint |-> 0, id |-> 0]

grant_init == [slots |-> [i \in GrantSlot |-> no_grant], next |-> 1]

grant_free(t) == {i \in GrantSlot : t.slots[i].endpoint = 0}

\* Issuing answers Exhausted if no slot is free, else the id is t.next.
grant_issue(t, pid, endpoint) ==
    LET i == CHOOSE i \in grant_free(t) : \A j \in grant_free(t) : i <= j
    IN  [slots |-> [t.slots EXCEPT ![i] = [owner |-> pid, endpoint |-> endpoint,
                                           id |-> t.next]],
         next  |-> t.next + 1]

\* Mutant of grant_redeems: the owner is not compared.
grant_redeems_anyone(t, i, pid, id) ==
    /\ t.slots[i].id = id
    /\ t.slots[i].endpoint # 0

\* Slot i holds grant id, and holds it for pid.
grant_redeems(t, i, pid, id) ==
    /\ t.slots[i].id = id
    /\ t.slots[i].endpoint # 0
    /\ t.slots[i].owner = pid

\* One grant, or two with consecutive ids, are redeemed together or not at all.
grant_can_consume(t, pid, slot, count) ==
    /\ count \in {1, 2}
    /\ \A k \in 0 .. count - 1 : \E i \in GrantSlot : grant_redeems(t, i, pid, slot + k)

grant_endpoint(t, pid, id) ==
    t.slots[CHOOSE i \in GrantSlot : grant_redeems(t, i, pid, id)].endpoint

\* Mutant of grant_consume: of two grants only the first is taken out.
grant_consume_first(t, pid, slot, count) ==
    [t EXCEPT !.slots = [i \in GrantSlot |->
        IF grant_redeems(t, i, pid, slot) THEN no_grant ELSE t.slots[i]]]

grant_consume(t, pid, slot, count) ==
    [t EXCEPT !.slots = [i \in GrantSlot |->
        IF \E k \in 0 .. count - 1 : grant_redeems(t, i, pid, slot + k)
        THEN no_grant ELSE t.slots[i]]]
-----------------------------------------------------------------------------
(* transfer_service.mc.  endpoints are those of the grants a message was     *)
(* redeemed with, none for a message without handles.                        *)

TransferServiceState == [left : Nat, right : Nat]

transfer_init == [left |-> 0, right |-> 0]

transfer_reply(s, status) ==
    [state |-> s, effect |-> effect_reply(status, << >>)]

transfer_pair_ok(left, right) ==
    /\ {left, right} \subseteq {LOG_ENDPOINT_ID, KV_ENDPOINT_ID}
    /\ left # right

transfer_bind(s, endpoints) ==
    IF transfer_pair_ok(endpoints[1], endpoints[2])
    THEN transfer_reply([left |-> endpoints[1], right |-> endpoints[2]], "Ok")
    ELSE transfer_reply(s, "InvalidCapability")

\* Use the pair: the rest of the command is sent on, whoever asks.
transfer_use(s, endpoint, payload, len) ==
    CASE endpoint \notin {s.left, s.right} -> transfer_reply(s, "InvalidCapability")
      [] endpoint \in {s.left, s.right} /\ Len(payload) <= len ->
             transfer_reply(s, "InvalidArgument")
      [] endpoint \in {s.left, s.right} /\ Len(payload) > len ->
             [state |-> s, effect |-> effect_send(endpoint, SubSeq(payload, 2, len + 1))]

transfer_handle(s, endpoints, payload) ==
    CASE Len(endpoints) = 1 ->
             [state |-> s, effect |-> effect_send(endpoints[1], payload)]
      [] Len(endpoints) = 2 ->
             IF payload # << >> /\ payload[1] = TRANSFER_CMD_BIND
             THEN transfer_bind(s, endpoints)
             ELSE transfer_reply(s, "InvalidArgument")
      [] Len(endpoints) = 0 ->
             IF payload = << >> THEN transfer_reply(s, "InvalidArgument")
             ELSE CASE payload[1] = TRANSFER_CMD_LOG ->
                           transfer_use(s, LOG_ENDPOINT_ID, payload, 1)
                    [] payload[1] = TRANSFER_CMD_KV ->
                           transfer_use(s, KV_ENDPOINT_ID, payload, 2)
                    [] OTHER -> transfer_reply(s, "InvalidArgument")
=============================================================================
