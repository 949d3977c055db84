-------------------------- MODULE ConnectionService --------------------------
(* kernel/src/services/connection_service.mc: a fixed set of connection      *)
(* slots.  work is the request the slot is occupied by (0: none) and idle    *)
(* the number of operations left before the connection times out.  The ids   *)
(* and reply arrays only fill answers and are left out.                      *)
EXTENDS Bytes

CONSTANT CONNECTION_CAPACITY  \* 4 in the code

ASSUME ConnectionAssumption == CONNECTION_CAPACITY \in Nat \ {0}

CONNECTION_STATE_INVALID      == 73
CONNECTION_STATE_OPEN         == 79
CONNECTION_STATE_RECEIVED     == 82
CONNECTION_STATE_REPLIED      == 83
CONNECTION_STATE_DISCONNECTED == 68
CONNECTION_STATE_TIMED_OUT    == 84

CONNECTION_EXTERNAL_TICKET_BASE == 128

ConnectionSlot == 0 .. CONNECTION_CAPACITY - 1

Connection == [state : Byte, ingress : Byte, work : Byte, idle : Byte]

ConnectionServiceState == [slots : [ConnectionSlot -> Connection], next : Byte]

connection_init ==
    [slots |-> [slot \in ConnectionSlot |->
                   [state |-> 0, ingress |-> 0, work |-> 0, idle |-> 0]],
     next  |-> 1]

connection_active_state(state) ==
    state \in {CONNECTION_STATE_OPEN, CONNECTION_STATE_RECEIVED,
               CONNECTION_STATE_REPLIED}

connection_with(s, slot, c) == [s EXCEPT !.slots[slot] = c]

connection_mark_timed_out(c) ==
    [c EXCEPT !.state = CONNECTION_STATE_TIMED_OUT, !.idle = 0, !.work = 0]

\* What connection_validate finds: the slot is refused as it is, is refused
\* and marked timed out because its budget is used up, or may be used.
connection_validate(s, slot) ==
    IF ~connection_active_state(s.slots[slot].state) THEN "refused"
    ELSE IF s.slots[slot].idle = 0 THEN "expired" ELSE "usable"

\* An operation that validates first: the slot is changed to c if it is
\* usable and ok holds, and marked timed out if its budget is used up.
connection_checked(s, slot, ok, c) ==
    CASE connection_validate(s, slot) = "expired" ->
             connection_with(s, slot, connection_mark_timed_out(s.slots[slot]))
      [] connection_validate(s, slot) = "usable" /\ ok ->
             connection_with(s, slot, c)
      [] OTHER -> s

\* Opening resets the slot, whatever it was doing.
connection_open(s, slot, budget) ==
    IF budget = 0 THEN s
    ELSE connection_with(s, slot, [state |-> CONNECTION_STATE_OPEN,
                                   ingress |-> 0, work |-> 0, idle |-> budget])

connection_receive(s, slot, value) ==
    LET c == s.slots[slot]
    IN  connection_checked(s, slot, c.work = 0,
            [c EXCEPT !.state = CONNECTION_STATE_RECEIVED, !.ingress = value,
                      !.idle = @ - 1])

connection_send(s, slot) ==
    LET c == s.slots[slot]
    IN  connection_checked(s, slot,
            /\ c.state \in {CONNECTION_STATE_RECEIVED, CONNECTION_STATE_REPLIED}
            /\ c.work = 0,
            [c EXCEPT !.state = CONNECTION_STATE_REPLIED, !.idle = @ - 1])

\* Closing leaves one of three states, depending on the reason given.
connection_close(s, slot, state) ==
    connection_with(s, slot,
        [s.slots[slot] EXCEPT !.state = state, !.work = 0, !.idle = 0])

\* Request ids skip 0 when the counter wraps.
connection_next_request_id(next) == IF next = 0 THEN 1 ELSE next

\* Preparing to execute the received request occupies the slot.
connection_can_execute(s, slot) ==
    /\ connection_validate(s, slot) = "usable"
    /\ s.slots[slot].state = CONNECTION_STATE_RECEIVED
    /\ s.slots[slot].work = 0

connection_execute_prepare(s, slot) ==
    LET request == connection_next_request_id(s.next)
    IN  [state   |-> [slots |-> [s.slots EXCEPT ![slot].work = request,
                                                ![slot].idle = @ - 1],
                      next  |-> connection_next_request_id(u8(request + 1))],
         request |-> request,
         opcode  |-> s.slots[slot].ingress]

connection_request_active(s, slot, request) ==
    /\ slot \in ConnectionSlot
    /\ connection_active_state(s.slots[slot].state)
    /\ s.slots[slot].work = request

connection_request_finish(s, slot, request) ==
    IF slot \in ConnectionSlot /\ s.slots[slot].work = request
    THEN [s EXCEPT !.slots[slot].work = 0] ELSE s
=============================================================================
