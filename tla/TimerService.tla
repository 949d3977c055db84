---------------------------- MODULE TimerService ----------------------------
(* kernel/src/services/timer_service.mc: a bounded table of countdown        *)
(* timers.  There is no clock: a timer is counted down once by every message *)
(* handled by the timer service and by every step of the workflow service.   *)
(* The tick counter of the code is left out: nothing reads it.               *)
EXTENDS Bytes, Sequences, SequencesExt

CONSTANT TIMER_CAPACITY  \* 4 in the code

ASSUME TimerAssumption == TIMER_CAPACITY \in Nat \ {0}

TIMER_STATE_ACTIVE    == 65
TIMER_STATE_EXPIRED   == 69
TIMER_STATE_CANCELLED == 67

\* The parallel arrays ids, due and state, up to len, as a sequence.
Timer == [id : Byte, due : Byte, state : Byte]

TimerServiceState == Seq(Timer)

timer_init == << >>

\* The index of the first timer with this id, 0 if there is none.
timer_find(s, id) == SelectInSeq(s, LAMBDA t : t.id = id)

timer_count_down(t) ==
    LET due == IF t.due = 0 THEN 0 ELSE t.due - 1
    IN  IF t.state # TIMER_STATE_ACTIVE THEN t
        ELSE [t EXCEPT !.due = due,
                       !.state = IF due = 0 THEN TIMER_STATE_EXPIRED ELSE @]

timer_tick(s) == [i \in DOMAIN s |-> timer_count_down(s[i])]

\* Creating a timer under an id in use rearms that timer, whoever armed it.
timer_create(s, id, due) ==
    LET idx  == timer_find(s, id)
        armed == [id |-> id, due |-> due, state |-> TIMER_STATE_ACTIVE]
    IN  IF idx # 0 THEN [state |-> [s EXCEPT ![idx] = armed], status |-> "Ok"]
        ELSE IF Len(s) >= TIMER_CAPACITY THEN [state |-> s, status |-> "Exhausted"]
        ELSE [state |-> Append(s, armed), status |-> "Ok"]

\* Only an active timer can be cancelled; its entry stays in the table.
timer_cancel(s, id) ==
    LET idx == timer_find(s, id)
    IN  IF idx # 0 /\ s[idx].state = TIMER_STATE_ACTIVE
        THEN [state |-> [s EXCEPT ![idx].state = TIMER_STATE_CANCELLED],
              status |-> "Ok"]
        ELSE [state |-> s, status |-> "InvalidArgument"]
=============================================================================
