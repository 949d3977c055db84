--------------------------- MODULE TicketService ---------------------------
(* kernel/src/services/ticket_service.mc: a bounded table of single-use      *)
(* tickets, each named by two bytes [epoch, id].  The service is a pure      *)
(* function of its state, so this is a module of operators; TicketCell and   *)
(* WorkflowKernel own the state.                                             *)
EXTENDS Bytes, Sequences, SequencesExt

CONSTANT TICKET_CAPACITY  \* 4 in the code

ASSUME TicketAssumption == TICKET_CAPACITY \in Nat \ {0}

\* ids[0 .. len-1] is a sequence; pid and slot never change.
TicketServiceState == [epoch : Byte, next : Byte, ids : Seq(Byte)]

ticket_init(epoch) == [epoch |-> epoch, next |-> 1, ids |-> << >>]

\* Issue answers Exhausted, or Ok with the bytes <<epoch, next>>.
ticket_can_issue(s) == Len(s.ids) < TICKET_CAPACITY

ticket_issue(s) ==
    [s EXCEPT !.next = u8(@ + 1), !.ids = Append(@, s.next)]

\* Mutant of ticket_use_code: the epoch is not compared.
ticket_use_code_any_epoch(s, epoch, id) ==
    IF Contains(s.ids, id) THEN "Ok"
    ELSE IF id # 0 /\ id < s.next THEN "Consumed" ELSE "Invalid"

\* The answer to a use: the epoch is compared before the table is searched,
\* and an id that is absent counts as consumed if it lies below next.
ticket_use_code(s, epoch, id) ==
    IF epoch # s.epoch           THEN "Stale"
    ELSE IF Contains(s.ids, id)  THEN "Ok"
    ELSE IF id # 0 /\ id < s.next THEN "Consumed"
    ELSE "Invalid"

\* Mutant of ticket_use: the slots behind the used ticket are not kept.
ticket_use_truncates(s, epoch, id) ==
    IF ticket_use_code(s, epoch, id) = "Ok"
    THEN [s EXCEPT !.ids = SelectSeq(@, LAMBDA x : x < id)]
    ELSE s

\* Only an accepted use changes the table: it drops the first such id.
ticket_use(s, epoch, id) ==
    IF ticket_use_code(s, epoch, id) = "Ok"
    THEN [s EXCEPT !.ids = RemoveFirst(@, id)]
    ELSE s
=============================================================================
