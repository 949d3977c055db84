-------------------------- MODULE CompletionMailbox --------------------------
(* kernel/src/services/completion_mailbox_service.mc: the bounded queue that *)
(* the outcomes of workflows are reported through.  A full mailbox answers   *)
(* Exhausted to the first delivery it refuses and WouldBlock to the later    *)
(* ones, so of stall_count only "some delivery was refused" is kept.         *)
EXTENDS Bytes, Sequences, SequencesExt

CONSTANT MAILBOX_CAPACITY  \* 4 in the code

ASSUME MailboxAssumption == MAILBOX_CAPACITY \in Nat \ {0}

Completion == [id : Byte, state : Byte, restart : Byte, generation : Byte]

CompletionMailboxServiceState ==
    [queue : Seq(Completion), stalled : BOOLEAN]

completion_mailbox_init == [queue |-> << >>, stalled |-> FALSE]

\* A reload keeps the queue and forgets that deliveries were refused.
completion_mailbox_reload(s) == [s EXCEPT !.stalled = FALSE]

completion_mailbox_enqueue(s, c) ==
    IF Len(s.queue) >= MAILBOX_CAPACITY
    THEN [state  |-> [s EXCEPT !.stalled = TRUE],
          status |-> IF s.stalled THEN "WouldBlock" ELSE "Exhausted"]
    ELSE [state  |-> [queue |-> Append(s.queue, c), stalled |-> FALSE],
          status |-> "Ok"]

\* Acknowledging drops the head; taking drops it if it has the given id.
completion_mailbox_ack(s) ==
    IF s.queue = << >> THEN s ELSE [s EXCEPT !.queue = Tail(@)]

completion_mailbox_take(s, id) ==
    IF s.queue # << >> /\ Head(s.queue).id = id
    THEN completion_mailbox_ack(s) ELSE s
=============================================================================
