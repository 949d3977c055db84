----------------------------- MODULE TicketCell -----------------------------
(* The ticket service cell of the kernel: dispatch_ticket runs one message   *)
(* at a time against the state, and restart_ticket replaces the state by a   *)
(* fresh table of the next epoch.  Clients keep the tickets they were given  *)
(* and may present any of them, at any time, any number of times.            *)
(*                                                                           *)
(* A ticket's bytes repeat when the u8 counters wrap.  The ghost variables   *)
(* therefore name a ticket by its true identity [run, serial]: the number    *)
(* of restarts before it was issued and its rank among that run's tickets.   *)
EXTENDS TicketService, FiniteSets

CONSTANTS MaxRestarts,  \* bound on restarts
          MaxGranted    \* bound on the tickets handed out over all runs

VARIABLES ticket,   \* current.ticket.state
          run,      \* ghost: restarts of the cell so far
          serial,   \* ghost: tickets issued in this run
          granted,  \* ghost: the tickets clients hold
          spent     \* ghost: the tickets whose use was answered Ok

vars == << ticket, run, serial, granted, spent >>

Ticket == [run : Nat, serial : Nat \ {0}]

\* The two bytes a client was given for ticket g.
EpochOf(g) == u8(g.run + 1)
IdOf(g)    == u8(g.serial)

TypeOK == /\ ticket \in TicketServiceState
          /\ run \in Nat
          /\ serial \in Nat
          /\ granted \subseteq Ticket
          /\ spent \subseteq granted

Init == /\ ticket = ticket_init(1)
        /\ run = 0
        /\ serial = 0
        /\ granted = {}
        /\ spent = {}

Issue == /\ Cardinality(granted) < MaxGranted
         /\ ticket_can_issue(ticket)
         /\ ticket' = ticket_issue(ticket)
         /\ serial' = serial + 1
         /\ granted' = granted \union {[run |-> run, serial |-> serial + 1]}
         /\ UNCHANGED << run, spent >>

IssueExhausted == /\ ~ticket_can_issue(ticket)
                  /\ UNCHANGED vars

Use(g) == /\ ticket' = ticket_use(ticket, EpochOf(g), IdOf(g))
          /\ spent' = IF ticket_use_code(ticket, EpochOf(g), IdOf(g)) = "Ok"
                      THEN spent \union {g} ELSE spent
          /\ UNCHANGED << run, serial, granted >>

restart_ticket == /\ run < MaxRestarts
                  /\ ticket' = ticket_init(u8(ticket.epoch + 1))
                  /\ run' = run + 1
                  /\ serial' = 0
                  /\ UNCHANGED << granted, spent >>

Next == \/ Issue
        \/ IssueExhausted
        \/ \E g \in granted : Use(g)
        \/ restart_ticket

Spec == Init /\ [][Next]_vars
-----------------------------------------------------------------------------
\* What a client that presents g should be told.
Truth(g) == IF g.run # run     THEN "Stale"
            ELSE IF g \in spent THEN "Consumed" ELSE "Ok"

\* The byte counters still tell all tickets apart.  The window closes one
\* issue before next wraps to 0, where the test id < next stops recognising
\* consumed ids, and after U8 restarts, when the epoch comes round again.
CountersFresh == run < U8 /\ serial < U8 - 1

\* ticket_use tells every client the truth about its ticket while the
\* counters are fresh: an unused ticket of this epoch is honoured, a used one
\* is refused as consumed, one issued before a restart is refused as stale.
TicketTruth ==
    CountersFresh =>
        \A g \in granted :
            ticket_use_code(ticket, EpochOf(g), IdOf(g)) = Truth(g)

\* A restart is the only way to lose a ticket: those issued since the last one
\* are in ticket_service's table until they are used, and nothing else is.
NoTicketLost ==
    CountersFresh =>
        ToSet(ticket.ids) =
            {IdOf(g) : g \in {h \in granted \ spent : h.run = run}}
=============================================================================
