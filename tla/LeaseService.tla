---------------------------- MODULE LeaseService ----------------------------
(* kernel/src/services/lease_service.mc: a bounded table of single-use       *)
(* rights to one action of another service: taking a completion, applying    *)
(* the staged update, updating an object, using a ticket.  A lease is bound  *)
(* to the generation of the service it delegates to.                         *)
EXTENDS Bytes, Sequences, SequencesExt

CONSTANT LEASE_CAPACITY  \* 4 in the code

ASSUME LeaseAssumption == LEASE_CAPACITY \in Nat \ {0}

LEASE_KIND_COMPLETION      == 67
LEASE_KIND_INSTALLER_APPLY == 65
LEASE_KIND_OBJECT_UPDATE   == 87
LEASE_KIND_EXTERNAL_TICKET == 84

\* A lease carries up to three bytes of arguments, unused ones are 0.
Lease == [id : Byte, kind : Byte, first : Byte, second : Byte, third : Byte,
          generation : Byte]

LeaseServiceState == [leases : Seq(Lease), next : Byte]

lease_init == [leases |-> << >>, next |-> 1]

\* Issuing answers Exhausted if the table is full.
lease_can_issue(s) == Len(s.leases) < LEASE_CAPACITY

\* Mutant: the next id is derived from the length of the table.
lease_issue_by_len(s, kind, args, generation) ==
    [leases |-> Append(s.leases,
                    [id |-> u8(Len(s.leases) + 1), kind |-> kind, first |-> args[1],
                     second |-> args[2], third |-> args[3],
                     generation |-> generation]),
     next   |-> u8(Len(s.leases) + 2)]

lease_issue(s, kind, args, generation) ==
    [leases |-> Append(s.leases,
                    [id |-> s.next, kind |-> kind, first |-> args[1],
                     second |-> args[2], third |-> args[3],
                     generation |-> generation]),
     next   |-> u8(s.next + 1)]

lease_find(s, id) == SelectInSeq(s.leases, LAMBDA l : l.id = id)

\* The code that answers the attempt to consume lease id as one of this kind;
\* firsts are the workflows it may be for.  Only a missing installer lease is
\* told apart as consumed.
lease_consume_code(s, id, kind, firsts, generation) ==
    LET idx == lease_find(s, id)
        right == s.leases[idx].kind = kind /\ s.leases[idx].first \in firsts
    IN  CASE idx = 0 -> IF /\ kind = LEASE_KIND_INSTALLER_APPLY
                           /\ id # 0 /\ id < s.next
                        THEN "Consumed" ELSE "Invalid"
          [] idx # 0 /\ ~right -> "Invalid"
          [] idx # 0 /\ right ->
                IF s.leases[idx].generation # generation THEN "Stale" ELSE "Ok"

\* The lease is dropped when it is honoured, and when it is stale.
lease_consume(s, id, code) ==
    IF code \in {"Ok", "Stale"}
    THEN [s EXCEPT !.leases = RemoveAt(@, lease_find(s, id))] ELSE s

lease_consume_completion(s, id, workflow, generation) ==
    lease_consume_code(s, id, LEASE_KIND_COMPLETION, {workflow}, generation)

lease_consume_installer_apply(s, id, generation) ==
    lease_consume_code(s, id, LEASE_KIND_INSTALLER_APPLY, Byte, generation)

lease_consume_object_update(s, id, generation) ==
    lease_consume_code(s, id, LEASE_KIND_OBJECT_UPDATE, Byte, generation)

lease_consume_external_ticket(s, id, generation) ==
    lease_consume_code(s, id, LEASE_KIND_EXTERNAL_TICKET, Byte, generation)
=============================================================================
