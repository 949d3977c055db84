----------------------------- MODULE LeaseCell -----------------------------
(* The lease service cell of the kernel: dispatch_lease and the workflow     *)
(* service issue and consume leases one message at a time, restart_lease     *)
(* replaces the state by an empty table, and the services that leases        *)
(* delegate to restart with the next generation.  Clients keep the ids they  *)
(* were given and may present any of them, at any time, any number of times. *)
(*                                                                           *)
(* Ids and generations are bytes and repeat.  The ghost variables name a     *)
(* lease by what it truly is: the number of restarts before it was issued,   *)
(* its rank in that run, the right it gives and the generation it was        *)
(* issued in.                                                                *)
EXTENDS LeaseService, FiniteSets

CONSTANTS Rights,          \* [kind, args] of the leases clients ask for
          MaxRuns,         \* bound on the restarts of the lease service
          MaxGenerations,  \* bound on the restarts of the others together
          MaxIssued        \* bound on the leases issued over all runs

LEASE_KINDS == {LEASE_KIND_COMPLETION, LEASE_KIND_INSTALLER_APPLY,
                LEASE_KIND_OBJECT_UPDATE, LEASE_KIND_EXTERNAL_TICKET}

\* A right is one of the four kinds with three bytes of arguments.
ASSUME RightsAssumption == Rights \subseteq [kind : LEASE_KINDS, args : [1 .. 3 -> Byte]]

VARIABLES lease,       \* current.lease.state
          generation,  \* true count of the generations of the others
          leaseRun,    \* ghost: restarts of the cell so far
          leaseSerial, \* ghost: leases issued in this run
          issued,      \* ghost: the leases clients hold
          held         \* ghost: which lease each entry of the table is

leaseVars == << lease, generation, leaseRun, leaseSerial, issued, held >>

Delegates == {"completion", "workset", "ticket"}
DelegateOf(kind) ==
    CASE kind = LEASE_KIND_COMPLETION      -> "completion"
      [] kind = LEASE_KIND_INSTALLER_APPLY -> "workset"
      [] kind = LEASE_KIND_OBJECT_UPDATE   -> "workset"
      [] kind = LEASE_KIND_EXTERNAL_TICKET -> "ticket"

LeaseIdOf(l) == u8(l.serial)
GenerationOf(l) == generation[DelegateOf(l.right.kind)]

LeaseInit ==
    /\ lease = lease_init
    /\ generation = [d \in Delegates |-> 1]
    /\ leaseRun = 0 /\ leaseSerial = 0 /\ issued = {} /\ held = << >>

\* A workflow, an object that exists with its version, or a ticket; the
\* installer's right has no arguments.
CanLease(right) ==
    CASE right.kind = LEASE_KIND_COMPLETION      -> right.args[1] # 0
      [] right.kind = LEASE_KIND_OBJECT_UPDATE   -> right.args[3] # 0
      [] right.kind = LEASE_KIND_EXTERNAL_TICKET -> right.args[1] # 0 /\ right.args[2] # 0
      [] OTHER -> TRUE

IssueLease(right) ==
    LET l == [run |-> leaseRun, serial |-> leaseSerial + 1, right |-> right,
              born |-> generation[DelegateOf(right.kind)]]
    IN  /\ Cardinality(issued) < MaxIssued
        /\ CanLease(right) /\ lease_can_issue(lease)
        /\ lease' = lease_issue(lease, right.kind, right.args, u8(l.born))
        /\ leaseSerial' = leaseSerial + 1 /\ issued' = issued \cup {l} /\ held' = Append(held, l)
        /\ UNCHANGED << generation, leaseRun >>

\* What the holder of l is told when it presents its id.
Code(l) ==
    LET now == u8(GenerationOf(l))
    IN  CASE l.right.kind = LEASE_KIND_COMPLETION ->
               lease_consume_completion(lease, LeaseIdOf(l), l.right.args[1], now)
          [] l.right.kind = LEASE_KIND_INSTALLER_APPLY ->
               lease_consume_installer_apply(lease, LeaseIdOf(l), now)
          [] l.right.kind = LEASE_KIND_OBJECT_UPDATE ->
               lease_consume_object_update(lease, LeaseIdOf(l), now)
          [] l.right.kind = LEASE_KIND_EXTERNAL_TICKET ->
               lease_consume_external_ticket(lease, LeaseIdOf(l), now)

ConsumeLease(l) ==
    /\ lease' = lease_consume(lease, LeaseIdOf(l), Code(l))
    /\ held' = IF Code(l) \in {"Ok", "Stale"} THEN RemoveAt(held, lease_find(lease, LeaseIdOf(l))) ELSE held
    /\ UNCHANGED << generation, leaseRun, leaseSerial, issued >>

restart_lease ==
    /\ leaseRun < MaxRuns
    /\ lease' = lease_init
    /\ leaseRun' = leaseRun + 1 /\ leaseSerial' = 0 /\ held' = << >>
    /\ UNCHANGED << generation, issued >>

RestartDelegate(d) ==
    /\ generation["completion"] + generation["workset"] + generation["ticket"] < 3 + MaxGenerations
    /\ generation' = [generation EXCEPT ![d] = @ + 1]
    /\ UNCHANGED << lease, leaseRun, leaseSerial, issued, held >>

LeaseNext ==
    \/ \E right \in Rights : IssueLease(right)
    \/ \E l \in issued : ConsumeLease(l)
    \/ restart_lease
    \/ \E d \in Delegates : RestartDelegate(d)

LeaseSpec == LeaseInit /\ [][LeaseNext]_leaseVars
-----------------------------------------------------------------------------
\* The bytes still tell the leases of this run and their generations apart.
LeaseBytesFresh ==
    /\ leaseSerial < U8 - 1
    /\ \A l \in ToSet(held) : GenerationOf(l) - l.born < U8

Entry(l) == lease.leases[lease_find(lease, LeaseIdOf(l))]

\* Every id of this run of the lease service names its own lease until that is
\* consumed, and nothing afterwards: it is honoured with the right it was
\* issued for if the service it delegates to has not restarted since, dropped
\* as stale if it has, and refused for ever after (lease_consume_*).  An id of
\* an earlier run is worth what the lease of this run with that id is worth
\* to a holder of the same kind, and nothing if there is none: ids start
\* again at 1, so lease_service does not know it from the new one.
LeaseTruth ==
    LeaseBytesFresh =>
        \A l \in issued :
            IF l.run = leaseRun
            THEN IF l \in ToSet(held)
                 THEN /\ Code(l) = IF l.born = GenerationOf(l) THEN "Ok" ELSE "Stale"
                      /\ held[lease_find(lease, LeaseIdOf(l))] = l
                      /\ l.right.args = << Entry(l).first, Entry(l).second, Entry(l).third >>
                 ELSE Code(l) = IF l.right.kind = LEASE_KIND_INSTALLER_APPLY THEN "Consumed" ELSE "Invalid"
            ELSE Code(l) \in {"Ok", "Stale"} =>
                     \E m \in ToSet(held) : LeaseIdOf(m) = LeaseIdOf(l) /\ m.right.kind = l.right.kind
=============================================================================
