-------------------------- MODULE LaneKernel_proofs --------------------------
(* The grant table, the restart ledger and the services of LaneKernel, for   *)
(* every capacity, any processes, endpoints and messages and any number of   *)
(* grants and restarts.                                                      *)
EXTENDS LaneKernel, SequenceTheorems, FiniteSetTheorems, WellFoundedInduction, TLAPS

GrantRecord == [owner : Nat, endpoint : Nat \ {0}, spent : Nat, by : Nat]

GrantTypes == /\ grants \in GrantTable
              /\ granted \in Seq(GrantRecord)
              /\ generation \in [Cell -> Nat \ {0}]

\* GrantTruth is inductive once the table, the ghost and the generations have
\* their types: a redeemed grant is marked with a generation, which is not 0.
GrantInv == GrantTypes /\ GrantTruth

\* A step that issues or redeems nothing.
Elsewhere == UNCHANGED << grants, granted >> /\ generation' \in [Cell -> Nat \ {0}]

\* The first of some slots, as a loop over the slots finds it.
LEMMA FirstSlot ==
    ASSUME NEW F, F \subseteq Nat, F # {}
    PROVE  \E i \in F : \A j \in F : i <= j
<1> DEFINE R == OpToRel(<, Nat)
<1>1. PICK x \in F : \A y \in F : ~(<< y, x >> \in R)
  <2> HIDE DEF R
  <2>1. IsWellFoundedOn(R, Nat) BY NatLessThanWellFounded DEF R
  <2>2. QED BY <2>1, WFMin
<1>2. \A y \in F : ~(y < x) BY <1>1 DEF OpToRel
<1>3. QED BY <1>2

\* Issuing fills one slot that was free with a grant of a new id.
LEMMA IssueFills ==
    ASSUME NEW t \in GrantTable, grant_free(t) # {},
           NEW pid \in Nat, NEW endpoint \in Nat
    PROVE  \E i \in grant_free(t) :
              grant_issue(t, pid, endpoint) =
                  [slots |-> [t.slots EXCEPT ![i] = [owner |-> pid, endpoint |-> endpoint,
                                                     id |-> t.next]],
                   next  |-> t.next + 1]
<1> DEFINE F == grant_free(t)
           i == CHOOSE i \in F : \A j \in F : i <= j
<1>1. F \subseteq Nat BY GrantAssumption DEF grant_free, GrantSlot
<1>2. \E k \in F : \A j \in F : k <= j BY <1>1, FirstSlot
<1>3. i \in F BY <1>2
<1>4. QED BY <1>3 DEF grant_issue

\* Redeeming empties the slots of the grants redeemed and no other.
LEMMA ConsumeEmpties ==
    ASSUME NEW t \in GrantTable, NEW pid, NEW slot \in Nat, NEW count \in {1, 2}
    PROVE  /\ grant_consume(t, pid, slot, count) \in GrantTable
           /\ grant_consume(t, pid, slot, count).next = t.next
           /\ \A i \in GrantSlot :
                 grant_consume(t, pid, slot, count).slots[i] =
                     IF \E id \in slot .. slot + count - 1 : grant_redeems(t, i, pid, id)
                     THEN no_grant ELSE t.slots[i]
<1>1. no_grant \in Grant BY DEF no_grant, Grant
<1>2. \A i \in GrantSlot :
         (\E k \in 0 .. count - 1 : grant_redeems(t, i, pid, slot + k))
         <=> (\E id \in slot .. slot + count - 1 : grant_redeems(t, i, pid, id))
  <2> SUFFICES ASSUME NEW i \in GrantSlot
               PROVE  (\E k \in 0 .. count - 1 : grant_redeems(t, i, pid, slot + k))
                      <=> (\E id \in slot .. slot + count - 1 : grant_redeems(t, i, pid, id))
    OBVIOUS
  <2>1. \A k \in 0 .. count - 1 : slot + k \in slot .. slot + count - 1 OBVIOUS
  <2>2. \A id \in slot .. slot + count - 1 :
           id - slot \in 0 .. count - 1 /\ slot + (id - slot) = id OBVIOUS
  <2>3. QED BY <2>1, <2>2
<1>3. grant_consume(t, pid, slot, count) =
        [slots |-> [i \in GrantSlot |->
                      IF \E k \in 0 .. count - 1 : grant_redeems(t, i, pid, slot + k)
                      THEN no_grant ELSE t.slots[i]],
         next  |-> t.next]
  BY DEF grant_consume, GrantTable
<1>4. QED BY <1>1, <1>2, <1>3 DEF GrantTable

\* At boot the table is empty and nothing was granted (grant_init).
LEMMA GrantInit == Init => GrantInv
<1> SUFFICES ASSUME Init PROVE GrantInv OBVIOUS
<1>1. grants = grant_init /\ granted = << >> /\ generation = [c \in Cell |-> 1]
  BY DEF Init, LedgerInit
<1>2. grants \in GrantTable /\ grants.next = 1
      /\ \A i \in GrantSlot : grants.slots[i] = no_grant
  BY <1>1 DEF grant_init, GrantTable, Grant, no_grant
<1>3. GrantTypes BY <1>1, <1>2 DEF GrantTypes
<1>4. \A i \in GrantSlot : ~Live(i) BY <1>2 DEF Live, no_grant
<1>5. Len(granted) = 0 /\ DOMAIN granted = {} BY <1>1
<1>6. GrantTruth BY <1>2, <1>4, <1>5 DEF GrantTruth
<1>7. QED BY <1>3, <1>6 DEF GrantInv

\* Messages without handles and restarts leave the table as it is.
LEMMA GrantElsewhere == GrantInv /\ Elsewhere => GrantInv'
BY DEF GrantInv, Elsewhere, GrantTypes, GrantTruth, Live, Unspent

\* Issuing (grant_issue) adds one unredeemed grant and its slot.
LEMMA GrantIssued ==
    ASSUME NEW pid \in Nat, NEW endpoint \in Nat \ {0},
           GrantInv, GrantIssue(pid, endpoint)
    PROVE  GrantInv'
<1> DEFINE new == [owner |-> pid, endpoint |-> endpoint, spent |-> 0, by |-> 0]
<1>t. GrantTypes /\ GrantTruth BY DEF GrantInv
<1>1. PICK f \in grant_free(grants) :
         grants' = [slots |-> [grants.slots EXCEPT ![f] =
                                  [owner |-> pid, endpoint |-> endpoint, id |-> grants.next]],
                    next  |-> grants.next + 1]
  BY <1>t, IssueFills DEF GrantIssue, GrantTypes
<1>2. f \in GrantSlot /\ ~Live(f) BY DEF grant_free, Live
<1>3. granted' = Append(granted, new) /\ new \in GrantRecord
  BY DEF GrantIssue, GrantRecord
<1>4. granted' \in Seq(GrantRecord) /\ Len(granted') = Len(granted) + 1
      /\ granted'[Len(granted) + 1] = new
      /\ \A id \in 1 .. Len(granted) : granted'[id] = granted[id]
  BY <1>t, <1>3 DEF GrantTypes
<1>5. grants' \in GrantTable
  BY <1>t, <1>1, <1>2 DEF GrantTypes, GrantTable, Grant
<1>6. generation' = generation BY DEF GrantIssue, ledger
<1>7. GrantTypes' BY <1>t, <1>4, <1>5, <1>6 DEF GrantTypes
<1> DEFINE n == Len(granted) + 1
<1>8. n \in Nat /\ grants.next = n /\ DOMAIN granted = 1 .. Len(granted)
      /\ DOMAIN granted' = 1 .. n /\ Len(granted) \in Nat
  BY <1>t, <1>4 DEF GrantTypes, GrantTruth
<1>9. /\ grants'.slots[f] = [owner |-> pid, endpoint |-> endpoint, id |-> n]
      /\ \A i \in GrantSlot \ {f} : grants'.slots[i] = grants.slots[i]
      /\ grants'.next = n + 1
  BY <1>t, <1>1, <1>2, <1>8 DEF GrantTypes, GrantTable
<1> HIDE DEF n
<1>10. Live(f)' /\ \A i \in GrantSlot \ {f} : Live(i)' <=> Live(i)
  BY <1>9 DEF Live
<1>11. /\ \A id \in DOMAIN granted : id # n /\ id \in DOMAIN granted'
                                     /\ granted'[id] = granted[id]
       /\ n \in DOMAIN granted' /\ granted'[n] = new
       /\ \A id \in DOMAIN granted' : id = n \/ id \in DOMAIN granted
  BY <1>4, <1>8 DEF n
<1>12. \A id \in DOMAIN granted : Unspent(id)' <=> Unspent(id)
  BY <1>11 DEF Unspent
<1>13. n \in DOMAIN granted' /\ granted'[n].spent = 0 BY <1>11
<1>14. \A i \in GrantSlot \ {f} : Live(i) =>
          /\ grants.slots[i].id \in DOMAIN granted
          /\ Unspent(grants.slots[i].id)
  BY <1>t DEF GrantTruth, Unspent
<1>15. (grants.next = Len(granted) + 1)' BY <1>4, <1>8, <1>9 DEF n
<1>16. (\A i \in GrantSlot :
          Live(i) => /\ Unspent(grants.slots[i].id)
                     /\ granted[grants.slots[i].id].owner = grants.slots[i].owner
                     /\ granted[grants.slots[i].id].endpoint = grants.slots[i].endpoint)'
  <2> SUFFICES ASSUME NEW i \in GrantSlot, Live(i)'
               PROVE  (/\ Unspent(grants.slots[i].id)
                       /\ granted[grants.slots[i].id].owner = grants.slots[i].owner
                       /\ granted[grants.slots[i].id].endpoint = grants.slots[i].endpoint)'
    OBVIOUS
  <2>1. CASE i = f BY <2>1, <1>9, <1>11, <1>13 DEF Unspent
  <2>2. CASE i # f
    <3>1. Live(i) /\ grants'.slots[i] = grants.slots[i] BY <2>2, <1>9, <1>10
    <3> DEFINE id == grants.slots[i].id
    <3>2. id \in DOMAIN granted /\ Unspent(id) BY <2>2, <3>1, <1>14
    <3>3. granted[id].owner = grants.slots[i].owner
          /\ granted[id].endpoint = grants.slots[i].endpoint
      BY <1>t, <3>1 DEF GrantTruth
    <3>4. granted'[id] = granted[id] /\ id \in DOMAIN granted' BY <3>2, <1>11
    <3>5. QED BY <3>1, <3>2, <3>3, <3>4 DEF Unspent
  <2>3. QED BY <2>1, <2>2
<1>17. (\A i, j \in GrantSlot :
          Live(i) /\ Live(j) /\ grants.slots[i].id = grants.slots[j].id => i = j)'
  <2> SUFFICES ASSUME NEW i \in GrantSlot, NEW j \in GrantSlot, Live(i)', Live(j)',
                      grants'.slots[i].id = grants'.slots[j].id
               PROVE  i = j
    OBVIOUS
  <2>1. \A k \in GrantSlot \ {f} : Live(k) => grants'.slots[k].id # n
    BY <1>9, <1>11, <1>14
  <2>2. CASE i = f \/ j = f BY <2>1, <2>2, <1>9, <1>10
  <2>3. CASE i # f /\ j # f BY <2>3, <1>t, <1>9, <1>10 DEF GrantTruth
  <2>4. QED BY <2>2, <2>3
<1>18. (\A id \in DOMAIN granted :
          Unspent(id) => \E i \in GrantSlot : Live(i) /\ grants.slots[i].id = id)'
  <2> SUFFICES ASSUME NEW id \in DOMAIN granted', Unspent(id)'
               PROVE  \E i \in GrantSlot : Live(i)' /\ grants'.slots[i].id = id
    OBVIOUS
  <2>1. CASE id = n BY <2>1, <1>2, <1>9, <1>10
  <2>2. CASE id \in DOMAIN granted
    <3>1. PICK i \in GrantSlot : Live(i) /\ grants.slots[i].id = id
      BY <2>2, <1>t, <1>12 DEF GrantTruth
    <3>2. i # f BY <3>1, <1>2
    <3>3. QED BY <3>1, <3>2, <1>9, <1>10
  <2>3. QED BY <2>1, <2>2, <1>11
<1>19. (\A id \in DOMAIN granted :
          ~ Unspent(id) => granted[id].by = granted[id].owner)'
  <2> SUFFICES ASSUME NEW id \in DOMAIN granted', ~Unspent(id)'
               PROVE  granted'[id].by = granted'[id].owner
    OBVIOUS
  <2>1. id \in DOMAIN granted BY <1>11, <1>13 DEF Unspent
  <2>2. ~Unspent(id) BY <2>1, <1>12
  <2>3. QED BY <2>1, <2>2, <1>t, <1>11 DEF GrantTruth
<1>20. GrantTruth' BY <1>15, <1>16, <1>17, <1>18, <1>19 DEF GrantTruth
<1>21. QED BY <1>7, <1>20 DEF GrantInv

\* Redeeming one grant or two (grant_consume) takes exactly these, which the
\* sender owns, out of the table, whatever the transfer service answers.
LEMMA GrantRedeemed ==
    ASSUME NEW pid \in Nat, NEW slot \in Nat, NEW count \in {1, 2}, NEW payload,
           GrantInv, ReceiveHandles(pid, slot, count, payload)
    PROVE  GrantInv'
<1> DEFINE D == slot .. slot + count - 1
           g == generation["transfer"]
<1>t. GrantTypes /\ GrantTruth BY DEF GrantInv
<1>g. g \in Nat \ {0} BY <1>t DEF GrantTypes, Cell, Service, Replaced
<1>1. /\ grant_can_consume(grants, pid, slot, count)
      /\ grants' = grant_consume(grants, pid, slot, count)
      /\ granted' = [id \in DOMAIN granted |->
                        IF id \in D THEN [granted[id] EXCEPT !.spent = g, !.by = pid]
                        ELSE granted[id]]
      /\ generation' = generation
  BY DEF ReceiveHandles, ledger
<1>2. \A id \in D : \E i \in GrantSlot : grant_redeems(grants, i, pid, id)
  <2> SUFFICES ASSUME NEW id \in D
               PROVE  \E i \in GrantSlot : grant_redeems(grants, i, pid, id)
    OBVIOUS
  <2>1. id - slot \in 0 .. count - 1 /\ slot + (id - slot) = id OBVIOUS
  <2>2. QED BY <1>1, <2>1 DEF grant_can_consume
<1>3. /\ grants' \in GrantTable /\ grants'.next = grants.next
      /\ \A i \in GrantSlot :
            grants'.slots[i] = IF \E id \in D : grant_redeems(grants, i, pid, id)
                               THEN no_grant ELSE grants.slots[i]
  <2> DEFINE t == grant_consume(grants, pid, slot, count)
  <2>1. grants \in GrantTable BY <1>t DEF GrantTypes
  <2>2. /\ t \in GrantTable /\ t.next = grants.next
        /\ \A i \in GrantSlot :
              t.slots[i] = IF \E id \in D : grant_redeems(grants, i, pid, id)
                           THEN no_grant ELSE grants.slots[i]
    BY <2>1, ConsumeEmpties, ZenonT(30)
  <2>3. grants' = t BY <1>1
  <2> HIDE DEF t, D
  <2>4. QED BY <2>2, <2>3
<1> HIDE DEF D, g
<1>4. \A i \in GrantSlot, id \in D :
         grant_redeems(grants, i, pid, id) <=> Live(i) /\ grants.slots[i].id = id
  <2> SUFFICES ASSUME NEW i \in GrantSlot, NEW id \in D, Live(i), grants.slots[i].id = id
               PROVE  grant_redeems(grants, i, pid, id)
    BY DEF grant_redeems, Live
  <2>1. PICK j \in GrantSlot : grant_redeems(grants, j, pid, id) BY <1>2
  <2>2. Live(j) /\ grants.slots[j].id = id BY <2>1 DEF grant_redeems, Live
  <2>3. i = j BY <2>2, <1>t DEF GrantTruth
  <2>4. QED BY <2>1, <2>3
<1>5. \A i \in GrantSlot : Live(i)' <=> Live(i) /\ grants.slots[i].id \notin D
  BY <1>3, <1>4 DEF Live, no_grant
<1>6. \A i \in GrantSlot : Live(i)' => grants'.slots[i] = grants.slots[i]
  BY <1>3 DEF Live, no_grant
<1>7. \A id \in D : id \in DOMAIN granted /\ granted[id].owner = pid
  <2> SUFFICES ASSUME NEW id \in D
               PROVE  id \in DOMAIN granted /\ granted[id].owner = pid
    OBVIOUS
  <2>1. PICK i \in GrantSlot : grant_redeems(grants, i, pid, id) BY <1>2
  <2>2. Live(i) /\ grants.slots[i].id = id /\ grants.slots[i].owner = pid
    BY <2>1 DEF grant_redeems, Live
  <2>3. QED BY <2>2, <1>t DEF GrantTruth, Unspent
<1>8. DOMAIN granted = 1 .. Len(granted) /\ Len(granted) \in Nat
      /\ \A id \in DOMAIN granted : granted[id] \in GrantRecord
  BY <1>t DEF GrantTypes
<1>9. DOMAIN granted' = DOMAIN granted /\ granted' \in [1 .. Len(granted) -> GrantRecord]
  <2>1. \A id \in DOMAIN granted :
           [granted[id] EXCEPT !.spent = g, !.by = pid] \in GrantRecord
    BY <1>8, <1>g DEF GrantRecord
  <2>2. QED BY <1>1, <1>8, <2>1
<1>10. granted' \in Seq(GrantRecord) /\ Len(granted') = Len(granted)
  BY <1>8, <1>9
<1>11. GrantTypes' BY <1>t, <1>1, <1>3, <1>10 DEF GrantTypes
<1>12. \A id \in DOMAIN granted :
          /\ granted'[id].owner = granted[id].owner
          /\ granted'[id].endpoint = granted[id].endpoint
          /\ id \in D => granted'[id].spent # 0 /\ granted'[id].by = pid
          /\ id \notin D => granted'[id] = granted[id]
  BY <1>1, <1>8, <1>g DEF GrantRecord
<1>13. \A id \in DOMAIN granted : Unspent(id)' <=> Unspent(id) /\ id \notin D
  BY <1>9, <1>12 DEF Unspent
<1>14. (grants.next = Len(granted) + 1)' BY <1>t, <1>3, <1>10 DEF GrantTruth
<1>15. (\A i \in GrantSlot :
          Live(i) => /\ Unspent(grants.slots[i].id)
                     /\ granted[grants.slots[i].id].owner = grants.slots[i].owner
                     /\ granted[grants.slots[i].id].endpoint = grants.slots[i].endpoint)'
  <2> SUFFICES ASSUME NEW i \in GrantSlot, Live(i)'
               PROVE  (/\ Unspent(grants.slots[i].id)
                       /\ granted[grants.slots[i].id].owner = grants.slots[i].owner
                       /\ granted[grants.slots[i].id].endpoint = grants.slots[i].endpoint)'
    OBVIOUS
  <2> DEFINE id == grants.slots[i].id
  <2>1. Live(i) /\ id \notin D /\ grants'.slots[i] = grants.slots[i] BY <1>5, <1>6
  <2>2. id \in DOMAIN granted /\ Unspent(id)
        /\ granted[id].owner = grants.slots[i].owner
        /\ granted[id].endpoint = grants.slots[i].endpoint
    BY <2>1, <1>t DEF GrantTruth, Unspent
  <2>3. granted'[id] = granted[id] /\ id \in DOMAIN granted' BY <2>1, <2>2, <1>9, <1>12
  <2>4. QED BY <2>1, <2>2, <2>3 DEF Unspent
<1>16. (\A i, j \in GrantSlot :
          Live(i) /\ Live(j) /\ grants.slots[i].id = grants.slots[j].id => i = j)'
  BY <1>t, <1>5, <1>6 DEF GrantTruth
<1>17. (\A id \in DOMAIN granted :
          Unspent(id) => \E i \in GrantSlot : Live(i) /\ grants.slots[i].id = id)'
  <2> SUFFICES ASSUME NEW id \in DOMAIN granted', Unspent(id)'
               PROVE  \E i \in GrantSlot : Live(i)' /\ grants'.slots[i].id = id
    OBVIOUS
  <2>1. id \in DOMAIN granted /\ Unspent(id) /\ id \notin D BY <1>9, <1>13
  <2>2. PICK i \in GrantSlot : Live(i) /\ grants.slots[i].id = id
    BY <2>1, <1>t DEF GrantTruth
  <2>3. QED BY <2>1, <2>2, <1>5, <1>6
<1>18. (\A id \in DOMAIN granted :
          ~ Unspent(id) => granted[id].by = granted[id].owner)'
  <2> SUFFICES ASSUME NEW id \in DOMAIN granted', ~Unspent(id)'
               PROVE  granted'[id].by = granted'[id].owner
    OBVIOUS
  <2>1. id \in DOMAIN granted BY <1>9
  <2>2. CASE id \in D BY <2>1, <2>2, <1>7, <1>12
  <2>3. CASE id \notin D BY <2>1, <2>3, <1>t, <1>12, <1>13 DEF GrantTruth
  <2>4. QED BY <2>2, <2>3
<1>19. GrantTruth' BY <1>14, <1>15, <1>16, <1>17, <1>18 DEF GrantTruth
<1>20. QED BY <1>11, <1>19 DEF GrantInv

\* A restart moves the generations of some cells on.
LEMMA GenerationsMove ==
    ASSUME generation \in [Cell -> Nat \ {0}], NEW s \in Cell, NEW lane, NEW members,
           bootrestart(s) \/ bootrestart_lane(lane, members)
    PROVE  generation' \in [Cell -> Nat \ {0}]
BY DEF bootrestart, bootrestart_lane

\* A cell whose restart is asked for leaves grants alone.
LEMMA RestartElsewhere ==
    ASSUME GrantInv, NEW c \in Cell, Restart(c), NEW lane, NEW members,
           bootrestart(c) \/ bootrestart_lane(lane, members)
    PROVE  Elsewhere
BY GenerationsMove DEF Restart, Elsewhere, GrantInv, GrantTypes

\* Every step of the kernel keeps the table truthful.
LEMMA GrantNext == GrantInv /\ [Next]_vars => GrantInv'
<1> SUFFICES ASSUME GrantInv, [Next]_vars PROVE GrantInv' OBVIOUS
<1>g. generation \in [Cell -> Nat \ {0}] BY DEF GrantInv, GrantTypes
<1>c. {"log", "kv", "file", "queue", "echo", "transfer", "workset", "audit"} \subseteq Cell
      /\ Service \subseteq Cell
  BY DEF Cell, Service, Lane, Retained, Replaced
<1>1. ASSUME NEW m \in Messages, Receive(m) PROVE GrantInv'
  BY <1>1, <1>g, GrantElsewhere DEF Receive, Elsewhere, ledger
<1>2. ASSUME NEW payload \in TransferPayloads, ReceiveTransfer(payload) PROVE GrantInv'
  BY <1>2, <1>g, GrantElsewhere DEF ReceiveTransfer, Elsewhere, ledger
<1>3. ASSUME NEW pid \in Pids, NEW slot \in 0 .. MaxGrants, NEW count \in 1 .. 2,
             NEW payload \in TransferPayloads, ReceiveHandles(pid, slot, count, payload)
      PROVE  GrantInv'
  <2>1. pid \in Nat /\ slot \in Nat /\ count \in {1, 2} BY LaneKernelAssumption
  <2>2. QED BY <1>3, <2>1, GrantRedeemed
<1>4. ASSUME NEW pid \in Pids, NEW endpoint \in Granted, GrantIssue(pid, endpoint)
      PROVE  GrantInv'
  <2>1. pid \in Nat /\ endpoint \in Nat \ {0} BY LaneKernelAssumption
  <2>2. QED BY <1>4, <2>1, GrantIssued
<1>5. ASSUME NEW s \in {"log", "kv", "file"}, restart_retained(s) PROVE GrantInv'
  <2>1. s \in Cell /\ Restart(s) /\ bootrestart(s) BY <1>5, <1>c DEF restart_retained
  <2>2. QED BY <2>1, RestartElsewhere, GrantElsewhere
<1>6. ASSUME restart_queue PROVE GrantInv'
  <2>1. Restart("queue") /\ bootrestart("queue") BY <1>6 DEF restart_queue
  <2>2. QED BY <2>1, <1>c, RestartElsewhere, GrantElsewhere
<1>7. ASSUME restart_echo PROVE GrantInv'
  <2>1. Restart("echo") /\ bootrestart("echo") BY <1>7 DEF restart_echo
  <2>2. QED BY <2>1, <1>c, RestartElsewhere, GrantElsewhere
<1>8. ASSUME restart_transfer PROVE GrantInv'
  <2>1. Restart("transfer") /\ bootrestart("transfer") BY <1>8 DEF restart_transfer
  <2>2. QED BY <2>1, <1>c, RestartElsewhere, GrantElsewhere
<1>9. ASSUME restart_retained_workset PROVE GrantInv'
  <2>1. Restart("workset") /\ bootrestart_lane("workset", {"kv", "queue"})
    BY <1>9 DEF restart_retained_workset
  <2>2. QED BY <2>1, <1>c, RestartElsewhere, GrantElsewhere
<1>10. ASSUME restart_retained_audit_lane PROVE GrantInv'
  <2>1. Restart("audit") /\ bootrestart_lane("audit", {"kv", "log"})
    BY <1>10 DEF restart_retained_audit_lane
  <2>2. QED BY <2>1, <1>c, RestartElsewhere, GrantElsewhere
<1>11. ASSUME NEW s \in Service \ Modelled, restart_other(s) PROVE GrantInv'
  <2>1. s \in Cell /\ Restart(s) /\ bootrestart(s) BY <1>11, <1>c DEF restart_other
  <2>2. QED BY <2>1, RestartElsewhere, GrantElsewhere
<1>12. ASSUME UNCHANGED vars PROVE GrantInv'
  BY <1>12, <1>g, GrantElsewhere DEF vars, ledger, Elsewhere
<1>13. QED
  BY <1>1, <1>2, <1>3, <1>4, <1>5, <1>6, <1>7, <1>8, <1>9, <1>10, <1>11, <1>12 DEF Next

\* GrantTruth for every capacity of the grant table, all processes and all
\* endpoints: what grant_issue and grant_consume keep is what was granted and
\* not yet redeemed, and only its owner redeems a grant.
THEOREM GrantsTruthful == Spec => []GrantTruth
<1>1. GrantInv => GrantTruth BY DEF GrantInv
<1>2. QED BY <1>1, GrantInit, GrantNext, PTL DEF Spec
-----------------------------------------------------------------------------
(* The ledger.                                                               *)

LedgerTypes == /\ generation \in [Cell -> Nat \ {0}]
               /\ outcome \in [Cell -> Outcome]

LedgerInv == LedgerTypes /\ LedgerAddsUp

\* Services and lanes are distinct, and each service is of one kind.
LEMMA Cells ==
    /\ Service \subseteq Cell
    /\ Lane \subseteq Cell
    /\ {"log", "kv", "queue", "file"} \subseteq Service
    /\ {"workset", "audit"} \subseteq Cell
    /\ Service \intersect Lane = {}
    /\ Retained \intersect Replaced = {}
    /\ Durable \intersect (Retained \union Replaced) = {}
    /\ "workflow" \notin Retained \union Durable \union Replaced
BY DEF Cell, Service, Lane, Retained, Durable, Replaced

\* The policy, the topology and the outcomes name the same services.
LEMMA Policy ==
    \A s \in Service : /\ restart_policy(s) = "clear" <=> s \in Replaced
                       /\ restart_policy(s) = "clear" <=> ~service_restart_reloads_state(s)
<1>1. \A s \in Replaced : restart_policy(s) = "clear" /\ ~service_restart_reloads_state(s)
  BY DEF Replaced, restart_policy, service_restart_reloads_state
<1>2. \A s \in Retained \union Durable \union {"workflow"} :
         /\ restart_policy(s) # "clear"
         /\ service_restart_reloads_state(s)
         /\ s \notin Replaced
  BY DEF Retained, Durable, Replaced, restart_policy, service_restart_reloads_state
<1>3. QED BY <1>1, <1>2 DEF Service

\* At boot nothing was restarted (kernel_init).
LEMMA LedgerStart == Init => LedgerInv
<1> SUFFICES ASSUME Init PROVE LedgerInv OBVIOUS
<1>1. LedgerTypes /\ \A c \in Cell : generation[c] = 1 /\ outcome[c] = "None"
  BY DEF Init, LedgerInit, LedgerTypes, Outcome
<1>2. LedgerAddsUp BY <1>1, Cells, Policy DEF LedgerAddsUp
<1>3. QED BY <1>1, <1>2 DEF LedgerInv

\* Steps that restart nothing leave the ledger as it is.
LEMMA LedgerAlone == LedgerInv /\ UNCHANGED ledger => LedgerInv'
BY DEF LedgerInv, LedgerTypes, LedgerAddsUp, ledger, restart_policy,
       service_restart_reloads_state

\* The restart of one service adds one line to the ledger.
LEMMA LedgerRestart ==
    ASSUME LedgerInv, NEW s \in Service, bootrestart(s)
    PROVE  LedgerInv'
<1>t. LedgerTypes /\ LedgerAddsUp BY DEF LedgerInv
<1>1. \/ /\ restart_outcome(s) \in Outcome
         /\ restart_outcome(s) # "CoordinatedRetainedReloaded"
      \/ s = "workflow" /\ restart_outcome(s) = outcome[s]
  BY Cells DEF restart_outcome, Service, Outcome
<1>2. s # "workflow" =>
         /\ restart_outcome(s) # "None"
         /\ restart_outcome(s) = "OrdinaryReplaced" <=> restart_policy(s) = "clear"
  BY Cells, Policy DEF restart_outcome, Service
<1>3. /\ s \in Cell /\ s \notin Lane
      /\ generation'[s] = generation[s] + 1
      /\ outcome'[s] = restart_outcome(s)
      /\ \A c \in Cell \ {s} : generation'[c] = generation[c] /\ outcome'[c] = outcome[c]
  BY <1>t, Cells DEF bootrestart, LedgerTypes
<1>4. LedgerTypes'
  BY <1>t, <1>1, Cells DEF LedgerTypes, bootrestart
<1>5. \A c \in Cell : generation[c] \in Nat \ {0} /\ generation'[c] \in Nat \ {0}
                     /\ generation[c] <= generation'[c]
  BY <1>t, <1>3, <1>4 DEF LedgerTypes
<1>6. generation'["workset"] = generation["workset"]
      /\ generation'["audit"] = generation["audit"]
  BY <1>3, Cells DEF Lane
<1>7. (/\ generation["workset"] + generation["audit"] <= generation["kv"] + 1
       /\ generation["workset"] <= generation["queue"]
       /\ generation["audit"] <= generation["log"])'
  BY <1>t, <1>5, <1>6, Cells DEF LedgerAddsUp
<1>8. (\A c \in Service \ {"workflow"} :
         /\ outcome[c] = "None" <=> generation[c] = 1
         /\ outcome[c] = "OrdinaryReplaced" <=>
                generation[c] > 1 /\ restart_policy(c) = "clear")'
  <2> SUFFICES ASSUME NEW c \in Service \ {"workflow"}
               PROVE  (/\ outcome[c] = "None" <=> generation[c] = 1
                       /\ outcome[c] = "OrdinaryReplaced" <=>
                              generation[c] > 1 /\ restart_policy(c) = "clear")'
    OBVIOUS
  <2>1. CASE c = s
    <3>1. generation'[c] > 1 /\ generation'[c] # 1 BY <2>1, <1>3, <1>5
    <3>2. QED BY <2>1, <3>1, <1>2, <1>3 DEF restart_policy
  <2>2. CASE c # s BY <2>2, <1>t, <1>3, Cells DEF LedgerAddsUp, restart_policy
  <2>3. QED BY <2>1, <2>2
<1>9. \A c \in Service : outcome'[c] = "CoordinatedRetainedReloaded" =>
                            outcome[c] = "CoordinatedRetainedReloaded"
  BY <1>1, <1>3, Cells
<1>10. (/\ outcome["queue"] = "CoordinatedRetainedReloaded" => generation["workset"] > 1
        /\ outcome["log"] = "CoordinatedRetainedReloaded" => generation["audit"] > 1
        /\ \A c \in Service : outcome[c] = "CoordinatedRetainedReloaded" =>
                                  c \in {"log", "kv", "queue"})'
  BY <1>t, <1>6, <1>9, Cells DEF LedgerAddsUp
<1>p. (\A c \in Service : restart_policy(c) = "clear" <=> ~service_restart_reloads_state(c))'
  BY Policy DEF restart_policy, service_restart_reloads_state
<1>11. LedgerAddsUp' BY <1>7, <1>8, <1>10, <1>p DEF LedgerAddsUp
<1>12. QED BY <1>4, <1>11 DEF LedgerInv

\* The restart of a lane moves the lane and both of its members.
LEMMA LedgerLane ==
    ASSUME LedgerInv, NEW lane, NEW members,
           \/ lane = "workset" /\ members = {"kv", "queue"}
           \/ lane = "audit" /\ members = {"kv", "log"},
           bootrestart_lane(lane, members)
    PROVE  LedgerInv'
<1>t. LedgerTypes /\ LedgerAddsUp BY DEF LedgerInv
<1>1. \A c \in Cell :
        IF c = lane \/ c \in members
        THEN generation'[c] = generation[c] + 1 /\ outcome'[c] = "CoordinatedRetainedReloaded"
        ELSE generation'[c] = generation[c] /\ outcome'[c] = outcome[c]
  BY DEF bootrestart_lane
<1>2. LedgerTypes' BY <1>t DEF LedgerTypes, bootrestart_lane, Outcome
<1>3. \A c \in Cell : generation[c] \in Nat \ {0} BY <1>t DEF LedgerTypes
<1>4. (/\ generation["workset"] + generation["audit"] <= generation["kv"] + 1
       /\ generation["workset"] <= generation["queue"]
       /\ generation["audit"] <= generation["log"])'
  BY <1>t, <1>1, <1>3, Cells DEF LedgerAddsUp
<1>5. \A c \in members : c \in Retained /\ c \in Service
  BY DEF Retained, Service
<1>6. lane \in Lane BY DEF Lane
<1>7. (\A c \in Service \ {"workflow"} :
         /\ outcome[c] = "None" <=> generation[c] = 1
         /\ outcome[c] = "OrdinaryReplaced" <=>
                generation[c] > 1 /\ restart_policy(c) = "clear")'
  <2> SUFFICES ASSUME NEW c \in Service \ {"workflow"}
               PROVE  (/\ outcome[c] = "None" <=> generation[c] = 1
                       /\ outcome[c] = "OrdinaryReplaced" <=>
                              generation[c] > 1 /\ restart_policy(c) = "clear")'
    OBVIOUS
  <2>1. CASE c \in members
    <3>1. generation'[c] # 1 /\ outcome'[c] = "CoordinatedRetainedReloaded"
      BY <2>1, <1>1, <1>3, <1>5, Cells
    <3>2. restart_policy(c) # "clear" BY <2>1, <1>5, Cells, Policy
    <3>3. QED BY <3>1, <3>2 DEF restart_policy
  <2>2. CASE c \notin members
    <3>1. c # lane BY <1>6, Cells
    <3>2. generation'[c] = generation[c] /\ outcome'[c] = outcome[c]
      BY <2>2, <3>1, <1>1, Cells
    <3>3. QED BY <3>2, <1>t DEF LedgerAddsUp, restart_policy
  <2>3. QED BY <2>1, <2>2
<1>8. (/\ outcome["queue"] = "CoordinatedRetainedReloaded" => generation["workset"] > 1
       /\ outcome["log"] = "CoordinatedRetainedReloaded" => generation["audit"] > 1)'
  BY <1>t, <1>1, <1>3, Cells DEF LedgerAddsUp
<1>9. (\A c \in Service : outcome[c] = "CoordinatedRetainedReloaded" =>
                             c \in {"log", "kv", "queue"})'
  BY <1>t, <1>1, <1>6, Cells DEF LedgerAddsUp
<1>p. (\A c \in Service : restart_policy(c) = "clear" <=> ~service_restart_reloads_state(c))'
  BY Policy DEF restart_policy, service_restart_reloads_state
<1>10. LedgerAddsUp' BY <1>4, <1>7, <1>8, <1>9, <1>p DEF LedgerAddsUp
<1>11. QED BY <1>2, <1>10 DEF LedgerInv

\* Every step of the kernel keeps the ledger consistent.
LEMMA LedgerNext == LedgerInv /\ [Next]_vars => LedgerInv'
<1> SUFFICES ASSUME LedgerInv, [Next]_vars PROVE LedgerInv' OBVIOUS
<1>c. {"log", "kv", "file", "queue", "echo", "transfer"} \subseteq Service
  BY DEF Service, Retained, Replaced
<1>1. ASSUME \/ \E m \in Messages : Receive(m)
             \/ \E payload \in TransferPayloads : ReceiveTransfer(payload)
             \/ \E pid \in Pids, slot \in 0 .. MaxGrants, count \in 1 .. 2,
                   payload \in TransferPayloads : ReceiveHandles(pid, slot, count, payload)
             \/ \E pid \in Pids, endpoint \in Granted : GrantIssue(pid, endpoint)
             \/ UNCHANGED vars
      PROVE  LedgerInv'
  <2>1. UNCHANGED ledger
    BY <1>1 DEF Receive, ReceiveTransfer, ReceiveHandles, GrantIssue, vars
  <2>2. QED BY <2>1, LedgerAlone
<1>2. ASSUME NEW s \in {"log", "kv", "file"}, restart_retained(s) PROVE LedgerInv'
  BY <1>2, <1>c, LedgerRestart DEF restart_retained
<1>3. ASSUME restart_queue \/ restart_echo \/ restart_transfer PROVE LedgerInv'
  <2>1. \E s \in Service : bootrestart(s)
    BY <1>3, <1>c DEF restart_queue, restart_echo, restart_transfer
  <2>2. QED BY <2>1, LedgerRestart
<1>4. ASSUME restart_retained_workset PROVE LedgerInv'
  <2>1. bootrestart_lane("workset", {"kv", "queue"}) BY <1>4 DEF restart_retained_workset
  <2>2. QED BY <2>1, LedgerLane
<1>5. ASSUME restart_retained_audit_lane PROVE LedgerInv'
  <2>1. bootrestart_lane("audit", {"kv", "log"}) BY <1>5 DEF restart_retained_audit_lane
  <2>2. QED BY <2>1, LedgerLane
<1>6. ASSUME NEW s \in Service \ Modelled, restart_other(s) PROVE LedgerInv'
  BY <1>6, LedgerRestart DEF restart_other
<1>7. QED BY <1>1, <1>2, <1>3, <1>4, <1>5, <1>6 DEF Next

\* LedgerAddsUp for any number of restarts, in any order: generations and
\* outcomes of services and lanes (boot_update.mc) stay consistent with each
\* other and with the restart policy.
THEOREM LedgerConsistent == Spec => []LedgerAddsUp
<1>1. LedgerInv => LedgerAddsUp BY DEF LedgerInv
<1>2. QED BY <1>1, LedgerStart, LedgerNext, PTL DEF Spec
-----------------------------------------------------------------------------
(* The services.  Dispatching a message is a function of the service states, *)
(* so the invariant is a predicate on the records that dispatch maps.        *)

Markers(l) == {n \in DOMAIN l : l[n] = KV_WRITE_LOG_MARKER}

Fits(s, capacity) == IsFiniteSet(DOMAIN s) /\ Cardinality(DOMAIN s) <= capacity

LogState == {s \in Seq(Nat) : Len(s) <= LOG_BUFFER_CAPACITY}

QueueState == {s \in [items : Seq(Nat), stalled : BOOLEAN] : Len(s.items) <= QUEUE_CAPACITY}

Fields == {"log", "kv", "queue", "echo", "file", "transfer", "pushed", "popped", "marked",
           "effect"}

\* The states of the services have their types and capacities.
Typed(r) ==
    /\ DOMAIN r = Fields
    /\ r.log \in LogState
    /\ r.queue \in QueueState
    /\ Fits(r.kv, KV_CAPACITY)
    /\ Fits(r.file, FILE_CAPACITY)
    /\ r.echo \in 0 .. ECHO_CAPACITY
    /\ r.transfer \in TransferServiceState
    /\ r.pushed \in Seq(Nat) /\ r.popped \in Seq(Nat) /\ r.marked \in Nat
    /\ r.effect.kind = "Send" => r.effect.payload \in Seq(Nat)

InOrder(r) == r.pushed = r.popped \o r.queue.items
Audited(r) == r.marked <= Cardinality(Markers(r.log))
Sound(r) == Typed(r) /\ InOrder(r) /\ Audited(r)

\* The markers of a log are counted by a number, and one more is one more.
LEMMA MarkerCount ==
    ASSUME NEW s \in Seq(Nat), NEW v \in Nat
    PROVE  /\ Cardinality(Markers(s)) \in Nat
           /\ Cardinality(Markers(Append(s, v))) =
                 IF v = KV_WRITE_LOG_MARKER THEN Cardinality(Markers(s)) + 1
                 ELSE Cardinality(Markers(s))
<1>1. IsFiniteSet(Markers(s)) /\ Cardinality(Markers(s)) \in Nat
  <2>1. Markers(s) \in SUBSET (1 .. Len(s)) BY DEF Markers
  <2>2. IsFiniteSet(1 .. Len(s)) BY FS_Interval
  <2>3. IsFiniteSet(Markers(s)) BY <2>1, <2>2, FS_Subset
  <2>4. QED BY <2>3, FS_CardinalityType
<1> DEFINE n == Len(s) + 1
<1>2. /\ DOMAIN Append(s, v) = 1 .. n /\ DOMAIN s = 1 .. Len(s)
      /\ Append(s, v)[n] = v /\ \A i \in 1 .. Len(s) : Append(s, v)[i] = s[i]
  OBVIOUS
<1>3. CASE v = KV_WRITE_LOG_MARKER
  <2>1. Markers(Append(s, v)) = Markers(s) \union {n} BY <1>2, <1>3 DEF Markers
  <2>2. n \notin Markers(s) BY <1>2 DEF Markers
  <2>3. QED BY <1>1, <1>3, <2>1, <2>2, FS_AddElement
<1>4. CASE v # KV_WRITE_LOG_MARKER
  <2>1. Markers(Append(s, v)) = Markers(s) BY <1>2, <1>4 DEF Markers
  <2>2. QED BY <1>1, <1>4, <2>1
<1>5. QED BY <1>1, <1>3, <1>4

\* The log only grows (log_handle), and a marker that is not refused is there.
LEMMA LogHandled ==
    ASSUME NEW s \in LogState, NEW payload \in Seq(Nat), NEW h, h = log_handle(s, payload)
    PROVE  /\ h.state \in LogState /\ h.effect.kind = "Reply"
           /\ Cardinality(Markers(s)) \in Nat /\ Cardinality(Markers(h.state)) \in Nat
           /\ Cardinality(Markers(s)) <= Cardinality(Markers(h.state))
           /\ payload = << KV_WRITE_LOG_MARKER >> /\ h.effect.status # "Exhausted" =>
                 Cardinality(Markers(h.state)) = Cardinality(Markers(s)) + 1
<1> USE DEF log_handle, answer, effect_reply
<1>0. s \in Seq(Nat) /\ Len(s) <= LOG_BUFFER_CAPACITY BY DEF LogState
<1>1. Cardinality(Markers(s)) \in Nat BY <1>0, MarkerCount
<1>2. CASE payload = << >>
  BY <1>1, <1>2
<1>3. CASE payload # << >> /\ Len(s) >= LOG_BUFFER_CAPACITY
  BY <1>1, <1>3
<1>4. CASE payload # << >> /\ ~(Len(s) >= LOG_BUFFER_CAPACITY)
  <2>1. payload[1] \in Nat BY <1>4
  <2>2. h.state = Append(s, payload[1]) /\ h.effect.kind = "Reply" BY <1>4
  <2>3. h.state \in LogState
    <3>1. LOG_BUFFER_CAPACITY \in Nat BY LaneAssumption
    <3>2. QED BY <1>0, <1>4, <2>1, <2>2, <3>1 DEF LogState
  <2>4. h.state \in Seq(Nat) BY <2>3 DEF LogState
  <2>5. Cardinality(Markers(h.state)) =
           IF payload[1] = KV_WRITE_LOG_MARKER THEN Cardinality(Markers(s)) + 1
           ELSE Cardinality(Markers(s))
    BY <1>0, <2>1, <2>2, MarkerCount
  <2>6. payload = << KV_WRITE_LOG_MARKER >> => payload[1] = KV_WRITE_LOG_MARKER OBVIOUS
  <2>7. QED BY <1>1, <2>2, <2>3, <2>5, <2>6
<1>5. QED BY <1>2, <1>3, <1>4

\* The length of a payload tells whether there is one.
LEMMA Lengths ==
    ASSUME NEW S, NEW s \in Seq(S)
    PROVE  /\ Len(s) \in Nat /\ (s = << >> <=> Len(s) = 0)
           /\ s = << >> \/ Len(s) = 1 \/ Len(s) >= 2
           /\ Len(s) >= 2 => s # << >> /\ Len(s) # 1
           /\ Len(s) = 1 => s # << >>
           /\ Len(s) <= 2 => Len(s) \in {0, 1, 2}
<1> DEFINE n == Len(s)
<1>1. n \in Nat /\ (s = << >> <=> n = 0) BY EmptySeq, LenProperties
<1> HIDE DEF n
<1>2. /\ n = 0 \/ n = 1 \/ n >= 2
      /\ n >= 2 => n # 0 /\ n # 1
      /\ n = 1 => n # 0
      /\ n <= 2 => n \in {0, 1, 2}
  BY <1>1
<1>3. QED BY <1>1, <1>2 DEF n

\* An answer replies with the status and payload it is given.
LEMMA Answered ==
    \A s, status, payload :
        /\ answer(s, status, payload).state = s
        /\ answer(s, status, payload).effect.kind = "Reply"
        /\ answer(s, status, payload).effect.status = status
        /\ answer(s, status, payload).effect.payload = payload
        /\ effect_mark_send_dropped(answer(s, status, payload).effect).kind = "Reply"
BY DEF answer, effect_reply, effect_mark_send_dropped

\* Adding a name to a table with room, or one it has, stays within its capacity.
LEMMA AddFits ==
    ASSUME NEW s, NEW t, NEW capacity \in Nat, NEW key, Fits(s, capacity),
           DOMAIN t = DOMAIN s \union {key},
           key \in DOMAIN s \/ Cardinality(DOMAIN s) < capacity
    PROVE  Fits(t, capacity)
<1>1. IsFiniteSet(DOMAIN s) /\ Cardinality(DOMAIN s) \in Nat
  BY FS_CardinalityType DEF Fits
<1>2. /\ IsFiniteSet(DOMAIN t)
      /\ Cardinality(DOMAIN t) = IF key \in DOMAIN s THEN Cardinality(DOMAIN s)
                                 ELSE Cardinality(DOMAIN s) + 1
  BY <1>1, FS_AddElement
<1>3. QED BY <1>1, <1>2 DEF Fits

\* The kv store (kv_handle) stays within its capacity.
LEMMA KvHandled ==
    ASSUME NEW s, Fits(s, KV_CAPACITY), NEW payload \in Seq(Nat), NEW h,
           h = kv_handle(s, payload)
    PROVE  /\ Fits(h.state, KV_CAPACITY) /\ h.effect.kind = "Reply"
           /\ effect_mark_send_dropped(h.effect).kind = "Reply"
<1>1. PICK state, status, answered :
         /\ h = answer(state, status, answered)
         /\ \/ state = s
            \/ kv_has_room(s, payload[1]) /\ state = kvset(s, payload[1], payload[2])
  <2>1. payload = << >> \/ Len(payload) = 1 \/ Len(payload) >= 2 BY Lengths
  <2>2. CASE payload = << >>
    <3>1. h = answer(s, "Ok", << >>) BY <2>2 DEF kv_handle
    <3>2. QED BY <3>1
  <2>3. CASE Len(payload) = 1
    <3>1. payload # << >> BY <2>3, Lengths
    <3>2. h = kvget(s, payload[1]) BY <2>3, <3>1 DEF kv_handle
    <3>3. QED BY <3>2 DEF kvget
  <2>4. CASE Len(payload) >= 2
    <3>1. payload # << >> /\ Len(payload) # 1 BY <2>4, Lengths
    <3>2. h = IF kv_has_room(s, payload[1])
              THEN answer(kvset(s, payload[1], payload[2]), "Ok", << >>)
              ELSE answer(s, "Exhausted", << >>)
      BY <2>4, <3>1 DEF kv_handle
    <3>3. QED BY <3>2
  <2>5. QED BY <2>1, <2>2, <2>3, <2>4
<1>2. CASE state = s BY <1>1, <1>2, Answered
<1>3. CASE kv_has_room(s, payload[1]) /\ state = kvset(s, payload[1], payload[2])
  <2>1. DOMAIN state = DOMAIN s \union {payload[1]} BY <1>3 DEF kvset
  <2>2. KV_CAPACITY \in Nat BY LaneAssumption
  <2>3. Fits(state, KV_CAPACITY) BY <1>3, <2>1, <2>2, AddFits DEF kv_has_room
  <2>4. QED BY <1>1, <2>3, Answered
<1>4. QED BY <1>1, <1>2, <1>3

\* Files (file_handle) stay within their number.
LEMMA FileHandled ==
    ASSUME NEW s, Fits(s, FILE_CAPACITY), NEW payload \in Seq(Nat), NEW h,
           h = file_handle(s, payload)
    PROVE  Fits(h.state, FILE_CAPACITY) /\ h.effect.kind = "Reply"
<1> USE DEF answer, effect_reply
<1>1. FILE_CAPACITY \in Nat BY LaneAssumption
<1>2. \A name : /\ Fits(file_create(s, name).state, FILE_CAPACITY)
                /\ file_create(s, name).effect.kind = "Reply"
  <2> TAKE name
  <2>1. CASE name \in DOMAIN s \/ Cardinality(DOMAIN s) >= FILE_CAPACITY
    BY <2>1 DEF file_create
  <2>2. CASE ~(name \in DOMAIN s) /\ ~(Cardinality(DOMAIN s) >= FILE_CAPACITY)
    <3> DEFINE t == [n \in DOMAIN s \union {name} |-> IF n = name THEN << >> ELSE s[n]]
    <3>1. file_create(s, name).state = t /\ file_create(s, name).effect.kind = "Reply"
      BY <2>2 DEF file_create
    <3>2. DOMAIN t = DOMAIN s \union {name} OBVIOUS
    <3>3. Cardinality(DOMAIN s) < FILE_CAPACITY
      BY <1>1, <2>2, FS_CardinalityType DEF Fits
    <3> HIDE DEF t
    <3>4. Fits(t, FILE_CAPACITY) BY <1>1, <3>2, <3>3, AddFits
    <3>5. QED BY <3>1, <3>4
  <2>3. QED BY <2>1, <2>2
<1>3. \A name, value : /\ Fits(file_write(s, name, value).state, FILE_CAPACITY)
                       /\ file_write(s, name, value).effect.kind = "Reply"
  BY DEF file_write, Fits
<1>4. \A name : /\ Fits(file_read(s, name).state, FILE_CAPACITY)
                /\ file_read(s, name).effect.kind = "Reply"
  BY DEF file_read
<1>5. \/ h = answer(s, "Ok", << >>) \/ h = answer(s, "InvalidArgument", << >>)
      \/ h = file_create(s, payload[2]) \/ h = file_read(s, payload[2])
      \/ h = file_write(s, payload[2], payload[3])
  BY DEF file_handle
<1>6. QED BY <1>2, <1>3, <1>4, <1>5

\* The queue (queue_handle) takes at its end and gives from its front.
LEMMA QueueHandled ==
    ASSUME NEW s \in QueueState, NEW payload \in Seq(Nat), NEW h,
           h = queue_handle(s, payload)
    PROVE  /\ h.state \in QueueState /\ h.effect.kind = "Reply"
           /\ h.effect.status = "Ok" /\ Len(payload) = 1 =>
                 h.state.items = Append(s.items, payload[1])
           /\ h.effect.status = "Ok" /\ payload = << >> =>
                 /\ s.items # << >> /\ h.effect.payload[1] = Head(s.items)
                 /\ h.state.items = Tail(s.items)
           /\ ~(h.effect.status = "Ok" /\ (Len(payload) = 1 \/ payload = << >>)) =>
                 h.state.items = s.items
<1>0. /\ s.items \in Seq(Nat) /\ s.stalled \in BOOLEAN /\ Len(s.items) <= QUEUE_CAPACITY
      /\ s \in [items : Seq(Nat), stalled : BOOLEAN] /\ QUEUE_CAPACITY \in Nat
  BY LaneAssumption DEF QueueState
<1>1. CASE payload = << >>
  <2>1. h = queue_pop(s) /\ Len(payload) = 0 BY <1>1 DEF queue_handle
  <2>2. CASE s.items = << >>
    <3>1. h = answer(s, "InvalidArgument", << >>) BY <2>1, <2>2 DEF queue_pop
    <3>2. h.state = s /\ h.effect.kind = "Reply" /\ h.effect.status # "Ok"
      BY <3>1, Answered
    <3>3. QED BY <3>2
  <2>3. CASE s.items # << >>
    <3> DEFINE t == Tail(s.items)
               q == [s EXCEPT !.items = t]
    <3>1. h = answer(q, "Ok", << Head(s.items) >>) BY <2>1, <2>3 DEF queue_pop
    <3>2. t \in Seq(Nat) /\ Len(t) <= QUEUE_CAPACITY BY <1>0, <2>3
    <3> HIDE DEF t
    <3>3. q.items = t /\ q \in QueueState BY <1>0, <3>2 DEF QueueState
    <3> HIDE DEF q
    <3>4. /\ h.state = q /\ h.effect.kind = "Reply" /\ h.effect.status = "Ok"
          /\ h.effect.payload = << Head(s.items) >>
      BY <3>1, Answered
    <3>5. QED BY <1>1, <2>1, <2>3, <3>3, <3>4 DEF t
  <2>4. QED BY <2>2, <2>3
<1>2. CASE Len(payload) = 1
  <2>1. payload # << >> /\ payload[1] \in Nat BY <1>2
  <2>2. h = queue_push(s, payload[1])
    <3>1. \A a, b : payload # << a, b >>
      <4>1. \A a, b : Len(<< a, b >>) = 2 OBVIOUS
      <4>2. QED BY <1>2, <4>1
    <3>2. QED BY <1>2, <2>1, <3>1 DEF queue_handle
  <2>3. CASE Len(s.items) >= QUEUE_CAPACITY
    <3> DEFINE q == [s EXCEPT !.stalled = TRUE]
    <3>1. h = answer(q, IF s.stalled THEN "WouldBlock" ELSE "Exhausted", << >>)
      BY <2>2, <2>3 DEF queue_push
    <3>2. q.items = s.items /\ q \in QueueState BY <1>0 DEF QueueState
    <3> HIDE DEF q
    <3>3. h.state = q /\ h.effect.kind = "Reply" /\ h.effect.status # "Ok"
      BY <3>1, Answered
    <3>4. QED BY <2>1, <3>2, <3>3
  <2>4. CASE ~(Len(s.items) >= QUEUE_CAPACITY)
    <3> DEFINE t == Append(s.items, payload[1])
               q == [items |-> t, stalled |-> FALSE]
    <3>1. h = answer(q, "Ok", << >>) BY <2>2, <2>4 DEF queue_push
    <3>2. t \in Seq(Nat) /\ Len(t) <= QUEUE_CAPACITY BY <1>0, <2>1, <2>4
    <3> HIDE DEF t
    <3>3. q.items = t /\ q \in QueueState BY <3>2 DEF QueueState
    <3> HIDE DEF q
    <3>4. h.state = q /\ h.effect.kind = "Reply" /\ h.effect.status = "Ok"
      BY <3>1, Answered
    <3>5. QED BY <1>2, <2>1, <3>3, <3>4 DEF t
  <2>5. QED BY <2>3, <2>4
<1>3. CASE payload # << >> /\ Len(payload) # 1
  <2>1. \/ h = queue_peek(s) \/ h = answer(s, "Ok", << >>)
        \/ h = answer(s, "InvalidArgument", << >>)
    BY <1>3 DEF queue_handle
  <2>2. h.state = s /\ h.effect.kind = "Reply" BY <2>1, Answered DEF queue_peek
  <2>3. QED BY <1>3, <2>2
<1>4. QED BY <1>1, <1>2, <1>3

\* What was accepted stays in order when an item enters, and when one leaves.
LEMMA EnterLeave ==
    ASSUME NEW given \in Seq(Nat), NEW items \in Seq(Nat)
    PROVE  /\ \A v \in Nat : Append(given \o items, v) = given \o Append(items, v)
           /\ items # << >> => /\ Head(items) \in Nat
                               /\ given \o items = Append(given, Head(items)) \o Tail(items)
<1>1. ASSUME NEW v \in Nat PROVE Append(given \o items, v) = given \o Append(items, v)
  <2>1. << v >> \in Seq(Nat) OBVIOUS
  <2>2. given \o items \in Seq(Nat) OBVIOUS
  <2>3. Append(given \o items, v) = (given \o items) \o << v >> BY <2>2, AppendIsConcat
  <2>4. Append(items, v) = items \o << v >> BY AppendIsConcat
  <2>5. (given \o items) \o << v >> = given \o (items \o << v >>)
    BY <2>1, ConcatAssociative
  <2>6. QED BY <2>3, <2>4, <2>5
<1>2. ASSUME items # << >>
      PROVE  /\ Head(items) \in Nat
             /\ given \o items = Append(given, Head(items)) \o Tail(items)
  <2> DEFINE a == Head(items)
             t == Tail(items)
  <2>1. a \in Nat /\ t \in Seq(Nat) /\ << a >> \in Seq(Nat)
    <3>1. a \in Nat /\ t \in Seq(Nat) BY <1>2, HeadTailProperties
    <3> HIDE DEF a, t
    <3>2. QED BY <3>1
  <2>2. items = << a >> \o t
    <3>1. Len(items) \in Nat \ {0} BY <1>2
    <3>2. t = SubSeq(items, 2, Len(items)) BY <1>2, TailIsSubSeq
    <3>3. SubSeq(items, 1, Len(items)) = << items[1] >> \o SubSeq(items, 1 + 1, Len(items))
      BY <3>1, SubSeqRecursiveFirst
    <3>4. SubSeq(items, 1, Len(items)) = items /\ 1 + 1 = 2 BY <3>1, SubSeqFull
    <3>5. items[1] = a BY <1>2
    <3>6. QED BY <3>2, <3>3, <3>4, <3>5
  <2> HIDE DEF a, t
  <2>3. given \o (<< a >> \o t) = (given \o << a >>) \o t
    <3> DEFINE b == << a >>
    <3>1. b \in Seq(Nat) BY <2>1
    <3> HIDE DEF b
    <3>2. (given \o b) \o t = given \o (b \o t) BY <2>1, <3>1, ConcatAssociative, SMTT(30)
    <3>3. QED BY <3>2 DEF b
  <2>4. Append(given, a) = given \o << a >> BY <2>1, AppendIsConcat
  <2>5. given \o items = Append(given, a) \o t BY <2>2, <2>3, <2>4
  <2>6. QED BY <2>1, <2>5 DEF a, t
<1>3. QED BY <1>1, <1>2

\* Echo (echo_handle) counts up to its capacity.
LEMMA EchoHandled ==
    ASSUME NEW s \in 0 .. ECHO_CAPACITY, NEW payload, NEW h, h = echo_handle(s, payload)
    PROVE  h.state \in 0 .. ECHO_CAPACITY /\ h.effect.kind = "Reply"
<1>1. ECHO_CAPACITY \in Nat BY LaneAssumption
<1>2. QED BY <1>1 DEF echo_handle, answer, effect_reply

\* The transfer service (transfer_handle) keeps what it holds unless a message
\* with two endpoints binds a new pair, of log and kv.
LEMMA TransferHandled ==
    ASSUME NEW s \in TransferServiceState, NEW endpoints \in Seq(Nat), Len(endpoints) <= 2,
           NEW payload \in Seq(Nat), NEW h, h = transfer_handle(s, endpoints, payload)
    PROVE  /\ h.state \in TransferServiceState
           /\ \/ h.state = s
              \/ /\ Len(endpoints) = 2
                 /\ h.state = [left |-> endpoints[1], right |-> endpoints[2]]
                 /\ transfer_pair_ok(endpoints[1], endpoints[2])
           /\ h.effect.kind = "Send" => h.effect.payload \in Seq(Nat)
<1>r. \A status : /\ transfer_reply(s, status).state = s
                  /\ transfer_reply(s, status).effect.kind = "Reply"
  BY DEF transfer_reply, effect_reply
<1>1. CASE Len(endpoints) = 1
  <2>1. h = [state |-> s, effect |-> effect_send(endpoints[1], payload)]
    BY <1>1 DEF transfer_handle
  <2>2. h.state = s /\ h.effect.payload = payload BY <2>1 DEF effect_send
  <2>3. QED BY <2>2
<1>2. CASE Len(endpoints) = 2
  <2>1. h = transfer_bind(s, endpoints) \/ h = transfer_reply(s, "InvalidArgument")
    BY <1>2 DEF transfer_handle
  <2>2. 1 \in 1 .. Len(endpoints) /\ 2 \in 1 .. Len(endpoints) BY <1>2
  <2>3. endpoints[1] \in Nat /\ endpoints[2] \in Nat BY <2>2, ElementOfSeq
  <2>4. CASE h = transfer_reply(s, "InvalidArgument") \/ h = transfer_reply(s, "InvalidCapability")
    BY <1>r, <2>4
  <2>5. CASE /\ transfer_pair_ok(endpoints[1], endpoints[2])
             /\ h = transfer_reply([left |-> endpoints[1], right |-> endpoints[2]], "Ok")
    <3>1. h.state = [left |-> endpoints[1], right |-> endpoints[2]] /\ h.effect.kind = "Reply"
      BY <2>5 DEF transfer_reply, effect_reply
    <3>2. h.state \in TransferServiceState BY <2>3, <3>1 DEF TransferServiceState
    <3>3. QED BY <1>2, <2>5, <3>1, <3>2
  <2>6. QED BY <2>1, <2>4, <2>5 DEF transfer_bind
<1>3. CASE Len(endpoints) = 0
  <2>1. ASSUME NEW endpoint, NEW len \in {1, 2}, NEW u,
               u = transfer_use(s, endpoint, payload, len)
        PROVE  u.state = s /\ (u.effect.kind = "Send" => u.effect.payload \in Seq(Nat))
    <3>1. CASE endpoint \notin {s.left, s.right}
      <4>1. u = transfer_reply(s, "InvalidCapability") BY <2>1, <3>1 DEF transfer_use
      <4>2. QED BY <1>r, <4>1
    <3>2. CASE endpoint \in {s.left, s.right} /\ Len(payload) <= len
      <4>1. ~(Len(payload) > len) BY <3>2
      <4>2. u = transfer_reply(s, "InvalidArgument") BY <2>1, <3>2, <4>1 DEF transfer_use
      <4>3. QED BY <1>r, <4>2
    <3>3. CASE endpoint \in {s.left, s.right} /\ Len(payload) > len
      <4>1. ~(Len(payload) <= len) BY <3>3
      <4>2. u = [state |-> s, effect |-> effect_send(endpoint, SubSeq(payload, 2, len + 1))]
        BY <2>1, <3>3, <4>1 DEF transfer_use
      <4>3. u.state = s /\ u.effect.payload = SubSeq(payload, 2, len + 1)
        BY <4>2 DEF effect_send
      <4>4. SubSeq(payload, 2, len + 1) \in Seq(Nat) BY <3>3
      <4>5. QED BY <4>3, <4>4
    <3>4. Len(payload) <= len \/ Len(payload) > len OBVIOUS
    <3>5. QED BY <3>1, <3>2, <3>3, <3>4
  <2>2. \/ h = transfer_reply(s, "InvalidArgument")
        \/ h = transfer_use(s, LOG_ENDPOINT_ID, payload, 1)
        \/ h = transfer_use(s, KV_ENDPOINT_ID, payload, 2)
    BY <1>3 DEF transfer_handle
  <2>3. h.state = s /\ (h.effect.kind = "Send" => h.effect.payload \in Seq(Nat))
    BY <1>r, <2>1, <2>2
  <2>4. QED BY <2>3
<1>4. Len(endpoints) \in {0, 1, 2} BY Lengths
<1>5. QED BY <1>1, <1>2, <1>3, <1>4

\* A message to a service (kernel_dispatch_leaf) keeps the invariant, and only
\* a message to transfer with two handles changes what transfer holds.
LEMMA LeafKeeps ==
    ASSUME NEW r, Sound(r), NEW endpoint, NEW endpoints \in Seq(Nat), Len(endpoints) <= 2,
           NEW payload \in Seq(Nat),
           NEW q, q = kernel_dispatch_leaf(r, endpoint, endpoints, payload)
    PROVE  /\ Sound(q)
           /\ \/ q.transfer = r.transfer
              \/ /\ Len(endpoints) = 2
                 /\ q.transfer = [left |-> endpoints[1], right |-> endpoints[2]]
                 /\ transfer_pair_ok(endpoints[1], endpoints[2])
<1>t. Typed(r) /\ InOrder(r) /\ Audited(r) BY DEF Sound
<1>d. DOMAIN r = Fields BY <1>t DEF Typed
<1>1. CASE endpoint = LOG_ENDPOINT_ID
  <2> DEFINE h == log_handle(r.log, payload)
  <2>1. q = [r EXCEPT !.log = h.state, !.effect = h.effect]
    BY <1>1 DEF kernel_dispatch_leaf, dispatch_log, KV_ENDPOINT_ID, LOG_ENDPOINT_ID,
       QUEUE_ENDPOINT_ID, ECHO_ENDPOINT_ID, FILE_ENDPOINT_ID, TRANSFER_ENDPOINT_ID
  <2>2. /\ h.state \in LogState /\ h.effect.kind = "Reply"
        /\ Cardinality(Markers(r.log)) \in Nat /\ Cardinality(Markers(h.state)) \in Nat
        /\ Cardinality(Markers(r.log)) <= Cardinality(Markers(h.state))
    BY <1>t, LogHandled DEF Typed
  <2> HIDE DEF h
  <2>3. /\ DOMAIN q = Fields /\ q.log = h.state /\ q.effect = h.effect
        /\ q.kv = r.kv /\ q.queue = r.queue /\ q.echo = r.echo /\ q.file = r.file
        /\ q.transfer = r.transfer /\ q.pushed = r.pushed /\ q.popped = r.popped
        /\ q.marked = r.marked
    BY <1>d, <2>1 DEF Fields
  <2>4. Typed(q) BY <1>t, <2>2, <2>3 DEF Typed
  <2>5. InOrder(q) BY <1>t, <2>3 DEF InOrder
  <2>6. Audited(q) BY <1>t, <2>2, <2>3 DEF Audited, Typed
  <2>7. QED BY <2>3, <2>4, <2>5, <2>6 DEF Sound
<1>2. CASE endpoint = KV_ENDPOINT_ID
  <2> DEFINE h == kv_handle(r.kv, payload)
             a == log_handle(r.log, << KV_WRITE_LOG_MARKER >>)
  <2>1. q = dispatch_kv(r, payload, h, a)
    BY <1>2 DEF kernel_dispatch_leaf, KV_ENDPOINT_ID, LOG_ENDPOINT_ID,
       QUEUE_ENDPOINT_ID, ECHO_ENDPOINT_ID, FILE_ENDPOINT_ID, TRANSFER_ENDPOINT_ID
  <2>2. /\ Fits(h.state, KV_CAPACITY) /\ h.effect.kind = "Reply"
        /\ effect_mark_send_dropped(h.effect).kind = "Reply"
    BY <1>t, KvHandled DEF Typed
  <2>3. /\ a.state \in LogState
        /\ Cardinality(Markers(r.log)) \in Nat /\ Cardinality(Markers(a.state)) \in Nat
        /\ Cardinality(Markers(r.log)) <= Cardinality(Markers(a.state))
        /\ a.effect.status # "Exhausted" =>
              Cardinality(Markers(a.state)) = Cardinality(Markers(r.log)) + 1
    <3> DEFINE marker == << KV_WRITE_LOG_MARKER >>
    <3>1. marker \in Seq(Nat) BY DEF KV_WRITE_LOG_MARKER
    <3>2. r.log \in LogState BY <1>t DEF Typed
    <3> HIDE DEF marker
    <3>3. LET b == log_handle(r.log, marker)
          IN  /\ b.state \in LogState
              /\ Cardinality(Markers(r.log)) \in Nat /\ Cardinality(Markers(b.state)) \in Nat
              /\ Cardinality(Markers(r.log)) <= Cardinality(Markers(b.state))
              /\ marker = << KV_WRITE_LOG_MARKER >> /\ b.effect.status # "Exhausted" =>
                    Cardinality(Markers(b.state)) = Cardinality(Markers(r.log)) + 1
      BY <3>1, <3>2, LogHandled
    <3>4. QED BY <3>3 DEF marker
  <2> HIDE DEF h, a
  <2>4. PICK l, e, m :
           /\ q = [r EXCEPT !.kv = h.state, !.log = l, !.marked = m, !.effect = e]
           /\ e.kind = "Reply" /\ l \in LogState /\ m \in Nat
           /\ m <= Cardinality(Markers(l))
    <3>m. r.marked \in Nat /\ r.marked <= Cardinality(Markers(r.log)) /\ r.log \in LogState
      BY <1>t DEF Typed, Audited
    <3>1. CASE Len(payload) < 2
      <4>1. q = [r EXCEPT !.kv = h.state, !.effect = h.effect] BY <2>1, <3>1 DEF dispatch_kv
      <4>2. q = [r EXCEPT !.kv = h.state, !.log = r.log, !.marked = r.marked, !.effect = h.effect]
        BY <1>d, <4>1 DEF Fields
      <4>3. QED BY <2>2, <3>m, <4>2
    <3>2. CASE ~(Len(payload) < 2) /\ a.effect.status = "Exhausted"
      <4> DEFINE e == effect_mark_send_dropped(h.effect)
      <4>1. q = [r EXCEPT !.kv = h.state, !.log = a.state, !.effect = e]
        BY <2>1, <3>2 DEF dispatch_kv
      <4>2. e.kind = "Reply" BY <2>2
      <4> HIDE DEF e
      <4>3. q = [r EXCEPT !.kv = h.state, !.log = a.state, !.marked = r.marked, !.effect = e]
        BY <1>d, <4>1 DEF Fields
      <4>4. r.marked <= Cardinality(Markers(a.state)) BY <2>3, <3>m
      <4>5. QED BY <2>3, <3>m, <4>2, <4>3, <4>4
    <3>3. CASE ~(Len(payload) < 2) /\ a.effect.status # "Exhausted"
      <4> DEFINE m == IF h.effect.status = "Ok" THEN r.marked + 1 ELSE r.marked
      <4>1. q = [r EXCEPT !.kv = h.state, !.log = a.state, !.marked = m, !.effect = h.effect]
        BY <2>1, <3>3, <1>d DEF dispatch_kv, Fields
      <4>2. m \in Nat /\ m <= Cardinality(Markers(a.state)) BY <2>3, <3>3, <3>m
      <4> HIDE DEF m
      <4>3. QED BY <2>2, <2>3, <4>1, <4>2
    <3>4. QED BY <3>1, <3>2, <3>3
  <2>5. /\ DOMAIN q = Fields /\ q.log = l /\ q.effect = e
        /\ q.kv = h.state /\ q.queue = r.queue /\ q.echo = r.echo /\ q.file = r.file
        /\ q.transfer = r.transfer /\ q.pushed = r.pushed /\ q.popped = r.popped
        /\ q.marked = m
    BY <1>d, <2>4 DEF Fields
  <2>6. Typed(q) BY <1>t, <2>2, <2>4, <2>5 DEF Typed
  <2>7. InOrder(q) BY <1>t, <2>5 DEF InOrder
  <2>8. Audited(q) BY <2>4, <2>5 DEF Audited
  <2>9. QED BY <2>5, <2>6, <2>7, <2>8 DEF Sound
<1>3. CASE endpoint = QUEUE_ENDPOINT_ID
  <2> DEFINE h == queue_handle(r.queue, payload)
             pu == IF h.effect.status = "Ok" /\ Len(payload) = 1 THEN Append(r.pushed, payload[1]) ELSE r.pushed
             po == IF h.effect.status = "Ok" /\ payload = << >> THEN Append(r.popped, h.effect.payload[1]) ELSE r.popped
  <2>1. q = [r EXCEPT !.queue = h.state, !.effect = h.effect, !.pushed = pu, !.popped = po]
    <3>1. q = dispatch_queue(r, payload, h)
      BY <1>3 DEF kernel_dispatch_leaf, KV_ENDPOINT_ID, LOG_ENDPOINT_ID,
       QUEUE_ENDPOINT_ID, ECHO_ENDPOINT_ID, FILE_ENDPOINT_ID, TRANSFER_ENDPOINT_ID
    <3> HIDE DEF h
    <3>2. QED BY <1>d, <3>1 DEF dispatch_queue, Fields
  <2>r. /\ r.queue \in QueueState /\ r.queue.items \in Seq(Nat)
        /\ r.pushed \in Seq(Nat) /\ r.popped \in Seq(Nat)
        /\ r.pushed = r.popped \o r.queue.items
    BY <1>t DEF Typed, InOrder, QueueState
  <2>2. /\ h.state \in QueueState /\ h.effect.kind = "Reply"
        /\ h.effect.status = "Ok" /\ Len(payload) = 1 => h.state.items = Append(r.queue.items, payload[1])
        /\ h.effect.status = "Ok" /\ payload = << >> =>
              /\ r.queue.items # << >> /\ h.effect.payload[1] = Head(r.queue.items)
              /\ h.state.items = Tail(r.queue.items)
        /\ ~(h.effect.status = "Ok" /\ (Len(payload) = 1 \/ payload = << >>)) => h.state.items = r.queue.items
    <3>1. \A g : g = queue_handle(r.queue, payload) =>
             /\ g.state \in QueueState /\ g.effect.kind = "Reply"
             /\ g.effect.status = "Ok" /\ Len(payload) = 1 =>
                   g.state.items = Append(r.queue.items, payload[1])
             /\ g.effect.status = "Ok" /\ payload = << >> =>
                   /\ r.queue.items # << >> /\ g.effect.payload[1] = Head(r.queue.items)
                   /\ g.state.items = Tail(r.queue.items)
             /\ ~(g.effect.status = "Ok" /\ (Len(payload) = 1 \/ payload = << >>)) =>
                   g.state.items = r.queue.items
      BY <2>r, QueueHandled
    <3>2. QED BY <3>1
  <2>l. Len(payload) = 1 => payload # << >> /\ payload[1] \in Nat
    BY Lengths
  <2> HIDE DEF h
  <2>3. pu \in Seq(Nat) /\ po \in Seq(Nat) /\ pu = po \o h.state.items
    <3>1. CASE h.effect.status = "Ok" /\ Len(payload) = 1
      <4>1. pu = Append(r.pushed, payload[1]) /\ po = r.popped BY <2>l, <3>1
      <4>2. h.state.items = Append(r.queue.items, payload[1]) /\ payload[1] \in Nat
        BY <2>2, <2>l, <3>1
      <4>3. Append(r.popped \o r.queue.items, payload[1])
               = r.popped \o Append(r.queue.items, payload[1])
        BY <2>r, <4>2, EnterLeave, ZenonT(30)
      <4>4. Append(r.pushed, payload[1]) \in Seq(Nat) BY <2>r, <4>2
      <4>5. QED BY <2>r, <4>1, <4>2, <4>3, <4>4
    <3>2. CASE h.effect.status = "Ok" /\ payload = << >>
      <4>1. po = Append(r.popped, Head(r.queue.items)) /\ pu = r.pushed
        BY <2>2, <2>l, <3>2
      <4>2. /\ Head(r.queue.items) \in Nat
            /\ r.popped \o r.queue.items
                  = Append(r.popped, Head(r.queue.items)) \o Tail(r.queue.items)
        BY <2>r, <2>2, <3>2, EnterLeave
      <4>3. Append(r.popped, Head(r.queue.items)) \in Seq(Nat) BY <2>r, <4>2
      <4>4. QED BY <2>r, <2>2, <3>2, <4>1, <4>2, <4>3
    <3>3. CASE ~(h.effect.status = "Ok" /\ (Len(payload) = 1 \/ payload = << >>))
      BY <2>r, <2>2, <3>3
    <3>4. QED BY <3>1, <3>2, <3>3
  <2> HIDE DEF pu, po
  <2>4. /\ DOMAIN q = Fields /\ q.queue = h.state /\ q.effect = h.effect
        /\ q.log = r.log /\ q.kv = r.kv /\ q.echo = r.echo /\ q.file = r.file
        /\ q.transfer = r.transfer /\ q.pushed = pu /\ q.popped = po
        /\ q.marked = r.marked
    BY <1>d, <2>1 DEF Fields
  <2>5. Typed(q) BY <1>t, <2>2, <2>3, <2>4 DEF Typed
  <2>6. InOrder(q) BY <2>3, <2>4 DEF InOrder
  <2>7. Audited(q) BY <1>t, <2>4 DEF Audited
  <2>8. QED BY <2>4, <2>5, <2>6, <2>7 DEF Sound
<1>4. CASE endpoint = ECHO_ENDPOINT_ID
  <2> DEFINE h == echo_handle(r.echo, payload)
  <2>1. q = [r EXCEPT !.echo = h.state, !.effect = h.effect]
    BY <1>4, <1>d DEF kernel_dispatch_leaf, Fields, KV_ENDPOINT_ID, LOG_ENDPOINT_ID,
       QUEUE_ENDPOINT_ID, ECHO_ENDPOINT_ID, FILE_ENDPOINT_ID, TRANSFER_ENDPOINT_ID
  <2>2. h.state \in 0 .. ECHO_CAPACITY /\ h.effect.kind = "Reply"
    BY <1>t, EchoHandled DEF Typed
  <2> HIDE DEF h
  <2>3. /\ DOMAIN q = Fields /\ q.echo = h.state /\ q.effect = h.effect
        /\ q.log = r.log /\ q.kv = r.kv /\ q.queue = r.queue /\ q.file = r.file
        /\ q.transfer = r.transfer /\ q.pushed = r.pushed /\ q.popped = r.popped
        /\ q.marked = r.marked
    BY <1>d, <2>1 DEF Fields
  <2>4. Typed(q) BY <1>t, <2>2, <2>3 DEF Typed
  <2>5. QED BY <1>t, <2>3, <2>4 DEF Sound, InOrder, Audited
<1>5. CASE endpoint = FILE_ENDPOINT_ID
  <2> DEFINE h == file_handle(r.file, payload)
  <2>1. q = [r EXCEPT !.file = h.state, !.effect = h.effect]
    BY <1>5, <1>d DEF kernel_dispatch_leaf, Fields, KV_ENDPOINT_ID, LOG_ENDPOINT_ID,
       QUEUE_ENDPOINT_ID, ECHO_ENDPOINT_ID, FILE_ENDPOINT_ID, TRANSFER_ENDPOINT_ID
  <2>2. Fits(h.state, FILE_CAPACITY) /\ h.effect.kind = "Reply"
    BY <1>t, FileHandled DEF Typed
  <2> HIDE DEF h
  <2>3. /\ DOMAIN q = Fields /\ q.file = h.state /\ q.effect = h.effect
        /\ q.log = r.log /\ q.kv = r.kv /\ q.queue = r.queue /\ q.echo = r.echo
        /\ q.transfer = r.transfer /\ q.pushed = r.pushed /\ q.popped = r.popped
        /\ q.marked = r.marked
    BY <1>d, <2>1 DEF Fields
  <2>4. Typed(q) BY <1>t, <2>2, <2>3 DEF Typed
  <2>5. QED BY <1>t, <2>3, <2>4 DEF Sound, InOrder, Audited
<1>6. CASE endpoint = TRANSFER_ENDPOINT_ID
  <2> DEFINE h == transfer_handle(r.transfer, endpoints, payload)
  <2>1. q = [r EXCEPT !.transfer = h.state, !.effect = h.effect]
    BY <1>6 DEF kernel_dispatch_leaf, dispatch_transfer, KV_ENDPOINT_ID, LOG_ENDPOINT_ID,
       QUEUE_ENDPOINT_ID, ECHO_ENDPOINT_ID, FILE_ENDPOINT_ID, TRANSFER_ENDPOINT_ID
  <2>2. /\ h.state \in TransferServiceState
        /\ \/ h.state = r.transfer
           \/ /\ Len(endpoints) = 2
              /\ h.state = [left |-> endpoints[1], right |-> endpoints[2]]
              /\ transfer_pair_ok(endpoints[1], endpoints[2])
        /\ h.effect.kind = "Send" => h.effect.payload \in Seq(Nat)
    BY <1>t, TransferHandled DEF Typed
  <2> HIDE DEF h
  <2>3. /\ DOMAIN q = Fields /\ q.transfer = h.state /\ q.effect = h.effect
        /\ q.log = r.log /\ q.kv = r.kv /\ q.queue = r.queue /\ q.echo = r.echo
        /\ q.file = r.file /\ q.pushed = r.pushed /\ q.popped = r.popped
        /\ q.marked = r.marked
    BY <1>d, <2>1 DEF Fields
  <2>4. Typed(q) BY <1>t, <2>2, <2>3 DEF Typed
  <2>5. QED BY <1>t, <2>2, <2>3, <2>4 DEF Sound, InOrder, Audited
<1>7. CASE endpoint \notin {LOG_ENDPOINT_ID, KV_ENDPOINT_ID, QUEUE_ENDPOINT_ID,
                            ECHO_ENDPOINT_ID, FILE_ENDPOINT_ID, TRANSFER_ENDPOINT_ID}
  <2> DEFINE e == effect_reply("InvalidEndpoint", << >>)
  <2>1. q = [r EXCEPT !.effect = e] BY <1>7 DEF kernel_dispatch_leaf
  <2>2. e.kind = "Reply" BY DEF effect_reply
  <2> HIDE DEF e
  <2>3. /\ DOMAIN q = Fields /\ q.transfer = r.transfer /\ q.effect = e
        /\ q.log = r.log /\ q.kv = r.kv /\ q.queue = r.queue /\ q.echo = r.echo
        /\ q.file = r.file /\ q.pushed = r.pushed /\ q.popped = r.popped
        /\ q.marked = r.marked
    BY <1>d, <2>1 DEF Fields
  <2>4. Typed(q) BY <1>t, <2>2, <2>3 DEF Typed
  <2>5. QED BY <1>t, <2>3, <2>4 DEF Sound, InOrder, Audited
<1>8. QED BY <1>1, <1>2, <1>3, <1>4, <1>5, <1>6, <1>7

\* Without handles a message leaves what transfer holds alone.
LEMMA LeafAlone ==
    ASSUME NEW r, Sound(r), NEW endpoint, NEW payload \in Seq(Nat)
    PROVE  /\ Sound(kernel_dispatch_leaf(r, endpoint, << >>, payload))
           /\ kernel_dispatch_leaf(r, endpoint, << >>, payload).transfer = r.transfer
<1> DEFINE none == << >>
           q == kernel_dispatch_leaf(r, endpoint, none, payload)
<1>1. none \in Seq(Nat) /\ Len(none) <= 2 /\ Len(none) # 2 OBVIOUS
<1> HIDE DEF none
<1>2. /\ Sound(q)
      /\ \/ q.transfer = r.transfer
         \/ /\ Len(none) = 2
            /\ q.transfer = [left |-> none[1], right |-> none[2]]
            /\ transfer_pair_ok(none[1], none[2])
  BY <1>1, LeafKeeps
<1>3. Sound(q) /\ q.transfer = r.transfer BY <1>1, <1>2
<1>4. QED BY <1>3 DEF none

\* execute_effect follows at most eight effects, one after the other.
LEMMA ChainUnfolds ==
    ASSUME NEW r
    PROVE  \E c : /\ c[0] = r
                  /\ \A d \in 1 .. 8 : c[d] = follow(c[d - 1])
                  /\ execute_effect(r) = IF c[7].effect.kind = "Send"
                         THEN [c[8] EXCEPT !.effect = effect_reply("Exhausted", << >>)]
                         ELSE c[8]
<1> DEFINE IsChain(c) == c = [depth \in 0 .. MAX_EFFECT_CHAIN_DEPTH |->
                                 IF depth = 0 THEN r ELSE follow(c[depth - 1])]
           ch == CHOOSE c : IsChain(c)
<1>1. \E c : IsChain(c)
  <2> DEFINE c1 == follow(r) c2 == follow(c1) c3 == follow(c2) c4 == follow(c3)
             c5 == follow(c4) c6 == follow(c5) c7 == follow(c6) c8 == follow(c7)
             c == [d \in 0 .. 8 |-> CASE d = 0 -> r [] d = 1 -> c1 [] d = 2 -> c2
                     [] d = 3 -> c3 [] d = 4 -> c4 [] d = 5 -> c5 [] d = 6 -> c6
                     [] d = 7 -> c7 [] d = 8 -> c8]
  <2>1. /\ c1 = follow(r) /\ c2 = follow(c1) /\ c3 = follow(c2) /\ c4 = follow(c3)
        /\ c5 = follow(c4) /\ c6 = follow(c5) /\ c7 = follow(c6) /\ c8 = follow(c7)
    OBVIOUS
  <2> HIDE DEF c1, c2, c3, c4, c5, c6, c7, c8
  <2>2. /\ c[0] = r /\ c[1] = c1 /\ c[2] = c2 /\ c[3] = c3 /\ c[4] = c4 /\ c[5] = c5
        /\ c[6] = c6 /\ c[7] = c7 /\ c[8] = c8
    OBVIOUS
  <2>3. c = [d \in 0 .. 8 |-> c[d]] OBVIOUS
  <2> HIDE DEF c
  <2>4. \A d \in 0 .. 8 : c[d] = IF d = 0 THEN r ELSE follow(c[d - 1])
    <3>1. \A d \in 0 .. 8 : d = 0 \/ d = 1 \/ d = 2 \/ d = 3 \/ d = 4 \/ d = 5 \/ d = 6 \/ d = 7 \/ d = 8
      OBVIOUS
    <3>2. QED BY <2>1, <2>2, <3>1
  <2>5. c = [d \in 0 .. 8 |-> IF d = 0 THEN r ELSE follow(c[d - 1])]
    BY <2>3, <2>4
  <2>6. QED BY <2>5 DEF MAX_EFFECT_CHAIN_DEPTH
<1>2. IsChain(ch) BY <1>1
<1>3. ch = [depth \in 0 .. 8 |-> IF depth = 0 THEN r ELSE follow(ch[depth - 1])]
  BY <1>2 DEF MAX_EFFECT_CHAIN_DEPTH
<1>4. execute_effect(r) = IF ch[7].effect.kind = "Send"
                          THEN [ch[8] EXCEPT !.effect = effect_reply("Exhausted", << >>)]
                          ELSE ch[8]
  BY DEF execute_effect, MAX_EFFECT_CHAIN_DEPTH
<1> HIDE DEF ch
<1>5. ch[0] = r /\ \A d \in 1 .. 8 : ch[d] = follow(ch[d - 1])
  BY <1>3
<1>6. QED BY <1>4, <1>5

\* Following the effects (execute_effect) keeps the invariant and what transfer
\* holds: no message that follows carries handles.
LEMMA ExecuteKeeps ==
    ASSUME NEW r, Sound(r)
    PROVE  Sound(execute_effect(r)) /\ execute_effect(r).transfer = r.transfer
<1> DEFINE Good(x) == Sound(x) /\ x.transfer = r.transfer
<1>1. ASSUME NEW x, Good(x) PROVE Good(follow(x))
  <2>1. CASE x.effect.kind # "Send" BY <1>1, <2>1 DEF follow
  <2>2. CASE x.effect.kind = "Send"
    <3>1. x.effect.payload \in Seq(Nat) BY <1>1, <2>2 DEF Sound, Typed
    <3>2. follow(x) = kernel_dispatch_leaf(x, x.effect.endpoint, << >>, x.effect.payload)
      BY <2>2 DEF follow
    <3>5. Sound(follow(x)) /\ follow(x).transfer = x.transfer
      BY <1>1, <3>1, <3>2, LeafAlone
    <3>6. QED BY <1>1, <3>5
  <2>3. QED BY <2>1, <2>2
<1>2. PICK c : /\ c[0] = r
               /\ \A d \in 1 .. 8 : c[d] = follow(c[d - 1])
               /\ execute_effect(r) = IF c[7].effect.kind = "Send"
                      THEN [c[8] EXCEPT !.effect = effect_reply("Exhausted", << >>)]
                      ELSE c[8]
  BY ChainUnfolds
<1>3. /\ c[1] = follow(c[0]) /\ c[2] = follow(c[1]) /\ c[3] = follow(c[2])
      /\ c[4] = follow(c[3]) /\ c[5] = follow(c[4]) /\ c[6] = follow(c[5])
      /\ c[7] = follow(c[6]) /\ c[8] = follow(c[7])
  <2>1. \A d \in 1 .. 8 : c[d] = follow(c[d - 1]) BY <1>2
  <2>2. /\ 1 - 1 = 0 /\ 2 - 1 = 1 /\ 3 - 1 = 2 /\ 4 - 1 = 3 /\ 5 - 1 = 4 /\ 6 - 1 = 5
        /\ 7 - 1 = 6 /\ 8 - 1 = 7 /\ 1 .. 8 = {1, 2, 3, 4, 5, 6, 7, 8}
    OBVIOUS
  <2>3. QED BY <2>1, <2>2
<1>4. Good(c[8])
  <2> HIDE DEF Good
  <2>1. Good(r) BY DEF Good
  <2>2. QED BY <1>1, <1>2, <1>3, <2>1
<1>5. CASE c[7].effect.kind # "Send" BY <1>2, <1>4, <1>5
<1>6. CASE c[7].effect.kind = "Send"
  <2> DEFINE e == effect_reply("Exhausted", << >>)
             x == c[8]
             q == execute_effect(r)
  <2>1. q = [x EXCEPT !.effect = e] BY <1>2, <1>6
  <2>2. e.kind = "Reply" BY DEF effect_reply
  <2>3. Typed(x) /\ InOrder(x) /\ Audited(x) /\ x.transfer = r.transfer BY <1>4 DEF Sound
  <2>4. DOMAIN x = Fields BY <2>3 DEF Typed
  <2> HIDE DEF e, x, q
  <2>5. /\ DOMAIN q = Fields /\ q.transfer = x.transfer /\ q.effect = e
        /\ q.log = x.log /\ q.kv = x.kv /\ q.queue = x.queue /\ q.echo = x.echo
        /\ q.file = x.file /\ q.pushed = x.pushed /\ q.popped = x.popped
        /\ q.marked = x.marked
    BY <2>1, <2>4 DEF Fields
  <2>6. Typed(q) BY <2>2, <2>3, <2>5 DEF Typed
  <2>7. Sound(q) /\ q.transfer = r.transfer BY <2>3, <2>5, <2>6 DEF Sound, InOrder, Audited
  <2>8. QED BY <2>7 DEF q
<1>7. QED BY <1>5, <1>6

\* What commit stores is what was dispatched.
LEMMA Committed ==
    ASSUME NEW r, Sound(r), commit(r)
    PROVE  Sound(runtime') /\ transfer' = r.transfer
<1> DEFINE q == runtime'
<1>1. q = [log |-> r.log, kv |-> r.kv, queue |-> r.queue, echo |-> r.echo,
           file |-> r.file, transfer |-> r.transfer, pushed |-> r.pushed,
           popped |-> r.popped, marked |-> r.marked, effect |-> [kind |-> "None"]]
  BY DEF commit, runtime
<1> HIDE DEF q
<1>2. /\ DOMAIN q = Fields /\ q.transfer = r.transfer /\ q.effect.kind = "None"
      /\ q.log = r.log /\ q.kv = r.kv /\ q.queue = r.queue /\ q.echo = r.echo
      /\ q.file = r.file /\ q.pushed = r.pushed /\ q.popped = r.popped
      /\ q.marked = r.marked
  BY <1>1 DEF Fields
<1>3. Typed(q) BY <1>2 DEF Typed, Sound
<1>4. Sound(q) BY <1>2, <1>3 DEF Sound, InOrder, Audited
<1>5. QED BY <1>4 DEF q, commit

\* At boot the services are empty (kernel_init).
LEMMA SoundInit == Init => Sound(runtime)
<1> SUFFICES ASSUME Init PROVE Sound(runtime) OBVIOUS
<1> DEFINE q == runtime
<1>1. q = [log |-> << >>, kv |-> kv_init, queue |-> queue_init, echo |-> 0,
           file |-> file_init, transfer |-> transfer_init, pushed |-> << >>,
           popped |-> << >>, marked |-> 0, effect |-> [kind |-> "None"]]
  BY DEF Init, runtime, log_init, echo_init
<1> HIDE DEF q
<1>2. /\ DOMAIN q = Fields /\ q.transfer = transfer_init /\ q.effect.kind = "None"
      /\ q.log = << >> /\ q.kv = kv_init /\ q.queue = queue_init /\ q.echo = 0
      /\ q.file = file_init /\ q.pushed = << >> /\ q.popped = << >> /\ q.marked = 0
  BY <1>1 DEF Fields
<1>3. /\ LOG_BUFFER_CAPACITY \in Nat /\ KV_CAPACITY \in Nat /\ QUEUE_CAPACITY \in Nat
      /\ ECHO_CAPACITY \in Nat /\ FILE_CAPACITY \in Nat
  BY LaneAssumption
<1>4. IsFiniteSet({}) /\ Cardinality({}) = 0 BY FS_EmptySet
<1>5. << >> \in LogState /\ queue_init \in QueueState /\ queue_init.items = << >>
  BY <1>3 DEF LogState, QueueState, queue_init
<1>6. Fits(kv_init, KV_CAPACITY) /\ Fits(file_init, FILE_CAPACITY)
  BY <1>3, <1>4 DEF Fits, kv_init, file_init
<1>7. transfer_init \in TransferServiceState /\ 0 \in 0 .. ECHO_CAPACITY
  BY <1>3 DEF transfer_init, TransferServiceState
<1>8. Typed(q) BY <1>2, <1>5, <1>6, <1>7 DEF Typed
<1>9. InOrder(q) BY <1>2, <1>5 DEF InOrder
<1>10. Audited(q)
  <2>1. Markers(<< >>) = {} BY DEF Markers
  <2>2. Cardinality(Markers(q.log)) = 0 BY <1>2, <1>4, <2>1
  <2>3. q.marked <= 0 BY <1>2
  <2>4. QED BY <2>2, <2>3 DEF Audited
<1>11. QED BY <1>8, <1>9, <1>10 DEF Sound, q

\* A restart keeps or empties a service; the queue loses only its stall mark.
LEMMA RestartSound ==
    ASSUME Sound(runtime), UNCHANGED << log, kv, file, ghosts >>,
           queue' = queue \/ queue' = queue_reload(queue),
           echo' = echo \/ echo' = echo_init,
           transfer' = transfer \/ transfer' = transfer_init
    PROVE  Sound(runtime')
<1> DEFINE r == [log |-> log, kv |-> kv, queue |-> queue', echo |-> echo',
                 file |-> file, transfer |-> transfer', pushed |-> pushed,
                 popped |-> popped, marked |-> marked, effect |-> [kind |-> "None"]]
           q == runtime
<1>1. /\ q.log = log /\ q.kv = kv /\ q.queue = queue /\ q.echo = echo /\ q.file = file
      /\ q.transfer = transfer /\ q.pushed = pushed /\ q.popped = popped /\ q.marked = marked
  BY DEF runtime
<1>2. Typed(q) /\ InOrder(q) /\ Audited(q) BY DEF Sound
<1> HIDE DEF q
<1>3. queue \in QueueState /\ echo \in 0 .. ECHO_CAPACITY /\ transfer \in TransferServiceState
  BY <1>1, <1>2 DEF Typed
<1>4. queue' \in QueueState /\ queue'.items = queue.items
  BY <1>3 DEF QueueState, queue_reload
<1>5. echo' \in 0 .. ECHO_CAPACITY /\ transfer' \in TransferServiceState
  BY <1>3, LaneAssumption DEF echo_init, transfer_init, TransferServiceState
<1>6. runtime' = r BY DEF runtime, ghosts
<1>7. /\ DOMAIN r = Fields /\ r.log = log /\ r.kv = kv /\ r.queue = queue' /\ r.echo = echo'
      /\ r.file = file /\ r.transfer = transfer' /\ r.pushed = pushed /\ r.popped = popped
      /\ r.marked = marked /\ r.effect.kind = "None"
  BY DEF Fields
<1> HIDE DEF r
<1>8. Typed(r) BY <1>1, <1>2, <1>4, <1>5, <1>7 DEF Typed
<1>9. InOrder(r) /\ Audited(r) BY <1>1, <1>2, <1>4, <1>7 DEF InOrder, Audited
<1>10. QED BY <1>6, <1>8, <1>9 DEF Sound

\* The endpoints a message with handles brings (grant_endpoint) are those of
\* unredeemed grants of the sender, which are redeemed with it.
LEMMA HandlesBring ==
    ASSUME GrantInv, NEW pid \in Nat, NEW slot \in Nat, NEW count \in {1, 2},
           grant_can_consume(grants, pid, slot, count), NEW k \in 1 .. count
    PROVE  /\ slot + k - 1 \in DOMAIN granted
           /\ granted[slot + k - 1].endpoint = grant_endpoint(grants, pid, slot + k - 1)
           /\ granted[slot + k - 1].owner = pid
           /\ granted[slot + k - 1].spent = 0
           /\ grant_endpoint(grants, pid, slot + k - 1) \in Nat
<1>t. GrantTypes /\ GrantTruth BY DEF GrantInv
<1> DEFINE id == slot + k - 1
           i == CHOOSE i \in GrantSlot : grant_redeems(grants, i, pid, id)
<1>1. k - 1 \in 0 .. count - 1 /\ slot + (k - 1) = id OBVIOUS
<1>2. \E j \in GrantSlot : grant_redeems(grants, j, pid, slot + (k - 1))
  BY <1>1 DEF grant_can_consume
<1>3. i \in GrantSlot /\ grant_redeems(grants, i, pid, id) BY <1>1, <1>2
<1>4. grant_endpoint(grants, pid, id) = grants.slots[i].endpoint BY DEF grant_endpoint
<1> HIDE DEF i, id
<1>5. Live(i) /\ grants.slots[i].id = id /\ grants.slots[i].owner = pid
  BY <1>3 DEF Live, grant_redeems
<1>6. /\ Unspent(id) /\ granted[id].owner = pid
      /\ granted[id].endpoint = grants.slots[i].endpoint
  BY <1>t, <1>3, <1>5 DEF GrantTruth
<1>7. grants.slots[i].endpoint \in Nat
  BY <1>t, <1>3 DEF GrantTypes, GrantTable, Grant
<1>8. QED BY <1>4, <1>6, <1>7 DEF Unspent, id

\* A pair that stays bound stays accounted for.
LEMMA PairKept ==
    ASSUME PairFromGrants, transfer' = transfer,
           generation["transfer"] # 0, generation'["transfer"] = generation["transfer"],
           \A id \in DOMAIN granted :
              /\ id \in DOMAIN granted'
              /\ granted'[id].endpoint = granted[id].endpoint
              /\ granted'[id].owner = granted[id].owner
              /\ granted[id].spent # 0 => granted'[id].spent = granted[id].spent
    PROVE  PairFromGrants'
<1> SUFFICES ASSUME transfer # transfer_init PROVE PairFromGrants'
  BY DEF PairFromGrants, transfer_init
<1>1. {transfer.left, transfer.right} = {LOG_ENDPOINT_ID, KV_ENDPOINT_ID}
  BY DEF PairFromGrants
<1>2. PICK id \in DOMAIN granted :
         /\ id + 1 \in DOMAIN granted
         /\ granted[id].endpoint = transfer.left
         /\ granted[id + 1].endpoint = transfer.right
         /\ granted[id].owner = granted[id + 1].owner
         /\ \A k \in {id, id + 1} : granted[k].spent = generation["transfer"]
  BY DEF PairFromGrants
<1>3. /\ id \in DOMAIN granted' /\ id + 1 \in DOMAIN granted'
      /\ granted'[id].endpoint = transfer'.left
      /\ granted'[id + 1].endpoint = transfer'.right
      /\ granted'[id].owner = granted'[id + 1].owner
      /\ granted'[id].spent = generation'["transfer"]
      /\ granted'[id + 1].spent = generation'["transfer"]
  BY <1>2
<1>4. \A k \in {id, id + 1} : granted'[k].spent = generation'["transfer"] BY <1>3
<1>5. {transfer'.left, transfer'.right} = {LOG_ENDPOINT_ID, KV_ENDPOINT_ID} BY <1>1
<1>6. QED
  BY <1>3, <1>4, <1>5 DEF PairFromGrants, transfer_init, LOG_ENDPOINT_ID, KV_ENDPOINT_ID

\* What the services hold, and the pair, after any step of the kernel.
ServicesInv == GrantInv /\ Sound(runtime) /\ PairFromGrants

\* A message with handles binds what it redeemed or changes no pair
\* (kernel_dispatch_transfer_receive).
LEMMA PairRedeemed ==
    ASSUME ServicesInv, NEW pid \in Nat, NEW slot \in Nat, NEW count \in {1, 2},
           NEW payload \in Seq(Nat), ReceiveHandles(pid, slot, count, payload)
    PROVE  Sound(runtime') /\ PairFromGrants'
<1> DEFINE endpoints == [k \in 1 .. count |-> grant_endpoint(grants, pid, slot + k - 1)]
           destination == TRANSFER_ENDPOINT_ID
           leaf == kernel_dispatch_leaf(runtime, destination, endpoints, payload)
           g == generation["transfer"]
<1>t. GrantInv /\ Sound(runtime) /\ PairFromGrants BY DEF ServicesInv
<1>g. g \in Nat \ {0} BY <1>t DEF GrantInv, GrantTypes, Cell, Service, Replaced
<1>1. /\ grant_can_consume(grants, pid, slot, count)
      /\ granted' = [id \in DOMAIN granted |->
                        IF id \in slot .. slot + count - 1
                        THEN [granted[id] EXCEPT !.spent = g, !.by = pid]
                        ELSE granted[id]]
      /\ commit(execute_effect(leaf))
      /\ generation' = generation
  BY DEF ReceiveHandles, ledger
<1>e. endpoints = [k \in 1 .. count |-> grant_endpoint(grants, pid, slot + k - 1)]
  OBVIOUS
<1>l. leaf = kernel_dispatch_leaf(runtime, destination, endpoints, payload) OBVIOUS
<1>d. destination \in Nat BY DEF TRANSFER_ENDPOINT_ID
<1> HIDE DEF endpoints, destination, leaf, g
<1>2. /\ endpoints \in Seq(Nat) /\ Len(endpoints) = count
      /\ \A k \in 1 .. count :
            /\ slot + k - 1 \in DOMAIN granted
            /\ granted[slot + k - 1].endpoint = endpoints[k]
            /\ granted[slot + k - 1].owner = pid
            /\ granted[slot + k - 1].spent = 0
  <2>1. \A k \in 1 .. count :
           /\ slot + k - 1 \in DOMAIN granted
           /\ granted[slot + k - 1].endpoint = grant_endpoint(grants, pid, slot + k - 1)
           /\ granted[slot + k - 1].owner = pid
           /\ granted[slot + k - 1].spent = 0
           /\ grant_endpoint(grants, pid, slot + k - 1) \in Nat
    BY <1>t, <1>1, HandlesBring
  <2>2. endpoints \in [1 .. count -> Nat] BY <1>e, <2>1
  <2>3. count \in Nat OBVIOUS
  <2>4. endpoints \in Seq(Nat) /\ Len(endpoints) = count BY <2>2, <2>3
  <2>5. QED BY <1>e, <2>1, <2>4
<1>r. \A id \in DOMAIN granted : granted[id] \in GrantRecord
  BY <1>t DEF GrantInv, GrantTypes
<1>3. Len(endpoints) <= 2 BY <1>2
<1>4. /\ Sound(leaf)
      /\ \/ leaf.transfer = runtime.transfer
         \/ /\ Len(endpoints) = 2
            /\ leaf.transfer = [left |-> endpoints[1], right |-> endpoints[2]]
            /\ transfer_pair_ok(endpoints[1], endpoints[2])
  BY <1>t, <1>d, <1>l, <1>2, <1>3, LeafKeeps
<1>5. Sound(execute_effect(leaf)) /\ execute_effect(leaf).transfer = leaf.transfer
  BY <1>4, ExecuteKeeps
<1>6. Sound(runtime') /\ transfer' = leaf.transfer BY <1>1, <1>5, Committed
<1>7. \A id \in DOMAIN granted :
         /\ id \in DOMAIN granted'
         /\ granted'[id].endpoint = granted[id].endpoint
         /\ granted'[id].owner = granted[id].owner
         /\ id \in slot .. slot + count - 1 => granted'[id].spent = g
         /\ id \notin slot .. slot + count - 1 => granted'[id].spent = granted[id].spent
  BY <1>1, <1>r DEF GrantRecord
<1>8. CASE leaf.transfer = runtime.transfer
  <2>1. transfer' = transfer BY <1>6, <1>8 DEF runtime
  <2>2. \A id \in DOMAIN granted : granted[id].spent # 0 => granted'[id].spent = granted[id].spent
    <3> SUFFICES ASSUME NEW id \in slot .. slot + count - 1 PROVE granted[id].spent = 0
      BY <1>7
    <3>1. id - slot + 1 \in 1 .. count /\ slot + (id - slot + 1) - 1 = id OBVIOUS
    <3>2. QED BY <1>2, <3>1
  <2>3. generation["transfer"] # 0 /\ generation'["transfer"] = generation["transfer"]
    BY <1>g, <1>1 DEF g
  <2>4. PairFromGrants' BY <1>t, <1>7, <2>1, <2>2, <2>3, PairKept
  <2>5. QED BY <1>6, <2>4
<1>9. CASE /\ Len(endpoints) = 2
           /\ leaf.transfer = [left |-> endpoints[1], right |-> endpoints[2]]
           /\ transfer_pair_ok(endpoints[1], endpoints[2])
  <2>1. count = 2 /\ 1 \in 1 .. count /\ 2 \in 1 .. count BY <1>2, <1>9
  <2>2. /\ slot \in DOMAIN granted /\ slot + 1 \in DOMAIN granted
        /\ granted[slot].endpoint = endpoints[1] /\ granted[slot + 1].endpoint = endpoints[2]
        /\ granted[slot].owner = pid /\ granted[slot + 1].owner = pid
    <3>1. slot + 1 - 1 = slot /\ slot + 2 - 1 = slot + 1 OBVIOUS
    <3>2. QED BY <1>2, <2>1, <3>1
  <2>3. slot \in slot .. slot + count - 1 /\ slot + 1 \in slot .. slot + count - 1
    BY <2>1
  <2>4. transfer'.left = endpoints[1] /\ transfer'.right = endpoints[2] BY <1>6, <1>9
  <2>5. /\ slot \in DOMAIN granted' /\ slot + 1 \in DOMAIN granted'
        /\ granted'[slot].endpoint = transfer'.left
        /\ granted'[slot + 1].endpoint = transfer'.right
        /\ granted'[slot].owner = granted'[slot + 1].owner
        /\ granted'[slot].spent = generation'["transfer"]
        /\ granted'[slot + 1].spent = generation'["transfer"]
    BY <1>1, <1>7, <2>2, <2>3, <2>4 DEF g
  <2>6. {transfer'.left, transfer'.right} = {LOG_ENDPOINT_ID, KV_ENDPOINT_ID}
    BY <1>9, <2>4 DEF transfer_pair_ok
  <2>7. \A k \in {slot, slot + 1} : granted'[k].spent = generation'["transfer"] BY <2>5
  <2>8. PairFromGrants' BY <2>5, <2>6, <2>7 DEF PairFromGrants, LOG_ENDPOINT_ID, KV_ENDPOINT_ID
  <2>9. QED BY <1>6, <2>8
<1>10. QED BY <1>4, <1>8, <1>9

\* A restart of anything but the transfer service leaves the pair, which is of
\* its current generation; a restart of that one drops it.
LEMMA ServicesRestart ==
    ASSUME ServicesInv, UNCHANGED << grants, granted, ghosts >>,
           UNCHANGED << log, kv, file >>,
           queue' = queue \/ queue' = queue_reload(queue),
           echo' = echo \/ echo' = echo_init,
           \/ transfer' = transfer_init
           \/ transfer' = transfer /\ generation'["transfer"] = generation["transfer"]
    PROVE  Sound(runtime') /\ PairFromGrants'
<1>t. GrantInv /\ Sound(runtime) /\ PairFromGrants BY DEF ServicesInv
<1>1. Sound(runtime') BY <1>t, RestartSound
<1>2. CASE transfer' = transfer_init BY <1>1, <1>2 DEF PairFromGrants, transfer_init
<1>3. CASE transfer' = transfer /\ generation'["transfer"] = generation["transfer"]
  <2>1. generation["transfer"] # 0
    BY <1>t DEF GrantInv, GrantTypes, Cell, Service, Replaced
  <2>2. PairFromGrants' BY <1>t, <1>3, <2>1, PairKept
  <2>3. QED BY <1>1, <2>2
<1>4. QED BY <1>2, <1>3

\* A service that restarts alone moves no other generation.
LEMMA OtherGenerations ==
    ASSUME NEW s, s # "transfer", GrantInv,
           \/ bootrestart(s)
           \/ bootrestart_lane("workset", {"kv", "queue"})
           \/ bootrestart_lane("audit", {"kv", "log"})
    PROVE  generation'["transfer"] = generation["transfer"]
<1>1. generation \in [Cell -> Nat \ {0}] /\ "transfer" \in Cell
  BY DEF GrantInv, GrantTypes, Cell, Service, Replaced
<1>2. QED BY <1>1 DEF bootrestart, bootrestart_lane

\* Every step of the kernel keeps the services sound and the pair accounted for.
LEMMA ServicesNext == ServicesInv /\ [Next]_vars => ServicesInv'
<1> SUFFICES ASSUME ServicesInv, [Next]_vars PROVE Sound(runtime') /\ PairFromGrants'
  BY GrantNext DEF ServicesInv
<1>t. GrantInv /\ Sound(runtime) /\ PairFromGrants BY DEF ServicesInv
<1>g. generation["transfer"] # 0
  BY <1>t DEF GrantInv, GrantTypes, Cell, Service, Replaced
<1>1. ASSUME NEW m \in Messages, Receive(m) PROVE Sound(runtime') /\ PairFromGrants'
  <2> DEFINE q == kernel_dispatch_leaf(runtime, m.endpoint, << >>, m.payload)
  <2>1. m.payload \in Seq(Nat) BY LaneKernelAssumption
  <2>2. Sound(q) /\ q.transfer = runtime.transfer BY <1>t, <2>1, LeafAlone
  <2>3. commit(q) /\ UNCHANGED << grants, granted, ledger >> BY <1>1 DEF Receive
  <2> HIDE DEF q
  <2>4. Sound(runtime') /\ transfer' = transfer BY <2>2, <2>3, Committed DEF runtime
  <2>5. QED BY <1>t, <1>g, <2>3, <2>4, PairKept DEF ledger
<1>2. ASSUME NEW payload \in TransferPayloads, ReceiveTransfer(payload)
      PROVE  Sound(runtime') /\ PairFromGrants'
  <2> DEFINE q == kernel_dispatch_leaf(runtime, TRANSFER_ENDPOINT_ID, << >>, payload)
  <2>1. payload \in Seq(Nat) BY LaneKernelAssumption
  <2>2. Sound(q) /\ q.transfer = runtime.transfer BY <1>t, <2>1, LeafAlone
  <2>3. commit(execute_effect(q)) /\ UNCHANGED << grants, granted, ledger >>
    BY <1>2 DEF ReceiveTransfer
  <2> HIDE DEF q
  <2>4. Sound(execute_effect(q)) /\ execute_effect(q).transfer = transfer
    BY <2>2, ExecuteKeeps DEF runtime
  <2>5. Sound(runtime') /\ transfer' = transfer BY <2>3, <2>4, Committed
  <2>6. QED BY <1>t, <1>g, <2>3, <2>5, PairKept DEF ledger
<1>3. ASSUME NEW pid \in Pids, NEW slot \in 0 .. MaxGrants, NEW count \in 1 .. 2,
             NEW payload \in TransferPayloads, ReceiveHandles(pid, slot, count, payload)
      PROVE  Sound(runtime') /\ PairFromGrants'
  <2>1. pid \in Nat /\ slot \in Nat /\ count \in {1, 2} /\ payload \in Seq(Nat)
    BY LaneKernelAssumption
  <2>2. QED BY <1>3, <2>1, PairRedeemed
<1>4. ASSUME NEW pid \in Pids, NEW endpoint \in Granted, GrantIssue(pid, endpoint)
      PROVE  Sound(runtime') /\ PairFromGrants'
  <2>1. /\ granted' = Append(granted, [owner |-> pid, endpoint |-> endpoint,
                                       spent |-> 0, by |-> 0])
        /\ UNCHANGED << services, ghosts, ledger >>
    BY <1>4 DEF GrantIssue
  <2>2. runtime' = runtime BY <2>1 DEF services, ghosts, runtime
  <2>3. \A id \in DOMAIN granted : id \in DOMAIN granted' /\ granted'[id] = granted[id]
    <3>1. granted \in Seq(GrantRecord) BY <1>t DEF GrantInv, GrantTypes
    <3>2. pid \in Nat /\ endpoint \in Nat \ {0} BY LaneKernelAssumption
    <3>3. [owner |-> pid, endpoint |-> endpoint, spent |-> 0, by |-> 0] \in GrantRecord
      BY <3>2 DEF GrantRecord
    <3>4. QED BY <2>1, <3>1, <3>3
  <2>4. transfer' = transfer /\ generation' = generation BY <2>1 DEF services, ledger
  <2>5. PairFromGrants' BY <1>t, <1>g, <2>3, <2>4, PairKept
  <2>6. QED BY <1>t, <2>2, <2>5
<1>5. ASSUME NEW s \in {"log", "kv", "file"}, restart_retained(s)
      PROVE  Sound(runtime') /\ PairFromGrants'
  <2>1. bootrestart(s) /\ Restart(s) /\ UNCHANGED services BY <1>5 DEF restart_retained
  <2>2. QED BY <1>t, <2>1, OtherGenerations, ServicesRestart DEF Restart, services
<1>6. ASSUME restart_queue PROVE Sound(runtime') /\ PairFromGrants'
  BY <1>t, <1>6, OtherGenerations, ServicesRestart DEF restart_queue, Restart
<1>7. ASSUME restart_echo PROVE Sound(runtime') /\ PairFromGrants'
  BY <1>t, <1>7, OtherGenerations, ServicesRestart DEF restart_echo, Restart
<1>8. ASSUME restart_transfer PROVE Sound(runtime') /\ PairFromGrants'
  BY <1>8, ServicesRestart DEF restart_transfer, Restart
<1>9. ASSUME restart_retained_workset PROVE Sound(runtime') /\ PairFromGrants'
  <2>1. "kv" # "transfer" OBVIOUS
  <2>2. generation'["transfer"] = generation["transfer"]
    BY <1>t, <1>9, <2>1, OtherGenerations DEF restart_retained_workset
  <2>3. QED BY <1>9, <2>2, ServicesRestart DEF restart_retained_workset, Restart
<1>10. ASSUME restart_retained_audit_lane PROVE Sound(runtime') /\ PairFromGrants'
  <2>1. "kv" # "transfer" OBVIOUS
  <2>2. generation'["transfer"] = generation["transfer"]
    BY <1>t, <1>10, <2>1, OtherGenerations DEF restart_retained_audit_lane
  <2>3. QED BY <1>10, <2>2, ServicesRestart DEF restart_retained_audit_lane, Restart, services
<1>11. ASSUME NEW s \in Service \ Modelled, restart_other(s)
       PROVE  Sound(runtime') /\ PairFromGrants'
  <2>1. s # "transfer" BY DEF Modelled
  <2>2. bootrestart(s) /\ Restart(s) /\ UNCHANGED services BY <1>11 DEF restart_other
  <2>3. QED BY <1>t, <2>1, <2>2, OtherGenerations, ServicesRestart DEF Restart, services
<1>12. ASSUME UNCHANGED vars PROVE Sound(runtime') /\ PairFromGrants'
  <2>1. runtime' = runtime /\ transfer' = transfer /\ generation' = generation
        /\ granted' = granted
    BY <1>12 DEF vars, services, ghosts, ledger, runtime
  <2>2. QED BY <1>t, <2>1 DEF PairFromGrants
<1>13. QED
  BY <1>1, <1>2, <1>3, <1>4, <1>5, <1>6, <1>7, <1>8, <1>9, <1>10, <1>11, <1>12 DEF Next

\* At boot nothing is bound.
LEMMA ServicesInit == Init => ServicesInv
BY GrantInit, SoundInit DEF Init, ServicesInv, PairFromGrants

\* The pair the transfer service uses is the one its holder redeemed, in its
\* current generation: for any processes, grants, messages and restarts.
THEOREM PairHandedOver == Spec => []PairFromGrants
<1>1. ServicesInv => PairFromGrants BY DEF ServicesInv
<1>2. QED BY <1>1, ServicesInit, ServicesNext, PTL DEF Spec

\* The queue loses, repeats and reorders nothing (queue_push, queue_pop), for
\* every capacity, whoever sends, directly or through transfer, and restarts.
THEOREM QueueKeepsOrder == Spec => []QueueInOrder
<1>1. ServicesInv => QueueInOrder BY DEF ServicesInv, Sound, InOrder, QueueInOrder, runtime
<1>2. QED BY <1>1, ServicesInit, ServicesNext, PTL DEF Spec

\* Every kv write that is not answered as dropped has its marker in the log
\* (dispatch_kv), however many were sent and whatever was restarted.
THEOREM WritesAudited == Spec => []AuditTruth
<1>1. ServicesInv => AuditTruth
  BY DEF ServicesInv, Sound, Audited, AuditTruth, Markers, runtime
<1>2. QED BY <1>1, ServicesInit, ServicesNext, PTL DEF Spec

\* The states of the services keep their types and capacities.
THEOREM LaneTypes == Spec => []TypeOK
<1>1. ServicesInv /\ LedgerInv => TypeOK
  BY DEF ServicesInv, Sound, Typed, LogState, QueueState, Fits, runtime, GrantInv, GrantTypes,
     GrantRecord, LedgerInv, LedgerTypes, TypeOK
<1>2. QED BY <1>1, ServicesInit, ServicesNext, LedgerStart, LedgerNext, PTL DEF Spec
=============================================================================
