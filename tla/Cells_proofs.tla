---------------------------- MODULE Cells_proofs ----------------------------
(* TicketTruth and NoTicketLost for every capacity, every byte width and     *)
(* any number of clients, issues and restarts; LeaseTruth for every          *)
(* capacity, every byte width, any rights and any number of leases and       *)
(* restarts.                                                                 *)
EXTENDS TicketCell, LeaseCell, ServiceLemmas

-----------------------------------------------------------------------------
(* Tickets (TicketCell).                                                     *)

\* Tickets of this run that were not used: what the table should hold.
Unspent == {h \in granted \ spent : h.run = run}

\* Until they wrap, the ghost counters explain the bytes, and no ticket comes
\* from the future.
Counters == /\ run < U8 => ticket.epoch = u8(run + 1)
            /\ serial < U8 => ticket.next = u8(serial + 1)
            /\ \A g \in granted : g.run <= run /\ (g.run = run => g.serial <= serial)

\* The table holds exactly the unspent tickets of this run, each once.
Table == CountersFresh =>
            /\ \A i, j \in 1 .. Len(ticket.ids) :
                    ticket.ids[i] = ticket.ids[j] => i = j
            /\ \A g \in Unspent : \E i \in 1 .. Len(ticket.ids) : ticket.ids[i] = g.serial
            /\ \A i \in 1 .. Len(ticket.ids) : \E g \in Unspent : ticket.ids[i] = g.serial

IInv == TypeOK /\ Counters /\ Table

\* Incrementing is injective on 0 .. U8 - 1: within U8 restarts no epoch repeats.
LEMMA EpochInjective ==
    ASSUME NEW a \in Nat, NEW b \in Nat, a <= b, b < U8, u8(a + 1) = u8(b + 1)
    PROVE  a = b
<1>1. CASE b + 1 = U8
  <2>1. SUFFICES ASSUME a # b PROVE FALSE OBVIOUS
  <2>2. a + 1 \in Byte /\ a + 1 # 0 BY <1>1, <2>1, U8Assumption DEF Byte
  <2>3. QED BY <1>1, <2>2, U8Facts
<1>2. CASE b + 1 < U8
  <2>1. a + 1 \in Byte /\ b + 1 \in Byte BY <1>2, U8Assumption DEF Byte
  <2>2. QED BY <2>1, U8Facts
<1>3. QED BY <1>1, <1>2, U8Assumption

\* Removing an element of a sequence leaves a sequence over the same set.
LEMMA RemoveFirstType ==
    ASSUME NEW S, NEW s \in Seq(S), NEW e
    PROVE  RemoveFirst(s, e) \in Seq(S)
<1>1. CASE \E i \in 1 .. Len(s) : s[i] = e
  <2> DEFINE I == {i \in 1 .. Len(s) : s[i] = e}
  <2>1. I # {} /\ I \subseteq Nat BY <1>1
  <2>2. Min(I) \in 1 .. Len(s)
    <3>1. Min(I) \in I BY <2>1, MinNat
    <3>2. QED BY <3>1
  <2>3. SelectInSeq(s, LAMBDA v : v = e) = Min(I) BY <2>1 DEF SelectInSeq
  <2> DEFINE k == Min(I)
  <2> HIDE DEF I, k
  <2>4. RemoveFirst(s, e) = RemoveAt(s, k) BY <1>1, <2>3 DEF RemoveFirst, k
  <2>5. k \in 1 .. Len(s) BY <2>2 DEF k
  <2>6. QED BY <2>4, <2>5, RemoveAtFacts
<1>2. QED BY <1>1 DEF RemoveFirst

\* Removing the first occurrence of e from a sequence without repetitions.
LEMMA RemoveFirstInjective ==
    ASSUME NEW S, NEW s \in Seq(S), NEW e,
           \A i, j \in 1 .. Len(s) : s[i] = s[j] => i = j,
           Contains(s, e), NEW t, t = RemoveFirst(s, e)
    PROVE  /\ \A i, j \in 1 .. Len(t) : t[i] = t[j] => i = j
           /\ \A i \in 1 .. Len(t) : t[i] # e /\ \E j \in 1 .. Len(s) : t[i] = s[j]
           /\ \A j \in 1 .. Len(s) : s[j] # e => \E i \in 1 .. Len(t) : t[i] = s[j]
<1> PICK k \in 1 .. Len(s) : s[k] = e BY DEF Contains
<1>1. {i \in 1 .. Len(s) : s[i] = e} = {k} OBVIOUS
<1>2. SelectInSeq(s, LAMBDA v : v = e) = k
  <2>1. Min({k}) = k BY DEF Min
  <2>2. QED BY <1>1, <2>1 DEF SelectInSeq
<1>3. t = RemoveAt(s, k) BY <1>2 DEF RemoveFirst
<1>4. t \in Seq(S) /\ Len(t) = Len(s) - 1 BY <1>3, RemoveAtFacts
<1>5. \A i \in 1 .. Len(t) : t[i] = IF i < k THEN s[i] ELSE s[i + 1]
  <2>1. 1 .. Len(t) = 1 .. Len(s) - 1 BY <1>4
  <2>2. \A i \in 1 .. Len(s) - 1 : RemoveAt(s, k)[i] = IF i < k THEN s[i] ELSE s[i + 1]
    BY RemoveAtFacts
  <2>3. QED BY <1>3, <2>1, <2>2, Zenon
<1>6. \A i, j \in 1 .. Len(t) : t[i] = t[j] => i = j
  BY <1>4, <1>5
<1>7. \A i \in 1 .. Len(t) : t[i] # e /\ \E j \in 1 .. Len(s) : t[i] = s[j]
  BY <1>4, <1>5
<1>8. ASSUME NEW j \in 1 .. Len(s), s[j] # e
      PROVE  \E i \in 1 .. Len(t) : t[i] = s[j]
  <2>1. CASE j < k
    <3>1. j \in 1 .. Len(t) /\ t[j] = s[j] BY <2>1, <1>4, <1>5
    <3>2. QED BY <3>1
  <2>2. CASE j > k
    <3>1. j - 1 \in 1 .. Len(t) /\ t[j - 1] = s[j] BY <2>2, <1>4, <1>5
    <3>2. QED BY <3>1
  <2>3. QED BY <1>8, <2>1, <2>2
<1>9. QED BY <1>6, <1>7, <1>8

\* At boot nothing was granted and the counters explain the bytes (ticket_init).
LEMMA InitIInv == Init => IInv
<1> SUFFICES ASSUME Init PROVE IInv OBVIOUS
<1> USE DEF Init, ticket_init
<1>1. TypeOK BY U8Assumption DEF TypeOK, TicketServiceState, Byte
<1>2. Counters BY U8Facts, U8Assumption DEF Counters, Byte
<1>3. Table BY DEF Table, Unspent
<1>4. QED BY <1>1, <1>2, <1>3 DEF IInv

\* While the counters are fresh, a ticket is told apart by its bytes.
LEMMA BytesOf ==
    ASSUME IInv, CountersFresh, NEW g \in granted
    PROVE  /\ EpochOf(g) = ticket.epoch <=> g.run = run
           /\ g.run = run => IdOf(g) = g.serial /\ g.serial \in Byte
<1> USE DEF IInv, TypeOK, Counters, CountersFresh, Ticket
<1>1. g.run \in Nat /\ run \in Nat /\ g.run <= run /\ run < U8
  OBVIOUS
<1>2. EpochOf(g) = ticket.epoch <=> g.run = run
  BY <1>1, EpochInjective DEF EpochOf
<1>3. g.run = run => g.serial \in Byte
  BY <1>1, U8Assumption DEF Byte
<1>4. QED BY <1>2, <1>3, U8Facts DEF IdOf

\* Issue, use, a refused message and restart keep the table equal to the unspent
\* tickets of this run.
LEMMA NextIInv == IInv /\ [Next]_vars => IInv'
<1> SUFFICES ASSUME IInv, [Next]_vars PROVE IInv' OBVIOUS
<1> USE DEF IInv
<1>1. CASE Issue
  <2> USE <1>1 DEF Issue, ticket_issue
  <2>0. /\ ticket.next \in Byte /\ ticket.ids \in Seq(Byte) /\ u8(ticket.next + 1) \in Byte
        /\ ticket' = [ticket EXCEPT !.next = u8(ticket.next + 1),
                                    !.ids = Append(ticket.ids, ticket.next)]
    BY U8Facts DEF TypeOK, TicketServiceState, Byte
  <2>1. TypeOK'
    <3>1. Append(ticket.ids, ticket.next) \in Seq(Byte) BY <2>0
    <3>2. ticket' \in TicketServiceState BY <2>0, <3>1 DEF TypeOK, TicketServiceState
    <3>3. QED BY <3>2 DEF TypeOK, Ticket
  <2>2. Counters'
    <3>1. serial' < U8 => ticket'.next = u8(serial' + 1)
      BY <2>0, U8Step, U8Assumption DEF Counters, TypeOK, TicketServiceState
    <3>2. QED BY <3>1, <2>0 DEF Counters, TypeOK, Ticket, TicketServiceState
  <2>3. Table'
    <3> SUFFICES ASSUME CountersFresh'
                 PROVE  /\ \A i, j \in 1 .. Len(ticket'.ids) :
                             ticket'.ids[i] = ticket'.ids[j] => i = j
                        /\ \A h \in Unspent' : \E i \in 1 .. Len(ticket'.ids) : ticket'.ids[i] = h.serial
                        /\ \A i \in 1 .. Len(ticket'.ids) : \E h \in Unspent' : ticket'.ids[i] = h.serial
      BY DEF Table
    <3>1. CountersFresh /\ serial + 1 < U8 BY U8Assumption DEF CountersFresh, TypeOK
    <3>2. ticket.next = serial + 1
      <4>1. serial + 1 \in Byte BY <3>1, U8Assumption DEF Byte, TypeOK
      <4>2. QED BY <3>1, <4>1, U8Facts, U8Assumption DEF Counters, TypeOK
    <3> DEFINE n == Len(ticket.ids)
               new == [run |-> run, serial |-> serial + 1]
    <3>3. /\ ticket'.ids = Append(ticket.ids, serial + 1) /\ n \in Nat
          /\ Len(ticket'.ids) = n + 1 /\ ticket'.ids[n + 1] = serial + 1
          /\ \A i \in 1 .. n : ticket'.ids[i] = ticket.ids[i]
      BY <2>0, <3>2 DEF TypeOK, TicketServiceState
    <3>4. new \notin granted /\ new \in granted' BY DEF Counters, TypeOK
    <3>5. Unspent' = Unspent \union {new} BY <3>4 DEF Unspent, TypeOK
    <3>6. \A h \in Unspent : h.serial < serial + 1
      BY DEF Unspent, Counters, TypeOK, Ticket
    <3>7. \A i \in 1 .. n : ticket.ids[i] < serial + 1
      BY <3>1, <3>6 DEF Table
    <3>8. \A i, j \in 1 .. n + 1 : ticket'.ids[i] = ticket'.ids[j] => i = j
      BY <3>1, <3>3, <3>7 DEF Table, TypeOK
    <3>9. ASSUME NEW h \in Unspent'
          PROVE  \E i \in 1 .. n + 1 : ticket'.ids[i] = h.serial
      <4>1. CASE h = new BY <4>1, <3>3
      <4>2. CASE h \in Unspent
        <5>1. PICK i \in 1 .. n : ticket.ids[i] = h.serial BY <3>1, <4>2 DEF Table
        <5>2. QED BY <5>1, <3>3
      <4>3. QED BY <4>1, <4>2, <3>5
    <3>10. ASSUME NEW i \in 1 .. n + 1
           PROVE  \E h \in Unspent' : ticket'.ids[i] = h.serial
      <4>1. CASE i = n + 1
        <5>1. ticket'.ids[i] = new.serial /\ new \in Unspent' BY <4>1, <3>3, <3>5
        <5>2. QED BY <5>1
      <4>2. CASE i \in 1 .. n
        <5>1. PICK h \in Unspent : ticket.ids[i] = h.serial BY <3>1, <4>2 DEF Table
        <5>2. QED BY <5>1, <4>2, <3>3, <3>5
      <4>3. QED BY <4>1, <4>2, <3>3
    <3>11. QED BY <3>3, <3>8, <3>9, <3>10
  <2>4. QED BY <2>1, <2>2, <2>3
<1>2. CASE IssueExhausted
  BY <1>2 DEF IssueExhausted, vars, TypeOK, Counters, Table, Unspent, CountersFresh
<1>3. ASSUME NEW g \in granted, Use(g) PROVE IInv'
  <2> USE <1>3 DEF Use
  <2>1. CASE ticket_use_code(ticket, EpochOf(g), IdOf(g)) # "Ok"
    <3>1. UNCHANGED vars BY <2>1 DEF ticket_use, vars
    <3>2. QED BY <3>1 DEF vars, TypeOK, Counters, Table, Unspent, CountersFresh
  <2>2. CASE ticket_use_code(ticket, EpochOf(g), IdOf(g)) = "Ok"
    <3>1. EpochOf(g) = ticket.epoch /\ Contains(ticket.ids, IdOf(g))
      BY <2>2 DEF ticket_use_code
    <3>2. ticket' = [ticket EXCEPT !.ids = RemoveFirst(ticket.ids, IdOf(g))]
      BY <2>2 DEF ticket_use
    <3>3. spent' = spent \union {g} BY <2>2
    <3>4. ticket.ids \in Seq(Byte) BY DEF TypeOK, TicketServiceState
    <3>5. RemoveFirst(ticket.ids, IdOf(g)) \in Seq(Byte)
      BY <3>4, RemoveFirstType
    <3>6. TypeOK'
      <4>1. ticket' \in TicketServiceState BY <3>2, <3>5 DEF TypeOK, TicketServiceState
      <4>2. QED BY <4>1, <3>3 DEF TypeOK
    <3>7. Counters' BY <3>2 DEF Counters, TypeOK, TicketServiceState
    <3>8. ASSUME CountersFresh PROVE Table'
      <4>1. g.run = run /\ IdOf(g) = g.serial BY <3>1, <3>8, BytesOf
      <4>2. \A h \in granted : h.run = run => IdOf(h) = h.serial BY <3>8, BytesOf
      <4> DEFINE s == ticket.ids
                 t == ticket'.ids
      <4>3. t = RemoveFirst(s, g.serial) /\ Contains(s, g.serial)
        BY <3>1, <3>2, <4>1 DEF TypeOK, TicketServiceState
      <4>4. \A i, j \in 1 .. Len(s) : s[i] = s[j] => i = j BY <3>8 DEF Table
      <4> HIDE DEF s, t
      <4>5. /\ \A i, j \in 1 .. Len(t) : t[i] = t[j] => i = j
            /\ \A i \in 1 .. Len(t) : t[i] # g.serial /\ \E j \in 1 .. Len(s) : t[i] = s[j]
            /\ \A j \in 1 .. Len(s) : s[j] # g.serial => \E i \in 1 .. Len(t) : t[i] = s[j]
        <5>1. s \in Seq(Byte) BY <3>4 DEF s
        <5>2. QED BY <5>1, <4>3, <4>4, RemoveFirstInjective, SMTT(30)
      <4>6. Unspent' = Unspent \ {g} BY <3>3 DEF Unspent
      <4>7. ASSUME NEW h \in Unspent' PROVE \E i \in 1 .. Len(t) : t[i] = h.serial
        <5>1. h \in Unspent /\ h # g BY <4>6
        <5>2. h.serial # g.serial BY <5>1, <4>1 DEF Unspent, TypeOK, Ticket
        <5>3. PICK j \in 1 .. Len(s) : s[j] = h.serial BY <5>1, <3>8 DEF Table, s
        <5>4. QED BY <5>2, <5>3, <4>5
      <4>8. ASSUME NEW i \in 1 .. Len(t) PROVE \E h \in Unspent' : t[i] = h.serial
        <5>1. PICK j \in 1 .. Len(s) : t[i] = s[j] BY <4>5
        <5>2. PICK h \in Unspent : s[j] = h.serial BY <3>8, <5>1 DEF Table, s
        <5>3. h # g BY <5>1, <5>2, <4>5
        <5>4. QED BY <5>1, <5>2, <5>3, <4>6
      <4>9. QED BY <4>5, <4>7, <4>8 DEF Table, t
    <3>9. ~CountersFresh => Table' BY DEF Table, CountersFresh
    <3>10. QED BY <3>6, <3>7, <3>8, <3>9
  <2>3. QED BY <2>1, <2>2
<1>4. CASE restart_ticket
  <2> USE <1>4 DEF restart_ticket, ticket_init
  <2>1. TypeOK'
    <3>1. u8(ticket.epoch + 1) \in Byte /\ 1 \in Byte
      BY U8Facts, U8Assumption DEF TypeOK, TicketServiceState, Byte
    <3>2. ticket' \in TicketServiceState BY <3>1 DEF TicketServiceState
    <3>3. QED BY <3>2 DEF TypeOK
  <2>2. Counters'
    <3>1. run' < U8 => ticket'.epoch = u8(run' + 1)
      BY U8Step, U8Assumption DEF Counters, TypeOK
    <3>2. ticket'.next = u8(serial' + 1)
      <4>1. 1 \in Byte /\ 0 + 1 = 1 BY U8Assumption DEF Byte
      <4>2. QED BY <4>1, U8Facts
    <3>3. \A h \in granted' : h.run < run' BY DEF Counters, TypeOK, Ticket
    <3>4. QED BY <3>1, <3>2, <3>3 DEF Counters, TypeOK, Ticket
  <2>3. Table'
    <3>1. Unspent' = {} BY DEF Unspent, Counters, TypeOK, Ticket
    <3>2. QED BY <3>1 DEF Table
  <2>4. QED BY <2>1, <2>2, <2>3
<1>5. CASE UNCHANGED vars
  BY <1>5 DEF vars, TypeOK, Counters, Table, Unspent, CountersFresh
<1>6. QED BY <1>1, <1>2, <1>3, <1>4, <1>5 DEF Next

\* The invariant decides every answer of ticket_use.
LEMMA IInvTruth == IInv => TicketTruth
<1> SUFFICES ASSUME IInv, CountersFresh, NEW g \in granted
             PROVE  ticket_use_code(ticket, EpochOf(g), IdOf(g)) = Truth(g)
  BY DEF TicketTruth
<1>1. CASE g.run # run
  BY <1>1, BytesOf DEF ticket_use_code, Truth
<1>2. CASE g.run = run
  <2>1. EpochOf(g) = ticket.epoch /\ IdOf(g) = g.serial BY <1>2, BytesOf
  <2>2. CASE g \notin spent
    <3>1. g \in Unspent BY <1>2, <2>2 DEF Unspent
    <3>2. Contains(ticket.ids, g.serial) BY <3>1 DEF Contains, IInv, Table
    <3>3. QED BY <1>2, <2>1, <2>2, <3>2 DEF ticket_use_code, Truth
  <2>3. CASE g \in spent
    <3>1. ~Contains(ticket.ids, g.serial)
      <4> SUFFICES ASSUME NEW i \in 1 .. Len(ticket.ids), ticket.ids[i] = g.serial
                   PROVE  FALSE
        BY DEF Contains
      <4>1. PICK h \in Unspent : h.serial = g.serial BY DEF IInv, Table
      <4>2. h = g BY <4>1, <1>2 DEF Unspent, IInv, TypeOK, Ticket
      <4>3. QED BY <4>1, <4>2, <2>3 DEF Unspent
    <3>2. g.serial # 0 /\ g.serial < ticket.next
      <4>1. serial + 1 \in Byte BY U8Assumption DEF IInv, TypeOK, CountersFresh, Byte
      <4>2. ticket.next = serial + 1
        BY <4>1, U8Facts, U8Assumption DEF IInv, Counters, CountersFresh, TypeOK
      <4>3. QED BY <1>2, <4>2 DEF IInv, Counters, TypeOK, Ticket
    <3>3. QED BY <1>2, <2>1, <2>3, <3>1, <3>2 DEF ticket_use_code, Truth
  <2>4. QED BY <2>2, <2>3
<1>3. QED BY <1>1, <1>2

\* The invariant gives NoTicketLost: the table is the unspent tickets.
LEMMA IInvTable == IInv => NoTicketLost
<1> SUFFICES ASSUME IInv, CountersFresh
             PROVE  ToSet(ticket.ids) = {IdOf(g) : g \in Unspent}
  BY DEF NoTicketLost, Unspent
<1>1. \A g \in Unspent : IdOf(g) = g.serial BY BytesOf DEF Unspent
<1>2. ToSet(ticket.ids) = {ticket.ids[i] : i \in 1 .. Len(ticket.ids)}
  BY DEF ToSet, IInv, TypeOK, TicketServiceState
<1>3. QED BY <1>1, <1>2 DEF IInv, Table

\* The state of the ticket cell keeps its type: next and epoch stay bytes.
THEOREM TypeCorrect == Spec => []TypeOK
<1>1. IInv => TypeOK BY DEF IInv
<1>2. QED BY <1>1, InitIInv, NextIInv, PTL DEF Spec

\* ticket_use answers every client truthfully until a byte counter wraps.
THEOREM TicketsTruthful == Spec => []TicketTruth
BY InitIInv, NextIInv, IInvTruth, PTL DEF Spec

\* Between restarts an issued ticket stays in the table until it is used.
THEOREM TicketsKept == Spec => []NoTicketLost
BY InitIInv, NextIInv, IInvTable, PTL DEF Spec
-----------------------------------------------------------------------------
(* Leases (LeaseCell).                                                       *)

\* A lease as the ghosts name it, and the table entry it is issued as.
LeaseName == [run : Nat, serial : Nat \ {0}, right : Rights, born : Nat]

EntryOf(l) == [id |-> u8(l.serial), kind |-> l.right.kind, first |-> l.right.args[1],
               second |-> l.right.args[2], third |-> l.right.args[3],
               generation |-> u8(l.born)]

\* Kinds are letters, which a narrow byte need not contain.
TableEntry == [id : Byte, kind : LEASE_KINDS, first : Byte, second : Byte, third : Byte,
               generation : Byte]

LeaseTypes ==
    /\ lease \in [leases : Seq(TableEntry), next : Byte]
    /\ generation \in [Delegates -> Nat]
    /\ leaseRun \in Nat /\ leaseSerial \in Nat
    /\ issued \subseteq LeaseName /\ held \in Seq(LeaseName)

\* The ghosts explain next until it wraps, no lease comes from the future, and
\* a rank names one lease of this run.
LeaseCounters ==
    /\ leaseSerial < U8 => lease.next = u8(leaseSerial + 1)
    /\ \A l \in issued : /\ l.run <= leaseRun /\ l.born <= GenerationOf(l)
                         /\ l.run = leaseRun => l.serial <= leaseSerial
    /\ \A l, m \in issued :
            l.run = leaseRun /\ m.run = leaseRun /\ l.serial = m.serial => l = m

\* held names the entries of the table: leases of this run, each once.
HeldNames ==
    /\ Len(held) = Len(lease.leases)
    /\ \A i \in 1 .. Len(held) : held[i] \in issued /\ held[i].run = leaseRun
    /\ \A i, j \in 1 .. Len(held) : held[i].serial = held[j].serial => i = j

\* Until next wraps, every entry is the one its lease was issued as.
Entries ==
    leaseSerial < U8 => \A i \in 1 .. Len(held) : lease.leases[i] = EntryOf(held[i])

LeaseInv == LeaseTypes /\ LeaseCounters /\ HeldNames /\ Entries

\* The rights of a lease have the types lease_issue stores.
LEMMA RightTypes ==
    ASSUME NEW right \in Rights
    PROVE  /\ right.kind \in LEASE_KINDS /\ DelegateOf(right.kind) \in Delegates
           /\ \A i \in 1 .. 3 : right.args[i] \in Byte
<1>1. right \in [kind : LEASE_KINDS, args : [1 .. 3 -> Byte]] BY RightsAssumption
<1>2. right.kind \in LEASE_KINDS /\ right.args \in [1 .. 3 -> Byte] BY <1>1
<1>3. DelegateOf(right.kind) \in Delegates
  BY <1>2 DEF LEASE_KINDS, DelegateOf, Delegates, LEASE_KIND_COMPLETION,
     LEASE_KIND_INSTALLER_APPLY, LEASE_KIND_OBJECT_UPDATE, LEASE_KIND_EXTERNAL_TICKET
<1>4. QED BY <1>2, <1>3

\* lease_find returns the slot of the first entry with this id, or 0.
LEMMA FindFacts ==
    ASSUME NEW s, s.leases \in Seq(TableEntry), NEW id
    PROVE  \/ /\ lease_find(s, id) \in 1 .. Len(s.leases)
              /\ s.leases[lease_find(s, id)].id = id
           \/ /\ lease_find(s, id) = 0
              /\ \A i \in 1 .. Len(s.leases) : s.leases[i].id # id
<1> DEFINE I == {i \in 1 .. Len(s.leases) : s.leases[i].id = id}
<1>1. lease_find(s, id) = IF I # {} THEN Min(I) ELSE 0
  BY DEF lease_find, SelectInSeq
<1>2. I \subseteq Nat OBVIOUS
<1>3. CASE I = {} BY <1>1, <1>3
<1>4. CASE I # {}
  <2>1. Min(I) \in I BY <1>2, <1>4, MinNat
  <2>2. QED BY <1>1, <1>4, <2>1
<1>5. QED BY <1>3, <1>4

\* A lease that is honoured or dropped as stale is in the table.
LEMMA CodeFound ==
    ASSUME LeaseInv, NEW l \in issued, Code(l) \in {"Ok", "Stale"}
    PROVE  /\ lease_find(lease, LeaseIdOf(l)) \in 1 .. Len(lease.leases)
           /\ Entry(l).id = LeaseIdOf(l) /\ Entry(l).kind = l.right.kind
<1> DEFINE k == lease_find(lease, LeaseIdOf(l))
<1>1. l.right.kind \in LEASE_KINDS BY RightTypes DEF LeaseInv, LeaseTypes, LeaseName
<1>2. PICK firsts, now :
         Code(l) = lease_consume_code(lease, LeaseIdOf(l), l.right.kind, firsts, now)
  BY <1>1 DEF Code, LEASE_KINDS, lease_consume_completion, lease_consume_installer_apply,
     lease_consume_object_update, lease_consume_external_ticket
<1>3. k # 0 /\ Entry(l).kind = l.right.kind
  BY <1>2 DEF lease_consume_code, Entry
<1>4. QED BY <1>3, FindFacts DEF Entry, LeaseInv, LeaseTypes

\* At boot nothing was issued (lease_init).
LEMMA LeaseInitInv == LeaseInit => LeaseInv
<1> SUFFICES ASSUME LeaseInit PROVE LeaseInv OBVIOUS
<1> USE DEF LeaseInit, lease_init
<1>1. LeaseTypes BY U8Assumption DEF LeaseTypes, Byte
<1>2. LeaseCounters BY U8Facts, U8Assumption DEF LeaseCounters, Byte
<1>3. HeldNames /\ Entries BY DEF HeldNames, Entries
<1>4. QED BY <1>1, <1>2, <1>3 DEF LeaseInv

\* Issuing appends the entry of a lease of a new rank (lease_issue).
LEMMA IssueInv ==
    ASSUME LeaseInv, NEW right \in Rights, IssueLease(right)
    PROVE  LeaseInv'
<1> DEFINE born == generation[DelegateOf(right.kind)]
           l == [run |-> leaseRun, serial |-> leaseSerial + 1, right |-> right, born |-> born]
           e == [id |-> lease.next, kind |-> right.kind, first |-> right.args[1],
                 second |-> right.args[2], third |-> right.args[3], generation |-> u8(born)]
           n == Len(held)
<1>1. /\ lease' = [leases |-> Append(lease.leases, e), next |-> u8(lease.next + 1)]
      /\ leaseSerial' = leaseSerial + 1 /\ issued' = issued \cup {l} /\ held' = Append(held, l)
      /\ generation' = generation /\ leaseRun' = leaseRun
  BY DEF IssueLease, lease_issue
<1>2. /\ lease.leases \in Seq(TableEntry) /\ lease.next \in Byte /\ lease.next \in Nat
      /\ held \in Seq(LeaseName) /\ issued \subseteq LeaseName /\ leaseRun \in Nat
      /\ leaseSerial \in Nat /\ generation \in [Delegates -> Nat]
  BY U8Assumption DEF LeaseInv, LeaseTypes, Byte
<1>3. born \in Nat /\ l \in LeaseName /\ DelegateOf(right.kind) \in Delegates
  BY <1>2, RightTypes DEF LeaseName
<1>4. e \in TableEntry
  <2>1. u8(born) \in Byte BY <1>3, U8Facts
  <2>2. QED BY <1>2, <2>1, RightTypes DEF TableEntry
<1>5. u8(lease.next + 1) \in Byte BY <1>2, U8Facts
<1> HIDE DEF e, born
<1>6. LeaseTypes'
  BY <1>1, <1>2, <1>3, <1>4, <1>5 DEF LeaseTypes
<1>7. LeaseCounters'
  <2>1. leaseSerial' < U8 => lease'.next = u8(leaseSerial' + 1)
    BY <1>1, <1>2, U8Step, U8Assumption DEF LeaseInv, LeaseCounters
  <2>2. generation'[DelegateOf(right.kind)] = born BY <1>1 DEF born
  <2>3. \A m \in issued : GenerationOf(m)' = GenerationOf(m) BY <1>1 DEF GenerationOf
  <2>4. \A m \in issued' : /\ m.run <= leaseRun' /\ m.born <= GenerationOf(m)'
                           /\ m.run = leaseRun' => m.serial <= leaseSerial'
    <3> TAKE m \in issued'
    <3>1. CASE m = l BY <1>1, <1>2, <1>3, <2>2, <3>1 DEF GenerationOf
    <3>2. CASE m \in issued
      BY <1>1, <1>2, <2>3, <3>2 DEF LeaseInv, LeaseCounters, LeaseName
    <3>3. QED BY <1>1, <3>1, <3>2
  <2>5. \A m \in issued : m.run = leaseRun => m.serial # l.serial
    BY <1>2 DEF LeaseInv, LeaseCounters, LeaseName
  <2>6. \A m, p \in issued' :
            m.run = leaseRun' /\ p.run = leaseRun' /\ m.serial = p.serial => m = p
    BY <1>1, <2>5 DEF LeaseInv, LeaseCounters
  <2>7. QED BY <2>1, <2>4, <2>6 DEF LeaseCounters
<1>8. /\ n \in Nat /\ Len(lease.leases) = n /\ Len(held') = n + 1 /\ Len(lease'.leases) = n + 1
      /\ held'[n + 1] = l /\ lease'.leases[n + 1] = e
      /\ \A i \in 1 .. n : held'[i] = held[i] /\ lease'.leases[i] = lease.leases[i]
  BY <1>1, <1>2, <1>3, <1>4 DEF LeaseInv, HeldNames
<1>9. HeldNames'
  <2>1. \A i \in 1 .. n + 1 : held'[i] \in issued' /\ held'[i].run = leaseRun'
    BY <1>1, <1>8 DEF LeaseInv, HeldNames
  <2>2. \A i \in 1 .. n : held[i].serial # l.serial
    BY <1>2 DEF LeaseInv, HeldNames, LeaseCounters, LeaseName
  <2>3. \A i, j \in 1 .. n + 1 : held'[i].serial = held'[j].serial => i = j
    <3>1. \A i, j \in 1 .. n : held[i].serial = held[j].serial => i = j
      BY <1>8, <1>1 DEF LeaseInv, HeldNames
    <3>2. \A i \in 1 .. n + 1 : i = n + 1 \/ i \in 1 .. n BY <1>8
    <3>3. \A i \in 1 .. n : held'[i].serial = held[i].serial BY <1>8
    <3>4. held'[n + 1].serial = l.serial BY <1>8
    <3>5. QED BY <2>2, <3>1, <3>2, <3>3, <3>4
  <2>4. QED BY <1>8, <2>1, <2>3 DEF HeldNames
<1>10. Entries'
  <2> SUFFICES ASSUME leaseSerial' < U8, NEW i \in 1 .. Len(held')
               PROVE  lease'.leases[i] = EntryOf(held'[i])
    BY DEF Entries, EntryOf
  <2>1. leaseSerial < U8 /\ lease.next = u8(leaseSerial + 1)
    BY <1>1, <1>2, U8Assumption DEF LeaseInv, LeaseCounters
  <2>2. e = EntryOf(l) BY <2>1 DEF e, EntryOf
  <2>3. CASE i = n + 1 BY <1>8, <2>2, <2>3
  <2>4. CASE i \in 1 .. n BY <1>8, <2>1, <2>4 DEF LeaseInv, Entries
  <2>5. QED BY <1>8, <2>3, <2>4
<1>11. QED BY <1>6, <1>7, <1>9, <1>10 DEF LeaseInv

\* Dropping an entry drops the lease it stands for (lease_remove_at).
LEMMA ConsumeInv ==
    ASSUME LeaseInv, NEW l \in issued, ConsumeLease(l)
    PROVE  LeaseInv'
<1> DEFINE k == lease_find(lease, LeaseIdOf(l))
<1>1. CASE Code(l) \notin {"Ok", "Stale"}
  <2>1. UNCHANGED leaseVars BY <1>1 DEF ConsumeLease, lease_consume, leaseVars
  <2>2. QED BY <2>1 DEF leaseVars, LeaseInv, LeaseTypes, LeaseCounters, HeldNames, Entries, EntryOf, GenerationOf
<1>2. CASE Code(l) \in {"Ok", "Stale"}
  <2>1. /\ lease' = [lease EXCEPT !.leases = RemoveAt(lease.leases, k)]
        /\ held' = RemoveAt(held, k)
        /\ UNCHANGED << generation, leaseRun, leaseSerial, issued >>
    BY <1>2 DEF ConsumeLease, lease_consume
  <2>2. k \in 1 .. Len(lease.leases) /\ k \in 1 .. Len(held)
    BY <1>2, CodeFound DEF LeaseInv, HeldNames
  <2> HIDE DEF k
  <2>3. /\ lease.leases \in Seq(TableEntry) /\ held \in Seq(LeaseName)
        /\ lease \in [leases : Seq(TableEntry), next : Byte]
    BY DEF LeaseInv, LeaseTypes
  <2>4. /\ lease'.leases = RemoveAt(lease.leases, k) /\ lease'.next = lease.next
    BY <2>1, <2>3
  <2> DEFINE n == Len(held) - 1
             pre(i) == IF i < k THEN i ELSE i + 1
  <2>5. /\ held' \in Seq(LeaseName) /\ Len(held') = n
        /\ \A i \in 1 .. n : held'[i] = held[pre(i)]
    <3>1. /\ RemoveAt(held, k) \in Seq(LeaseName) /\ Len(RemoveAt(held, k)) = Len(held) - 1
          /\ \A i \in 1 .. Len(held) - 1 : RemoveAt(held, k)[i] = IF i < k THEN held[i] ELSE held[i + 1]
      BY <2>2, <2>3, RemoveAtFacts
    <3>2. QED BY <2>1, <3>1
  <2>6. /\ lease'.leases \in Seq(TableEntry) /\ Len(lease'.leases) = n
        /\ \A i \in 1 .. n : lease'.leases[i] = lease.leases[pre(i)]
    <3> DEFINE t == lease.leases
    <3>0. Len(t) = Len(held) BY DEF LeaseInv, HeldNames
    <3> HIDE DEF t
    <3>1. /\ RemoveAt(t, k) \in Seq(TableEntry) /\ Len(RemoveAt(t, k)) = Len(t) - 1
          /\ \A i \in 1 .. Len(t) - 1 : RemoveAt(t, k)[i] = IF i < k THEN t[i] ELSE t[i + 1]
      BY <2>2, <2>3, RemoveAtFacts DEF t
    <3>2. lease'.leases = RemoveAt(t, k) BY <2>4 DEF t
    <3>3. /\ lease'.leases \in Seq(TableEntry) /\ Len(lease'.leases) = n
          /\ \A i \in 1 .. n : lease'.leases[i] = t[pre(i)]
      BY <3>0, <3>1, <3>2
    <3>4. QED BY <3>3 DEF t
  <2>7. \A i \in 1 .. n : pre(i) \in 1 .. Len(held)
    BY <2>2, <2>3
  <2>8. \A i, j \in 1 .. n : pre(i) = pre(j) => i = j
    BY <2>2, <2>3
  <2> HIDE DEF pre, n
  <2>9. LeaseTypes' BY <2>1, <2>3, <2>5, <2>6 DEF LeaseInv, LeaseTypes
  <2>10. LeaseCounters' BY <2>1, <2>4 DEF LeaseInv, LeaseCounters, GenerationOf
  <2>11. HeldNames'
    <3>1. \A i \in 1 .. n : held'[i] \in issued' /\ held'[i].run = leaseRun'
      BY <2>1, <2>5, <2>7 DEF LeaseInv, HeldNames
    <3>2. ASSUME NEW i \in 1 .. n, NEW j \in 1 .. n, held'[i].serial = held'[j].serial
          PROVE  i = j
      <4>1. held[pre(i)].serial = held[pre(j)].serial BY <2>5, <3>2
      <4>2. pre(i) = pre(j) BY <2>7, <4>1 DEF LeaseInv, HeldNames
      <4>3. QED BY <2>8, <4>2
    <3>3. QED BY <2>5, <2>6, <3>1, <3>2 DEF HeldNames
  <2>12. Entries'
    <3> SUFFICES ASSUME leaseSerial' < U8, NEW i \in 1 .. n
                 PROVE  lease'.leases[i] = EntryOf(held'[i])
      BY <2>5 DEF Entries, EntryOf
    <3>1. lease.leases[pre(i)] = EntryOf(held[pre(i)])
      BY <2>1, <2>7 DEF LeaseInv, Entries
    <3>2. QED BY <2>5, <2>6, <3>1
  <2>13. QED BY <2>9, <2>10, <2>11, <2>12 DEF LeaseInv
<1>3. QED BY <1>1, <1>2

\* A restart forgets every lease of the run before (restart_lease), and one of
\* another service only moves its generation.
LEMMA LeaseNextInv == LeaseInv /\ [LeaseNext]_leaseVars => LeaseInv'
<1> SUFFICES ASSUME LeaseInv, [LeaseNext]_leaseVars PROVE LeaseInv' OBVIOUS
<1>1. CASE restart_lease
  <2> USE <1>1 DEF restart_lease, lease_init
  <2>1. LeaseTypes' BY U8Assumption DEF LeaseInv, LeaseTypes, Byte
  <2>2. \A l \in issued' : l.run < leaseRun' /\ l.born <= GenerationOf(l)'
    BY DEF LeaseInv, LeaseTypes, LeaseCounters, LeaseName, GenerationOf
  <2>3. lease'.next = u8(leaseSerial' + 1)
    <3>1. 1 \in Byte /\ 0 + 1 = 1 BY U8Assumption DEF Byte
    <3>2. QED BY <3>1, U8Facts
  <2>4. LeaseCounters' BY <2>1, <2>2, <2>3 DEF LeaseTypes, LeaseCounters, LeaseName
  <2>5. HeldNames' /\ Entries' BY DEF HeldNames, Entries
  <2>6. QED BY <2>1, <2>4, <2>5 DEF LeaseInv
<1>2. ASSUME NEW d \in Delegates, RestartDelegate(d) PROVE LeaseInv'
  <2> USE <1>2 DEF RestartDelegate
  <2>1. generation' \in [Delegates -> Nat] /\ \A x \in Delegates : generation[x] <= generation'[x]
    BY DEF LeaseInv, LeaseTypes
  <2>2. LeaseTypes' BY <2>1 DEF LeaseInv, LeaseTypes
  <2>3. \A l \in issued : l.born <= GenerationOf(l)'
    <3> TAKE l \in issued
    <3>1. DelegateOf(l.right.kind) \in Delegates /\ l.born \in Nat
      BY RightTypes DEF LeaseInv, LeaseTypes, LeaseName
    <3>2. l.born <= generation[DelegateOf(l.right.kind)]
      BY DEF LeaseInv, LeaseCounters, GenerationOf
    <3>3. GenerationOf(l)' = generation'[DelegateOf(l.right.kind)] BY DEF GenerationOf
    <3>4. QED BY <2>1, <3>1, <3>2, <3>3 DEF LeaseInv, LeaseTypes
  <2>4. LeaseCounters' BY <2>3 DEF LeaseInv, LeaseCounters
  <2>5. HeldNames' /\ Entries' BY DEF LeaseInv, HeldNames, Entries, EntryOf
  <2>6. QED BY <2>2, <2>4, <2>5 DEF LeaseInv
<1>3. CASE UNCHANGED leaseVars
  BY <1>3 DEF leaseVars, LeaseInv, LeaseTypes, LeaseCounters, HeldNames, Entries, EntryOf, GenerationOf
<1>4. QED BY <1>1, <1>2, <1>3, IssueInv, ConsumeInv DEF LeaseNext

\* What each table entry answers, while the bytes are fresh.
LEMMA FreshTable ==
    ASSUME LeaseInv, LeaseBytesFresh
    PROVE  /\ \A l \in issued : l.run = leaseRun => LeaseIdOf(l) = l.serial
           /\ \A i \in 1 .. Len(held) : /\ lease.leases[i] = EntryOf(held[i])
                                        /\ LeaseIdOf(held[i]) = held[i].serial
           /\ \A l \in ToSet(held) :
                  /\ \E i \in 1 .. Len(held) : held[i] = l
                  /\ u8(l.born) = u8(GenerationOf(l)) <=> l.born = GenerationOf(l)
<1>1. \A l \in issued : l.run = leaseRun => LeaseIdOf(l) = l.serial
  <2> SUFFICES ASSUME NEW l \in issued, l.run = leaseRun PROVE LeaseIdOf(l) = l.serial OBVIOUS
  <2>1. l.serial \in Byte
    BY U8Assumption DEF LeaseInv, LeaseTypes, LeaseCounters, LeaseName, LeaseBytesFresh, Byte
  <2>2. QED BY <2>1, U8Facts DEF LeaseIdOf
<1>2. \A i \in 1 .. Len(held) : lease.leases[i] = EntryOf(held[i])
  BY U8Assumption DEF LeaseInv, LeaseTypes, Entries, LeaseBytesFresh
<1>3. \A i \in 1 .. Len(held) : LeaseIdOf(held[i]) = held[i].serial
  BY <1>1 DEF LeaseInv, HeldNames
<1>4. ToSet(held) = {held[i] : i \in 1 .. Len(held)}
  <2>1. held \in Seq(LeaseName) BY DEF LeaseInv, LeaseTypes
  <2>2. DOMAIN held = 1 .. Len(held) BY <2>1
  <2>3. QED BY <2>2 DEF ToSet
<1>5. ASSUME NEW l \in ToSet(held)
      PROVE  u8(l.born) = u8(GenerationOf(l)) <=> l.born = GenerationOf(l)
  <2>1. l \in issued BY <1>4 DEF LeaseInv, HeldNames
  <2>2. l.right \in Rights /\ l.born \in Nat BY <2>1 DEF LeaseInv, LeaseTypes, LeaseName
  <2>3. GenerationOf(l) \in Nat
    BY <2>2, RightTypes DEF GenerationOf, LeaseInv, LeaseTypes
  <2>4. l.born <= GenerationOf(l) /\ GenerationOf(l) - l.born < U8
    BY <2>1 DEF LeaseInv, LeaseCounters, LeaseBytesFresh
  <2>5. QED BY <2>2, <2>3, <2>4, U8Window
<1>6. QED BY <1>1, <1>2, <1>3, <1>4, <1>5

\* The code of lease_consume_* for a lease of each kind, in one form.
LEMMA CodeForm ==
    ASSUME LeaseInv, NEW l \in issued
    PROVE  \E firsts : /\ l.right.args[1] \in firsts
                       /\ Code(l) = lease_consume_code(lease, LeaseIdOf(l), l.right.kind, firsts,
                                                       u8(GenerationOf(l)))
<1>1. l.right \in Rights BY DEF LeaseInv, LeaseTypes, LeaseName
<1>2. l.right.kind \in LEASE_KINDS /\ l.right.args[1] \in Byte BY <1>1, RightTypes
<1> DEFINE F == IF l.right.kind = LEASE_KIND_COMPLETION THEN {l.right.args[1]} ELSE Byte
<1>3. l.right.args[1] \in F BY <1>2
<1>4. Code(l) = lease_consume_code(lease, LeaseIdOf(l), l.right.kind, F, u8(GenerationOf(l)))
  BY <1>2 DEF Code, LEASE_KINDS, lease_consume_completion, lease_consume_installer_apply,
     lease_consume_object_update, lease_consume_external_ticket, LEASE_KIND_COMPLETION,
     LEASE_KIND_INSTALLER_APPLY, LEASE_KIND_OBJECT_UPDATE, LEASE_KIND_EXTERNAL_TICKET
<1>5. QED BY <1>3, <1>4

\* The invariant decides every answer of lease_consume_*.
LEMMA LeaseInvTruth == LeaseInv => LeaseTruth
<1> SUFFICES ASSUME LeaseInv, LeaseBytesFresh, NEW l \in issued
             PROVE  IF l.run = leaseRun
                    THEN IF l \in ToSet(held)
                         THEN /\ Code(l) = IF l.born = GenerationOf(l) THEN "Ok" ELSE "Stale"
                              /\ held[lease_find(lease, LeaseIdOf(l))] = l
                              /\ l.right.args = << Entry(l).first, Entry(l).second, Entry(l).third >>
                         ELSE Code(l) = IF l.right.kind = LEASE_KIND_INSTALLER_APPLY
                                        THEN "Consumed" ELSE "Invalid"
                    ELSE Code(l) \in {"Ok", "Stale"} =>
                            \E m \in ToSet(held) :
                               LeaseIdOf(m) = LeaseIdOf(l) /\ m.right.kind = l.right.kind
  BY DEF LeaseTruth
<1> DEFINE k == lease_find(lease, LeaseIdOf(l))
<1>1. l \in LeaseName /\ l.right \in Rights BY DEF LeaseInv, LeaseTypes, LeaseName
<1>2. PICK firsts : /\ l.right.args[1] \in firsts
                    /\ Code(l) = lease_consume_code(lease, LeaseIdOf(l), l.right.kind, firsts,
                                                    u8(GenerationOf(l)))
  BY CodeForm
<1>3. Len(lease.leases) = Len(held) BY DEF LeaseInv, HeldNames
<1>4. \/ k \in 1 .. Len(held) /\ lease.leases[k].id = LeaseIdOf(l)
      \/ k = 0 /\ \A i \in 1 .. Len(held) : lease.leases[i].id # LeaseIdOf(l)
  BY <1>3, FindFacts DEF LeaseInv, LeaseTypes
<1>5. \A i \in 1 .. Len(held) : /\ lease.leases[i].id = held[i].serial
                                /\ held[i] \in issued /\ held[i].run = leaseRun
                                /\ held[i] \in ToSet(held)
  <2>1. \A i \in 1 .. Len(held) : held[i] \in issued /\ held[i].run = leaseRun
    BY DEF LeaseInv, HeldNames
  <2>2. \A i \in 1 .. Len(held) : held[i] \in ToSet(held)
    <3>1. held \in Seq(LeaseName) BY DEF LeaseInv, LeaseTypes
    <3>2. DOMAIN held = 1 .. Len(held) BY <3>1
    <3>3. QED BY <3>2 DEF ToSet
  <2>3. \A i \in 1 .. Len(held) : lease.leases[i].id = held[i].serial
    <3> TAKE i \in 1 .. Len(held)
    <3>1. lease.leases[i] = EntryOf(held[i]) /\ LeaseIdOf(held[i]) = held[i].serial
      BY FreshTable
    <3>2. EntryOf(held[i]).id = LeaseIdOf(held[i]) BY DEF EntryOf, LeaseIdOf
    <3>3. QED BY <3>1, <3>2
  <2>4. QED BY <2>1, <2>2, <2>3
<1>6. ASSUME l.run = leaseRun, l \in ToSet(held)
      PROVE  /\ Code(l) = IF l.born = GenerationOf(l) THEN "Ok" ELSE "Stale"
             /\ held[k] = l
             /\ l.right.args = << Entry(l).first, Entry(l).second, Entry(l).third >>
  <2>1. LeaseIdOf(l) = l.serial BY <1>6, FreshTable
  <2>2. PICK i \in 1 .. Len(held) : held[i] = l BY <1>6, FreshTable
  <2>3. k \in 1 .. Len(held) /\ held[k].serial = l.serial
    BY <1>4, <1>5, <2>1, <2>2
  <2>4. k = i BY <2>2, <2>3 DEF LeaseInv, HeldNames
  <2>5. Entry(l) = EntryOf(l) BY <2>2, <2>4, FreshTable DEF Entry
  <2>6. k # 0 BY <2>3
  <2>7. Code(l) = IF u8(l.born) # u8(GenerationOf(l)) THEN "Stale" ELSE "Ok"
    BY <1>2, <2>5, <2>6 DEF lease_consume_code, Entry, EntryOf
  <2>8. Code(l) = IF l.born = GenerationOf(l) THEN "Ok" ELSE "Stale"
    BY <1>6, <2>7, FreshTable
  <2>9. l.right.args = << l.right.args[1], l.right.args[2], l.right.args[3] >>
    <3>1. l.right.args \in [1 .. 3 -> Byte] BY <1>1, RightsAssumption
    <3>2. QED BY <3>1
  <2>10. QED BY <2>2, <2>4, <2>5, <2>8, <2>9 DEF EntryOf
<1>7. ASSUME l.run = leaseRun, l \notin ToSet(held)
      PROVE  Code(l) = IF l.right.kind = LEASE_KIND_INSTALLER_APPLY THEN "Consumed" ELSE "Invalid"
  <2>1. LeaseIdOf(l) = l.serial BY <1>7, FreshTable
  <2>2. k = 0
    <3> SUFFICES ASSUME k \in 1 .. Len(held), lease.leases[k].id = l.serial PROVE FALSE
      BY <1>4, <2>1
    <3>1. held[k] = l BY <1>5, <1>7 DEF LeaseInv, LeaseCounters
    <3>2. QED BY <3>1, <1>5, <1>7
  <2>3. l.serial # 0 /\ l.serial < lease.next
    <3>1. leaseSerial + 1 \in Byte
      BY U8Assumption DEF LeaseInv, LeaseTypes, LeaseBytesFresh, Byte
    <3>2. lease.next = leaseSerial + 1
      BY <3>1, U8Facts, U8Assumption DEF LeaseInv, LeaseTypes, LeaseCounters, LeaseBytesFresh
    <3>3. QED BY <1>1, <1>7, <3>2 DEF LeaseInv, LeaseTypes, LeaseCounters, LeaseName
  <2>4. QED BY <1>2, <2>1, <2>2, <2>3 DEF lease_consume_code
<1>8. ASSUME Code(l) \in {"Ok", "Stale"}
      PROVE  \E m \in ToSet(held) : LeaseIdOf(m) = LeaseIdOf(l) /\ m.right.kind = l.right.kind
  <2>1. k \in 1 .. Len(held) /\ Entry(l).id = LeaseIdOf(l) /\ Entry(l).kind = l.right.kind
    BY <1>3, <1>8, CodeFound
  <2>2. Entry(l) = EntryOf(held[k]) BY <2>1, FreshTable DEF Entry
  <2>3. LeaseIdOf(held[k]) = LeaseIdOf(l) /\ held[k].right.kind = l.right.kind
    BY <2>1, <2>2 DEF EntryOf, LeaseIdOf
  <2>4. QED BY <2>1, <2>3, <1>5
<1>9. QED BY <1>6, <1>7, <1>8

\* lease_consume_* answers the holder of every id of this run truthfully until
\* a byte wraps, whatever was issued, consumed and restarted before.
THEOREM LeasesTruthful == LeaseSpec => []LeaseTruth
BY LeaseInitInv, LeaseNextInv, LeaseInvTruth, PTL DEF LeaseSpec
=============================================================================
