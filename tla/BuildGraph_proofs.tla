-------------------------- MODULE BuildGraph_proofs --------------------------
(***************************************************************************)
(* Proofs about BuildGraph.  While a target's modules are discovered, the  *)
(* active calls are a path of imports, and the finished modules only       *)
(* import each other, backwards, and the sources of the libraries below.   *)
(* The graphs of those libraries were finished the same way, and stand     *)
(* whole in the flattened graph of the target.                             *)
(***************************************************************************)
EXTENDS BuildGraph, FiniteSetTheorems, WellFoundedInduction, TLAPS

\* A sequence, of whatever it holds.
IsSequence(s) == s \in Seq(Range(s))

\* The i-th of some sequences stands whole in s, after its first d elements.
Block(seqs, s, i, d) ==
    /\ d \in Nat /\ d + Len(seqs[i]) <= Len(s)
    /\ \A k \in 1 .. Len(seqs[i]) : s[d + k] = seqs[i][k]

\* s is made of the first n of some sequences.
Blocks(seqs, s, n) ==
    /\ IsSequence(s)
    /\ \A i \in 1 .. n : \E d \in Nat : Block(seqs, s, i, d)
    /\ \A p \in 1 .. Len(s) :
          \E i \in 1 .. n, d \in Nat : Block(seqs, s, i, d) /\ d < p /\ p <= d + Len(seqs[i])

\* The sequences that FlattenSeq joins one after another.
Flattens(seqs, f, n) ==
    f = [i \in 1 .. n |-> IF i = 1 THEN seqs[i] ELSE f[i - 1] \o seqs[i]]

\* A finished graph.
IsGraph(graph) ==
    /\ IsSequence(graph) /\ graph # << >>
    /\ \A g \in DOMAIN graph : IsSequence(graph[g].nodes)
    /\ InImportOrder(graph)

External == CollectOwnedSourcePathsForLink(Top.linked).paths

\* The module a target is entered by.
IsEntry(m) == m.primary = Top.target.root \/ Top.target.root \in Range(m.sources)

FrameFields == {"target", "todo", "linked"}
CallFields  == {"module", "imports", "todo"}

FrameTypes(fs) ==
    /\ IsSequence(fs)
    /\ \A i \in DOMAIN fs :
          /\ DOMAIN fs[i] = FrameFields
          /\ IsSequence(fs[i].linked)
          /\ \A k \in DOMAIN fs[i].linked : IsGraph(fs[i].linked[k])

CallTypes(cs) ==
    /\ IsSequence(cs)
    /\ \A i \in DOMAIN cs : /\ DOMAIN cs[i] = CallFields
                           /\ IsSequence(cs[i].imports) /\ IsSequence(cs[i].todo)

\* The active calls are a path of imports.
Path(cs) ==
    /\ \A i \in DOMAIN cs : Range(cs[i].todo) \subseteq Range(MergedImports(cs[i].module))
    /\ \A i \in DOMAIN cs : i > 1 =>
          cs[i].module \in Imported(Top.target, Top.linked, cs[i - 1].module)

\* A module has one active call or one node.
Once(cs) ==
    /\ visited = {nodes[i].key : i \in DOMAIN nodes}
    /\ \A i, j \in DOMAIN nodes : nodes[i].key = nodes[j].key => i = j
    /\ \A i \in DOMAIN cs : cs[i].module.key \notin visited
    /\ \A i, j \in DOMAIN cs : cs[i].module.key = cs[j].module.key => i = j

\* A node's imports come before it or from a library below.
Backwards ==
    \A i \in DOMAIN nodes : \A m \in Range(nodes[i].imports) :
        (\E k \in 1 .. i - 1 : nodes[k].key = m.key) \/ m.primary \in External

\* A call's imports are finished, provided by a library below, or waited for:
\* the last call waits for the modules with the given keys.
Waiting(cs, next) ==
    \A i \in DOMAIN cs : \A m \in Range(cs[i].imports) :
        \/ m.key \in visited \/ m.primary \in External
        \/ i < Len(cs) /\ m.key = cs[i + 1].module.key
        \/ i = Len(cs) /\ m.key \in next

\* Only the entry may be a source of a library below.
Entered(cs) ==
    /\ \A i \in DOMAIN cs : cs[i].module.primary \in External => i = 1
    /\ \A i \in DOMAIN nodes : nodes[i].primary \in External => cs = << >> /\ i = Len(nodes)
    /\ IF cs = << >> THEN nodes # << >> /\ IsEntry(Last(nodes)) ELSE IsEntry(cs[1].module)

GraphInv ==
    /\ phase \in {"start", "resolve", "discover", "built", "failed"}
    /\ Loaded(world)
    /\ FrameTypes(frames) /\ CallTypes(calls) /\ IsSequence(nodes)
    /\ phase # "failed" => "import cycle" \notin diags
    /\ phase \in {"resolve", "discover"} => frames # << >>
    /\ phase = "start" => frames = << >>
    /\ phase \in {"start", "resolve"} => calls = << >> /\ nodes = << >> /\ visited = {}
    /\ phase = "discover" =>
          /\ ~CollectOwnedSourcePathsForLink(Top.linked).clash
          /\ Path(calls) /\ Once(calls) /\ Backwards /\ Waiting(calls, {}) /\ Entered(calls)
    /\ phase = "built" => InImportOrder(result)

\* A list names nothing twice.
NoRepeat(s) == \A i, j \in DOMAIN s : s[i] = s[j] => i = j

\* No target of the project links a library twice.
LinkedOnce(w) == \A n \in DOMAIN w.targets : NoRepeat(w.targets[n].links)

\* The library that a graph was built for.
Library(graph) == graph[1].target.name

\* A target has linked, and will link, every library at most once.
LinksOnce(frame) ==
    /\ IsSequence(frame.todo) /\ NoRepeat(frame.todo)
    /\ \A k, l \in DOMAIN frame.linked :
          Library(frame.linked[k]) = Library(frame.linked[l]) => k = l
    /\ \A k \in DOMAIN frame.linked : Library(frame.linked[k]) \notin Range(frame.todo)
    /\ \A k \in DOMAIN frame.linked : OneOwner(frame.linked[k])

\* A library that a target neither has linked nor will link after this one.
Unlisted(frame, name) ==
    /\ name \notin Range(frame.todo)
    /\ \A k \in DOMAIN frame.linked : Library(frame.linked[k]) # name

OwnerInv ==
    /\ \A i \in DOMAIN frames : LinksOnce(frames[i])
    /\ \A i \in DOMAIN frames : i < Len(frames) => Unlisted(frames[i], frames[i + 1].target.name)
    /\ phase = "built" => OneOwner(result)

-----------------------------------------------------------------------------
(* Sequences.                                                              *)

\* What a sequence of anything is made of.
LEMMA SequenceFacts ==
    ASSUME NEW s
    PROVE  /\ IsSequence(s) => Len(s) \in Nat /\ DOMAIN s = 1 .. Len(s)
           /\ \A S : s \in Seq(S) => IsSequence(s)
BY DEF IsSequence, Range

\* One sequence after another.
LEMMA Joined ==
    ASSUME NEW s, NEW t, IsSequence(s), IsSequence(t)
    PROVE  /\ IsSequence(s \o t) /\ Len(s \o t) = Len(s) + Len(t)
           /\ \A i \in 1 .. Len(s) : (s \o t)[i] = s[i]
           /\ \A i \in 1 .. Len(t) : (s \o t)[Len(s) + i] = t[i]
<1> DEFINE S == Range(s)
           T == Range(t)
<1>1. s \in Seq(S) /\ t \in Seq(T) BY DEF IsSequence
<1> HIDE DEF S, T
<1>2. s \in Seq(S \cup T) /\ t \in Seq(S \cup T) BY <1>1
<1>3. s \o t \in Seq(S \cup T) BY <1>2
<1>4. IsSequence(s \o t) BY <1>3, SequenceFacts
<1>5. /\ Len(s \o t) = Len(s) + Len(t)
      /\ \A i \in 1 .. Len(s) : (s \o t)[i] = s[i]
      /\ \A i \in 1 .. Len(t) : (s \o t)[Len(s) + i] = t[i]
  BY <1>2
<1>6. QED BY <1>4, <1>5

\* One element after a sequence.
LEMMA Appended ==
    ASSUME NEW s, NEW x, IsSequence(s)
    PROVE  /\ IsSequence(Append(s, x)) /\ Len(Append(s, x)) = Len(s) + 1
           /\ \A i \in 1 .. Len(s) : Append(s, x)[i] = s[i]
           /\ Append(s, x)[Len(s) + 1] = x
           /\ Range(Append(s, x)) = Range(s) \cup {x}
<1> DEFINE S == Range(s)
           t == Append(s, x)
<1>1. s \in Seq(S) BY DEF IsSequence
<1> HIDE DEF S
<1>2. s \in Seq(S \cup {x}) BY <1>1
<1>3. t \in Seq(S \cup {x}) BY <1>2
<1>4. IsSequence(t) BY <1>3, SequenceFacts
<1>5. /\ Len(t) = Len(s) + 1 /\ Len(s) \in Nat
      /\ \A i \in 1 .. Len(s) : t[i] = s[i]
      /\ t[Len(s) + 1] = x
  BY <1>2
<1>6. Range(t) = Range(s) \cup {x}
  <2>1. DOMAIN s = 1 .. Len(s) /\ DOMAIN t = 1 .. Len(t) BY <1>4, SequenceFacts
  <2> HIDE DEF t
  <2>2. ASSUME NEW i \in DOMAIN t PROVE t[i] \in Range(s) \cup {x}
    <3>1. i \in 1 .. Len(s) \/ i = Len(s) + 1 BY <1>5, <2>1
    <3>2. QED BY <1>5, <2>1, <3>1 DEF Range
  <2>3. ASSUME NEW i \in DOMAIN s PROVE s[i] \in Range(t)
    <3>1. i \in DOMAIN t /\ t[i] = s[i] BY <1>5, <2>1
    <3>2. QED BY <3>1 DEF Range
  <2>4. x \in Range(t)
    <3>1. Len(s) + 1 \in DOMAIN t BY <1>5, <2>1
    <3>2. QED BY <1>5, <3>1 DEF Range
  <2>5. QED BY <2>2, <2>3, <2>4 DEF Range
<1>7. QED BY <1>4, <1>5, <1>6

\* A sequence without its last element, and without its first.
LEMMA Shortened ==
    ASSUME NEW s, IsSequence(s), s # << >>
    PROVE  /\ Len(s) \in Nat \ {0} /\ Last(s) = s[Len(s)] /\ Head(s) = s[1]
           /\ IsSequence(Front(s)) /\ Len(Front(s)) = Len(s) - 1
           /\ \A i \in 1 .. Len(s) - 1 : Front(s)[i] = s[i]
           /\ IsSequence(Tail(s)) /\ Len(Tail(s)) = Len(s) - 1
           /\ \A i \in 1 .. Len(s) - 1 : Tail(s)[i] = s[i + 1]
<1> DEFINE S == Range(s)
<1>1. s \in Seq(S) BY DEF IsSequence
<1> HIDE DEF S
<1>2. Len(s) \in Nat \ {0} /\ Head(s) = s[1] BY <1>1
<1>3. /\ Tail(s) \in Seq(S) /\ Len(Tail(s)) = Len(s) - 1
      /\ \A i \in 1 .. Len(s) - 1 : Tail(s)[i] = s[i + 1]
  BY <1>1
<1>4. Front(s) = SubSeq(s, 1, Len(s) - 1) BY DEF Front
<1>5. /\ Front(s) \in Seq(S) /\ Len(Front(s)) = Len(s) - 1
      /\ \A i \in 1 .. Len(s) - 1 : Front(s)[i] = s[i]
  <2> DEFINE n == Len(s) - 1
  <2>1. n \in Nat /\ n <= Len(s) BY <1>2
  <2> HIDE DEF n
  <2>2. /\ SubSeq(s, 1, n) \in Seq(S) /\ Len(SubSeq(s, 1, n)) = n
        /\ \A i \in 1 .. n : SubSeq(s, 1, n)[i] = s[i]
    BY <1>1, <2>1
  <2>3. QED BY <1>4, <2>2 DEF n
<1>6. Last(s) = s[Len(s)] BY DEF Last
<1>7. QED BY <1>2, <1>3, <1>5, <1>6, SequenceFacts

\* No elements, and one.
LEMMA Single ==
    /\ IsSequence(<< >>) /\ Len(<< >>) = 0
    /\ \A x : IsSequence(<< x >>) /\ Len(<< x >>) = 1 /\ << x >>[1] = x
<1>1. << >> \in Seq({}) /\ Len(<< >>) = 0 OBVIOUS
<1>2. ASSUME NEW x PROVE << x >> \in Seq({x}) /\ Len(<< x >>) = 1 /\ << x >>[1] = x
  OBVIOUS
<1>3. QED BY <1>1, <1>2, SequenceFacts

\* An empty sequence has no places.
LEMMA Empty == \A i : i \notin DOMAIN << >>
<1>1. DOMAIN << >> = 1 .. 0 BY Single, SequenceFacts
<1>2. QED BY <1>1

\* A function that lists something for 1, 2 and so on.
LEMMA Listed ==
    ASSUME NEW s, NEW n \in Nat, s = [i \in 1 .. n |-> s[i]]
    PROVE  IsSequence(s) /\ Len(s) = n
<1>1. s \in [1 .. n -> Range(s)] BY DEF Range
<1>2. s \in Seq(Range(s)) /\ Len(s) = n BY <1>1
<1>3. QED BY <1>2 DEF IsSequence

\* Induction over the naturals, for a set of them.
LEMMA NatSet ==
    ASSUME NEW S, 0 \in S, \A n \in Nat : n \in S => n + 1 \in S
    PROVE  Nat \subseteq S
<1> DEFINE T == Nat \ S
           R == OpToRel(<, Nat)
<1> SUFFICES ASSUME T # {} PROVE FALSE
  OBVIOUS
<1>1. PICK x \in T : \A y \in T : ~(<< y, x >> \in R)
  <2>1. T \subseteq Nat OBVIOUS
  <2> HIDE DEF R, T
  <2>2. IsWellFoundedOn(R, Nat) BY NatLessThanWellFounded DEF R
  <2>3. QED BY <2>1, <2>2, WFMin
<1>2. x \in Nat /\ x # 0 /\ x \notin S OBVIOUS
<1>3. x - 1 \in Nat /\ x - 1 < x /\ x - 1 + 1 = x BY <1>2
<1>4. x - 1 \in S
  <2>1. x - 1 \in T => << x - 1, x >> \in R BY <1>2, <1>3 DEF OpToRel
  <2>2. QED BY <1>1, <1>3, <2>1
<1>5. x - 1 + 1 \in S BY <1>3, <1>4
<1>6. QED BY <1>2, <1>3, <1>5

-----------------------------------------------------------------------------
(* FlattenSeq.                                                             *)

\* The recursive function that FlattenSeq is defined by exists.
LEMMA FlattensExists ==
    ASSUME NEW seqs, NEW n \in Nat
    PROVE  \E f : Flattens(seqs, f, n)
<1> DEFINE S == {k \in Nat : \E f : Flattens(seqs, f, k)}
<1>1. 0 \in S
  <2>1. Flattens(seqs, [i \in 1 .. 0 |-> 0], 0) BY DEF Flattens
  <2>2. QED BY <2>1
<1>2. ASSUME NEW k \in Nat, k \in S PROVE k + 1 \in S
  <2>1. PICK f : Flattens(seqs, f, k) BY <1>2
  <2> DEFINE Val(h, i) == IF i = 1 THEN seqs[i] ELSE h[i - 1] \o seqs[i]
             g == [i \in 1 .. k + 1 |-> Val(f, i)]
  <2>2. /\ DOMAIN f = 1 .. k
        /\ \A i \in 1 .. k : f[i] = Val(f, i)
    <3>1. f = [i \in 1 .. k |-> Val(f, i)] BY <2>1 DEF Flattens
    <3> HIDE DEF Val
    <3>2. QED BY <3>1
  <2>3. \A i \in 1 .. k + 1 : g[i] = Val(g, i)
    <3> SUFFICES ASSUME NEW i \in 1 .. k + 1 PROVE Val(f, i) = Val(g, i)
      BY DEF g
    <3>1. CASE i = 1 BY <3>1
    <3>2. CASE i # 1
      <4>1. i - 1 \in 1 .. k /\ i - 1 \in 1 .. k + 1 BY <3>2
      <4>2. g[i - 1] = Val(f, i - 1)
        <5> HIDE DEF Val
        <5>1. QED BY <4>1
      <4>3. g[i - 1] = f[i - 1] BY <2>2, <4>1, <4>2
      <4>4. QED BY <3>2, <4>3
    <3>3. QED BY <3>1, <3>2
  <2>4. g = [i \in 1 .. k + 1 |-> Val(g, i)]
    <3>1. DOMAIN g = 1 .. k + 1 OBVIOUS
    <3>2. g = [i \in 1 .. k + 1 |-> g[i]] OBVIOUS
    <3> HIDE DEF g, Val
    <3>3. QED BY <2>3, <3>2
  <2>5. Flattens(seqs, g, k + 1) BY <2>4 DEF Flattens
  <2>6. QED BY <2>5
<1>3. Nat \subseteq S
  <2> HIDE DEF S
  <2>1. QED BY <1>1, <1>2, NatSet
<1>4. QED BY <1>3

\* The sequences of a flattened sequence stand in it one after another.
LEMMA Flattened ==
    ASSUME NEW seqs, IsSequence(seqs), \A i \in 1 .. Len(seqs) : IsSequence(seqs[i])
    PROVE  Blocks(seqs, FlattenSeq(seqs), Len(seqs))
<1>1. Len(seqs) \in Nat BY SequenceFacts
<1>2. CASE Len(seqs) = 0
  <2>1. FlattenSeq(seqs) = seqs BY <1>2 DEF FlattenSeq
  <2>2. QED BY <1>2, <2>1 DEF Blocks
<1>3. CASE Len(seqs) # 0
  <2> DEFINE f == CHOOSE f : Flattens(seqs, f, Len(seqs))
  <2>1. Flattens(seqs, f, Len(seqs)) BY <1>1, FlattensExists
  <2>2. FlattenSeq(seqs) = f[Len(seqs)] BY <1>3 DEF FlattenSeq, Flattens
  <2> HIDE DEF f
  <2>3. \A i \in 1 .. Len(seqs) : f[i] = IF i = 1 THEN seqs[i] ELSE f[i - 1] \o seqs[i]
    BY <2>1 DEF Flattens
  <2> DEFINE S == {n \in Nat : n + 1 <= Len(seqs) => Blocks(seqs, f[n + 1], n + 1)}
  <2>4. 0 \in S
    <3>1. f[1] = seqs[1] /\ IsSequence(seqs[1]) /\ 1 \in 1 .. Len(seqs) BY <1>1, <1>3, <2>3
    <3>2. Len(seqs[1]) \in Nat BY <3>1, SequenceFacts
    <3>3. Block(seqs, f[1], 1, 0) BY <3>1, <3>2 DEF Block
    <3>4. Blocks(seqs, f[1], 1) BY <3>1, <3>2, <3>3 DEF Blocks
    <3>5. QED BY <3>4
  <2>5. ASSUME NEW n \in Nat, n \in S PROVE n + 1 \in S
    <3> SUFFICES ASSUME n + 1 + 1 <= Len(seqs)
                 PROVE  Blocks(seqs, f[n + 1 + 1], n + 1 + 1)
      OBVIOUS
    <3> DEFINE s == f[n + 1]
               last == seqs[n + 1 + 1]
               t == f[n + 1 + 1]
    <3>1. Blocks(seqs, s, n + 1) BY <1>1, <2>5
    <3>2. n + 1 + 1 \in 1 .. Len(seqs) /\ n + 1 + 1 # 1 /\ n + 1 + 1 - 1 = n + 1 BY <1>1
    <3>3. t = s \o last
      <4>1. PICK i \in 1 .. Len(seqs) : i = n + 1 + 1 BY <3>2
      <4>2. f[i] = f[i - 1] \o seqs[i]
        <5>1. i # 1 BY <4>1
        <5>2. QED BY <2>3, <5>1
      <4>3. i - 1 = n + 1 BY <4>1
      <4>4. f[i] = t /\ f[i - 1] = s /\ seqs[i] = last BY <4>1, <4>3
      <4>5. QED BY <4>2, <4>4
    <3>4. IsSequence(s) /\ IsSequence(last) BY <3>1, <3>2 DEF Blocks
    <3> HIDE DEF s, t
    <3>5. /\ IsSequence(t) /\ Len(t) = Len(s) + Len(last)
          /\ \A i \in 1 .. Len(s) : t[i] = s[i]
          /\ \A i \in 1 .. Len(last) : t[Len(s) + i] = last[i]
          /\ Len(s) \in Nat /\ Len(last) \in Nat
      BY <3>3, <3>4, Joined, SequenceFacts
    <3>6. ASSUME NEW i \in 1 .. n + 1, NEW d \in Nat, Block(seqs, s, i, d)
          PROVE  Block(seqs, t, i, d)
      <4>1. Len(seqs[i]) \in Nat
        <5>1. i \in 1 .. Len(seqs) BY <1>1
        <5>2. QED BY <5>1, SequenceFacts
      <4>2. /\ d \in Nat /\ d + Len(seqs[i]) <= Len(s)
            /\ \A k \in 1 .. Len(seqs[i]) : s[d + k] = seqs[i][k]
        BY <3>6 DEF Block
      <4>3. ASSUME NEW k \in 1 .. Len(seqs[i]) PROVE t[d + k] = seqs[i][k]
        <5>1. d + k \in 1 .. Len(s) BY <3>5, <4>1, <4>2
        <5>2. QED BY <3>5, <4>2, <5>1
      <4>4. d + Len(seqs[i]) <= Len(t) BY <3>5, <4>1, <4>2
      <4>5. QED BY <4>2, <4>3, <4>4 DEF Block
    <3>7. Block(seqs, t, n + 1 + 1, Len(s)) BY <3>5 DEF Block
    <3>8. ASSUME NEW i \in 1 .. n + 1 + 1 PROVE \E d \in Nat : Block(seqs, t, i, d)
      <4>1. CASE i = n + 1 + 1 BY <3>7, <4>1
      <4>2. CASE i # n + 1 + 1
        <5>1. i \in 1 .. n + 1 BY <4>2
        <5>2. PICK d \in Nat : Block(seqs, s, i, d) BY <3>1, <5>1 DEF Blocks
        <5>3. QED BY <3>6, <5>1, <5>2
      <4>3. QED BY <4>1, <4>2
    <3>9. ASSUME NEW p \in 1 .. Len(t)
          PROVE  \E i \in 1 .. n + 1 + 1, d \in Nat :
                    Block(seqs, t, i, d) /\ d < p /\ p <= d + Len(seqs[i])
      <4>1. CASE p <= Len(s)
        <5>1. p \in 1 .. Len(s) BY <3>5, <4>1
        <5>2. PICK i \in 1 .. n + 1, d \in Nat :
                 Block(seqs, s, i, d) /\ d < p /\ p <= d + Len(seqs[i])
          BY <3>1, <5>1 DEF Blocks
        <5>3. i \in 1 .. n + 1 + 1 OBVIOUS
        <5>4. QED BY <3>6, <5>2, <5>3
      <4>2. CASE ~(p <= Len(s))
        <5>1. Len(s) < p /\ p <= Len(s) + Len(last) BY <3>5, <4>2
        <5>2. n + 1 + 1 \in 1 .. n + 1 + 1 OBVIOUS
        <5>3. QED BY <3>7, <5>1, <5>2
      <4>3. QED BY <4>1, <4>2
    <3>10. QED BY <3>5, <3>8, <3>9 DEF Blocks, t
  <2>6. Nat \subseteq S
    <3> HIDE DEF S
    <3>1. QED BY <2>4, <2>5, NatSet
  <2>7. Len(seqs) - 1 \in Nat /\ Len(seqs) - 1 + 1 = Len(seqs) BY <1>1, <1>3
  <2>8. Blocks(seqs, f[Len(seqs)], Len(seqs))
    <3>1. Len(seqs) - 1 \in S BY <2>6, <2>7
    <3>2. Blocks(seqs, f[Len(seqs) - 1 + 1], Len(seqs) - 1 + 1) BY <1>1, <2>7, <3>1
    <3>3. QED BY <2>7, <3>2
  <2>9. QED BY <2>2, <2>8
<1>4. QED BY <1>2, <1>3

\* What Among keeps is in the sequence and in the set.
LEMMA AmongFacts ==
    ASSUME NEW s, NEW kept, IsSequence(s)
    PROVE  /\ IsSequence(Among(s, kept))
           /\ Range(Among(s, kept)) \subseteq Range(s) \cap kept
<1> DEFINE seqs == [i \in DOMAIN s |-> IF s[i] \in kept THEN << s[i] >> ELSE << >>]
           t == FlattenSeq(seqs)
<1>1. Len(s) \in Nat /\ DOMAIN s = 1 .. Len(s) BY SequenceFacts
<1>2. /\ IsSequence(seqs) /\ Len(seqs) = Len(s)
      /\ \A i \in 1 .. Len(s) :
            /\ IsSequence(seqs[i])
            /\ \A k \in 1 .. Len(seqs[i]) : seqs[i][k] = s[i] /\ s[i] \in kept
  <2>1. IsSequence(seqs) /\ Len(seqs) = Len(s)
    <3>1. seqs = [i \in 1 .. Len(s) |-> seqs[i]] BY <1>1
    <3> HIDE DEF seqs
    <3>2. QED BY <1>1, <3>1, Listed
  <2>2. ASSUME NEW i \in 1 .. Len(s)
        PROVE  /\ IsSequence(seqs[i])
               /\ \A k \in 1 .. Len(seqs[i]) : seqs[i][k] = s[i] /\ s[i] \in kept
    <3>1. CASE s[i] \in kept
      <4>1. seqs[i] = << s[i] >> BY <1>1, <3>1
      <4>2. IsSequence(<< s[i] >>) /\ Len(<< s[i] >>) = 1 /\ << s[i] >>[1] = s[i] BY Single
      <4>3. QED BY <3>1, <4>1, <4>2
    <3>2. CASE s[i] \notin kept
      <4>1. seqs[i] = << >> BY <1>1, <3>2
      <4>2. QED BY <4>1, Single
    <3>3. QED BY <3>1, <3>2
  <2>3. QED BY <2>1, <2>2
<1>3. t = Among(s, kept) BY DEF Among
<1> HIDE DEF seqs
<1>4. Blocks(seqs, t, Len(s)) BY <1>2, Flattened
<1> HIDE DEF t
<1>5. IsSequence(t) BY <1>4 DEF Blocks
<1>6. ASSUME NEW p \in DOMAIN t PROVE t[p] \in Range(s) \cap kept
  <2>1. p \in 1 .. Len(t) /\ Len(t) \in Nat BY <1>5, SequenceFacts
  <2>2. PICK i \in 1 .. Len(s), d \in Nat :
           Block(seqs, t, i, d) /\ d < p /\ p <= d + Len(seqs[i])
    BY <1>4, <2>1 DEF Blocks
  <2>3. /\ d \in Nat /\ Len(seqs[i]) \in Nat
        /\ \A k \in 1 .. Len(seqs[i]) : t[d + k] = seqs[i][k]
    BY <1>2, <2>2, SequenceFacts DEF Block
  <2>4. p - d \in 1 .. Len(seqs[i]) /\ d + (p - d) = p BY <2>1, <2>2, <2>3
  <2>5. t[p] = s[i] /\ s[i] \in kept
    <3>1. t[d + (p - d)] = seqs[i][p - d] BY <2>3, <2>4
    <3>2. QED BY <1>2, <2>4, <3>1
  <2>6. QED BY <1>1, <2>5 DEF Range
<1>7. QED BY <1>3, <1>5, <1>6 DEF Range

-----------------------------------------------------------------------------
(* Stacks.                                                                 *)

\* What a module imports depends on the project and on the target alone.
LEMMA SameImports ==
    ASSUME UNCHANGED << world, frames >>, NEW m
    PROVE  /\ (MergedImports(m))' = MergedImports(m)
           /\ Imported(Top.target, Top.linked, m)' = Imported(Top.target, Top.linked, m)
           /\ External' = External
           /\ IsEntry(m)' = IsEntry(m)
<1>1. world' = world /\ frames' = frames OBVIOUS
<1>2. (MergedImports(m))' = MergedImports(m) BY <1>1 DEF MergedImports
<1>3. Imported(Top.target, Top.linked, m)' = Imported(Top.target, Top.linked, m)
  <2> DEFINE t == Top.target
             l == Top.linked
  <2>1. (Top.target)' = t /\ (Top.linked)' = l BY <1>1 DEF Top
  <2> SUFFICES Imported(t, l, m)' = Imported(t, l, m)
    OBVIOUS
  <2>2. ASSUME NEW u, NEW k, NEW n
        PROVE  ImportCandidates(u, k, n)' = ImportCandidates(u, k, n)
    BY <1>1 DEF ImportCandidates, ComputeProjectImportRoots, PackageIdentityForSource
  <2>3. ASSUME NEW p, NEW n
        PROVE  ResolveImportPathWithPackageRules(t, l, p, n)' = ResolveImportPathWithPackageRules(t, l, p, n)
    <3> DEFINE c == ImportCandidates(t, l, n)
    <3>1. ImportCandidates(t, l, n)' = c BY <2>1, <2>2
    <3> HIDE DEF c
    <3>2. QED BY <3>1 DEF ResolveImportPathWithPackageRules, c
  <2>4. QED BY <1>2, <2>1, <2>3 DEF Imported
<1>4. QED BY <1>1, <1>2, <1>3 DEF External, IsEntry, Top

\* The modules that a target and the libraries below it provide are listed.
LEMMA KnownAreListed ==
    ASSUME NEW target, NEW linked, NEW name, IsSequence(linked),
           \A k \in DOMAIN linked : IsGraph(linked[k])
    PROVE  IsSequence(KnownModuleSources(target, linked, name))
<1> DEFINE Named(ns)  == Among(ns, {n \in Range(ns) : n.name = name})
           part(g)    == [i \in DOMAIN g |-> Named(g[i].nodes) \o SetModules(g[i].target, name)]
           ofGraph(g) == FlattenSeq(part(g))
           parts      == [i \in DOMAIN linked |-> ofGraph(linked[i])]
<1>1. \A t : IsSequence(SetModules(t, name))
  BY Single DEF SetModules
<1>2. ASSUME NEW g, IsGraph(g) PROVE IsSequence(ofGraph(g))
  <2>1. IsSequence(g) /\ \A i \in DOMAIN g : IsSequence(g[i].nodes) BY <1>2 DEF IsGraph
  <2>2. Len(g) \in Nat /\ DOMAIN g = 1 .. Len(g) BY <2>1, SequenceFacts
  <2>3. ASSUME NEW i \in 1 .. Len(g) PROVE IsSequence(part(g)[i])
    <3>1. IsSequence(Named(g[i].nodes)) BY <2>1, <2>2, AmongFacts
    <3>2. IsSequence(Named(g[i].nodes) \o SetModules(g[i].target, name))
      <4> HIDE DEF Named
      <4>1. QED BY <1>1, <3>1, Joined
    <3>3. QED BY <2>2, <3>2
  <2>4. part(g) = [i \in 1 .. Len(g) |-> part(g)[i]] BY <2>2
  <2> HIDE DEF part
  <2>5. IsSequence(part(g)) /\ Len(part(g)) = Len(g) BY <2>2, <2>4, Listed
  <2>6. Blocks(part(g), FlattenSeq(part(g)), Len(part(g))) BY <2>3, <2>5, Flattened
  <2>7. QED BY <2>6 DEF Blocks
<1> HIDE DEF ofGraph
<1>3. Len(linked) \in Nat /\ DOMAIN linked = 1 .. Len(linked) BY SequenceFacts
<1>4. \A i \in 1 .. Len(linked) : IsSequence(parts[i]) BY <1>2, <1>3
<1>5. parts = [i \in 1 .. Len(linked) |-> parts[i]] BY <1>3
<1>6. KnownModuleSources(target, linked, name) = SetModules(target, name) \o FlattenSeq(parts)
  BY DEF KnownModuleSources, ofGraph
<1> HIDE DEF parts
<1>7. IsSequence(parts) /\ Len(parts) = Len(linked) BY <1>3, <1>5, Listed
<1>8. Blocks(parts, FlattenSeq(parts), Len(parts)) BY <1>4, <1>7, Flattened
<1>9. IsSequence(FlattenSeq(parts)) BY <1>8 DEF Blocks
<1>10. IsSequence(SetModules(target, name) \o FlattenSeq(parts)) BY <1>1, <1>9, Joined
<1>11. QED BY <1>6, <1>10

\* A target is entered by its root source, or by a module that owns it.
LEMMA EntryOwnsRoot ==
    ASSUME NEW target, NEW linked, IsSequence(linked),
           \A k \in DOMAIN linked : IsGraph(linked[k])
    PROVE  \/ EntryModule(target, linked).primary = target.root
           \/ target.root \in Range(EntryModule(target, linked).sources)
<1> DEFINE plain == FileModule(target.root,
                        PackageIdentityForSource(target,
                            ComputeProjectImportRoots(target), target.root))
           known == KnownModuleSources(target, linked, plain.name)
           owners == {m \in Range(known) : target.root \in Range(m.sources)}
           sets  == Among(known, owners)
<1>1. EntryModule(target, linked) = IF sets = << >> THEN plain ELSE sets[1]
  BY DEF EntryModule
<1>2. plain.primary = target.root BY DEF FileModule
<1>3. IsSequence(known) BY KnownAreListed
<1> HIDE DEF plain, known
<1>4. IsSequence(sets) /\ Range(sets) \subseteq owners
  <2> HIDE DEF owners
  <2>1. QED BY <1>3, AmongFacts
<1> HIDE DEF sets
<1>5. CASE sets = << >> BY <1>1, <1>2, <1>5
<1>6. CASE sets # << >>
  <2>1. Len(sets) \in Nat \ {0} /\ DOMAIN sets = 1 .. Len(sets)
    BY <1>4, <1>6, Shortened, SequenceFacts
  <2>2. sets[1] \in Range(sets) BY <2>1 DEF Range
  <2>3. target.root \in Range(sets[1].sources) BY <1>4, <2>2
  <2>4. QED BY <1>1, <1>6, <2>3
<1>7. QED BY <1>5, <1>6

-----------------------------------------------------------------------------
(* Targets.                                                                *)

\* A command that fails claims nothing.
LEMMA FailKeeps ==
    ASSUME GraphInv, NEW why, Fail(why)
    PROVE  GraphInv'
<1>1. /\ phase' = "failed" /\ frames' = << >> /\ calls' = << >>
      /\ world' = world /\ nodes' = nodes
  BY DEF Fail
<1>2. FrameTypes(<< >>) /\ CallTypes(<< >>) BY Single DEF FrameTypes, CallTypes
<1>3. FrameTypes(frames)' /\ CallTypes(calls)'
  BY <1>1, <1>2 DEF FrameTypes, CallTypes
<1>4. Loaded(world)' /\ IsSequence(nodes)' BY <1>1 DEF GraphInv, Loaded
<1>5. QED BY <1>1, <1>3, <1>4 DEF GraphInv

\* A target is entered above the targets that lead to it.
LEMMA EnterKeeps ==
    ASSUME GraphInv, phase \in {"start", "resolve"}, NEW target, NEW outer, FrameTypes(outer),
           EnterTarget(target, outer)
    PROVE  GraphInv'
<1> DEFINE frame == [target |-> target, todo |-> target.links, linked |-> << >>]
<1>1. CASE \E why : Fail(why) BY <1>1, FailKeeps
<1>2. CASE /\ frames' = Append(outer, frame) /\ phase' = "resolve"
           /\ UNCHANGED << world, calls, visited, nodes, diags, result >>
  <2>1. /\ DOMAIN frame = FrameFields /\ frame.linked = << >>
    BY DEF FrameFields
  <2>2. IsSequence(frame.linked) /\ \A k \in DOMAIN frame.linked : IsGraph(frame.linked[k])
    BY <2>1, Single
  <2> HIDE DEF frame
  <2>3. IsSequence(outer) BY DEF FrameTypes
  <2>4. /\ IsSequence(frames') /\ Len(frames') = Len(outer) + 1 /\ Len(outer) \in Nat
        /\ \A i \in 1 .. Len(outer) : frames'[i] = outer[i]
        /\ frames'[Len(outer) + 1] = frame
    BY <1>2, <2>3, Appended, SequenceFacts
  <2>5. DOMAIN frames' = 1 .. Len(outer) + 1 /\ DOMAIN outer = 1 .. Len(outer)
    BY <2>3, <2>4, SequenceFacts
  <2>6. ASSUME NEW i \in DOMAIN frames'
        PROVE  /\ DOMAIN frames'[i] = FrameFields
               /\ IsSequence(frames'[i].linked)
               /\ \A k \in DOMAIN frames'[i].linked : IsGraph(frames'[i].linked[k])
    <3>1. CASE i = Len(outer) + 1 BY <2>1, <2>2, <2>4, <3>1
    <3>2. CASE i # Len(outer) + 1
      <4>1. i \in DOMAIN outer /\ frames'[i] = outer[i] BY <2>4, <2>5, <3>2
      <4>2. QED BY <4>1 DEF FrameTypes
    <3>3. QED BY <3>1, <3>2
  <2>7. FrameTypes(frames') BY <2>4, <2>6 DEF FrameTypes
  <2>8. frames' # << >> BY <2>4, Single
  <2>9. /\ calls' = << >> /\ nodes' = << >> /\ visited' = {} /\ CallTypes(calls)
        /\ calls = << >> /\ Loaded(world) /\ IsSequence(nodes) /\ "import cycle" \notin diags
    BY <1>2 DEF GraphInv
  <2>10. /\ Loaded(world)' /\ CallTypes(calls)' /\ IsSequence(nodes)' /\ "import cycle" \notin diags'
    BY <1>2, <2>9 DEF Loaded, CallTypes
  <2>11. FrameTypes(frames)' BY <2>7
  <2>12. QED BY <1>2, <2>8, <2>9, <2>10, <2>11 DEF GraphInv
<1>3. QED BY <1>1, <1>2 DEF EnterTarget

\* The target of the command is chosen (BuildTargetGraph).
LEMMA ChooseKeeps ==
    ASSUME GraphInv, BuildTargetGraph
    PROVE  GraphInv'
<1>1. phase = "start" BY DEF BuildTargetGraph
<1>2. PICK target : (\E why : Fail(why)) \/ EnterTarget(target, << >>)
  BY DEF BuildTargetGraph
<1>3. FrameTypes(<< >>) BY Single DEF FrameTypes
<1>4. QED BY <1>1, <1>2, <1>3, FailKeeps, EnterKeeps

\* The innermost frame of a stack.
LEMMA TopFrame ==
    ASSUME FrameTypes(frames), frames # << >>
    PROVE  /\ Len(frames) \in DOMAIN frames /\ Top = frames[Len(frames)]
           /\ DOMAIN frames = 1 .. Len(frames) /\ Len(frames) \in Nat \ {0}
           /\ DOMAIN Top = FrameFields /\ IsSequence(Top.linked)
           /\ \A k \in DOMAIN Top.linked : IsGraph(Top.linked[k])
<1>1. IsSequence(frames) BY DEF FrameTypes
<1>2. /\ Len(frames) \in Nat \ {0} /\ Top = frames[Len(frames)] /\ DOMAIN frames = 1 .. Len(frames)
  BY <1>1, Shortened, SequenceFacts DEF Top
<1>3. Len(frames) \in DOMAIN frames BY <1>2
<1>4. QED BY <1>2, <1>3 DEF FrameTypes

\* One field of the innermost frame changes; its graphs stay graphs.
LEMMA TopChanges ==
    ASSUME FrameTypes(frames), frames # << >>, NEW todo
    PROVE  /\ FrameTypes([frames EXCEPT ![Len(frames)].todo = todo])
           /\ [frames EXCEPT ![Len(frames)].todo = todo] # << >>
<1> DEFINE fs == [frames EXCEPT ![Len(frames)].todo = todo]
           L  == Len(frames)
<1>1. /\ L \in DOMAIN frames /\ DOMAIN frames = 1 .. L /\ L \in Nat \ {0}
      /\ DOMAIN frames[L] = FrameFields
  BY TopFrame
<1>2. fs = [frames EXCEPT ![L] = [frames[L] EXCEPT !.todo = todo]] BY <1>1
<1> HIDE DEF L
<1>3. /\ DOMAIN fs = DOMAIN frames
      /\ \A i \in DOMAIN frames : /\ DOMAIN fs[i] = DOMAIN frames[i]
                                  /\ fs[i].linked = frames[i].linked
  <2>1. DOMAIN fs = DOMAIN frames BY <1>2
  <2>2. ASSUME NEW i \in DOMAIN frames
        PROVE  DOMAIN fs[i] = DOMAIN frames[i] /\ fs[i].linked = frames[i].linked
    <3>1. CASE i = L
      <4>1. fs[i] = [frames[L] EXCEPT !.todo = todo] BY <1>1, <1>2, <3>1
      <4>2. DOMAIN [frames[L] EXCEPT !.todo = todo] = DOMAIN frames[L] OBVIOUS
      <4>3. [frames[L] EXCEPT !.todo = todo].linked = frames[L].linked
        BY <1>1 DEF FrameFields
      <4>4. QED BY <3>1, <4>1, <4>2, <4>3
    <3>2. CASE i # L
      <4>1. fs[i] = frames[i] BY <1>2, <3>2
      <4>2. QED BY <4>1
    <3>3. QED BY <3>1, <3>2
  <2>3. QED BY <2>1, <2>2
<1>4. fs = [i \in 1 .. L |-> fs[i]] BY <1>1, <1>2
<1> HIDE DEF fs
<1>5. IsSequence(fs) /\ Len(fs) = L BY <1>1, <1>4, Listed
<1>6. FrameTypes(fs) BY <1>3, <1>5 DEF FrameTypes
<1>7. fs # << >> BY <1>1, <1>5, Single
<1>8. QED BY <1>6, <1>7 DEF fs

\* One link of a target (ResolveLink).
LEMMA LinkKeeps ==
    ASSUME GraphInv, ResolveLink
    PROVE  GraphInv'
<1> DEFINE rest == [frames EXCEPT ![Len(frames)].todo = Tail(frames[Len(frames)].todo)]
<1>1. phase = "resolve" /\ frames # << >> /\ FrameTypes(frames)
  BY DEF ResolveLink, GraphInv
<1>2. rest = [frames EXCEPT ![Len(frames)].todo = Tail(@)] OBVIOUS
<1>3. FrameTypes(rest) /\ rest # << >> BY <1>1, TopChanges
<1> HIDE DEF rest
<1>4. PICK target, why : \/ EnterTarget(target, rest)
                         \/ /\ why \in {"unknown link", "link kind"}
                            /\ frames' = rest /\ diags' = diags \cup {why}
                            /\ UNCHANGED << world, phase, calls, visited, nodes, result >>
  BY <1>2 DEF ResolveLink
<1>5. CASE EnterTarget(target, rest) BY <1>1, <1>3, <1>5, EnterKeeps
<1>6. CASE ~EnterTarget(target, rest)
  <2>1. /\ frames' = rest /\ diags' = diags \cup {why} /\ why # "import cycle"
        /\ UNCHANGED << world, phase, calls, visited, nodes, result >>
    BY <1>4, <1>6
  <2>2. /\ calls = << >> /\ nodes = << >> /\ visited = {} /\ CallTypes(calls)
        /\ Loaded(world) /\ IsSequence(nodes) /\ "import cycle" \notin diags
    BY <1>1 DEF GraphInv
  <2>3. /\ Loaded(world)' /\ CallTypes(calls)' /\ IsSequence(nodes)' /\ "import cycle" \notin diags'
    BY <2>1, <2>2 DEF Loaded, CallTypes
  <2>4. FrameTypes(frames)' BY <1>3, <2>1
  <2>5. QED BY <1>1, <1>3, <2>1, <2>2, <2>3, <2>4 DEF GraphInv
<1>7. QED BY <1>5, <1>6

-----------------------------------------------------------------------------
(* Modules.                                                                *)

\* The discovery goes on with these calls.
LEMMA GoesOn ==
    ASSUME GraphInv, phase \in {"resolve", "discover"}, NEW ds,
           ~CollectOwnedSourcePathsForLink(Top.linked).clash,
           CallTypes(ds), Path(ds), Once(ds), Backwards, Waiting(ds, {}), Entered(ds),
           calls' = ds, phase' = "discover",
           UNCHANGED << world, frames, visited, nodes, diags, result >>
    PROVE  GraphInv'
<1>1. /\ Loaded(world) /\ FrameTypes(frames) /\ IsSequence(nodes)
      /\ "import cycle" \notin diags /\ frames # << >>
  BY DEF GraphInv
<1>2. /\ Loaded(world)' /\ FrameTypes(frames)' /\ IsSequence(nodes)'
      /\ "import cycle" \notin diags' /\ frames' # << >>
  BY <1>1 DEF Loaded, FrameTypes
<1>3. CallTypes(calls)' BY DEF CallTypes
<1>4. ~CollectOwnedSourcePathsForLink(Top.linked).clash'
  BY DEF Top
<1>5. Path(calls)'
  <2>1. \A m : /\ (MergedImports(m))' = MergedImports(m)
               /\ Imported(Top.target, Top.linked, m)' = Imported(Top.target, Top.linked, m)
    BY SameImports
  <2>2. QED BY <2>1 DEF Path
<1>6. External' = External /\ \A m : IsEntry(m)' = IsEntry(m) BY SameImports
<1>7. Once(calls)' BY DEF Once
<1>8. Backwards' BY <1>6 DEF Backwards
<1>9. Waiting(calls, {})' BY <1>6 DEF Waiting
<1>10. Entered(calls)' BY <1>6 DEF Entered
<1>11. QED BY <1>2, <1>3, <1>4, <1>5, <1>7, <1>8, <1>9, <1>10 DEF GraphInv

\* A module is visited below some calls: a finished one needs nothing more, an
\* active one is a cycle, and a new one gets a call of its own.
LEMMA VisitKeeps ==
    ASSUME GraphInv, phase \in {"resolve", "discover"}, NEW m, NEW cs,
           ~CollectOwnedSourcePathsForLink(Top.linked).clash,
           CallTypes(cs), Path(cs), Once(cs), Backwards, Waiting(cs, {m.key}),
           cs = << >> => IsEntry(m) /\ nodes = << >>,
           cs # << >> => /\ Entered(cs) /\ m.primary \notin External
                         /\ m \in Imported(Top.target, Top.linked, Last(cs).module),
           Visit(m, cs)
    PROVE  GraphInv'
<1> DEFINE call == [module |-> m, imports |-> << >>, todo |-> MergedImports(m)]
<1>1. CASE \E why : Fail(why) BY <1>1, FailKeeps
<1>2. CASE /\ m.key \in visited /\ calls' = cs /\ phase' = "discover"
           /\ UNCHANGED << world, frames, visited, nodes, diags, result >>
  <2>1. cs # << >>
    <3>1. nodes # << >>
      <4>1. nodes = << >> => DOMAIN nodes = {} BY Single, SequenceFacts
      <4>2. QED BY <1>2, <4>1 DEF Once
    <3>2. QED BY <3>1
  <2>2. Waiting(cs, {}) BY <1>2 DEF Waiting
  <2>3. QED BY <1>2, <2>1, <2>2, GoesOn
<1>3. CASE /\ m.key \notin visited /\ ~ \E i \in DOMAIN cs : cs[i].module.key = m.key
           /\ calls' = Append(cs, call) /\ phase' = "discover"
           /\ UNCHANGED << world, frames, visited, nodes, diags, result >>
  <2> DEFINE ds == Append(cs, call)
  <2>1. IsSequence(cs) BY DEF CallTypes
  <2>2. /\ DOMAIN call = CallFields /\ call.module = m /\ call.imports = << >>
        /\ call.todo = MergedImports(m)
    BY DEF CallFields
  <2>3. IsSequence(MergedImports(m))
    <3>1. IsSequence(world.names) BY DEF GraphInv, Loaded, IsSequence
    <3>2. QED BY <3>1, AmongFacts DEF MergedImports
  <2> HIDE DEF call
  <2>4. /\ IsSequence(ds) /\ Len(ds) = Len(cs) + 1 /\ Len(cs) \in Nat
        /\ \A i \in 1 .. Len(cs) : ds[i] = cs[i]
        /\ ds[Len(cs) + 1] = call
    BY <2>1, Appended, SequenceFacts
  <2>5. DOMAIN ds = 1 .. Len(cs) + 1 /\ DOMAIN cs = 1 .. Len(cs)
    BY <2>1, <2>4, SequenceFacts
  <2>6. calls' = ds BY <1>3
  <2> HIDE DEF ds
  <2>7. \A i \in DOMAIN ds : \/ i \in DOMAIN cs /\ ds[i] = cs[i]
                             \/ i = Len(cs) + 1 /\ ds[i] = call
    BY <2>4, <2>5
  <2>8. CallTypes(ds)
    <3>1. IsSequence(call.imports) BY <2>2, Single
    <3>2. QED BY <2>2, <2>3, <2>4, <2>7, <3>1 DEF CallTypes
  <2>9. Path(ds)
    <3>1. ASSUME NEW i \in DOMAIN ds
          PROVE  Range(ds[i].todo) \subseteq Range(MergedImports(ds[i].module))
      BY <2>2, <2>7 DEF Path
    <3>2. ASSUME NEW i \in DOMAIN ds, i > 1
          PROVE  ds[i].module \in Imported(Top.target, Top.linked, ds[i - 1].module)
      <4>1. i - 1 \in 1 .. Len(cs) /\ ds[i - 1] = cs[i - 1] BY <2>4, <2>5, <3>2
      <4>2. CASE i = Len(cs) + 1
        <5>1. i - 1 = Len(cs) /\ cs # << >> BY <2>4, <4>1, <4>2, Single
        <5>2. Last(cs) = cs[Len(cs)] BY DEF Last
        <5>3. QED BY <2>2, <2>4, <4>1, <4>2, <5>1, <5>2
      <4>3. CASE i # Len(cs) + 1
        <5>1. i \in DOMAIN cs /\ ds[i] = cs[i] BY <2>7, <4>3
        <5>2. QED BY <3>2, <4>1, <5>1 DEF Path
      <4>4. QED BY <4>2, <4>3
    <3>3. QED BY <3>1, <3>2 DEF Path
  <2>10. Once(ds)
    <3>1. ASSUME NEW i \in DOMAIN ds PROVE ds[i].module.key \notin visited
      BY <1>3, <2>2, <2>7 DEF Once
    <3>2. ASSUME NEW i \in DOMAIN ds, NEW j \in DOMAIN ds, ds[i].module.key = ds[j].module.key
          PROVE  i = j
      BY <1>3, <2>2, <2>7, <3>2 DEF Once
    <3>3. QED BY <3>1, <3>2 DEF Once
  <2>11. Waiting(ds, {})
    <3> SUFFICES ASSUME NEW i \in DOMAIN ds, NEW x \in Range(ds[i].imports)
                 PROVE  \/ x.key \in visited \/ x.primary \in External
                        \/ i < Len(ds) /\ x.key = ds[i + 1].module.key
      BY DEF Waiting
    <3>1. i \in DOMAIN cs /\ ds[i] = cs[i]
      <4>1. Range(call.imports) = {}
        <5>1. DOMAIN << >> = {} BY Single, SequenceFacts
        <5>2. QED BY <2>2, <5>1 DEF Range
      <4>2. QED BY <2>7, <4>1
    <3>2. \/ x.key \in visited \/ x.primary \in External
          \/ i < Len(cs) /\ x.key = cs[i + 1].module.key
          \/ i = Len(cs) /\ x.key = m.key
      BY <3>1 DEF Waiting
    <3>3. CASE i < Len(cs) /\ x.key = cs[i + 1].module.key
      <4>1. i + 1 \in 1 .. Len(cs) BY <2>4, <2>5, <3>1, <3>3
      <4>2. QED BY <2>4, <3>3, <4>1
    <3>4. CASE i = Len(cs) /\ x.key = m.key BY <2>2, <2>4, <3>4
    <3>5. QED BY <3>2, <3>3, <3>4
  <2>12. Entered(ds)
    <3>1. ds # << >> BY <2>4, Single
    <3>2. CASE cs = << >>
      <4>1. Len(cs) = 0 /\ DOMAIN nodes = {} /\ DOMAIN cs = {} BY <3>2, Single, SequenceFacts
      <4>2. ds[1] = call BY <2>4, <4>1
      <4>3. \A i \in DOMAIN ds : i = 1 BY <2>5, <4>1
      <4>4. QED BY <2>2, <3>1, <3>2, <4>1, <4>2, <4>3 DEF Entered
    <3>3. CASE cs # << >>
      <4>1. Len(cs) \in Nat \ {0} BY <2>1, <3>3, Shortened
      <4>2. 1 \in 1 .. Len(cs) /\ ds[1] = cs[1] BY <2>4, <4>1
      <4>3. \A i \in DOMAIN nodes : nodes[i].primary \notin External BY <3>3 DEF Entered
      <4>4. \A i \in DOMAIN ds : ds[i].module.primary \in External => i = 1
        BY <2>2, <2>7, <3>3 DEF Entered
      <4>5. IsEntry(ds[1].module) BY <3>3, <4>2 DEF Entered
      <4>6. QED BY <3>1, <4>3, <4>4, <4>5 DEF Entered
    <3>4. QED BY <3>2, <3>3
  <2>13. QED BY <1>3, <2>6, <2>8, <2>9, <2>10, <2>11, <2>12, GoesOn
<1>4. QED BY <1>1, <1>2, <1>3 DEF Visit

\* The entry of a target is visited (DiscoverModuleGraph).
LEMMA DiscoverKeeps ==
    ASSUME GraphInv, DiscoverModuleGraph
    PROVE  GraphInv'
<1> DEFINE m == EntryModule(Top.target, Top.linked)
<1>1. /\ phase = "resolve" /\ frames # << >> /\ FrameTypes(frames)
      /\ nodes = << >> /\ visited = {}
  BY DEF DiscoverModuleGraph, GraphInv
<1>2. CASE \E why : Fail(why) BY <1>2, FailKeeps
<1>3. CASE ~CollectOwnedSourcePathsForLink(Top.linked).clash /\ Visit(m, << >>)
  <2>1. IsEntry(m)
    <3>1. IsSequence(Top.linked) /\ \A k \in DOMAIN Top.linked : IsGraph(Top.linked[k])
      BY <1>1, TopFrame
    <3> HIDE DEF m
    <3>2. m.primary = Top.target.root \/ Top.target.root \in Range(m.sources)
      BY <3>1, EntryOwnsRoot DEF m
    <3>3. QED BY <3>2 DEF IsEntry
  <2> HIDE DEF m
  <2>2. DOMAIN << >> = {} BY Single, SequenceFacts
  <2>3. CallTypes(<< >>) /\ Path(<< >>) /\ Once(<< >>) /\ Backwards /\ Waiting(<< >>, {m.key})
    BY <1>1, <2>2, Single DEF CallTypes, Path, Once, Backwards, Waiting
  <2>4. QED BY <1>1, <1>3, <2>1, <2>3, VisitKeeps
<1>4. QED BY <1>2, <1>3 DEF DiscoverModuleGraph

\* The innermost call records what its next import resolved to.
LEMMA CallChanges ==
    ASSUME CallTypes(calls), calls # << >>, Last(calls).todo # << >>, NEW x, NEW rest,
           rest = [calls EXCEPT ![Len(calls)].todo = Tail(@), ![Len(calls)].imports = Append(@, x)]
    PROVE  /\ CallTypes(rest) /\ DOMAIN rest = DOMAIN calls /\ Len(rest) = Len(calls)
           /\ \A i \in DOMAIN calls :
                 /\ rest[i].module = calls[i].module
                 /\ Range(rest[i].todo) \subseteq Range(calls[i].todo)
                 /\ Range(rest[i].imports) \subseteq
                       Range(calls[i].imports) \cup (IF i = Len(calls) THEN {x} ELSE {})
<1> DEFINE L == Len(calls)
           c == calls[Len(calls)]
<1>1. L \in DOMAIN calls /\ DOMAIN calls = 1 .. L /\ L \in Nat \ {0} /\ Last(calls) = c
  <2>1. IsSequence(calls) BY DEF CallTypes
  <2>2. L \in Nat \ {0} /\ Last(calls) = c /\ DOMAIN calls = 1 .. L
    BY <2>1, Shortened, SequenceFacts
  <2>3. QED BY <2>2
<1>2. DOMAIN c = CallFields /\ IsSequence(c.imports) /\ IsSequence(c.todo) /\ c.todo # << >>
  BY <1>1 DEF CallTypes
<1> DEFINE d == [c EXCEPT !.todo = Tail(c.todo), !.imports = Append(c.imports, x)]
<1>3. rest = [calls EXCEPT ![L] = d]
  BY <1>1, <1>2 DEF CallFields
<1>4. /\ DOMAIN d = CallFields /\ d.module = c.module /\ d.todo = Tail(c.todo)
      /\ d.imports = Append(c.imports, x)
  BY <1>2 DEF CallFields
<1>5. /\ IsSequence(d.todo) /\ Range(d.todo) \subseteq Range(c.todo)
  <2>1. /\ IsSequence(Tail(c.todo)) /\ Len(Tail(c.todo)) = Len(c.todo) - 1
        /\ \A i \in 1 .. Len(c.todo) - 1 : Tail(c.todo)[i] = c.todo[i + 1]
        /\ Len(c.todo) \in Nat
    BY <1>2, Shortened
  <2>2. DOMAIN Tail(c.todo) = 1 .. Len(c.todo) - 1 /\ DOMAIN c.todo = 1 .. Len(c.todo)
    BY <1>2, <2>1, SequenceFacts
  <2>3. ASSUME NEW i \in 1 .. Len(c.todo) - 1
        PROVE  i + 1 \in DOMAIN c.todo /\ Tail(c.todo)[i] = c.todo[i + 1]
    BY <2>1, <2>2
  <2>4. Range(Tail(c.todo)) \subseteq Range(c.todo) BY <2>2, <2>3 DEF Range
  <2>5. QED BY <1>4, <2>1, <2>4
<1>6. IsSequence(d.imports) /\ Range(d.imports) = Range(c.imports) \cup {x}
  BY <1>2, <1>4, Appended
<1> HIDE DEF d
<1>7. ASSUME NEW i \in DOMAIN calls
      PROVE  rest[i] = IF i = L THEN d ELSE calls[i]
  BY <1>3
<1>8. DOMAIN rest = DOMAIN calls BY <1>3
<1>9. IsSequence(rest) /\ Len(rest) = L
  <2> DEFINE r == rest
  <2>1. r = [i \in 1 .. L |-> r[i]] BY <1>1, <1>3
  <2>2. L \in Nat BY <1>1
  <2> HIDE DEF L, r
  <2>3. IsSequence(r) /\ Len(r) = L BY <2>1, <2>2, Listed
  <2>4. QED BY <2>3 DEF r
<1>10. ASSUME NEW i \in DOMAIN rest
       PROVE  /\ DOMAIN rest[i] = CallFields
              /\ IsSequence(rest[i].imports) /\ IsSequence(rest[i].todo)
  <2>1. CASE i = L BY <1>4, <1>5, <1>6, <1>7, <1>8, <2>1
  <2>2. CASE i # L BY <1>7, <1>8, <2>2 DEF CallTypes
  <2>3. QED BY <2>1, <2>2
<1>11. CallTypes(rest) BY <1>9, <1>10 DEF CallTypes
<1>12. ASSUME NEW i \in DOMAIN calls
       PROVE  /\ rest[i].module = calls[i].module
              /\ Range(rest[i].todo) \subseteq Range(calls[i].todo)
              /\ Range(rest[i].imports) \subseteq
                       Range(calls[i].imports) \cup (IF i = L THEN {x} ELSE {})
  <2>1. CASE i = L BY <1>4, <1>5, <1>6, <1>7, <2>1
  <2>2. CASE i # L BY <1>7, <2>2
  <2>3. QED BY <2>1, <2>2
<1>13. QED BY <1>8, <1>9, <1>11, <1>12

\* One import of the innermost call (VisitImport).
LEMMA ImportKeeps ==
    ASSUME GraphInv, VisitImport
    PROVE  GraphInv'
<1> DEFINE call     == Last(calls)
           name     == Head(call.todo)
           found    == ResolveImportPathWithPackageRules(
                           Top.target, Top.linked, call.module.package, name)
           m        == found.module
           rest     == [calls EXCEPT
                           ![Len(calls)].todo = Tail(@),
                           ![Len(calls)].imports = Append(@, found.module)]
<1>1. /\ phase = "discover" /\ calls # << >> /\ call.todo # << >> /\ CallTypes(calls)
      /\ ~CollectOwnedSourcePathsForLink(Top.linked).clash
      /\ Path(calls) /\ Once(calls) /\ Backwards /\ Waiting(calls, {}) /\ Entered(calls)
  BY DEF VisitImport, GraphInv
<1>2. CASE \E why : Fail(why) BY <1>2, FailKeeps
<1>3. CASE /\ found.ok
           /\ \/ /\ m.primary \in External /\ calls' = rest
                 /\ UNCHANGED << world, phase, frames, visited, nodes, diags, result >>
              \/ m.primary \notin External /\ Visit(m, rest)
  <2>1. /\ CallTypes(rest) /\ DOMAIN rest = DOMAIN calls /\ Len(rest) = Len(calls)
        /\ \A i \in DOMAIN calls :
              /\ rest[i].module = calls[i].module
              /\ Range(rest[i].todo) \subseteq Range(calls[i].todo)
              /\ Range(rest[i].imports) \subseteq
                    Range(calls[i].imports) \cup (IF i = Len(calls) THEN {m} ELSE {})
    BY <1>1, CallChanges
  <2>2. /\ Len(calls) \in Nat \ {0} /\ DOMAIN calls = 1 .. Len(calls)
        /\ call = calls[Len(calls)]
    BY <1>1, Shortened, SequenceFacts DEF CallTypes
  <2>3. m \in Imported(Top.target, Top.linked, call.module)
    <3>1. Len(calls) \in DOMAIN calls BY <2>2
    <3>2. IsSequence(call.todo) /\ Range(call.todo) \subseteq Range(MergedImports(call.module))
      BY <1>1, <2>2, <3>1 DEF CallTypes, Path
    <3>3. /\ name = call.todo[1] /\ Len(call.todo) \in Nat \ {0}
          /\ DOMAIN call.todo = 1 .. Len(call.todo)
      BY <1>1, <3>2, Shortened, SequenceFacts
    <3>4. name \in Range(call.todo) BY <3>3 DEF Range
    <3>5. name \in Range(MergedImports(call.module)) BY <3>2, <3>4
    <3> HIDE DEF call, name
    <3>6. QED BY <1>3, <3>5 DEF Imported
  <2> HIDE DEF rest, found, call
  <2>4. Path(rest)
    <3>1. ASSUME NEW i \in DOMAIN rest
          PROVE  Range(rest[i].todo) \subseteq Range(MergedImports(rest[i].module))
      BY <1>1, <2>1 DEF Path
    <3>2. ASSUME NEW i \in DOMAIN rest, i > 1
          PROVE  rest[i].module \in Imported(Top.target, Top.linked, rest[i - 1].module)
      <4>1. i \in DOMAIN calls /\ i - 1 \in DOMAIN calls BY <2>1, <2>2, <3>2
      <4>2. calls[i].module \in Imported(Top.target, Top.linked, calls[i - 1].module)
        BY <1>1, <3>2, <4>1 DEF Path
      <4>3. rest[i].module = calls[i].module /\ rest[i - 1].module = calls[i - 1].module
        BY <2>1, <4>1
      <4>4. QED BY <4>2, <4>3
    <3>3. QED BY <3>1, <3>2 DEF Path
  <2>5. Once(rest) BY <1>1, <2>1 DEF Once
  <2>6. rest # << >> BY <2>1, <2>2, Single
  <2>7. Entered(rest)
    <3>1. 1 \in DOMAIN calls BY <2>2
    <3>2. IsEntry(rest[1].module) BY <1>1, <2>1, <3>1 DEF Entered
    <3>3. \A i \in DOMAIN nodes : nodes[i].primary \notin External BY <1>1 DEF Entered
    <3>4. \A i \in DOMAIN rest : rest[i].module.primary \in External => i = 1
      BY <1>1, <2>1 DEF Entered
    <3>5. QED BY <2>6, <3>2, <3>3, <3>4 DEF Entered
  <2>8. ASSUME NEW i \in DOMAIN rest, NEW x \in Range(rest[i].imports)
        PROVE  \/ x.key \in visited \/ x.primary \in External
               \/ i < Len(rest) /\ x.key = rest[i + 1].module.key
               \/ i = Len(rest) /\ x = m
    <3>1. CASE x \in Range(calls[i].imports)
      <4>1. \/ x.key \in visited \/ x.primary \in External
            \/ i < Len(calls) /\ x.key = calls[i + 1].module.key
        BY <1>1, <2>1, <3>1 DEF Waiting
      <4>2. i < Len(calls) => i + 1 \in DOMAIN calls BY <2>1, <2>2
      <4>3. QED BY <2>1, <4>1, <4>2
    <3>2. CASE x \notin Range(calls[i].imports)
      <4>1. i = Len(calls) /\ x = m BY <2>1, <3>2
      <4>2. QED BY <2>1, <4>1
    <3>3. QED BY <3>1, <3>2
  <2>9. CASE m.primary \in External /\ calls' = rest
             /\ UNCHANGED << world, phase, frames, visited, nodes, diags, result >>
    <3>1. Waiting(rest, {})
      <4>1. ASSUME NEW i \in DOMAIN rest, NEW x \in Range(rest[i].imports)
            PROVE  \/ x.key \in visited \/ x.primary \in External
                   \/ i < Len(rest) /\ x.key = rest[i + 1].module.key
        BY <2>8, <2>9
      <4>2. QED BY <4>1 DEF Waiting
    <3>2. phase' = "discover" BY <1>1, <2>9
    <3>3. QED BY <1>1, <2>1, <2>4, <2>5, <2>7, <2>9, <3>1, <3>2, GoesOn
  <2>10. CASE m.primary \notin External /\ Visit(m, rest)
    <3>1. Waiting(rest, {m.key}) BY <2>8 DEF Waiting
    <3>2. Last(rest).module = call.module
      <4>1. Len(calls) \in DOMAIN calls BY <2>2
      <4>2. Last(rest) = rest[Len(calls)] BY <2>1 DEF Last
      <4>3. QED BY <2>1, <2>2, <4>1, <4>2
    <3>3. m \in Imported(Top.target, Top.linked, Last(rest).module) BY <2>3, <3>2
    <3>4. QED BY <1>1, <2>1, <2>4, <2>5, <2>6, <2>7, <2>10, <3>1, <3>3, VisitKeeps
  <2>11. QED BY <1>3, <2>9, <2>10 DEF found
<1>4. QED BY <1>2, <1>3 DEF VisitImport, External

\* The innermost call has visited its imports (FinishModule).
LEMMA FinishKeeps ==
    ASSUME GraphInv, FinishModule
    PROVE  GraphInv'
<1> DEFINE call == Last(calls)
           m    == call.module
           node == Node(m, call.imports)
           n    == Len(calls)
           N    == Len(nodes)
           cs   == Front(calls)
           ns   == Append(nodes, node)
<1>1. /\ phase = "discover" /\ calls # << >> /\ frames # << >> /\ CallTypes(calls)
      /\ ~CollectOwnedSourcePathsForLink(Top.linked).clash
      /\ Path(calls) /\ Once(calls) /\ Backwards /\ Waiting(calls, {}) /\ Entered(calls)
      /\ IsSequence(nodes) /\ Loaded(world) /\ FrameTypes(frames) /\ "import cycle" \notin diags
  BY DEF FinishModule, GraphInv
<1>2. /\ visited' = visited \cup {m.key} /\ nodes' = ns /\ calls' = cs
      /\ UNCHANGED << world, phase, frames, diags, result >>
  BY DEF FinishModule
<1>3. /\ node.key = m.key /\ node.primary = m.primary /\ node.sources = m.sources
      /\ node.imports = call.imports
  BY DEF Node
<1>4. /\ n \in Nat \ {0} /\ call = calls[n] /\ DOMAIN calls = 1 .. n
      /\ IsSequence(cs) /\ Len(cs) = n - 1 /\ DOMAIN cs = 1 .. n - 1
      /\ \A i \in 1 .. n - 1 : cs[i] = calls[i]
  <2>1. IsSequence(calls) BY <1>1 DEF CallTypes
  <2>2. /\ n \in Nat \ {0} /\ call = calls[n] /\ DOMAIN calls = 1 .. n
        /\ IsSequence(cs) /\ Len(cs) = n - 1
        /\ \A i \in 1 .. n - 1 : cs[i] = calls[i]
    BY <1>1, <2>1, Shortened, SequenceFacts
  <2>3. DOMAIN cs = 1 .. n - 1 BY <2>2, SequenceFacts
  <2>4. QED BY <2>2, <2>3
<1> HIDE DEF node
<1>5. /\ IsSequence(ns) /\ Len(ns) = N + 1 /\ N \in Nat
      /\ DOMAIN ns = 1 .. N + 1 /\ DOMAIN nodes = 1 .. N
      /\ \A i \in 1 .. N : ns[i] = nodes[i]
      /\ ns[N + 1] = node
  <2> DEFINE o == nodes
             x == node
  <2>1. IsSequence(o) BY <1>1
  <2> HIDE DEF o, x
  <2>2. /\ IsSequence(Append(o, x)) /\ Len(Append(o, x)) = Len(o) + 1
        /\ \A i \in 1 .. Len(o) : Append(o, x)[i] = o[i]
        /\ Append(o, x)[Len(o) + 1] = x
        /\ Len(o) \in Nat /\ DOMAIN o = 1 .. Len(o)
    BY <2>1, Appended, SequenceFacts
  <2>3. DOMAIN Append(o, x) = 1 .. Len(o) + 1 BY <2>2, SequenceFacts
  <2>4. QED BY <2>2, <2>3 DEF o, x
<1> HIDE DEF call, n, N, cs, ns
<1>6. n \in DOMAIN calls /\ m.key \notin visited
  <2>1. n \in DOMAIN calls BY <1>4
  <2>2. calls[n].module.key \notin visited BY <1>1, <2>1 DEF Once
  <2>3. QED BY <1>4, <2>1, <2>2
<1>7. /\ External' = External
      /\ \A x : /\ IsEntry(x)' = IsEntry(x)
                /\ (MergedImports(x))' = MergedImports(x)
                /\ Imported(Top.target, Top.linked, x)' = Imported(Top.target, Top.linked, x)
  BY <1>2, SameImports
<1>8. CallTypes(calls)'
  <2>1. \A i \in DOMAIN cs : i \in DOMAIN calls /\ cs[i] = calls[i] BY <1>4
  <2>2. CallTypes(cs) BY <1>1, <1>4, <2>1 DEF CallTypes
  <2>3. QED BY <1>2, <2>2
<1>9. Path(calls)'
  <2>1. ASSUME NEW i \in DOMAIN cs, i > 1
        PROVE  cs[i].module \in Imported(Top.target, Top.linked, cs[i - 1].module)
    <3>1. i \in DOMAIN calls /\ i - 1 \in 1 .. n - 1 BY <1>4, <2>1
    <3>2. QED BY <1>1, <1>4, <2>1, <3>1 DEF Path
  <2>2. \A i \in DOMAIN cs : Range(cs[i].todo) \subseteq Range(MergedImports(cs[i].module))
    <3>1. \A i \in DOMAIN cs : i \in DOMAIN calls /\ cs[i] = calls[i] BY <1>4
    <3>2. QED BY <1>1, <3>1 DEF Path
  <2>3. QED BY <1>2, <1>7, <2>1, <2>2 DEF Path
<1>10. Once(calls)'
  <2>1. visited' = {ns[i].key : i \in DOMAIN ns}
    <3>1. visited = {nodes[i].key : i \in DOMAIN nodes} BY <1>1 DEF Once
    <3>2. \A i \in DOMAIN ns : ns[i].key \in visited \cup {m.key}
      <4>1. \A i \in DOMAIN ns : i \in 1 .. N \/ i = N + 1 BY <1>5
      <4>2. QED BY <1>3, <1>5, <3>1, <4>1
    <3>3. \A i \in DOMAIN nodes : i \in DOMAIN ns /\ ns[i] = nodes[i] BY <1>5
    <3>4. N + 1 \in DOMAIN ns BY <1>5
    <3>5. QED BY <1>2, <1>3, <1>5, <3>1, <3>2, <3>3, <3>4
  <2>2. ASSUME NEW i \in DOMAIN ns, NEW j \in DOMAIN ns, ns[i].key = ns[j].key
        PROVE  i = j
    <3>1. \A k \in DOMAIN ns : \/ k \in DOMAIN nodes /\ ns[k] = nodes[k] /\ nodes[k].key \in visited
                               \/ k = N + 1 /\ ns[k].key = m.key
      <4>1. \A k \in DOMAIN ns : k \in 1 .. N \/ k = N + 1 BY <1>5
      <4>2. QED BY <1>1, <1>3, <1>5, <4>1 DEF Once
    <3>2. QED BY <1>1, <1>6, <2>2, <3>1 DEF Once
  <2>3. ASSUME NEW i \in DOMAIN cs PROVE cs[i].module.key \notin visited \cup {m.key}
    <3>1. i \in DOMAIN calls /\ i # n /\ cs[i] = calls[i] BY <1>4
    <3>2. QED BY <1>1, <1>4, <1>6, <3>1 DEF Once
  <2>4. ASSUME NEW i \in DOMAIN cs, NEW j \in DOMAIN cs, cs[i].module.key = cs[j].module.key
        PROVE  i = j
    <3>1. i \in DOMAIN calls /\ cs[i] = calls[i] /\ j \in DOMAIN calls /\ cs[j] = calls[j]
      BY <1>4
    <3>2. QED BY <1>1, <2>4, <3>1 DEF Once
  <2>5. QED BY <1>2, <2>1, <2>2, <2>3, <2>4 DEF Once
<1>11. Backwards'
  <2>1. ASSUME NEW i \in DOMAIN ns, NEW x \in Range(ns[i].imports)
        PROVE  (\E k \in 1 .. i - 1 : ns[k].key = x.key) \/ x.primary \in External
    <3>1. CASE i = N + 1
      <4>1. x \in Range(calls[n].imports) BY <1>3, <1>4, <1>5, <3>1
      <4>2. x.key \in visited \/ x.primary \in External
        <5>1. n = Len(calls) /\ ~(n < Len(calls)) BY <1>4 DEF n
        <5>2. QED BY <1>1, <1>6, <4>1, <5>1 DEF Waiting
      <4>3. CASE x.key \in visited
        <5>1. PICK k \in DOMAIN nodes : nodes[k].key = x.key BY <1>1, <4>3 DEF Once
        <5>2. k \in 1 .. i - 1 /\ ns[k].key = x.key BY <1>5, <3>1, <5>1
        <5>3. QED BY <5>2
      <4>4. QED BY <4>2, <4>3
    <3>2. CASE i # N + 1
      <4>1. i \in DOMAIN nodes /\ ns[i] = nodes[i] /\ i - 1 <= N BY <1>5, <3>2
      <4>2. (\E k \in 1 .. i - 1 : nodes[k].key = x.key) \/ x.primary \in External
        BY <1>1, <4>1 DEF Backwards
      <4>3. \A k \in 1 .. i - 1 : ns[k] = nodes[k] BY <1>5, <4>1
      <4>4. QED BY <4>2, <4>3
    <3>3. QED BY <3>1, <3>2
  <2>2. QED BY <1>2, <1>7, <2>1 DEF Backwards
<1>12. Waiting(calls, {})'
  <2>1. ASSUME NEW i \in DOMAIN cs, NEW x \in Range(cs[i].imports)
        PROVE  \/ x.key \in visited \cup {m.key} \/ x.primary \in External
               \/ i < Len(cs) /\ x.key = cs[i + 1].module.key
    <3>1. i \in DOMAIN calls /\ i < n /\ cs[i] = calls[i] BY <1>4
    <3>2. \/ x.key \in visited \/ x.primary \in External
          \/ x.key = calls[i + 1].module.key
      BY <1>1, <3>1 DEF Waiting, n
    <3>3. CASE i + 1 = n
      <4>1. calls[i + 1].module = m BY <1>4, <3>3
      <4>2. QED BY <3>2, <4>1
    <3>4. CASE i + 1 # n
      <4>1. i < Len(cs) /\ cs[i + 1] = calls[i + 1] BY <1>4, <3>1, <3>4
      <4>2. QED BY <3>2, <4>1
    <3>5. QED BY <3>3, <3>4
  <2>2. QED BY <1>2, <1>7, <2>1 DEF Waiting
<1>13. Entered(calls)'
  <2>1. \A i \in DOMAIN nodes : nodes[i].primary \notin External BY <1>1 DEF Entered
  <2>2. ASSUME NEW i \in DOMAIN cs, cs[i].module.primary \in External PROVE i = 1
    <3>1. i \in DOMAIN calls /\ cs[i] = calls[i] BY <1>4
    <3>2. QED BY <1>1, <2>2, <3>1 DEF Entered
  <2>3. CASE n = 1
    <3>1. cs = << >>
      <4>1. Len(cs) = 0 BY <1>4, <2>3
      <4>2. cs \in Seq(Range(cs)) BY <1>4 DEF IsSequence
      <4>3. QED BY <4>1, <4>2
    <3>2. IsEntry(m) BY <1>1, <1>4, <2>3 DEF Entered
    <3>3. ns # << >> /\ Last(ns) = node
      <4>1. ns # << >> BY <1>5, Single
      <4>2. QED BY <1>5, <4>1 DEF Last
    <3>4. IsEntry(Last(ns)) BY <1>3, <3>2, <3>3 DEF IsEntry
    <3>5. \A i \in DOMAIN ns : ns[i].primary \in External => i = Len(ns)
      <4>1. \A i \in DOMAIN ns : (i \in DOMAIN nodes /\ ns[i] = nodes[i]) \/ i = Len(ns) BY <1>5
      <4>2. QED BY <2>1, <4>1
    <3>6. QED BY <1>2, <1>7, <2>2, <3>1, <3>3, <3>4, <3>5 DEF Entered
  <2>4. CASE n # 1
    <3>1. 1 \in 1 .. n - 1 BY <1>4, <2>4
    <3>2. cs # << >> BY <1>4, <2>4, Single
    <3>3. IsEntry(cs[1].module) BY <1>1, <1>4, <3>1 DEF Entered
    <3>4. m.primary \notin External BY <1>1, <1>4, <1>6, <2>4 DEF Entered
    <3>5. \A i \in DOMAIN ns : ns[i].primary \notin External
      <4>1. \A i \in DOMAIN ns : \/ i \in DOMAIN nodes /\ ns[i] = nodes[i]
                                 \/ ns[i] = node
        BY <1>5
      <4>2. QED BY <1>3, <2>1, <3>4, <4>1
    <3>6. QED BY <1>2, <1>7, <2>2, <3>2, <3>3, <3>5 DEF Entered
  <2>5. QED BY <2>3, <2>4
<1>14. /\ Loaded(world)' /\ FrameTypes(frames)' /\ IsSequence(nodes)'
       /\ "import cycle" \notin diags' /\ frames' # << >> /\ phase' = "discover"
       /\ ~CollectOwnedSourcePathsForLink(Top.linked).clash'
  BY <1>1, <1>2, <1>5 DEF Loaded, FrameTypes, Top
<1>15. QED BY <1>8, <1>9, <1>10, <1>11, <1>12, <1>13, <1>14 DEF GraphInv

\* A target in order stays so above more libraries.
LEMMA MoreBelow ==
    ASSUME NEW part, NEW less, NEW more, less \subseteq more, InOrder(part, less)
    PROVE  InOrder(part, more)
BY DEF InOrder

\* The node that compiles a module is found by its key.
LEMMA NodeFound ==
    ASSUME NEW ns, NEW i \in DOMAIN ns,
           \A j, k \in DOMAIN ns : ns[j].key = ns[k].key => j = k
    PROVE  NodeIndex(ns, ns[i].key) = i
BY DEF NodeIndex

\* A library of a flattened list of graphs keeps its place among its own.
LEMMA PartPlace ==
    ASSUME NEW graphs, IsSequence(graphs), \A i \in DOMAIN graphs : IsGraph(graphs[i]),
           NEW flat, flat = FlattenSeq(graphs)
    PROVE  /\ IsSequence(flat)
           /\ \A p \in DOMAIN flat : IsSequence(flat[p].nodes)
           /\ InImportOrder(flat)
           /\ OwnedSources(flat) = UNION {OwnedSources(graphs[i]) : i \in DOMAIN graphs}
<1>1. DOMAIN graphs = 1 .. Len(graphs) /\ Len(graphs) \in Nat BY SequenceFacts
<1>2. ASSUME NEW i \in 1 .. Len(graphs)
      PROVE  /\ IsSequence(graphs[i]) /\ Len(graphs[i]) \in Nat
             /\ DOMAIN graphs[i] = 1 .. Len(graphs[i])
             /\ InImportOrder(graphs[i])
             /\ \A g \in DOMAIN graphs[i] : IsSequence(graphs[i][g].nodes)
  BY <1>1, SequenceFacts DEF IsGraph
<1>3. Blocks(graphs, flat, Len(graphs)) BY <1>2, Flattened
<1>4. IsSequence(flat) /\ DOMAIN flat = 1 .. Len(flat) /\ Len(flat) \in Nat
  BY <1>3, SequenceFacts DEF Blocks
<1>5. ASSUME NEW p \in DOMAIN flat
      PROVE  \E i \in 1 .. Len(graphs), d \in Nat, k \in Nat :
                /\ k \in 1 .. Len(graphs[i]) /\ p = d + k /\ flat[p] = graphs[i][k]
                /\ d + Len(graphs[i]) <= Len(flat)
                /\ \A l \in 1 .. Len(graphs[i]) : flat[d + l] = graphs[i][l]
  <2>1. PICK i \in 1 .. Len(graphs), d \in Nat :
           Block(graphs, flat, i, d) /\ d < p /\ p <= d + Len(graphs[i])
    BY <1>3, <1>4 DEF Blocks
  <2>2. /\ d + Len(graphs[i]) <= Len(flat)
        /\ \A l \in 1 .. Len(graphs[i]) : flat[d + l] = graphs[i][l]
    BY <2>1 DEF Block
  <2>3. p - d \in 1 .. Len(graphs[i]) /\ p = d + (p - d) /\ p - d \in Nat
    <3> DEFINE n == Len(graphs[i])
    <3>1. n \in Nat /\ p \in Nat BY <1>2, <1>4
    <3>2. d < p /\ p <= d + n BY <2>1
    <3> HIDE DEF n
    <3>3. p - d \in 1 .. n /\ p = d + (p - d) /\ p - d \in Nat BY <3>1, <3>2
    <3>4. QED BY <3>3 DEF n
  <2>4. flat[p] = graphs[i][p - d] BY <2>2, <2>3
  <2>5. QED BY <2>2, <2>3, <2>4
<1>6. ASSUME NEW i \in 1 .. Len(graphs), NEW k \in 1 .. Len(graphs[i])
      PROVE  \E p \in DOMAIN flat : flat[p] = graphs[i][k]
  <2>1. PICK d \in Nat : Block(graphs, flat, i, d) BY <1>3 DEF Blocks
  <2>2. d + Len(graphs[i]) <= Len(flat) /\ flat[d + k] = graphs[i][k] BY <2>1 DEF Block
  <2>3. d + k \in DOMAIN flat BY <1>2, <1>4, <2>2
  <2>4. QED BY <2>2, <2>3
<1>7. \A p \in DOMAIN flat : IsSequence(flat[p].nodes) BY <1>2, <1>5
<1>8. ASSUME NEW p \in DOMAIN flat
      PROVE  InOrder(flat[p], UNION {Sources(flat[h]) : h \in p + 1 .. Len(flat)})
  <2>1. PICK i \in 1 .. Len(graphs), d \in Nat, k \in Nat :
                /\ k \in 1 .. Len(graphs[i]) /\ p = d + k /\ flat[p] = graphs[i][k]
                /\ d + Len(graphs[i]) <= Len(flat)
                /\ \A l \in 1 .. Len(graphs[i]) : flat[d + l] = graphs[i][l]
    BY <1>5
  <2> DEFINE less == UNION {Sources(graphs[i][h]) : h \in k + 1 .. Len(graphs[i])}
             more == UNION {Sources(flat[h]) : h \in p + 1 .. Len(flat)}
  <2>2. InOrder(flat[p], less) BY <1>2, <2>1 DEF InImportOrder
  <2>3. ASSUME NEW h \in k + 1 .. Len(graphs[i])
        PROVE  \E h2 \in p + 1 .. Len(flat) : flat[h2] = graphs[i][h]
    <3>1. h \in 1 .. Len(graphs[i]) BY <1>2, <2>1
    <3>2. d + h \in p + 1 .. Len(flat) BY <1>2, <1>4, <2>1
    <3>3. flat[d + h] = graphs[i][h] BY <2>1, <3>1
    <3>4. QED BY <3>2, <3>3
  <2>4. less \subseteq more BY <2>3
  <2> HIDE DEF less, more
  <2>5. InOrder(flat[p], more) BY <2>2, <2>4, MoreBelow
  <2>6. QED BY <2>5 DEF more
<1>9. OwnedSources(flat) = UNION {OwnedSources(graphs[i]) : i \in DOMAIN graphs}
  <2>1. ASSUME NEW x \in OwnedSources(flat)
        PROVE  \E i \in DOMAIN graphs : x \in OwnedSources(graphs[i])
    <3>1. PICK p \in DOMAIN flat : x \in Sources(flat[p]) BY <2>1 DEF OwnedSources
    <3>2. PICK i \in 1 .. Len(graphs), k \in Nat :
             k \in 1 .. Len(graphs[i]) /\ flat[p] = graphs[i][k]
      BY <1>5
    <3>3. x \in OwnedSources(graphs[i]) BY <1>2, <3>1, <3>2 DEF OwnedSources
    <3>4. QED BY <1>1, <3>3
  <2>2. ASSUME NEW i \in DOMAIN graphs, NEW x \in OwnedSources(graphs[i])
        PROVE  x \in OwnedSources(flat)
    <3>1. PICK k \in DOMAIN graphs[i] : x \in Sources(graphs[i][k]) BY <2>2 DEF OwnedSources
    <3>2. PICK p \in DOMAIN flat : flat[p] = graphs[i][k] BY <1>1, <1>2, <1>6
    <3>3. QED BY <3>1, <3>2 DEF OwnedSources
  <2>3. QED BY <2>1, <2>2
<1>10. QED BY <1>4, <1>7, <1>8, <1>9 DEF InImportOrder

\* A finished target stands in order above the libraries it links.
LEMMA TargetAbove ==
    ASSUME GraphInv, phase = "discover", calls = << >>,
           NEW head, head = [target |-> Top.target, nodes |-> nodes],
           NEW flat, flat = FlattenSeq(Top.linked), NEW graph, graph = << head >> \o flat
    PROVE  /\ IsGraph(graph)
           /\ Len(graph) = Len(flat) + 1 /\ graph[1] = head /\ DOMAIN flat = 1 .. Len(flat)
           /\ DOMAIN graph = 1 .. Len(flat) + 1 /\ Len(flat) \in Nat
           /\ \A p \in DOMAIN flat : graph[1 + p] = flat[p]
           /\ OwnedSources(flat) = External
<1>1. /\ FrameTypes(frames) /\ frames # << >> /\ IsSequence(nodes)
      /\ Once(calls) /\ Backwards /\ Entered(calls)
  BY DEF GraphInv
<1>2. IsSequence(Top.linked) /\ \A k \in DOMAIN Top.linked : IsGraph(Top.linked[k])
  BY <1>1, TopFrame
<1>3. /\ IsSequence(flat)
      /\ \A p \in DOMAIN flat : IsSequence(flat[p].nodes)
      /\ InImportOrder(flat)
      /\ OwnedSources(flat) = External
  BY <1>2, PartPlace DEF External, CollectOwnedSourcePathsForLink
<1>4. /\ IsSequence(<< head >>) /\ Len(<< head >>) = 1 /\ << head >>[1] = head
      /\ DOMAIN flat = 1 .. Len(flat) /\ Len(flat) \in Nat
  BY <1>3, Single, SequenceFacts
<1>5. /\ IsSequence(graph) /\ Len(graph) = 1 + Len(flat) /\ graph[1] = head
      /\ \A p \in 1 .. Len(flat) : graph[1 + p] = flat[p]
  <2>1. /\ IsSequence(graph) /\ Len(graph) = Len(<< head >>) + Len(flat)
        /\ \A i \in 1 .. Len(<< head >>) : graph[i] = << head >>[i]
        /\ \A i \in 1 .. Len(flat) : graph[Len(<< head >>) + i] = flat[i]
    BY <1>3, <1>4, Joined
  <2>2. 1 \in 1 .. Len(<< head >>) BY <1>4
  <2>3. graph[1] = head BY <1>4, <2>1, <2>2
  <2>4. QED BY <1>4, <2>1, <2>3
<1>6. DOMAIN graph = 1 .. Len(flat) + 1 BY <1>4, <1>5, SequenceFacts
<1>7. ASSUME NEW g \in DOMAIN graph
      PROVE  g = 1 \/ (g - 1 \in DOMAIN flat /\ graph[g] = flat[g - 1])
  <2>1. g = 1 \/ (g - 1 \in 1 .. Len(flat) /\ 1 + (g - 1) = g) BY <1>4, <1>6
  <2>2. QED BY <1>4, <1>5, <2>1
<1>8. head.target = Top.target /\ head.nodes = nodes OBVIOUS
<1>9. ASSUME NEW g \in DOMAIN graph PROVE IsSequence(graph[g].nodes)
  BY <1>1, <1>3, <1>5, <1>7, <1>8
<1>10. InOrder(head, OwnedSources(flat))
  <2>1. \A i, j \in DOMAIN nodes : nodes[i].key = nodes[j].key => i = j
    BY <1>1 DEF Once
  <2>2. nodes # << >> /\ IsEntry(Last(nodes)) BY <1>1 DEF Entered
  <2>3. ASSUME NEW i \in DOMAIN nodes, NEW m \in Range(nodes[i].imports)
        PROVE  NodeIndex(nodes, m.key) \in 1 .. i - 1 \/ m.primary \in OwnedSources(flat)
    <3>1. (\E k \in 1 .. i - 1 : nodes[k].key = m.key) \/ m.primary \in External
      BY <1>1 DEF Backwards
    <3>2. CASE \E k \in 1 .. i - 1 : nodes[k].key = m.key
      <4>1. PICK k \in 1 .. i - 1 : nodes[k].key = m.key BY <3>2
      <4>2. k \in DOMAIN nodes
        <5>1. DOMAIN nodes = 1 .. Len(nodes) /\ Len(nodes) \in Nat BY <1>1, SequenceFacts
        <5>2. QED BY <5>1
      <4>3. NodeIndex(nodes, nodes[k].key) = k BY <2>1, <4>2, NodeFound
      <4>4. QED BY <4>1, <4>3
    <3>3. QED BY <1>3, <3>1, <3>2
  <2> HIDE DEF OwnedSources
  <2>4. QED BY <1>8, <2>1, <2>2, <2>3 DEF InOrder, IsEntry
<1>11. ASSUME NEW g \in DOMAIN graph
       PROVE  InOrder(graph[g], UNION {Sources(graph[h]) : h \in g + 1 .. Len(graph)})
  <2> DEFINE below == UNION {Sources(graph[h]) : h \in g + 1 .. Len(graph)}
  <2>1. CASE g = 1
    <3>1. ASSUME NEW x \in OwnedSources(flat) PROVE x \in below
      <4>1. PICK p \in DOMAIN flat : x \in Sources(flat[p]) BY <3>1 DEF OwnedSources
      <4>2. 1 + p \in g + 1 .. Len(graph) /\ graph[1 + p] = flat[p] BY <1>4, <1>5, <2>1
      <4>3. QED BY <4>1, <4>2
    <3> HIDE DEF below
    <3>2. InOrder(graph[g], below) BY <1>5, <1>10, <2>1, <3>1, MoreBelow
    <3>3. QED BY <3>2 DEF below
  <2>2. CASE g # 1
    <3>1. g - 1 \in DOMAIN flat /\ graph[g] = flat[g - 1] BY <1>7, <2>2
    <3> DEFINE less == UNION {Sources(flat[h]) : h \in g - 1 + 1 .. Len(flat)}
    <3>2. InOrder(graph[g], less) BY <1>3, <3>1 DEF InImportOrder
    <3>3. ASSUME NEW h \in g - 1 + 1 .. Len(flat)
          PROVE  1 + h \in g + 1 .. Len(graph) /\ graph[1 + h] = flat[h]
      BY <1>4, <1>5, <3>1
    <3>4. less \subseteq below BY <3>3
    <3> HIDE DEF less, below
    <3>5. InOrder(graph[g], below) BY <3>2, <3>4, MoreBelow
    <3>6. QED BY <3>5 DEF below
  <2>3. QED BY <2>1, <2>2
<1>12. graph # << >> BY <1>4, <1>5, Single
<1>13. IsGraph(graph) BY <1>5, <1>9, <1>11, <1>12 DEF IsGraph, InImportOrder
<1>14. QED BY <1>3, <1>4, <1>5, <1>6, <1>13

\* The target's graph goes to the target that links it, or is the answer
\* (FinishTarget).
LEMMA ReturnKeeps ==
    ASSUME GraphInv, FinishTarget
    PROVE  GraphInv'
<1> DEFINE graph == << [target |-> Top.target, nodes |-> nodes] >> \o FlattenSeq(Top.linked)
           outer == Front(frames)
           L     == Len(outer)
<1>1. /\ phase = "discover" /\ calls = << >> /\ FrameTypes(frames) /\ frames # << >>
      /\ CallTypes(calls) /\ Loaded(world) /\ "import cycle" \notin diags
  BY DEF FinishTarget, GraphInv
<1>2. IsGraph(graph) BY <1>1, TargetAbove
<1>3. /\ IsSequence(outer) /\ L \in Nat /\ DOMAIN outer = 1 .. L
      /\ \A i \in DOMAIN outer : outer[i] = frames[i] /\ i \in DOMAIN frames
  <2>1. IsSequence(frames) BY <1>1 DEF FrameTypes
  <2>2. /\ IsSequence(outer) /\ L = Len(frames) - 1 /\ Len(frames) \in Nat \ {0}
        /\ \A i \in 1 .. L : outer[i] = frames[i]
    BY <1>1, <2>1, Shortened
  <2>3. DOMAIN frames = 1 .. Len(frames) /\ DOMAIN outer = 1 .. L
    BY <2>1, <2>2, SequenceFacts
  <2> HIDE DEF L
  <2>4. QED BY <2>2, <2>3
<1> HIDE DEF graph, outer
<1>4. /\ visited' = {} /\ nodes' = << >> /\ UNCHANGED << world, calls, diags >>
      /\ IF outer = << >> THEN phase' = "built" /\ result' = graph /\ frames' = << >>
         ELSE /\ phase' = "resolve" /\ result' = result
              /\ frames' = [outer EXCEPT ![L].linked = Append(@, graph)]
  BY DEF FinishTarget, graph, outer
<1>5. /\ Loaded(world)' /\ CallTypes(calls)' /\ IsSequence(nodes)' /\ "import cycle" \notin diags'
      /\ calls' = << >>
  BY <1>1, <1>4, Single DEF Loaded, CallTypes
<1>6. CASE outer = << >>
  <2>1. FrameTypes(<< >>) BY Single DEF FrameTypes
  <2>2. FrameTypes(frames)' BY <1>4, <1>6, <2>1
  <2>3. InImportOrder(result)' BY <1>2, <1>4, <1>6 DEF IsGraph
  <2>4. QED BY <1>4, <1>5, <1>6, <2>2, <2>3 DEF GraphInv
<1>7. CASE outer # << >>
  <2> DEFINE f  == outer[L]
             f2 == [f EXCEPT !.linked = Append(f.linked, graph)]
             fs == [outer EXCEPT ![L] = f2]
  <2>1. L \in DOMAIN outer /\ L # 0 BY <1>3, <1>7, Shortened
  <2>2. frames' = fs BY <1>4, <1>7
  <2>3. /\ DOMAIN f = FrameFields /\ IsSequence(f.linked)
        /\ \A k \in DOMAIN f.linked : IsGraph(f.linked[k])
    BY <1>1, <1>3, <2>1 DEF FrameTypes
  <2>4. DOMAIN f2 = FrameFields /\ f2.linked = Append(f.linked, graph) BY <2>3 DEF FrameFields
  <2>5. /\ IsSequence(f2.linked)
        /\ \A k \in DOMAIN f2.linked : IsGraph(f2.linked[k])
    <3>1. /\ IsSequence(f2.linked) /\ Range(f2.linked) = Range(f.linked) \cup {graph}
      BY <2>3, <2>4, Appended
    <3>2. \A x \in Range(f2.linked) : IsGraph(x) BY <1>2, <2>3, <3>1 DEF Range
    <3>3. QED BY <3>1, <3>2 DEF Range
  <2> HIDE DEF f2, L
  <2>6. ASSUME NEW i \in DOMAIN outer PROVE fs[i] = IF i = L THEN f2 ELSE outer[i]
    OBVIOUS
  <2>7. DOMAIN fs = DOMAIN outer /\ fs = [i \in 1 .. L |-> fs[i]] BY <1>3
  <2> HIDE DEF fs
  <2>8. IsSequence(fs) /\ Len(fs) = L BY <1>3, <2>7, Listed
  <2>9. ASSUME NEW i \in DOMAIN fs
        PROVE  /\ DOMAIN fs[i] = FrameFields /\ IsSequence(fs[i].linked)
               /\ \A k \in DOMAIN fs[i].linked : IsGraph(fs[i].linked[k])
    <3>1. CASE i = L BY <2>4, <2>5, <2>6, <2>7, <3>1
    <3>2. CASE i # L
      <4>1. i \in DOMAIN frames /\ fs[i] = frames[i] BY <1>3, <2>6, <2>7, <3>2
      <4>2. QED BY <1>1, <4>1 DEF FrameTypes
    <3>3. QED BY <3>1, <3>2
  <2>10. FrameTypes(fs) BY <2>8, <2>9 DEF FrameTypes
  <2>11. fs # << >> BY <2>1, <2>8, Single
  <2>12. FrameTypes(frames)' /\ frames' # << >> BY <2>2, <2>10, <2>11
  <2>13. QED BY <1>4, <1>5, <1>7, <2>12 DEF GraphInv
<1>8. QED BY <1>6, <1>7

\* A step that changes nothing.
LEMMA StutterKeeps ==
    ASSUME GraphInv, UNCHANGED graphVars
    PROVE  GraphInv'
<1>1. /\ world' = world /\ phase' = phase /\ frames' = frames /\ calls' = calls
      /\ visited' = visited /\ nodes' = nodes /\ diags' = diags /\ result' = result
  BY DEF graphVars
<1>2. \A m : /\ (MergedImports(m))' = MergedImports(m)
             /\ Imported(Top.target, Top.linked, m)' = Imported(Top.target, Top.linked, m)
             /\ External' = External
             /\ IsEntry(m)' = IsEntry(m)
  BY <1>1, SameImports
<1>3. Path(calls)' = Path(calls) BY <1>1, <1>2 DEF Path
<1>4. Once(calls)' = Once(calls) BY <1>1 DEF Once
<1>5. Backwards' = Backwards /\ Waiting(calls, {})' = Waiting(calls, {})
  BY <1>1, <1>2 DEF Backwards, Waiting
<1>6. Entered(calls)' = Entered(calls) BY <1>1, <1>2 DEF Entered
<1>7. /\ Loaded(world)' = Loaded(world) /\ FrameTypes(frames)' = FrameTypes(frames)
      /\ CallTypes(calls)' = CallTypes(calls) /\ IsSequence(nodes)' = IsSequence(nodes)
      /\ CollectOwnedSourcePathsForLink(Top.linked).clash' =
            CollectOwnedSourcePathsForLink(Top.linked).clash
      /\ InImportOrder(result)' = InImportOrder(result)
  BY <1>1 DEF Loaded, FrameTypes, CallTypes, Top
<1>8. QED BY <1>1, <1>3, <1>4, <1>5, <1>6, <1>7 DEF GraphInv

\* The invariant holds in every state of every command.
LEMMA GraphInvariant == GraphSpec => []GraphInv
<1>1. GraphInit => GraphInv
  <2> SUFFICES ASSUME GraphInit PROVE GraphInv
    OBVIOUS
  <2>1. FrameTypes(<< >>) /\ CallTypes(<< >>) /\ IsSequence(<< >>)
    BY Single DEF FrameTypes, CallTypes
  <2>2. QED BY <2>1 DEF GraphInit, GraphInv
<1>2. GraphInv /\ [GraphNext]_graphVars => GraphInv'
  <2> SUFFICES ASSUME GraphInv, [GraphNext]_graphVars PROVE GraphInv'
    OBVIOUS
  <2>1. CASE BuildTargetGraph BY <2>1, ChooseKeeps
  <2>2. CASE ResolveLink BY <2>2, LinkKeeps
  <2>3. CASE DiscoverModuleGraph BY <2>3, DiscoverKeeps
  <2>4. CASE VisitImport BY <2>4, ImportKeeps
  <2>5. CASE FinishModule BY <2>5, FinishKeeps
  <2>6. CASE FinishTarget BY <2>6, ReturnKeeps
  <2>7. CASE UNCHANGED graphVars BY <2>7, StutterKeeps
  <2>8. QED BY <2>1, <2>2, <2>3, <2>4, <2>5, <2>6, <2>7 DEF GraphNext
<1>3. QED BY <1>1, <1>2, PTL DEF GraphSpec

-----------------------------------------------------------------------------
(* What is promised of cycles and of the order.                            *)

\* A command fails for the reason it reports, and only one of them is a cycle.
LEMMA OtherReasons ==
    ASSUME GraphInv, GraphNext, phase' = "failed", "import cycle" \in diags'
    PROVE  /\ VisitImport
           /\ LET call  == Last(calls)
                  found == ResolveImportPathWithPackageRules(Top.target, Top.linked,
                               call.module.package, Head(call.todo))
                  rest  == [calls EXCEPT ![Len(calls)].todo = Tail(@),
                                         ![Len(calls)].imports = Append(@, found.module)]
              IN  found.ok /\ \E i \in DOMAIN rest : rest[i].module.key = found.module.key
<1> DEFINE call  == Last(calls)
           found == ResolveImportPathWithPackageRules(Top.target, Top.linked,
                        call.module.package, Head(call.todo))
           rest  == [calls EXCEPT ![Len(calls)].todo = Tail(@),
                                  ![Len(calls)].imports = Append(@, found.module)]
<1>1. phase # "failed"
  BY DEF GraphNext, BuildTargetGraph, ResolveLink, DiscoverModuleGraph, VisitImport, FinishModule,
         FinishTarget
<1>2. "import cycle" \notin diags BY <1>1 DEF GraphInv
<1>3. \A why : Fail(why) => why = "import cycle" BY <1>2 DEF Fail
<1>4. ASSUME NEW target, NEW outer PROVE ~EnterTarget(target, outer)
  BY <1>3 DEF EnterTarget
<1>5. ~BuildTargetGraph BY <1>3, <1>4 DEF BuildTargetGraph
<1>6. ~ResolveLink
  <2> SUFFICES ASSUME ResolveLink PROVE FALSE
    OBVIOUS
  <2>1. phase' = phase /\ phase = "resolve" BY <1>4 DEF ResolveLink
  <2>2. QED BY <2>1
<1>7. ASSUME NEW m, NEW cs, Visit(m, cs)
      PROVE  \E i \in DOMAIN cs : cs[i].module.key = m.key
  BY <1>3, <1>7 DEF Visit
<1>8. ~DiscoverModuleGraph
  <2>1. \A i : i \notin DOMAIN << >> BY Empty
  <2>2. \A m : ~Visit(m, << >>) BY <1>7, <2>1
  <2>3. QED BY <1>3, <2>2 DEF DiscoverModuleGraph
<1>9. ~FinishModule /\ ~FinishTarget BY DEF FinishModule, FinishTarget
<1>10. VisitImport BY <1>5, <1>6, <1>8, <1>9 DEF GraphNext
<1>11. found.why # "import cycle"
  <2>1. found.why \in {"", "ambiguous import", "internal module", "unresolved import"}
    BY DEF ResolveImportPathWithPackageRules
  <2>2. QED BY <2>1
<1>12. found.ok /\ Visit(found.module, rest)
  <2>1. phase = "discover" BY <1>10 DEF VisitImport
  <2> HIDE DEF call, found, rest
  <2>2. ~Fail(found.why) BY <1>3, <1>11
  <2>3. QED BY <1>10, <2>1, <2>2 DEF VisitImport, call, found, rest
<1> HIDE DEF found, rest
<1>13. \E i \in DOMAIN rest : rest[i].module.key = found.module.key BY <1>7, <1>12
<1>14. QED BY <1>10, <1>12, <1>13 DEF found, rest

\* DiscoverModuleGraphRecursive reports an import cycle only for modules that
\* import each other in a ring: the active calls are a path of imports, and
\* the import that meets an active module closes it.
THEOREM CyclesAreImportRings == GraphSpec => CyclesAreReal
<1>1. ASSUME GraphInv, GraphNext, phase' = "failed", "import cycle" \in diags'
      PROVE  \E i \in DOMAIN calls : \A j \in i .. Len(calls) :
                LET next == IF j = Len(calls) THEN i ELSE j + 1
                IN  \E m \in Imported(Top.target, Top.linked, calls[j].module) :
                        m.key = calls[next].module.key
  <2> DEFINE call  == Last(calls)
             name  == Head(call.todo)
             found == ResolveImportPathWithPackageRules(Top.target, Top.linked,
                          call.module.package, name)
             rest  == [calls EXCEPT ![Len(calls)].todo = Tail(@),
                                    ![Len(calls)].imports = Append(@, found.module)]
             n     == Len(calls)
  <2>1. VisitImport /\ found.ok /\ \E i \in DOMAIN rest : rest[i].module.key = found.module.key
    BY <1>1, OtherReasons
  <2>2. /\ CallTypes(calls) /\ Path(calls) /\ calls # << >> /\ call.todo # << >>
    BY <1>1, <2>1 DEF VisitImport, GraphInv
  <2>3. /\ DOMAIN rest = DOMAIN calls
        /\ \A i \in DOMAIN calls : rest[i].module = calls[i].module
    BY <2>2, CallChanges
  <2>4. PICK i \in DOMAIN calls : calls[i].module.key = found.module.key BY <2>1, <2>3
  <2>5. n \in Nat \ {0} /\ DOMAIN calls = 1 .. n /\ call = calls[n]
    BY <2>2, Shortened, SequenceFacts DEF CallTypes
  <2>6. name \in Range(MergedImports(call.module))
    <3>1. n \in DOMAIN calls BY <2>5
    <3>2. IsSequence(call.todo) /\ Range(call.todo) \subseteq Range(MergedImports(call.module))
      BY <2>2, <2>5, <3>1 DEF CallTypes, Path
    <3>3. /\ name = call.todo[1] /\ Len(call.todo) \in Nat \ {0}
          /\ DOMAIN call.todo = 1 .. Len(call.todo)
      BY <2>2, <3>2, Shortened, SequenceFacts
    <3>4. name \in Range(call.todo) BY <3>3 DEF Range
    <3>5. QED BY <3>2, <3>4
  <2>7. found.module \in Imported(Top.target, Top.linked, calls[n].module)
    <3> HIDE DEF name
    <3>1. QED BY <2>1, <2>5, <2>6 DEF Imported
  <2> HIDE DEF found, n
  <2>8. ASSUME NEW j \in i .. n
        PROVE  \E m \in Imported(Top.target, Top.linked, calls[j].module) :
                  m.key = calls[IF j = n THEN i ELSE j + 1].module.key
    <3>1. CASE j = n BY <2>4, <2>7, <3>1
    <3>2. CASE j # n
      <4>1. PICK k \in DOMAIN calls : k = j + 1 /\ k > 1 /\ k - 1 = j BY <2>5, <3>2
      <4>2. calls[k].module \in Imported(Top.target, Top.linked, calls[j].module)
        BY <2>2, <4>1 DEF Path
      <4>3. QED BY <3>2, <4>1, <4>2
    <3>3. QED BY <3>1, <3>2
  <2>9. QED BY <2>4, <2>8 DEF n
<1>2. GraphInv /\ [GraphNext]_graphVars =>
         [ (phase' = "failed" /\ "import cycle" \in diags') =>
              \E i \in DOMAIN calls : \A j \in i .. Len(calls) :
                  LET next == IF j = Len(calls) THEN i ELSE j + 1
                  IN  \E m \in Imported(Top.target, Top.linked, calls[j].module) :
                          m.key = calls[next].module.key ]_graphVars
  BY <1>1
<1>3. QED BY <1>2, GraphInvariant, PTL DEF GraphSpec, CyclesAreReal

\* Every graph BuildTargetGraph returns lists a target above the libraries it
\* links, and in it a module after the modules it imports.
THEOREM BuiltInImportOrder == GraphSpec => [](phase = "built" => InImportOrder(result))
<1>1. GraphInv => (phase = "built" => InImportOrder(result)) BY DEF GraphInv
<1>2. QED BY <1>1, GraphInvariant, PTL

-----------------------------------------------------------------------------
(* One owner of each source, when no target links a library twice.         *)

\* A command that fails has no target left.
LEMMA FailOwns ==
    ASSUME NEW why, Fail(why)
    PROVE  OwnerInv'
<1>1. phase' = "failed" /\ frames' = << >> BY DEF Fail
<1>2. \A i : i \notin DOMAIN frames' BY <1>1, Empty
<1>3. QED BY <1>1, <1>2 DEF OwnerInv

\* A target starts with all its libraries to link, none of them twice.
LEMMA EnterOwns ==
    ASSUME NEW target, NEW outer, IsSequence(outer),
           IsSequence(target.links), NoRepeat(target.links),
           \A i \in DOMAIN outer : LinksOnce(outer[i]),
           \A i \in DOMAIN outer : i < Len(outer) => Unlisted(outer[i], outer[i + 1].target.name),
           outer # << >> => Unlisted(Last(outer), target.name),
           EnterTarget(target, outer)
    PROVE  OwnerInv'
<1> DEFINE frame == [target |-> target, todo |-> target.links, linked |-> << >>]
           L == Len(outer)
<1>1. CASE \E why : Fail(why) BY <1>1, FailOwns
<1>2. CASE frames' = Append(outer, frame) /\ phase' = "resolve"
  <2>1. /\ frame.target = target /\ frame.todo = target.links /\ frame.linked = << >>
    OBVIOUS
  <2>2. LinksOnce(frame) BY <2>1, Empty DEF LinksOnce
  <2> HIDE DEF frame
  <2>3. /\ IsSequence(frames') /\ Len(frames') = L + 1 /\ L \in Nat
        /\ DOMAIN frames' = 1 .. L + 1 /\ DOMAIN outer = 1 .. L
        /\ \A i \in 1 .. L : frames'[i] = outer[i]
        /\ frames'[L + 1] = frame
    <3>1. /\ IsSequence(frames') /\ Len(frames') = L + 1 /\ L \in Nat
          /\ \A i \in 1 .. L : frames'[i] = outer[i]
          /\ frames'[L + 1] = frame
      BY <1>2, Appended, SequenceFacts
    <3>2. DOMAIN frames' = 1 .. L + 1 /\ DOMAIN outer = 1 .. L BY <3>1, SequenceFacts
    <3>3. QED BY <3>1, <3>2
  <2>4. outer # << >> => Last(outer) = outer[L] BY Shortened
  <2> HIDE DEF L
  <2>5. ASSUME NEW i \in DOMAIN frames' PROVE LinksOnce(frames'[i])
    <3>1. CASE i = L + 1 BY <2>2, <2>3, <3>1
    <3>2. CASE i # L + 1
      <4>1. i \in DOMAIN outer /\ frames'[i] = outer[i] BY <2>3, <3>2
      <4>2. QED BY <4>1
    <3>3. QED BY <3>1, <3>2
  <2>6. ASSUME NEW i \in DOMAIN frames', i < Len(frames')
        PROVE  Unlisted(frames'[i], frames'[i + 1].target.name)
    <3>1. i \in DOMAIN outer /\ frames'[i] = outer[i] BY <2>3, <2>6
    <3>2. CASE i = L
      <4>1. outer # << >> BY <3>1, Empty
      <4>2. frames'[i + 1].target = target BY <2>1, <2>3, <3>2
      <4>3. QED BY <2>4, <3>1, <3>2, <4>1, <4>2
    <3>3. CASE i # L
      <4>1. i < L /\ i + 1 \in 1 .. L BY <2>3, <3>1, <3>3
      <4>2. frames'[i + 1] = outer[i + 1] BY <2>3, <4>1
      <4>3. QED BY <3>1, <4>1, <4>2 DEF L
    <3>4. QED BY <3>2, <3>3
  <2>7. QED BY <1>2, <2>5, <2>6 DEF OwnerInv
<1>3. QED BY <1>1, <1>2 DEF EnterTarget

\* The target of the command is chosen.
LEMMA ChooseOwns ==
    ASSUME GraphInv, LinkedOnce(world), BuildTargetGraph
    PROVE  OwnerInv'
<1> DEFINE name == SelectProjectTarget
<1>1. CASE \E why : Fail(why) BY <1>1, FailOwns
<1>2. ASSUME NEW mode, NEW env, name # NullOpt,
             EnterTarget([world.targets[name] EXCEPT !.mode = mode, !.env = env], << >>)
      PROVE  OwnerInv'
  <2> DEFINE target == [world.targets[name] EXCEPT !.mode = mode, !.env = env]
  <2>1. name \in DOMAIN world.targets
    <3>1. world.default \in DOMAIN world.targets \cup {NullOpt} BY DEF GraphInv, Loaded
    <3>2. CASE world.explicit # NullOpt BY <1>2, <3>2 DEF SelectProjectTarget
    <3>3. CASE world.explicit = NullOpt /\ world.default # NullOpt
      BY <3>1, <3>3 DEF SelectProjectTarget
    <3>4. CASE world.explicit = NullOpt /\ world.default = NullOpt
      <4>1. Cardinality(DOMAIN world.targets) = 1 /\ name = CHOOSE t \in DOMAIN world.targets : TRUE
        BY <1>2, <3>4 DEF SelectProjectTarget
      <4>2. DOMAIN world.targets # {} BY <4>1, FS_EmptySet
      <4>3. QED BY <4>1, <4>2
    <3>5. QED BY <3>2, <3>3, <3>4
  <2> HIDE DEF name
  <2>2. /\ "links" \in DOMAIN world.targets[name] /\ IsSequence(world.targets[name].links)
    BY <2>1 DEF GraphInv, Loaded, IsSequence
  <2>3. target.links = world.targets[name].links BY <2>2
  <2>4. NoRepeat(target.links) /\ IsSequence(target.links)
    BY <2>1, <2>2, <2>3 DEF LinkedOnce
  <2> HIDE DEF target
  <2>5. IsSequence(<< >>) /\ \A i : i \notin DOMAIN << >> BY Single, Empty
  <2>6. EnterTarget(target, << >>) BY <1>2 DEF target, name
  <2>7. QED BY <2>4, <2>5, <2>6, EnterOwns
<1>3. QED BY <1>1, <1>2 DEF BuildTargetGraph

\* A link that is taken from the list is listed no more.
LEMMA TakenLink ==
    ASSUME NEW frame, NEW rest, LinksOnce(frame), frame.todo # << >>,
           rest.todo = Tail(frame.todo), rest.linked = frame.linked
    PROVE  LinksOnce(rest) /\ Unlisted(rest, Head(frame.todo))
<1> DEFINE s == frame.todo
           t == Tail(frame.todo)
<1>1. IsSequence(s) /\ NoRepeat(s) BY DEF LinksOnce
<1>2. /\ IsSequence(t) /\ Len(s) \in Nat \ {0} /\ Head(s) = s[1]
      /\ DOMAIN s = 1 .. Len(s) /\ DOMAIN t = 1 .. Len(s) - 1
      /\ \A i \in 1 .. Len(s) - 1 : t[i] = s[i + 1]
  <2>1. /\ IsSequence(t) /\ Len(t) = Len(s) - 1 /\ Len(s) \in Nat \ {0} /\ Head(s) = s[1]
        /\ \A i \in 1 .. Len(s) - 1 : t[i] = s[i + 1]
    BY <1>1, Shortened
  <2>2. DOMAIN s = 1 .. Len(s) /\ DOMAIN t = 1 .. Len(t) BY <1>1, <2>1, SequenceFacts
  <2>3. QED BY <2>1, <2>2
<1>3. \A i \in DOMAIN t : i + 1 \in DOMAIN s /\ i + 1 # 1 /\ t[i] = s[i + 1] BY <1>2
<1>4. 1 \in DOMAIN s BY <1>2
<1>5. ASSUME NEW i \in DOMAIN t, NEW j \in DOMAIN t, t[i] = t[j] PROVE i = j
  <2>1. i + 1 = j + 1 BY <1>1, <1>3, <1>5 DEF NoRepeat
  <2>2. QED BY <1>2, <2>1
<1>6. Head(s) \notin Range(t)
  <2>1. \A i \in DOMAIN t : t[i] # s[1] BY <1>1, <1>3, <1>4 DEF NoRepeat
  <2>2. QED BY <1>2, <2>1 DEF Range
<1>7. Head(s) \in Range(s) BY <1>2, <1>4 DEF Range
<1>8. Range(t) \subseteq Range(s) BY <1>3 DEF Range
<1> HIDE DEF s, t
<1>9. /\ \A k, l \in DOMAIN frame.linked :
             Library(frame.linked[k]) = Library(frame.linked[l]) => k = l
      /\ \A k \in DOMAIN frame.linked : Library(frame.linked[k]) \notin Range(s)
      /\ \A k \in DOMAIN frame.linked : OneOwner(frame.linked[k])
  BY DEF LinksOnce, s
<1>10. rest.todo = t /\ rest.linked = frame.linked BY DEF t
<1>11. NoRepeat(t) BY <1>5 DEF NoRepeat
<1>12. LinksOnce(rest) BY <1>2, <1>8, <1>9, <1>10, <1>11 DEF LinksOnce
<1>13. Unlisted(rest, Head(s)) BY <1>6, <1>7, <1>9, <1>10 DEF Unlisted
<1>14. QED BY <1>12, <1>13 DEF s

\* The innermost target takes a link from its list.
LEMMA RestOwns ==
    ASSUME GraphInv, OwnerInv, phase = "resolve", Top.todo # << >>,
           NEW rest, rest = [frames EXCEPT ![Len(frames)].todo = Tail(@)]
    PROVE  /\ IsSequence(rest)
           /\ \A i \in DOMAIN rest : LinksOnce(rest[i])
           /\ \A i \in DOMAIN rest : i < Len(rest) => Unlisted(rest[i], rest[i + 1].target.name)
           /\ Unlisted(Last(rest), Head(Top.todo))
<1> DEFINE L == Len(frames)
           f == frames[L]
           g == [f EXCEPT !.todo = Tail(f.todo)]
<1>1. FrameTypes(frames) /\ frames # << >> BY DEF GraphInv
<1>2. /\ L \in DOMAIN frames /\ Top = f /\ DOMAIN frames = 1 .. L /\ L \in Nat \ {0}
      /\ DOMAIN f = FrameFields
  BY <1>1, TopFrame
<1>3. rest = [frames EXCEPT ![L] = g] BY <1>2
<1>4. g.todo = Tail(f.todo) /\ g.linked = f.linked /\ g.target = f.target
  BY <1>2 DEF FrameFields
<1>5. LinksOnce(f) BY <1>2 DEF OwnerInv
<1>6. LinksOnce(g) /\ Unlisted(g, Head(f.todo)) BY <1>2, <1>4, <1>5, TakenLink
<1> HIDE DEF g
<1>7. rest = [i \in 1 .. L |-> rest[i]] BY <1>2, <1>3
<1>8. \A i \in DOMAIN frames : rest[i] = IF i = L THEN g ELSE frames[i] BY <1>3
<1>9. IsSequence(rest) /\ Len(rest) = L /\ DOMAIN rest = 1 .. L
  <2> HIDE DEF L
  <2>1. IsSequence(rest) /\ Len(rest) = L BY <1>2, <1>7, Listed
  <2>2. QED BY <2>1, SequenceFacts
<1>10. \A i \in DOMAIN frames : rest[i].target = frames[i].target BY <1>4, <1>8
<1>11. \A i \in DOMAIN rest : LinksOnce(rest[i]) BY <1>2, <1>6, <1>8, <1>9 DEF OwnerInv
<1>12. Unlisted(Last(rest), Head(Top.todo))
  <2>1. Last(rest) = rest[L] BY <1>9 DEF Last
  <2>2. rest[L] = g BY <1>2, <1>8
  <2>3. QED BY <1>2, <1>6, <2>1, <2>2
<1>13. ASSUME NEW i \in DOMAIN rest, i < Len(rest)
       PROVE  Unlisted(rest[i], rest[i + 1].target.name)
  <2> HIDE DEF L
  <2>1. /\ i \in DOMAIN frames /\ i # L /\ i + 1 \in DOMAIN frames /\ i < L
        /\ rest[i] = frames[i]
    BY <1>2, <1>8, <1>9, <1>13
  <2>2. Unlisted(frames[i], frames[i + 1].target.name) BY <2>1 DEF OwnerInv, L
  <2>3. QED BY <1>10, <2>1, <2>2
<1>14. QED BY <1>9, <1>11, <1>12, <1>13

\* One link of a target is taken: it is resolved once.
LEMMA LinkOwns ==
    ASSUME GraphInv, OwnerInv, LinkedOnce(world), ResolveLink
    PROVE  OwnerInv'
<1> DEFINE link == Head(Top.todo)
           rest == [frames EXCEPT ![Len(frames)].todo = Tail(@)]
           Library2(mode, env) == [world.targets[link] EXCEPT !.mode = mode, !.env = env]
<1>1. phase = "resolve" /\ Top.todo # << >> BY DEF ResolveLink
<1>2. /\ IsSequence(rest)
      /\ \A i \in DOMAIN rest : LinksOnce(rest[i])
      /\ \A i \in DOMAIN rest : i < Len(rest) => Unlisted(rest[i], rest[i + 1].target.name)
      /\ Unlisted(Last(rest), link)
  BY <1>1, RestOwns
<1> HIDE DEF rest
<1>3. CASE frames' = rest /\ phase' = "resolve" BY <1>2, <1>3 DEF OwnerInv
<1>4. ASSUME NEW mode, NEW env, link \in DOMAIN world.targets,
             EnterTarget(Library2(mode, env), rest)
      PROVE  OwnerInv'
  <2> DEFINE target == Library2(mode, env)
  <2>1. /\ {"name", "links"} \subseteq DOMAIN world.targets[link]
        /\ world.targets[link].name = link /\ IsSequence(world.targets[link].links)
    BY <1>4 DEF GraphInv, Loaded, IsSequence
  <2> HIDE DEF link
  <2>2. target.links = world.targets[link].links /\ target.name = link BY <2>1
  <2>3. NoRepeat(target.links) /\ IsSequence(target.links)
    BY <1>4, <2>1, <2>2 DEF LinkedOnce
  <2> HIDE DEF Library2
  <2>4. QED BY <1>2, <1>4, <2>2, <2>3, EnterOwns
<1>5. \/ frames' = rest /\ phase' = phase
      \/ /\ link \in DOMAIN world.targets
         /\ EnterTarget(Library2(Top.target.mode, Top.target.env), rest)
  BY DEF ResolveLink, rest
<1> HIDE DEF link, Library2
<1>6. QED BY <1>1, <1>3, <1>4, <1>5

\* The steps of a discovery leave the targets alone.
LEMMA DiscoveryOwns ==
    ASSUME OwnerInv, \/ frames' = frames /\ phase' \in {"resolve", "discover"}
                     \/ \E why : Fail(why)
    PROVE  OwnerInv'
<1>1. CASE \E why : Fail(why) BY <1>1, FailOwns
<1>2. CASE frames' = frames /\ phase' \in {"resolve", "discover"} BY <1>2 DEF OwnerInv
<1>3. QED BY <1>1, <1>2

\* A part of a flattened list of graphs is a part of one of them.
LEMMA PartOfGraph ==
    ASSUME NEW graphs, IsSequence(graphs), \A i \in DOMAIN graphs : IsGraph(graphs[i]),
           NEW p \in DOMAIN FlattenSeq(graphs)
    PROVE  \E i \in DOMAIN graphs : \E k \in DOMAIN graphs[i] :
              FlattenSeq(graphs)[p] = graphs[i][k]
<1> DEFINE flat == FlattenSeq(graphs)
<1>1. DOMAIN graphs = 1 .. Len(graphs) BY SequenceFacts
<1>2. ASSUME NEW i \in 1 .. Len(graphs)
      PROVE  /\ IsSequence(graphs[i]) /\ Len(graphs[i]) \in Nat
             /\ DOMAIN graphs[i] = 1 .. Len(graphs[i])
  BY <1>1, SequenceFacts DEF IsGraph
<1>3. Blocks(graphs, flat, Len(graphs)) BY <1>2, Flattened
<1> HIDE DEF flat
<1>4. Len(flat) \in Nat /\ DOMAIN flat = 1 .. Len(flat) BY <1>3, SequenceFacts DEF Blocks
<1>5. p \in 1 .. Len(flat) BY <1>4 DEF flat
<1>6. PICK i \in 1 .. Len(graphs), d \in Nat :
         Block(graphs, flat, i, d) /\ d < p /\ p <= d + Len(graphs[i])
  BY <1>3, <1>5 DEF Blocks
<1>7. p - d \in 1 .. Len(graphs[i]) /\ p = d + (p - d)
  <2> DEFINE n == Len(graphs[i])
  <2>1. n \in Nat /\ p \in Nat /\ d < p /\ p <= d + n BY <1>2, <1>4, <1>5, <1>6
  <2> HIDE DEF n
  <2>2. p - d \in 1 .. n /\ p = d + (p - d) BY <2>1
  <2>3. QED BY <2>2 DEF n
<1>8. flat[p] = graphs[i][p - d] BY <1>6, <1>7 DEF Block
<1>9. QED BY <1>1, <1>2, <1>7, <1>8 DEF flat

\* Two nodes of a linked graph and another that compile one source are in
\* libraries of one name.
LEMMA LinkedOwners ==
    ASSUME NEW graphs, IsSequence(graphs), \A i \in DOMAIN graphs : IsGraph(graphs[i]),
           ~CollectOwnedSourcePathsForLink(graphs).clash,
           \A k, l \in DOMAIN graphs : Library(graphs[k]) = Library(graphs[l]) => k = l,
           \A k \in DOMAIN graphs : OneOwner(graphs[k])
    PROVE  OneOwner(FlattenSeq(graphs))
<1> DEFINE flat == FlattenSeq(graphs)
<1> SUFFICES ASSUME NEW g \in DOMAIN flat, NEW h \in DOMAIN flat,
                    flat[g].target.name # flat[h].target.name,
                    NEW i \in DOMAIN flat[g].nodes, NEW j \in DOMAIN flat[h].nodes,
                    flat[g].nodes[i].primary = flat[h].nodes[j].primary
             PROVE  i = Len(flat[g].nodes) \/ j = Len(flat[h].nodes)
  BY DEF OneOwner
<1>1. PICK k \in DOMAIN graphs : \E n \in DOMAIN graphs[k] : flat[g] = graphs[k][n]
  BY PartOfGraph
<1>2. PICK l \in DOMAIN graphs : \E n \in DOMAIN graphs[l] : flat[h] = graphs[l][n]
  BY PartOfGraph
<1> HIDE DEF flat
<1>3. PICK a \in DOMAIN graphs[k] : flat[g] = graphs[k][a] BY <1>1
<1>4. PICK b \in DOMAIN graphs[l] : flat[h] = graphs[l][b] BY <1>2
<1>5. CASE k = l
  <2>1. OneOwner(graphs[k]) OBVIOUS
  <2>2. QED BY <1>3, <1>4, <1>5, <2>1 DEF OneOwner
<1>6. CASE k # l
  <2> DEFINE x == flat[g].nodes[i].primary
  <2>1. x \in Sources(flat[g]) /\ x \in Sources(flat[h]) BY DEF Sources, Range
  <2> HIDE DEF x
  <2>2. x \in OwnedSources(graphs[k]) /\ x \in OwnedSources(graphs[l])
    BY <1>3, <1>4, <2>1 DEF OwnedSources
  <2>3. Library(graphs[k]) # Library(graphs[l]) BY <1>6
  <2>4. FALSE BY <2>2, <2>3 DEF CollectOwnedSourcePathsForLink, Library
  <2>5. QED BY <2>4
<1>7. QED BY <1>5, <1>6

\* A finished target owns its sources apart from the libraries it links.
LEMMA TargetOwns ==
    ASSUME GraphInv, OwnerInv, phase = "discover", calls = << >>,
           NEW head, head = [target |-> Top.target, nodes |-> nodes],
           NEW flat, flat = FlattenSeq(Top.linked), NEW graph, graph = << head >> \o flat
    PROVE  OneOwner(graph)
<1>1. /\ FrameTypes(frames) /\ frames # << >> /\ Entered(calls)
      /\ ~CollectOwnedSourcePathsForLink(Top.linked).clash
  BY DEF GraphInv
<1>2. /\ IsSequence(Top.linked) /\ \A k \in DOMAIN Top.linked : IsGraph(Top.linked[k])
      /\ LinksOnce(Top)
  BY <1>1, TopFrame DEF OwnerInv
<1>3. OneOwner(flat) BY <1>1, <1>2, LinkedOwners DEF LinksOnce
<1>4. /\ Len(graph) = Len(flat) + 1 /\ graph[1] = head /\ DOMAIN flat = 1 .. Len(flat)
      /\ DOMAIN graph = 1 .. Len(flat) + 1 /\ Len(flat) \in Nat
      /\ \A p \in DOMAIN flat : graph[1 + p] = flat[p]
      /\ OwnedSources(flat) = External
  BY TargetAbove, SMTT(30)
<1>5. head.target = Top.target /\ head.nodes = nodes OBVIOUS
<1>6. \A g \in DOMAIN graph : g = 1 \/ (g - 1 \in DOMAIN flat /\ graph[g] = flat[g - 1])
  <2> SUFFICES ASSUME NEW g \in DOMAIN graph, g # 1
               PROVE  g - 1 \in DOMAIN flat /\ graph[g] = flat[g - 1]
    OBVIOUS
  <2>1. g - 1 \in DOMAIN flat /\ 1 + (g - 1) = g BY <1>4
  <2>2. QED BY <1>4, <2>1
<1>7. \A i \in DOMAIN nodes : nodes[i].primary \in External => i = Len(nodes)
  BY <1>1 DEF Entered
<1>8. ASSUME NEW p \in DOMAIN flat, NEW j \in DOMAIN flat[p].nodes
      PROVE  flat[p].nodes[j].primary \in External
  <2>1. flat[p].nodes[j].primary \in Sources(flat[p]) BY DEF Sources, Range
  <2>2. QED BY <1>4, <2>1 DEF OwnedSources
<1>9. ASSUME NEW g \in DOMAIN graph, NEW h \in DOMAIN graph,
             graph[g].target.name # graph[h].target.name,
             NEW i \in DOMAIN graph[g].nodes, NEW j \in DOMAIN graph[h].nodes,
             graph[g].nodes[i].primary = graph[h].nodes[j].primary
      PROVE  i = Len(graph[g].nodes) \/ j = Len(graph[h].nodes)
  <2>1. CASE g = 1 /\ h = 1 BY <1>9, <2>1
  <2>2. CASE g = 1 /\ h # 1 BY <1>4, <1>5, <1>6, <1>7, <1>8, <1>9, <2>2
  <2>3. CASE g # 1 /\ h = 1 BY <1>4, <1>5, <1>6, <1>7, <1>8, <1>9, <2>3
  <2>4. CASE g # 1 /\ h # 1
    <3>1. /\ g - 1 \in DOMAIN flat /\ graph[g] = flat[g - 1]
          /\ h - 1 \in DOMAIN flat /\ graph[h] = flat[h - 1]
      BY <1>6, <2>4
    <3>2. QED BY <1>3, <1>9, <3>1 DEF OneOwner
  <2>5. QED BY <2>1, <2>2, <2>3, <2>4
<1>10. QED BY <1>9 DEF OneOwner

\* A library's graph goes to the target that links it, which links no other
\* of that name.
LEMMA ReturnOwns ==
    ASSUME GraphInv, OwnerInv, FinishTarget
    PROVE  OwnerInv'
<1> DEFINE head  == [target |-> Top.target, nodes |-> nodes]
           flat  == FlattenSeq(Top.linked)
           graph == << head >> \o flat
           outer == Front(frames)
           L     == Len(outer)
<1>1. /\ phase = "discover" /\ calls = << >> /\ FrameTypes(frames) /\ frames # << >>
  BY DEF FinishTarget, GraphInv
<1>2. OneOwner(graph) BY <1>1, TargetOwns
<1>3. Library(graph) = Top.target.name
  <2>1. graph[1] = head BY <1>1, TargetAbove
  <2>2. QED BY <2>1 DEF Library
<1>4. /\ IsSequence(outer) /\ L \in Nat /\ DOMAIN outer = 1 .. L /\ Len(frames) = L + 1
      /\ Top = frames[L + 1]
      /\ \A i \in DOMAIN outer : outer[i] = frames[i] /\ i \in DOMAIN frames
  <2>1. IsSequence(frames) BY <1>1 DEF FrameTypes
  <2>2. /\ IsSequence(outer) /\ L = Len(frames) - 1 /\ Len(frames) \in Nat \ {0}
        /\ \A i \in 1 .. L : outer[i] = frames[i]
        /\ Top = frames[Len(frames)]
    BY <1>1, <2>1, Shortened DEF Top
  <2>3. DOMAIN frames = 1 .. Len(frames) /\ DOMAIN outer = 1 .. L
    BY <2>1, <2>2, SequenceFacts
  <2> HIDE DEF L
  <2>4. QED BY <2>2, <2>3
<1> HIDE DEF head, flat, graph, outer
<1>5. IF outer = << >> THEN phase' = "built" /\ result' = graph /\ frames' = << >>
      ELSE /\ phase' = "resolve"
           /\ frames' = [outer EXCEPT ![L].linked = Append(@, graph)]
  BY DEF FinishTarget, head, flat, graph, outer
<1>6. CASE outer = << >>
  <2>1. \A i : i \notin DOMAIN frames' BY <1>5, <1>6, Empty
  <2>2. OneOwner(result)' BY <1>2, <1>5, <1>6 DEF OneOwner
  <2>3. QED BY <2>1, <2>2 DEF OwnerInv
<1>7. CASE outer # << >>
  <2> DEFINE f  == outer[L]
             f2 == [f EXCEPT !.linked = Append(f.linked, graph)]
             fs == [outer EXCEPT ![L] = f2]
  <2>1. L \in DOMAIN outer /\ L # 0 BY <1>4, <1>7, Shortened
  <2>2. frames' = fs BY <1>5, <1>7
  <2>3. DOMAIN f = FrameFields /\ IsSequence(f.linked) BY <1>1, <1>4, <2>1 DEF FrameTypes
  <2>4. /\ f2.linked = Append(f.linked, graph) /\ f2.todo = f.todo /\ f2.target = f.target
    BY <2>3 DEF FrameFields
  <2>5. LinksOnce(f) /\ Unlisted(f, Library(graph))
    <3>1. L \in DOMAIN frames /\ f = frames[L] BY <1>4, <2>1
    <3>2. L < Len(frames) BY <1>4
    <3>3. QED BY <1>3, <1>4, <3>1, <3>2 DEF OwnerInv
  <2>6. LinksOnce(f2)
    <3> DEFINE n == Len(f.linked)
               gs == f2.linked
    <3>1. /\ IsSequence(gs) /\ Len(gs) = n + 1 /\ n \in Nat
          /\ \A i \in 1 .. n : gs[i] = f.linked[i]
          /\ gs[n + 1] = graph
      BY <2>3, <2>4, Appended, SequenceFacts
    <3>2. DOMAIN gs = 1 .. n + 1 /\ DOMAIN f.linked = 1 .. n
      BY <2>3, <3>1, SequenceFacts
    <3> HIDE DEF n, gs, f, f2
    <3>3. \A i \in DOMAIN gs : \/ i \in DOMAIN f.linked /\ gs[i] = f.linked[i]
                               \/ i = n + 1 /\ gs[i] = graph
      BY <3>1, <3>2
    <3>4. \A k, l \in DOMAIN gs : Library(gs[k]) = Library(gs[l]) => k = l
      BY <2>5, <3>3 DEF LinksOnce, Unlisted
    <3>5. \A k \in DOMAIN gs : Library(gs[k]) \notin Range(f.todo)
      BY <2>5, <3>3 DEF LinksOnce, Unlisted
    <3>6. \A k \in DOMAIN gs : OneOwner(gs[k])
      BY <1>2, <2>5, <3>3 DEF LinksOnce
    <3>7. QED BY <2>4, <2>5, <3>4, <3>5, <3>6 DEF LinksOnce, gs
  <2> HIDE DEF f2, L
  <2>7. ASSUME NEW i \in DOMAIN outer PROVE fs[i] = IF i = L THEN f2 ELSE outer[i]
    OBVIOUS
  <2>8. DOMAIN fs = DOMAIN outer /\ fs = [i \in 1 .. L |-> fs[i]] BY <1>4
  <2>9. \A i \in DOMAIN outer : fs[i].target = outer[i].target BY <2>4, <2>7
  <2> HIDE DEF fs
  <2>10. Len(fs) = L BY <1>4, <2>8, Listed
  <2>11. ASSUME NEW i \in DOMAIN fs PROVE LinksOnce(fs[i])
    <3>1. CASE i = L BY <2>6, <2>7, <2>8, <3>1
    <3>2. CASE i # L
      <4>1. i \in DOMAIN frames /\ fs[i] = frames[i] BY <1>4, <2>7, <2>8, <3>2
      <4>2. QED BY <4>1 DEF OwnerInv
    <3>3. QED BY <3>1, <3>2
  <2>12. ASSUME NEW i \in DOMAIN fs, i < Len(fs)
         PROVE  Unlisted(fs[i], fs[i + 1].target.name)
    <3>1. /\ i \in DOMAIN frames /\ fs[i] = frames[i] /\ i < Len(frames)
          /\ i + 1 \in DOMAIN outer /\ outer[i + 1] = frames[i + 1]
      BY <1>4, <2>7, <2>8, <2>10, <2>12
    <3>2. Unlisted(frames[i], frames[i + 1].target.name) BY <3>1 DEF OwnerInv
    <3>3. QED BY <2>9, <3>1, <3>2
  <2>13. \A i \in DOMAIN frames' : LinksOnce(frames'[i]) BY <2>2, <2>11
  <2>14. \A i \in DOMAIN frames' :
            i < Len(frames') => Unlisted(frames'[i], frames'[i + 1].target.name)
    BY <2>2, <2>12
  <2>15. QED BY <1>5, <1>7, <2>13, <2>14 DEF OwnerInv
<1>8. QED BY <1>6, <1>7

\* When no target links a library twice, the owners hold in every state.
LEMMA OwnersInvariant == GraphSpec => [](LinkedOnce(world) => OwnerInv)
<1>1. GraphInit => OwnerInv BY Empty DEF GraphInit, OwnerInv
<1>2. ASSUME GraphInv, LinkedOnce(world) => OwnerInv, [GraphNext]_graphVars, LinkedOnce(world)'
      PROVE  OwnerInv'
  <2>1. world' = world
    BY <1>2 DEF GraphNext, BuildTargetGraph, ResolveLink, DiscoverModuleGraph, VisitImport,
                FinishModule, FinishTarget, EnterTarget, Visit, Fail, graphVars
  <2>2. LinkedOnce(world) /\ OwnerInv BY <1>2, <2>1
  <2>3. ASSUME NEW m, NEW cs, Visit(m, cs)
        PROVE  (frames' = frames /\ phase' = "discover") \/ \E why : Fail(why)
    BY <2>3 DEF Visit
  <2>4. CASE BuildTargetGraph BY <1>2, <2>2, <2>4, ChooseOwns
  <2>5. CASE ResolveLink BY <1>2, <2>2, <2>5, LinkOwns
  <2>6. CASE DiscoverModuleGraph
    <3>1. (\E why : Fail(why)) \/ \E m, cs : Visit(m, cs) BY <2>6 DEF DiscoverModuleGraph
    <3>2. QED BY <2>2, <2>3, <3>1, DiscoveryOwns
  <2>7. CASE VisitImport
    <3>1. \/ \E why : Fail(why)
          \/ \E m, cs : Visit(m, cs)
          \/ frames' = frames /\ phase' = "discover"
      BY <2>7 DEF VisitImport
    <3>2. QED BY <2>2, <2>3, <3>1, DiscoveryOwns
  <2>8. CASE FinishModule
    <3>1. frames' = frames /\ phase' = "discover" BY <2>8 DEF FinishModule
    <3>2. QED BY <2>2, <3>1, DiscoveryOwns
  <2>9. CASE FinishTarget BY <1>2, <2>2, <2>9, ReturnOwns
  <2>10. CASE UNCHANGED graphVars BY <2>2, <2>10 DEF OwnerInv, graphVars
  <2>11. QED BY <1>2, <2>4, <2>5, <2>6, <2>7, <2>8, <2>9, <2>10 DEF GraphNext
<1>3. QED BY <1>1, <1>2, GraphInvariant, PTL DEF GraphSpec

\* In a project whose targets link no library twice, the graph that
\* BuildTargetGraph returns compiles each module once and after the modules it
\* imports, and no source in two targets save as the entry of one of them.
THEOREM BuiltAsInterfacesNeed == GraphSpec => [](LinkedOnce(world) => InterfacesComeFirst)
<1>1. GraphInv /\ (LinkedOnce(world) => OwnerInv) => (LinkedOnce(world) => InterfacesComeFirst)
  BY DEF GraphInv, OwnerInv, InterfacesComeFirst
<1>2. QED BY <1>1, GraphInvariant, OwnersInvariant, PTL
=============================================================================
