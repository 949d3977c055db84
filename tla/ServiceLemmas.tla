---------------------------- MODULE ServiceLemmas ----------------------------
(* Facts about u8 counters and bounded tables that the proofs of the kernel  *)
(* services share.                                                           *)
EXTENDS Bytes, SequencesExt, SequenceTheorems, WellFoundedInduction, TLAPS

\* Truncation leaves a value below U8 alone and wraps U8 itself to 0.
LEMMA U8Facts ==
    /\ \A n \in Nat : u8(n) \in Byte
    /\ \A n \in Byte : u8(n) = n
    /\ u8(U8) = 0
BY U8Assumption DEF u8, Byte

\* A counter that has not wrapped is incremented without wrapping twice.
LEMMA U8Step ==
    ASSUME NEW n \in Nat, n + 1 < U8
    PROVE  u8(u8(n + 1) + 1) = u8(n + 1 + 1)
<1>1. n + 1 \in Byte BY U8Assumption DEF Byte
<1>2. u8(n + 1) = n + 1 BY <1>1, U8Facts
<1>3. QED BY <1>2

\* Two values less than U8 apart have different bytes.
LEMMA U8Window ==
    ASSUME NEW a \in Nat, NEW b \in Nat, a <= b, b - a < U8, u8(a) = u8(b)
    PROVE  a = b
<1> DEFINE p == a \div U8
           q == b \div U8
<1>1. /\ p \in Int /\ a = U8 * p + u8(a)
      /\ q \in Int /\ b = U8 * q + u8(b)
      /\ u8(a) \in Int
  BY U8Assumption DEF u8
<1> HIDE DEF p, q
<1>2. b - a = U8 * (q - p)
  BY <1>1, U8Assumption
<1>3. q - p < 1 /\ q - p >= 0
  BY <1>1, <1>2, U8Assumption
<1>4. QED BY <1>1, <1>2, <1>3, U8Assumption

\* A non-empty set of naturals has a minimum.
LEMMA MinNat ==
    ASSUME NEW T, T \subseteq Nat, T # {}
    PROVE  Min(T) \in T
<1> DEFINE R == OpToRel(<, Nat)
<1>1. PICK x \in T : \A y \in T : ~(<<y, x>> \in R)
  <2> HIDE DEF R
  <2>1. IsWellFoundedOn(R, Nat) BY NatLessThanWellFounded DEF R
  <2>2. QED BY <2>1, WFMin
<1>2. \A y \in T : x =< y
  <2>1. \A y \in T : ~(y < x) BY <1>1 DEF OpToRel
  <2>2. QED BY <2>1
<1>3. QED BY <1>2 DEF Min

\* What removing the entry of slot k leaves of a table.
LEMMA RemoveAtFacts ==
    ASSUME NEW S, NEW s \in Seq(S), NEW k \in 1 .. Len(s)
    PROVE  /\ RemoveAt(s, k) \in Seq(S) /\ Len(RemoveAt(s, k)) = Len(s) - 1
           /\ \A i \in 1 .. Len(s) - 1 : RemoveAt(s, k)[i] = IF i < k THEN s[i] ELSE s[i + 1]
<1> DEFINE a == SubSeq(s, 1, k - 1)
           b == SubSeq(s, k + 1, Len(s))
           t == RemoveAt(s, k)
<1>a. a \in Seq(S) /\ Len(a) = k - 1 /\ \A i \in 1 .. k - 1 : a[i] = s[i]
  OBVIOUS
<1>b. /\ b \in Seq(S) /\ Len(b) = Len(s) - k
      /\ \A i \in 1 .. Len(s) - k : b[i] = s[k + i]
  OBVIOUS
<1>t. t = a \o b BY DEF RemoveAt
<1> HIDE DEF a, b, t
<1>1. t \in Seq(S) /\ Len(t) = Len(s) - 1
  <2>1. a \o b \in Seq(S) /\ Len(a \o b) = Len(a) + Len(b)
    BY <1>a, <1>b, ConcatProperties, Zenon
  <2>2. Len(a) + Len(b) = Len(s) - 1 BY <1>a, <1>b
  <2>3. t \in Seq(S) /\ Len(t) = Len(a) + Len(b) BY <1>t, <2>1
  <2>4. QED BY <2>2, <2>3
<1>2. ASSUME NEW i \in 1 .. Len(s) - 1
      PROVE  t[i] = IF i < k THEN s[i] ELSE s[i + 1]
  <2>1. CASE i < k
    BY <1>a, <1>b, <1>t, <2>1
  <2>2. CASE i >= k
    <3>1. i - (k - 1) \in 1 .. Len(b) /\ t[i] = b[i - (k - 1)]
      BY <1>a, <1>b, <1>t, <1>1, <2>2
    <3>2. i - (k - 1) \in 1 .. Len(s) - k /\ k + (i - (k - 1)) = i + 1
      BY <2>2
    <3>3. b[i - (k - 1)] = s[i + 1] BY <1>b, <3>2
    <3>4. QED BY <3>1, <3>3, <2>2
  <2>3. QED BY <2>1, <2>2
<1>3. QED BY <1>1, <1>2 DEF t
=============================================================================
