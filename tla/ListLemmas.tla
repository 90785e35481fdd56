---------------------------- MODULE ListLemmas ----------------------------
(***************************************************************************)
(* Facts about the natural numbers and about lists without repetition that *)
(* the proofs of several components use.  The least-element principle      *)
(* stands in for induction.                                                *)
(***************************************************************************)
EXTENDS Integers, FiniteSets, FiniteSetTheorems, SequencesExt, SequenceTheorems,
        WellFoundedInduction, TLAPS

(* Every non-empty set of natural numbers has a least element.             *)
LEMMA LeastNat ==
  ASSUME NEW S \in SUBSET Nat, S # {}
  PROVE  \E m \in S : \A k \in S : m <= k
<1>1. OpToRel(<, Nat) = {p \in Nat \X Nat : p[1] < p[2]}
  BY DEF OpToRel
<1>2. PICK m \in S : \A k \in S : <<k, m>> \notin OpToRel(<, Nat)
  BY NatLessThanWellFounded, WFMin
<1>3. ASSUME NEW k \in S PROVE ~(k < m)
  BY <1>1, <1>2
<1> QED BY <1>3
-----------------------------------------------------------------------------
LEMMA EmptyQueue == ToSet(<<>>) = {} /\ IsInjective(<<>>)
BY DEF ToSet, IsInjective

LEMMA Elements ==
  ASSUME NEW S, NEW q \in Seq(S)
  PROVE  /\ ToSet(q) \subseteq S
         /\ \A i \in 1 .. Len(q) : q[i] \in ToSet(q)
         /\ \A e \in ToSet(q) : \E i \in 1 .. Len(q) : q[i] = e
         /\ q # <<>> => Head(q) \in ToSet(q) /\ Head(q) = q[1] /\ Len(q) >= 1
         /\ q = <<>> <=> ToSet(q) = {}
BY DEF ToSet

LEMMA TailIs ==
  ASSUME NEW S, NEW q \in Seq(S), q # <<>>, IsInjective(q)
  PROVE  /\ Tail(q) \in Seq(S) /\ Len(Tail(q)) = Len(q) - 1
         /\ ToSet(Tail(q)) = ToSet(q) \ {Head(q)}
         /\ IsInjective(Tail(q))
<1>1. /\ Tail(q) \in Seq(S) /\ Len(Tail(q)) = Len(q) - 1 /\ Len(q) \in Nat \ {0}
      /\ DOMAIN q = 1 .. Len(q) /\ DOMAIN Tail(q) = 1 .. Len(q) - 1
      /\ \A i \in 1 .. Len(q) - 1 : Tail(q)[i] = q[i + 1]
      /\ Head(q) = q[1]
  BY HeadTailProperties, LenProperties, EmptySeq
<1>2. IsInjective(Tail(q))
  BY <1>1 DEF IsInjective
<1>3. ASSUME NEW e \in ToSet(Tail(q)) PROVE e \in ToSet(q) \ {Head(q)}
  <2>1. PICK i \in 1 .. Len(q) - 1 : e = q[i + 1]
    BY <1>1 DEF ToSet
  <2>2. i + 1 \in DOMAIN q /\ 1 \in DOMAIN q /\ i + 1 # 1
    BY <1>1
  <2> QED BY <1>1, <2>1, <2>2 DEF ToSet, IsInjective
<1>4. ASSUME NEW e \in ToSet(q) \ {Head(q)} PROVE e \in ToSet(Tail(q))
  <2>1. PICK i \in DOMAIN q : e = q[i]
    BY DEF ToSet
  <2>2. i - 1 \in DOMAIN Tail(q) /\ Tail(q)[i - 1] = q[i]
    BY <1>1, <2>1
  <2> QED BY <2>1, <2>2 DEF ToSet
<1> QED BY <1>1, <1>2, <1>3, <1>4

LEMMA LastTail ==
  ASSUME NEW S, NEW q \in Seq(S), q # <<>>, Len(q) <= 1
  PROVE  Len(q) = 1 /\ Tail(q) = <<>> /\ Len(Tail(q)) = 0
<1>1. Tail(q) \in Seq(S) /\ Len(Tail(q)) = Len(q) - 1 /\ Len(q) \in Nat \ {0}
  BY HeadTailProperties, EmptySeq
<1>2. Len(Tail(q)) = 0
  BY <1>1
<1> QED BY <1>1, <1>2, EmptySeq

LEMMA AppendIs ==
  ASSUME NEW S, NEW q \in Seq(S), NEW e \in S
  PROVE  /\ Append(q, e) \in Seq(S) /\ Len(Append(q, e)) = Len(q) + 1
         /\ ToSet(Append(q, e)) = ToSet(q) \cup {e}
         /\ IsInjective(q) /\ e \notin ToSet(q) => IsInjective(Append(q, e))
<1>1. /\ Append(q, e) \in Seq(S) /\ Len(Append(q, e)) = Len(q) + 1 /\ Len(q) \in Nat
      /\ DOMAIN q = 1 .. Len(q) /\ DOMAIN Append(q, e) = 1 .. Len(q) + 1
      /\ \A i \in 1 .. Len(q) : Append(q, e)[i] = q[i]
      /\ Append(q, e)[Len(q) + 1] = e
  BY AppendProperties, LenProperties
<1>2. \A i \in 1 .. Len(q) + 1 : i \in 1 .. Len(q) \/ i = Len(q) + 1
  BY <1>1
<1>3. ASSUME NEW x \in ToSet(Append(q, e)) PROVE x \in ToSet(q) \cup {e}
  BY <1>1, <1>2 DEF ToSet
<1>4. ASSUME NEW x \in ToSet(q) \cup {e} PROVE x \in ToSet(Append(q, e))
  <2>1. CASE x = e
    <3>1. Len(q) + 1 \in DOMAIN Append(q, e)
      BY <1>1
    <3> QED BY <1>1, <2>1, <3>1 DEF ToSet
  <2>2. CASE x \in ToSet(q)
    <3>1. PICK i \in 1 .. Len(q) : q[i] = x
      BY <1>1, <2>2 DEF ToSet
    <3>2. i \in DOMAIN Append(q, e)
      BY <1>1
    <3> QED BY <1>1, <3>1, <3>2 DEF ToSet
  <2> QED BY <2>1, <2>2
<1>5. IsInjective(q) /\ e \notin ToSet(q) => IsInjective(Append(q, e))
  BY <1>1, <1>2 DEF IsInjective, ToSet
<1> QED BY <1>1, <1>3, <1>4, <1>5

\* A list in reverse in front of another one.
LEMMA ReverseOnto ==
  ASSUME NEW S, NEW c \in Seq(S), NEW q \in Seq(S)
  PROVE  LET m == Len(c)
             n == Len(q)
             r == Reverse(c) \o q
         IN /\ r \in Seq(S) /\ Len(r) = m + n
            /\ \A i \in 1 .. m + n : r[i] = IF i <= m THEN c[m - i + 1] ELSE q[i - m]
<1> DEFINE m == Len(c)
           n == Len(q)
           b == Reverse(c)
<1>1. m \in Nat /\ n \in Nat /\ \A i \in 1 .. m : c[i] \in S
  BY LenProperties, ElementOfSeq
<1>2. b \in Seq(S) /\ Len(b) = m /\ \A i \in 1 .. m : b[i] = c[m - i + 1]
  <2>1. b \in [1 .. m -> S]
    BY <1>1 DEF Reverse
  <2> QED BY <1>1, <2>1 DEF Reverse
<1> HIDE DEF b
<1>3. /\ b \o q \in Seq(S) /\ Len(b \o q) = Len(b) + n
      /\ \A i \in 1 .. Len(b) + n : (b \o q)[i] = IF i <= Len(b) THEN b[i] ELSE q[i - Len(b)]
  BY <1>2, ConcatProperties
<1> HIDE DEF m, n
<1>4. \A i \in 1 .. m + n : i <= m => b[i] = c[m - i + 1]
  BY <1>1, <1>2
<1>5. /\ b \o q \in Seq(S) /\ Len(b \o q) = m + n
      /\ \A i \in 1 .. m + n : (b \o q)[i] = IF i <= m THEN b[i] ELSE q[i - m]
  BY <1>2, <1>3
<1>6. \A i \in 1 .. m + n : (b \o q)[i] = IF i <= m THEN c[m - i + 1] ELSE q[i - m]
  BY <1>4, <1>5
<1> QED BY <1>5, <1>6 DEF b, m, n

\* free_packets: the completed queue goes in reverse in front of the free list.
LEMMA GiveBackIs ==
  ASSUME NEW S, NEW c \in Seq(S), NEW q \in Seq(S)
  PROVE  /\ Reverse(c) \o q \in Seq(S) /\ Len(Reverse(c) \o q) = Len(c) + Len(q)
         /\ ToSet(Reverse(c) \o q) = ToSet(c) \cup ToSet(q)
         /\ IsInjective(c) /\ IsInjective(q) /\ ToSet(c) \cap ToSet(q) = {}
              => IsInjective(Reverse(c) \o q)
<1> DEFINE m == Len(c)
           n == Len(q)
           r == Reverse(c) \o q
<1>1. /\ m \in Nat /\ n \in Nat /\ DOMAIN c = 1 .. m /\ DOMAIN q = 1 .. n
      /\ \A i \in 1 .. m : c[i] \in S
  BY LenProperties, ElementOfSeq
<1>3. /\ r \in Seq(S) /\ Len(r) = m + n
      /\ \A i \in 1 .. m + n : r[i] = IF i <= m THEN c[m - i + 1] ELSE q[i - m]
  BY ReverseOnto
<1>4. DOMAIN r = 1 .. m + n
  BY <1>3, LenProperties
<1> HIDE DEF r, m, n
<1>5. ASSUME NEW x \in ToSet(r) PROVE x \in ToSet(c) \cup ToSet(q)
  <2>1. PICK i \in 1 .. m + n : x = r[i]
    BY <1>4 DEF ToSet
  <2>2. CASE i <= m
    <3>1. m - i + 1 \in DOMAIN c
      BY <1>1, <2>2
    <3> QED BY <1>3, <2>1, <2>2, <3>1 DEF ToSet
  <2>3. CASE ~(i <= m)
    <3>1. i - m \in DOMAIN q
      BY <1>1, <2>3
    <3> QED BY <1>3, <2>1, <2>3, <3>1 DEF ToSet
  <2> QED BY <2>2, <2>3
<1>6. ASSUME NEW x \in ToSet(c) \cup ToSet(q) PROVE x \in ToSet(r)
  <2>1. CASE x \in ToSet(c)
    <3>1. PICK i \in 1 .. m : x = c[i]
      BY <1>1, <2>1 DEF ToSet
    <3>2. m - i + 1 \in 1 .. m + n /\ m - i + 1 <= m /\ m - (m - i + 1) + 1 = i
      BY <1>1
    <3> QED BY <1>3, <1>4, <3>1, <3>2 DEF ToSet
  <2>2. CASE x \in ToSet(q)
    <3>1. PICK i \in 1 .. n : x = q[i]
      BY <1>1, <2>2 DEF ToSet
    <3> DEFINE k == i + m
    <3>2. k \in 1 .. m + n /\ ~(k <= m) /\ k - m = i
      BY <1>1
    <3> HIDE DEF k
    <3>3. r[k] = q[i]
      BY <1>3, <3>2
    <3> QED BY <1>4, <3>1, <3>2, <3>3 DEF ToSet
  <2> QED BY <2>1, <2>2
<1>7. ASSUME IsInjective(c), IsInjective(q), ToSet(c) \cap ToSet(q) = {}
      PROVE  IsInjective(r)
  <2> SUFFICES ASSUME NEW i \in 1 .. m + n, NEW j \in 1 .. m + n, r[i] = r[j]
               PROVE  i = j
    BY <1>4 DEF IsInjective
  <2>1. \A k \in 1 .. m + n : IF k <= m THEN m - k + 1 \in DOMAIN c ELSE k - m \in DOMAIN q
    BY <1>1
  <2>2. CASE i <= m /\ j <= m
    <3>1. c[m - i + 1] = c[m - j + 1] /\ m - i + 1 \in DOMAIN c /\ m - j + 1 \in DOMAIN c
      BY <1>3, <2>1, <2>2
    <3>2. m - i + 1 = m - j + 1
      BY <1>7, <3>1 DEF IsInjective
    <3> QED BY <1>1, <3>2
  <2>3. CASE ~(i <= m) /\ ~(j <= m)
    <3>1. q[i - m] = q[j - m] /\ i - m \in DOMAIN q /\ j - m \in DOMAIN q
      BY <1>3, <2>1, <2>3
    <3>2. i - m = j - m
      BY <1>7, <3>1 DEF IsInjective
    <3> QED BY <1>1, <3>2
  <2>4. \A k, l \in 1 .. m + n : k <= m /\ ~(l <= m) => r[k] # r[l]
    <3> SUFFICES ASSUME NEW k \in 1 .. m + n, NEW l \in 1 .. m + n, k <= m, ~(l <= m)
                 PROVE  r[k] # r[l]
      OBVIOUS
    <3>1. r[k] \in ToSet(c) /\ r[l] \in ToSet(q)
      <4>1. r[k] = c[m - k + 1] /\ r[l] = q[l - m]
        BY <1>3
      <4>2. m - k + 1 \in DOMAIN c /\ l - m \in DOMAIN q
        BY <2>1
      <4> QED BY <4>1, <4>2 DEF ToSet
    <3>2. \A e \in ToSet(c) : e \notin ToSet(q)
      BY <1>7
    <3> QED BY <3>1, <3>2
  <2> QED BY <2>2, <2>3, <2>4
<1>8. r \in Seq(S) /\ Len(r) = Len(c) + Len(q)
  BY <1>3 DEF m, n
<1>9. ToSet(r) = ToSet(c) \cup ToSet(q)
  BY <1>5, <1>6
<1>10. IsInjective(c) /\ IsInjective(q) /\ ToSet(c) \cap ToSet(q) = {} => IsInjective(r)
  BY <1>7
<1> QED BY <1>8, <1>9, <1>10 DEF r
=============================================================================
