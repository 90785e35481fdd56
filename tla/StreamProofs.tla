---------------------------- MODULE StreamProofs ----------------------------
(***************************************************************************)
(* The linked lists implement the queues, for any number of packets and    *)
(* streams.  A list without repetition that starts at a pointer is the     *)
(* only one that does (ListIs), so each operation need only show which     *)
(* queue the links spell out afterwards.                                   *)
(***************************************************************************)
EXTENDS StreamLists, ListLemmas

\* The lists: the free list, and two of each stream.
Free    == <<"free", NULL>>
OfStreams == {"active", "completed"} \X Streams
Lists   == {Free} \cup OfStreams

Start(l) == CASE l[1] = "free"      -> freelist
              [] l[1] = "active"    -> si[l[2]].start
              [] l[1] = "completed" -> si[l[2]].completed_start
End(l) == IF l[1] = "active" THEN si[l[2]].end ELSE si[l[2]].completed_end

Queue(l)  == Chain(Start(l))
LastOf(q) == IF q = <<>> THEN NULL ELSE q[Len(q)]

\* Each list is one, without a loop.
Listed == \A l \in Lists : /\ Queue(l) \in Seq(Packets) /\ IsInjective(Queue(l))
                           /\ Linked(next, Queue(l), Start(l))

\* No packet is on two lists, and none that is held is on a list.
Apart == /\ \A l, k \in Lists : l # k => ToSet(Queue(l)) \cap ToSet(Queue(k)) = {}
         /\ \A l \in Lists : ToSet(Queue(l)) \cap held = {}

\* The two ends of a list go together.
EndsMeet == \A l \in OfStreams : End(l) = LastOf(Queue(l))

StreamInv == TypeOK /\ Listed /\ Apart /\ EndsMeet
-----------------------------------------------------------------------------
(* Linked lists.                                                            *)

LEMMA PacketIsNoNull == /\ \A x \in Packets : x # NULL /\ x \in Pointer
                        /\ NULL \in Pointer /\ NULL \notin Packets
BY StreamAssumption DEF Packets, NULL, Pointer

\* Two lists from one pointer agree as far as the first goes.
LEMMA SamePrefix ==
  ASSUME NEW links, NEW p, NEW q \in Seq(Packets), NEW r \in Seq(Packets),
         Linked(links, q, p), Linked(links, r, p)
  PROVE  Len(q) <= Len(r) /\ \A i \in 1 .. Len(q) : r[i] = q[i]
<1> DEFINE B == {i \in 1 .. Len(q) : ~(i <= Len(r) /\ r[i] = q[i])}
<1>1. /\ Len(q) \in Nat /\ Len(r) \in Nat
      /\ DOMAIN q = 1 .. Len(q) /\ DOMAIN r = 1 .. Len(r)
      /\ \A i \in 1 .. Len(q) : q[i] \in Packets
      /\ \A i \in 1 .. Len(r) : r[i] \in Packets
      /\ q = <<>> <=> Len(q) = 0
      /\ r = <<>> <=> Len(r) = 0
  BY LenProperties, ElementOfSeq, EmptySeq
<1>2. SUFFICES B = {}
  BY <1>1
<1>3. SUFFICES ASSUME B # {} PROVE FALSE
  OBVIOUS
<1>4. PICK m \in B : \A k \in B : m <= k
  <2>1. B \in SUBSET Nat
    BY <1>1
  <2> HIDE DEF B
  <2> QED BY <1>3, <2>1, LeastNat
<1>5. m \in 1 .. Len(q) /\ ~(m <= Len(r) /\ r[m] = q[m]) /\ q[m] \in Packets /\ q[m] # NULL
  BY <1>1, PacketIsNoNull
<1>6. CASE m = 1
  <2>1. p = q[1] /\ p # NULL
    BY <1>1, <1>5, <1>6 DEF Linked
  <2>2. r # <<>> /\ r[1] = p
    BY <2>1 DEF Linked
  <2> QED BY <1>1, <1>5, <1>6, <2>1, <2>2
<1>7. CASE m # 1
  <2> DEFINE k == m - 1
  <2>1. k \in 1 .. Len(q) /\ k < m /\ k # Len(q) /\ k + 1 = m
    BY <1>1, <1>5, <1>7
  <2>2. k \notin B
    BY <1>4, <2>1
  <2>3. k \in 1 .. Len(r) /\ r[k] = q[k]
    BY <1>1, <2>1, <2>2
  <2>4. links[q[k]] = q[m]
    BY <1>1, <2>1 DEF Linked
  <2>5. links[r[k]] = IF k = Len(r) THEN NULL ELSE r[k + 1]
    BY <1>1, <2>3 DEF Linked
  <2>6. k # Len(r) /\ r[m] = q[m]
    BY <1>5, <2>1, <2>3, <2>4, <2>5
  <2> QED BY <1>1, <1>5, <2>1, <2>3, <2>6
<1> QED BY <1>6, <1>7

LEMMA OneList ==
  ASSUME NEW links, NEW p, NEW q \in Seq(Packets), NEW r \in Seq(Packets),
         Linked(links, q, p), Linked(links, r, p)
  PROVE  q = r
<1>1. Len(q) <= Len(r) /\ \A i \in 1 .. Len(q) : r[i] = q[i]
  BY SamePrefix
<1>2. Len(r) <= Len(q)
  BY SamePrefix
<1>3. Len(q) = Len(r)
  BY <1>1, <1>2, LenProperties
<1> QED BY <1>1, <1>3, SeqEqual

\* A list without repetition is no longer than there are packets.
LEMMA NoLonger ==
  ASSUME NEW q \in Seq(Packets), IsInjective(q)
  PROVE  q \in BoundedSeq(Packets, NumPackets)
<1> DEFINE n == Len(q)
<1>1. n \in Nat /\ DOMAIN q = 1 .. n /\ q \in [1 .. n -> Packets] /\ NumPackets \in Nat
  BY LenProperties, StreamAssumption
<1>2. q \in Injection(1 .. n, Packets)
  BY <1>1 DEF IsInjective, Injection
<1>3. IsFiniteSet(Packets) /\ Cardinality(Packets) = NumPackets /\ Cardinality(1 .. n) = n
  <2>1. \A k \in Nat : /\ IsFiniteSet(1 .. k)
                       /\ Cardinality(1 .. k) = IF 1 > k THEN 0 ELSE k - 1 + 1
    BY FS_Interval
  <2>2. \A k \in Nat : IsFiniteSet(1 .. k) /\ Cardinality(1 .. k) = k
    BY <2>1
  <2> QED BY <1>1, <2>2 DEF Packets
<1>4. n <= NumPackets
  BY <1>2, <1>3, FS_Injection
<1>5. n \in 0 .. NumPackets
  BY <1>1, <1>4
<1> HIDE DEF n
<1> QED BY <1>1, <1>5 DEF BoundedSeq, SeqOf

\* What ListFrom finds is the list that the links spell out.
LEMMA ListIs ==
  ASSUME NEW links, NEW p, NEW q \in Seq(Packets), IsInjective(q), Linked(links, q, p)
  PROVE  ListFrom(links, p) = q
<1> DEFINE S == BoundedSeq(Packets, NumPackets)
           r == CHOOSE x \in S : Linked(links, x, p)
<1>1. q \in S
  BY NoLonger
<1>2. S \subseteq Seq(Packets)
  <2> SUFFICES ASSUME NEW x \in S PROVE x \in Seq(Packets)
    OBVIOUS
  <2>1. PICK m \in 0 .. NumPackets : x \in [1 .. m -> Packets]
    BY DEF BoundedSeq, SeqOf
  <2>2. m \in Nat
    BY StreamAssumption
  <2> QED BY <2>1, <2>2
<1> HIDE DEF S
<1>3. r \in S /\ Linked(links, r, p)
  BY <1>1
<1>4. ListFrom(links, p) = r
  BY <1>1 DEF ListFrom, S
<1> HIDE DEF r
<1>5. r = q
  BY <1>2, <1>3, OneList
<1> QED BY <1>4, <1>5

\* Links changed elsewhere leave a list alone.
LEMMA Untouched ==
  ASSUME NEW links, NEW new, NEW p, NEW q \in Seq(Packets), Linked(links, q, p),
         \A x \in ToSet(q) : new[x] = links[x]
  PROVE  Linked(new, q, p)
<1>1. \A i \in DOMAIN q : q[i] \in ToSet(q)
  BY DEF ToSet
<1> QED BY <1>1 DEF Linked

\* The list behind the head starts where the head points.
LEMMA LinkedTail ==
  ASSUME NEW links, NEW p, NEW q \in Seq(Packets), Linked(links, q, p), p # NULL
  PROVE  /\ q # <<>> /\ p = q[1] /\ p = Head(q) /\ p \in ToSet(q) /\ p \in Packets
         /\ Linked(links, Tail(q), links[p])
         /\ LastOf(Tail(q)) = IF links[p] = NULL THEN NULL ELSE LastOf(q)
<1> DEFINE n == Len(q)
           t == Tail(q)
<1>1. q # <<>> /\ p = q[1]
  BY DEF Linked
<1>2. /\ t \in Seq(Packets) /\ Len(t) = n - 1 /\ n \in Nat \ {0} /\ Head(q) = q[1]
      /\ \A i \in 1 .. Len(t) : t[i] = q[i + 1]
  <2>1. n \in Nat /\ (q = <<>> <=> n = 0)
    BY LenProperties, EmptySeq
  <2> HIDE DEF n
  <2>2. /\ t \in Seq(Packets) /\ Len(t) = n - 1
        /\ \A i \in 1 .. Len(t) : t[i] = q[i + 1]
    BY <1>1, HeadTailProperties DEF n
  <2>3. Head(q) = q[1]
    OBVIOUS
  <2> QED BY <1>1, <2>1, <2>2, <2>3
<1>3. /\ DOMAIN q = 1 .. n /\ \A i \in 1 .. n : q[i] \in Packets
      /\ DOMAIN t = 1 .. n - 1 /\ (t = <<>> <=> Len(t) = 0)
      /\ \A i \in 1 .. n : links[q[i]] = IF i = n THEN NULL ELSE q[i + 1]
  <2>1. DOMAIN q = 1 .. n /\ \A i \in 1 .. n : q[i] \in Packets
    BY LenProperties, ElementOfSeq
  <2>2. DOMAIN t = 1 .. Len(t) /\ (t = <<>> <=> Len(t) = 0)
    BY <1>2, LenProperties, EmptySeq
  <2> HIDE DEF t
  <2> QED BY <1>2, <2>1, <2>2 DEF Linked
<1> HIDE DEF n, t
<1>4. p \in ToSet(q) /\ p \in Packets /\ 1 \in 1 .. n
  BY <1>1, <1>2, <1>3 DEF ToSet
<1>5. links[p] = IF t = <<>> THEN NULL ELSE t[1]
  <2>1. CASE n = 1
    BY <1>1, <1>2, <1>3, <1>4, <2>1
  <2>2. CASE n # 1
    <3>1. 1 \in 1 .. n - 1 /\ t # <<>> /\ links[q[1]] = q[1 + 1]
      BY <1>2, <1>3, <1>4, <2>2
    <3>2. t[1] = q[1 + 1]
      BY <1>2, <3>1
    <3> QED BY <1>1, <3>1, <3>2
  <2> QED BY <2>1, <2>2
<1>6. ASSUME NEW i \in 1 .. n - 1
      PROVE  links[t[i]] = IF i = n - 1 THEN NULL ELSE t[i + 1]
  <2>1. i + 1 \in 1 .. n /\ t[i] = q[i + 1]
    BY <1>2
  <2>2. links[q[i + 1]] = IF i + 1 = n THEN NULL ELSE q[i + 1 + 1]
    BY <1>3, <2>1
  <2>3. CASE i = n - 1
    BY <1>2, <2>1, <2>2, <2>3
  <2>4. CASE i # n - 1
    <3>1. i + 1 \in 1 .. n - 1 /\ i + 1 # n
      BY <1>2, <2>4
    <3>2. t[i + 1] = q[i + 1 + 1]
      BY <1>2, <3>1
    <3> QED BY <2>1, <2>2, <2>4, <3>1, <3>2
  <2> QED BY <2>3, <2>4
<1>7. Linked(links, t, links[p])
  BY <1>2, <1>3, <1>5, <1>6 DEF Linked
<1>8. LastOf(t) = IF links[p] = NULL THEN NULL ELSE LastOf(q)
  <2>1. CASE t = <<>>
    BY <1>5, <2>1 DEF LastOf
  <2>2. CASE t # <<>>
    <3>1. n - 1 \in 1 .. n - 1 /\ 1 \in 1 .. n - 1 /\ n - 1 + 1 = n /\ 1 + 1 \in 1 .. n
      BY <1>2, <1>3, <2>2
    <3>2. t[n - 1] = q[n] /\ t[1] = q[1 + 1]
      BY <1>2, <3>1
    <3>3. links[p] # NULL
      BY <1>3, <1>5, <2>2, <3>1, <3>2, PacketIsNoNull
    <3> QED BY <1>1, <1>2, <2>2, <3>2, <3>3 DEF LastOf, n
  <2> QED BY <2>1, <2>2
<1> QED BY <1>1, <1>2, <1>4, <1>7, <1>8 DEF t

LEMMA LastAppend ==
  ASSUME NEW q \in Seq(Packets), NEW x \in Packets
  PROVE  LastOf(Append(q, x)) = x
<1> DEFINE r == Append(q, x)
           n == Len(q)
<1>1. Len(r) = n + 1 /\ n \in Nat /\ r[n + 1] = x /\ r \in Seq(Packets)
  BY AppendProperties, LenProperties
<1> HIDE DEF n
<1>2. r # <<>>
  BY <1>1, EmptySeq
<1> HIDE DEF r
<1> QED BY <1>1, <1>2 DEF LastOf, r

\* A packet behind the last one.
LEMMA LinkedAppend ==
  ASSUME NEW links, NEW new, NEW p, NEW q \in Seq(Packets), NEW x \in Packets,
         Linked(links, q, p), IsInjective(q), new[x] = NULL,
         q # <<>> => new[LastOf(q)] = x,
         \A y \in ToSet(q) : y # LastOf(q) => new[y] = links[y],
         NEW h, h = IF q = <<>> THEN x ELSE p
  PROVE  Linked(new, Append(q, x), h)
<1> DEFINE n == Len(q)
           r == Append(q, x)
<1>1. /\ r \in Seq(Packets) /\ Len(r) = n + 1 /\ n \in Nat
      /\ DOMAIN q = 1 .. n /\ DOMAIN r = 1 .. n + 1
      /\ \A i \in 1 .. n : r[i] = q[i]
      /\ r[n + 1] = x
      /\ q = <<>> <=> n = 0
      /\ r # <<>>
  BY AppendProperties, LenProperties, EmptySeq
<1>5. q # <<>> => LastOf(q) = q[n]
  BY DEF LastOf
<1> HIDE DEF r, n
<1>3. h = r[1]
  <2>1. CASE q = <<>>
    BY <1>1, <2>1
  <2>2. CASE q # <<>>
    <3>1. 1 \in 1 .. n
      BY <1>1, <2>2
    <3> QED BY <1>1, <2>2, <3>1 DEF Linked
  <2> QED BY <2>1, <2>2
<1>4. ASSUME NEW i \in 1 .. n + 1
      PROVE  new[r[i]] = IF i = n + 1 THEN NULL ELSE r[i + 1]
  <2>1. CASE i = n + 1
    BY <1>1, <2>1
  <2>2. CASE i = n
    <3>0. n \in 1 .. n /\ n # n + 1
      BY <1>1, <2>2
    <3>1. q # <<>> /\ LastOf(q) = q[n] /\ r[i] = q[n] /\ n # n + 1
      BY <1>1, <1>5, <2>2, <3>0
    <3> QED BY <1>1, <2>2, <3>1
  <2>3. CASE i < n
    <3>1. i \in 1 .. n /\ i + 1 \in 1 .. n /\ n \in 1 .. n /\ i # n
      BY <1>1, <2>3
    <3>2. q # <<>> /\ LastOf(q) = q[n]
      BY <1>1, <1>5, <3>1
    <3>3. q[i] # q[n] /\ q[i] \in ToSet(q)
      BY <1>1, <3>1 DEF IsInjective, ToSet
    <3>4. links[q[i]] = q[i + 1]
      BY <1>1, <3>1 DEF Linked, n
    <3>5. new[q[i]] = q[i + 1]
      BY <3>2, <3>3, <3>4
    <3>6. r[i] = q[i] /\ r[i + 1] = q[i + 1] /\ i # n + 1
      BY <1>1, <3>1
    <3> QED BY <3>5, <3>6
  <2> QED BY <1>1, <2>1, <2>2, <2>3
<1> QED BY <1>1, <1>3, <1>4 DEF Linked, r

\* A list in reverse in front of another one.
LEMMA LinkedBack ==
  ASSUME NEW links, NEW new, NEW p, NEW c \in Seq(Packets), NEW q \in Seq(Packets),
         Linked(links, q, p),
         \A i \in 1 .. Len(c) : new[c[i]] = IF i = 1 THEN p ELSE c[i - 1],
         \A y \in ToSet(q) : new[y] = links[y]
  PROVE  Linked(new, Reverse(c) \o q, IF c = <<>> THEN p ELSE c[Len(c)])
<1> DEFINE m == Len(c)
           n == Len(q)
           r == Reverse(c) \o q
<1>1. /\ m \in Nat /\ n \in Nat /\ DOMAIN q = 1 .. n
      /\ c = <<>> <=> m = 0
      /\ q = <<>> <=> n = 0
      /\ \A i \in 1 .. n : q[i] \in ToSet(q)
  BY LenProperties, EmptySeq DEF ToSet
<1>2. /\ r \in Seq(Packets) /\ Len(r) = m + n
      /\ \A i \in 1 .. m + n : r[i] = IF i <= m THEN c[m - i + 1] ELSE q[i - m]
  BY ReverseOnto
<1>3. DOMAIN r = 1 .. m + n /\ (r = <<>> <=> m + n = 0)
  BY <1>2, LenProperties, EmptySeq
<1>4. /\ \A i \in 1 .. m : new[c[i]] = IF i = 1 THEN p ELSE c[i - 1]
      /\ \A i \in 1 .. n : new[q[i]] = IF i = n THEN NULL ELSE q[i + 1]
      /\ p = IF q = <<>> THEN NULL ELSE q[1]
  BY <1>1 DEF Linked
<1>2a. /\ \A j \in 1 .. m + n : j <= m => r[j] = c[m - j + 1]
       /\ \A j \in 1 .. m + n : ~(j <= m) => r[j] = q[j - m]
  <2> HIDE DEF m, n, r
  <2> QED BY <1>2
<1>5. (IF c = <<>> THEN p ELSE c[m]) = IF r = <<>> THEN NULL ELSE r[1]
  <2> HIDE DEF m, n, r
  <2>1. CASE m = 0
    <3>1. CASE n = 0
      BY <1>1, <1>3, <1>4, <2>1, <3>1
    <3>2. CASE n # 0
      <4>1. 1 \in 1 .. m + n /\ ~(1 <= m) /\ 1 - m = 1
        BY <1>1, <2>1, <3>2
      <4> QED BY <1>1, <1>2a, <1>3, <1>4, <2>1, <3>2, <4>1
    <3> QED BY <3>1, <3>2
  <2>2. CASE m # 0
    <3>1. 1 \in 1 .. m + n /\ 1 <= m /\ m - 1 + 1 = m /\ m + n # 0
      BY <1>1, <2>2
    <3> QED BY <1>1, <1>2a, <1>3, <2>2, <3>1
  <2> QED BY <2>1, <2>2
<1>6. ASSUME NEW i \in 1 .. m + n
      PROVE  new[r[i]] = IF i = m + n THEN NULL ELSE r[i + 1]
  <2> HIDE DEF m, n, r
  <2>1. CASE i < m
    <3>1. /\ i <= m /\ m - i + 1 \in 1 .. m /\ m - i + 1 # 1 /\ m - i + 1 - 1 = m - i
          /\ i + 1 \in 1 .. m + n /\ i + 1 <= m /\ m - (i + 1) + 1 = m - i /\ i # m + n
      BY <1>1, <2>1
    <3>2. new[r[i]] = c[m - i]
      <4>1. r[i] = c[m - i + 1]
        BY <1>2a, <3>1
      <4>2. new[c[m - i + 1]] = c[m - i + 1 - 1]
        <5> DEFINE k == m - i + 1
        <5>1. k \in 1 .. m /\ k # 1 /\ k - 1 = m - i + 1 - 1
          BY <1>1, <3>1
        <5>2. c[k - 1] = c[m - i + 1 - 1]
          BY <5>1
        <5> HIDE DEF k
        <5>3. new[c[k]] = c[k - 1]
          BY <1>4, <5>1
        <5> QED BY <5>2, <5>3 DEF k
      <4> QED BY <3>1, <4>1, <4>2
    <3>3. r[i + 1] = c[m - i]
      BY <1>2a, <3>1
    <3> QED BY <3>1, <3>2, <3>3
  <2>2. CASE i = m
    <3>1. i <= m /\ m - i + 1 = 1 /\ 1 \in 1 .. m
      BY <1>1, <2>2
    <3>2. new[r[i]] = p
      BY <1>2a, <1>4, <3>1
    <3>3. CASE n = 0
      BY <1>1, <1>4, <2>2, <3>2, <3>3
    <3>4. CASE n # 0
      <4>1. i + 1 \in 1 .. m + n /\ ~(i + 1 <= m) /\ i + 1 - m = 1 /\ i # m + n
        BY <1>1, <2>2, <3>4
      <4>2. r[i + 1] = q[1]
        <5> DEFINE k == i + 1
        <5>1. k \in 1 .. m + n /\ ~(k <= m) /\ k - m = 1
          BY <1>1, <4>1
        <5> HIDE DEF k
        <5>2. r[k] = q[1]
          BY <1>2a, <5>1
        <5> QED BY <5>2 DEF k
      <4> QED BY <1>1, <1>4, <3>2, <3>4, <4>1, <4>2
    <3> QED BY <3>3, <3>4
  <2>3. CASE i > m
    <3>1. ~(i <= m) /\ i - m \in 1 .. n
      BY <1>1, <2>3
    <3>2. new[r[i]] = IF i - m = n THEN NULL ELSE q[i - m + 1]
      BY <1>2a, <1>4, <3>1
    <3>3. CASE i = m + n
      <4>1. i - m = n
        BY <1>1, <3>3
      <4> QED BY <3>2, <3>3, <4>1
    <3>4. CASE i # m + n
      <4>1. i - m # n /\ i + 1 \in 1 .. m + n /\ ~(i + 1 <= m) /\ i + 1 - m = i - m + 1
        BY <1>1, <2>3, <3>4
      <4>2. r[i + 1] = q[i - m + 1]
        <5> DEFINE k == i + 1
        <5>1. k \in 1 .. m + n /\ ~(k <= m) /\ k - m = i - m + 1
          BY <1>1, <4>1
        <5> HIDE DEF k
        <5>2. r[k] = q[i - m + 1]
          BY <1>2a, <5>1
        <5> QED BY <5>2 DEF k
      <4> QED BY <3>2, <3>4, <4>1, <4>2
    <3> QED BY <3>3, <3>4
  <2> QED BY <1>1, <2>1, <2>2, <2>3
<1>7. DOMAIN r = 1 .. Len(r) /\ Len(r) = m + n
  BY <1>2, <1>3
<1> HIDE DEF r
<1>8. \A i \in DOMAIN r : new[r[i]] = IF i = Len(r) THEN NULL ELSE r[i + 1]
  BY <1>6, <1>7
<1>9. Linked(new, r, IF c = <<>> THEN p ELSE c[m])
  BY <1>5, <1>8 DEF Linked
<1> QED BY <1>9 DEF r
-----------------------------------------------------------------------------
(* The lists of a state and of the next.                                    *)

LEMMA ListNames ==
  /\ \A l \in Lists : \/ l = Free
                      \/ \E s \in Streams : l = <<"active", s>> \/ l = <<"completed", s>>
  /\ Free \in Lists /\ Free \notin OfStreams
  /\ \A s \in Streams :
       /\ <<"active", s>> \in OfStreams /\ <<"completed", s>> \in OfStreams
       /\ <<"active", s>> # <<"completed", s>>
       /\ <<"active", s>> # Free /\ <<"completed", s>> # Free
  /\ \A s, t \in Streams : s # t => /\ <<"active", s>> # <<"active", t>>
                                    /\ <<"completed", s>> # <<"completed", t>>
  /\ \A s, t \in Streams : <<"active", s>> # <<"completed", t>>
  /\ OfStreams \subseteq Lists
BY DEF Lists, OfStreams, Free

LEMMA Ends ==
  /\ Start(Free) = freelist /\ Start(Free)' = freelist'
  /\ \A s \in Streams :
       /\ Start(<<"active", s>>) = si[s].start
       /\ Start(<<"completed", s>>) = si[s].completed_start
       /\ End(<<"active", s>>) = si[s].end
       /\ End(<<"completed", s>>) = si[s].completed_end
       /\ Start(<<"active", s>>)' = si'[s].start
       /\ Start(<<"completed", s>>)' = si'[s].completed_start
       /\ End(<<"active", s>>)' = si'[s].end
       /\ End(<<"completed", s>>)' = si'[s].completed_end
BY DEF Start, End, Free

\* The links after a step spell out the lists Q.
LEMMA Reached ==
  ASSUME TypeOK', NEW Q \in [Lists -> Seq(Packets)],
         \A l \in Lists : IsInjective(Q[l]) /\ Linked(next', Q[l], Start(l)'),
         \A l, k \in Lists : l # k => ToSet(Q[l]) \cap ToSet(Q[k]) = {},
         \A l \in Lists : ToSet(Q[l]) \cap held' = {},
         \A l \in OfStreams : End(l)' = LastOf(Q[l])
  PROVE  StreamInv' /\ \A l \in Lists : Queue(l)' = Q[l]
<1>1. ASSUME NEW l \in Lists PROVE Queue(l)' = Q[l]
  <2>1. Queue(l)' = ListFrom(next', Start(l)')
    BY DEF Queue, Chain
  <2>2. Q[l] \in Seq(Packets)
    OBVIOUS
  <2> QED BY <2>1, <2>2, ListIs
<1>2. Listed'
  BY <1>1 DEF Listed
<1>3. Apart'
  BY <1>1 DEF Apart
<1>4. EndsMeet'
  BY <1>1, ListNames DEF EndsMeet
<1> QED BY <1>1, <1>2, <1>3, <1>4 DEF StreamInv

LEMMA InitInv == ASSUME Init PROVE StreamInv /\ Queues!InitLists
<1> DEFINE all == [i \in Packets |-> i]
           Q == [l \in Lists |-> IF l = Free THEN all ELSE <<>>]
<1>1. /\ next = [p \in Packets |-> IF p < NumPackets THEN p + 1 ELSE NULL]
      /\ freelist = 1 /\ si = [s \in Streams |-> EmptyStream] /\ held = {}
  BY DEF Init
<1>2. NumPackets \in Nat \ {0} /\ 1 \in Packets
  BY StreamAssumption DEF Packets
<1>3. /\ all \in Seq(Packets) /\ Len(all) = NumPackets /\ DOMAIN all = 1 .. NumPackets
      /\ all # <<>> /\ IsInjective(all) /\ \A i \in 1 .. NumPackets : all[i] = i
  BY <1>2 DEF Packets, IsInjective
<1>4. Linked(next, all, freelist)
  BY <1>1, <1>2, <1>3 DEF Linked, Packets
<1> HIDE DEF all
<1>5. <<>> \in Seq(Packets) /\ IsInjective(<<>>) /\ ToSet(<<>>) = {} /\ Linked(next, <<>>, NULL)
  BY EmptyQueue DEF Linked
<1>6. \A s \in Streams : si[s] = EmptyStream
  BY <1>1
<1>7. TypeOK
  <2>1. next \in [Packets -> Pointer]
    BY <1>1, <1>2 DEF Packets, Pointer
  <2>2. EmptyStream \in [start : Pointer, end : Pointer,
                         completed_start : Pointer, completed_end : Pointer]
    BY DEF EmptyStream, Pointer
  <2> QED BY <1>1, <1>2, <2>1, <2>2 DEF TypeOK, Pointer
<1>8. ASSUME NEW l \in Lists
      PROVE  /\ Q[l] \in Seq(Packets) /\ IsInjective(Q[l]) /\ Linked(next, Q[l], Start(l))
             /\ l \in OfStreams => End(l) = LastOf(Q[l])
             /\ Queue(l) = Q[l]
  <2>1. CASE l = Free
    <3>1. Q[l] = all /\ Start(l) = freelist /\ l \notin OfStreams
      BY <2>1, Ends, ListNames
    <3>2. Queue(l) = all
      BY <1>3, <1>4, <3>1, ListIs DEF Queue, Chain
    <3> QED BY <1>3, <1>4, <3>1, <3>2
  <2>2. CASE l # Free
    <3>1. Q[l] = <<>> /\ Start(l) = NULL /\ End(l) = NULL
      <4>1. PICK s \in Streams : l = <<"active", s>> \/ l = <<"completed", s>>
        BY <2>2, ListNames
      <4>2. /\ si[s].start = NULL /\ si[s].end = NULL
            /\ si[s].completed_start = NULL /\ si[s].completed_end = NULL
        BY <1>6 DEF EmptyStream
      <4>3. CASE l = <<"active", s>>
        BY <2>2, <4>2, <4>3, Ends
      <4>4. CASE l = <<"completed", s>>
        BY <2>2, <4>2, <4>4, Ends
      <4> QED BY <4>1, <4>3, <4>4
    <3>2. Queue(l) = <<>>
      BY <1>5, <3>1, ListIs DEF Queue, Chain
    <3> QED BY <1>5, <3>1, <3>2 DEF LastOf
  <2> QED BY <2>1, <2>2
<1>9. Listed /\ EndsMeet
  BY <1>8, ListNames DEF Listed, EndsMeet
<1>10. Apart
  <2>1. \A l \in Lists : l # Free => ToSet(Queue(l)) = {}
    BY <1>5, <1>8
  <2> QED BY <1>1, <2>1 DEF Apart
<1>11. Queues!InitLists
  <2>1. Chain(freelist) = all
    BY <1>8, Ends, ListNames DEF Queue
  <2>2. \A s \in Streams : Chain(si[s].start) = <<>> /\ Chain(si[s].completed_start) = <<>>
    <3> SUFFICES ASSUME NEW s \in Streams
                 PROVE  Chain(si[s].start) = <<>> /\ Chain(si[s].completed_start) = <<>>
      OBVIOUS
    <3> DEFINE a == <<"active", s>>
               c == <<"completed", s>>
    <3>1. a \in Lists /\ c \in Lists /\ a # Free /\ c # Free
      BY ListNames
    <3>2. Start(a) = si[s].start /\ Start(c) = si[s].completed_start
      BY Ends
    <3> HIDE DEF a, c
    <3>3. Queue(a) = <<>> /\ Queue(c) = <<>>
      BY <1>8, <3>1
    <3> QED BY <3>2, <3>3 DEF Queue
  <2> QED BY <1>1, <2>1, <2>2 DEF Queues!InitLists, Queues!Packets, Packets, all
<1> QED BY <1>7, <1>9, <1>10, <1>11 DEF StreamInv

\* What the invariant says of each list, and of its two pointers.
LEMMA ListFacts ==
  ASSUME StreamInv, NEW l \in Lists
  PROVE  /\ Queue(l) \in Seq(Packets) /\ IsInjective(Queue(l))
         /\ Linked(next, Queue(l), Start(l))
         /\ ToSet(Queue(l)) \subseteq Packets /\ ToSet(Queue(l)) \cap held = {}
         /\ \A k \in Lists : k # l => ToSet(Queue(k)) \cap ToSet(Queue(l)) = {}
         /\ Start(l) = NULL <=> Queue(l) = <<>>
         /\ l \in OfStreams => /\ End(l) = LastOf(Queue(l))
                               /\ End(l) = NULL <=> Queue(l) = <<>>
                               /\ End(l) # NULL => End(l) \in ToSet(Queue(l))
<1> DEFINE q == Queue(l)
<1>1. /\ q \in Seq(Packets) /\ IsInjective(q) /\ Linked(next, q, Start(l))
      /\ ToSet(q) \cap held = {}
      /\ \A k \in Lists : k # l => ToSet(Queue(k)) \cap ToSet(q) = {}
      /\ l \in OfStreams => End(l) = LastOf(q)
  BY DEF StreamInv, Listed, Apart, EndsMeet
<1> HIDE DEF q
<1>2. ToSet(q) \subseteq Packets
  BY <1>1, Elements
<1>3. q # <<>> => /\ q[1] \in Packets /\ q[Len(q)] \in Packets /\ q[Len(q)] \in ToSet(q)
  <2>1. Len(q) \in Nat /\ (q # <<>> => Len(q) # 0)
    BY <1>1, LenProperties, EmptySeq
  <2>2. \A i \in 1 .. Len(q) : q[i] \in ToSet(q)
    BY <1>1, Elements
  <2> QED BY <1>2, <2>1, <2>2
<1>4. Start(l) = NULL <=> q = <<>>
  BY <1>1, <1>3, PacketIsNoNull DEF Linked
<1>5. /\ LastOf(q) = NULL <=> q = <<>>
      /\ LastOf(q) # NULL => LastOf(q) \in ToSet(q)
  BY <1>3, PacketIsNoNull DEF LastOf
<1> QED BY <1>1, <1>2, <1>4, <1>5 DEF q

\* Whatever becomes of the queues, the mapping of the other module follows.
LEMMA Mapping ==
  /\ Chain(freelist) = Queue(Free) /\ Chain(freelist)' = Queue(Free)'
  /\ \A s \in Streams :
       /\ Chain(si[s].start) = Queue(<<"active", s>>)
       /\ Chain(si[s].completed_start) = Queue(<<"completed", s>>)
       /\ Chain(si[s].start)' = Queue(<<"active", s>>)'
       /\ Chain(si[s].completed_start)' = Queue(<<"completed", s>>)'
BY Ends DEF Queue, Chain

LEMMA PointerTypes ==
  ASSUME StreamInv
  PROVE  /\ next \in [Packets -> Pointer] /\ freelist \in Pointer /\ held \subseteq Packets
         /\ si \in [Streams -> [start : Pointer, end : Pointer,
                                completed_start : Pointer, completed_end : Pointer]]
BY DEF StreamInv, TypeOK

\* do_alloc_packet takes the head of the free list.
LEMMA AllocStep ==
  ASSUME StreamInv, AllocPacket
  PROVE  StreamInv' /\ \E p \in Queues!Packets : Queues!AllocPacket(p)
<1> DEFINE pool == Queue(Free)
           Q    == [l \in Lists |-> IF l = Free THEN Tail(pool) ELSE Queue(l)]
           p    == freelist
<1>1. /\ p # NULL /\ freelist' = next[p] /\ held' = held \cup {p}
      /\ next' = next /\ si' = si
  BY DEF AllocPacket
<1>2. Start(Free) = p /\ Start(Free)' = freelist' /\ Free \in Lists
  BY Ends, ListNames
<1>3. /\ pool \in Seq(Packets) /\ IsInjective(pool) /\ Linked(next, pool, p)
  BY <1>2, ListFacts
<1>4. /\ pool # <<>> /\ p = Head(pool) /\ p \in ToSet(pool) /\ p \in Packets
      /\ Linked(next, Tail(pool), next[p])
  BY <1>1, <1>3, LinkedTail
<1>5. /\ Tail(pool) \in Seq(Packets) /\ IsInjective(Tail(pool))
      /\ ToSet(Tail(pool)) = ToSet(pool) \ {p}
  BY <1>3, <1>4, TailIs
<1>6. TypeOK'
  BY <1>1, <1>4, PointerTypes DEF TypeOK
<1> HIDE DEF pool, p
<1>7. ASSUME NEW l \in Lists
      PROVE  /\ Q[l] \in Seq(Packets) /\ IsInjective(Q[l])
             /\ Linked(next', Q[l], Start(l)')
             /\ ToSet(Q[l]) \subseteq ToSet(Queue(l)) /\ p \notin ToSet(Q[l])
             /\ l \in OfStreams => End(l)' = LastOf(Q[l])
  <2>1. CASE l = Free
    BY <1>1, <1>2, <1>4, <1>5, <2>1, ListNames DEF pool
  <2>2. CASE l # Free
    <3>1. Q[l] = Queue(l) /\ Start(l)' = Start(l) /\ End(l)' = End(l)
      BY <1>1, <2>2, ListNames DEF Start, End, Free
    <3>2. p \notin ToSet(Queue(l))
      BY <1>2, <1>4, <2>2, ListFacts DEF pool
    <3> QED BY <1>1, <3>1, <3>2, ListFacts
  <2> QED BY <2>1, <2>2
<1>8. Q \in [Lists -> Seq(Packets)]
  BY <1>7
<1> HIDE DEF Q
<1>9. \A l, k \in Lists : l # k => ToSet(Q[l]) \cap ToSet(Q[k]) = {}
  BY <1>7, ListFacts
<1>10. \A l \in Lists : ToSet(Q[l]) \cap held' = {}
  BY <1>1, <1>7, ListFacts
<1>11. StreamInv' /\ \A l \in Lists : Queue(l)' = Q[l]
  BY <1>6, <1>7, <1>8, <1>9, <1>10, ListNames, Reached
<1>12. Chain(freelist) = pool /\ Chain(freelist)' = Tail(pool)
  BY <1>2, <1>11, Mapping DEF Q, pool
<1>13. \A s \in Streams : /\ Chain(si[s].start)' = Chain(si[s].start)
                          /\ Chain(si[s].completed_start)' = Chain(si[s].completed_start)
  BY <1>1 DEF Chain
<1>14. Queues!AllocPacket(p)
  BY <1>1, <1>4, <1>12, <1>13 DEF Queues!AllocPacket
<1> QED BY <1>4, <1>11, <1>14 DEF Queues!Packets, Packets

\* stream_add_stream_pkt puts the packet behind the active list.
LEMMA AddStep ==
  ASSUME StreamInv, NEW s \in Streams, NEW p \in held, AddPacket(s, p)
  PROVE  StreamInv' /\ Queues!AddPacket(s, p)
<1> DEFINE a == <<"active", s>>
           q == Queue(a)
           e == si[s].end
           Q == [l \in Lists |-> IF l = a THEN Append(q, p) ELSE Queue(l)]
<1>1. /\ next \in [Packets -> Pointer] /\ freelist \in Pointer /\ held \subseteq Packets
      /\ si \in [Streams -> [start : Pointer, end : Pointer,
                             completed_start : Pointer, completed_end : Pointer]]
      /\ p \in Packets /\ p # NULL /\ p \in Pointer
  BY PointerTypes, PacketIsNoNull
<1>2. a \in Lists /\ a \in OfStreams /\ a # Free
  BY ListNames
<1>3. Start(a) = si[s].start /\ End(a) = e /\ Start(a)' = si'[s].start /\ End(a)' = si'[s].end
  BY Ends
<1>4. /\ q \in Seq(Packets) /\ IsInjective(q) /\ Linked(next, q, si[s].start)
      /\ ToSet(q) \subseteq Packets /\ e = LastOf(q) /\ (e = NULL <=> q = <<>>)
      /\ e # NULL => e \in ToSet(q)
  BY <1>2, <1>3, ListFacts
<1>5. \A l \in Lists : p \notin ToSet(Queue(l))
  BY ListFacts
<1>6. p \notin ToSet(q)
  BY <1>2, <1>5
<1> HIDE DEF q
<1>7. /\ next' \in [Packets -> Pointer] /\ freelist' = freelist /\ held' = held \ {p}
      /\ next'[p] = NULL /\ (q # <<>> => next'[e] = p)
      /\ \A y \in Packets : y # p /\ y # e => next'[y] = next[y]
  BY <1>1, <1>4, <1>6, PacketIsNoNull DEF AddPacket
<1>8. /\ si' \in [Streams -> [start : Pointer, end : Pointer,
                              completed_start : Pointer, completed_end : Pointer]]
      /\ si'[s].start = IF q = <<>> THEN p ELSE si[s].start
      /\ si'[s].end = p
      /\ si'[s].completed_start = si[s].completed_start
      /\ si'[s].completed_end = si[s].completed_end
      /\ \A t \in Streams : t # s => si'[t] = si[t]
  <2>1. CASE e = NULL
    BY <1>1, <1>4, <2>1 DEF AddPacket
  <2>2. CASE e # NULL
    <3>1. si' = [si EXCEPT ![s].end = p] /\ q # <<>>
      BY <1>4, <2>2 DEF AddPacket
    <3> HIDE DEF e
    <3> QED BY <1>1, <3>1
  <2> QED BY <2>1, <2>2
<1>9. TypeOK'
  BY <1>1, <1>7, <1>8 DEF TypeOK
<1>10. /\ Append(q, p) \in Seq(Packets) /\ IsInjective(Append(q, p))
       /\ ToSet(Append(q, p)) = ToSet(q) \cup {p}
  BY <1>1, <1>4, <1>6, AppendIs
<1>11. /\ Linked(next', Append(q, p), si'[s].start)
       /\ LastOf(Append(q, p)) = p
  <2>1. \A y \in ToSet(q) : y # LastOf(q) => next'[y] = next[y]
    BY <1>4, <1>6, <1>7
  <2>2. next'[p] = NULL /\ (q # <<>> => next'[LastOf(q)] = p)
    BY <1>4, <1>7
  <2>3. /\ Linked(next', Append(q, p), IF q = <<>> THEN p ELSE si[s].start)
        /\ LastOf(Append(q, p)) = p
    <3> DEFINE h == IF q = <<>> THEN p ELSE si[s].start
    <3>1. h = IF q = <<>> THEN p ELSE si[s].start
      OBVIOUS
    <3> HIDE DEF h
    <3>2. Linked(next', Append(q, p), h)
      BY <1>1, <1>4, <2>1, <2>2, <3>1, LinkedAppend
    <3>3. LastOf(Append(q, p)) = p
      BY <1>1, <1>4, LastAppend
    <3> QED BY <3>1, <3>2, <3>3
  <2> QED BY <1>8, <2>3
<1> HIDE DEF a, e
<1>12. ASSUME NEW l \in Lists, l # a
       PROVE  /\ Linked(next', Queue(l), Start(l)')
              /\ l \in OfStreams => End(l)' = LastOf(Queue(l))
  <2>1. Start(l)' = Start(l) /\ (l \in OfStreams => End(l)' = End(l))
    <3>1. CASE l = Free
      BY <1>7, <3>1, Ends, ListNames
    <3>2. CASE l # Free
      <4>1. PICK t \in Streams : l = <<"active", t>> \/ l = <<"completed", t>>
        BY <3>2, ListNames
      <4>2. CASE l = <<"active", t>>
        <5>1. t # s
          BY <1>12, <4>2 DEF a
        <5> QED BY <1>8, <4>2, <5>1, Ends
      <4>3. CASE l = <<"completed", t>>
        <5>1. /\ si'[t].completed_start = si[t].completed_start
              /\ si'[t].completed_end = si[t].completed_end
          BY <1>8
        <5> QED BY <4>3, <5>1, Ends
      <4> QED BY <4>1, <4>2, <4>3
    <3> QED BY <3>1, <3>2
  <2>2. /\ Queue(l) \in Seq(Packets) /\ Linked(next, Queue(l), Start(l))
        /\ ToSet(Queue(l)) \subseteq Packets /\ ToSet(Queue(l)) \cap ToSet(q) = {}
        /\ l \in OfStreams => End(l) = LastOf(Queue(l))
    BY <1>2, <1>12, ListFacts DEF q
  <2>3. \A y \in ToSet(Queue(l)) : next'[y] = next[y]
    BY <1>4, <1>5, <1>7, <2>2, PacketIsNoNull
  <2>4. Linked(next', Queue(l), Start(l))
    BY <2>2, <2>3, Untouched
  <2> QED BY <2>1, <2>2, <2>4
<1>13. ASSUME NEW l \in Lists
       PROVE  /\ Q[l] \in Seq(Packets) /\ IsInjective(Q[l])
              /\ Linked(next', Q[l], Start(l)')
              /\ ToSet(Q[l]) \subseteq ToSet(Queue(l)) \cup {p}
              /\ l # a => ToSet(Q[l]) = ToSet(Queue(l))
              /\ l \in OfStreams => End(l)' = LastOf(Q[l])
  <2>1. CASE l = a
    BY <1>3, <1>8, <1>10, <1>11, <2>1 DEF q
  <2>2. CASE l # a
    BY <1>12, <2>2, ListFacts
  <2> QED BY <2>1, <2>2
<1>14. Q \in [Lists -> Seq(Packets)]
  BY <1>13
<1>15. Q[a] = Append(q, p) /\ \A l \in Lists : l # a => Q[l] = Queue(l)
  BY <1>2
<1> HIDE DEF Q
<1>16. \A l, k \in Lists : l # k => ToSet(Q[l]) \cap ToSet(Q[k]) = {}
  BY <1>5, <1>13, ListFacts
<1>17. \A l \in Lists : ToSet(Q[l]) \cap held' = {}
  BY <1>7, <1>13, ListFacts
<1>18. StreamInv' /\ \A l \in Lists : Queue(l)' = Q[l]
  BY <1>9, <1>13, <1>14, <1>16, <1>17, ListNames, Reached
<1>19. Chain(freelist)' = Chain(freelist)
  BY <1>2, <1>15, <1>18, Mapping, ListNames
<1>20. /\ Chain(si[s].start) = q /\ Chain(si[s].start)' = Append(q, p)
       /\ \A t \in Streams : t # s => Chain(si[t].start)' = Chain(si[t].start)
       /\ \A t \in Streams : Chain(si[t].completed_start)' = Chain(si[t].completed_start)
  <2>1. \A t \in Streams : /\ <<"active", t>> \in Lists /\ <<"completed", t>> \in Lists
                           /\ t # s => <<"active", t>> # a
                           /\ <<"completed", t>> # a
    BY ListNames DEF a
  <2>2. Chain(si[s].start) = Queue(a) /\ Chain(si[s].start)' = Queue(a)'
    BY Mapping DEF a
  <2>3. Queue(a)' = Append(q, p)
    BY <1>2, <1>15, <1>18
  <2>4. \A t \in Streams :
          /\ t # s => Queue(<<"active", t>>)' = Queue(<<"active", t>>)
          /\ Queue(<<"completed", t>>)' = Queue(<<"completed", t>>)
    BY <1>15, <1>18, <2>1
  <2>5. Chain(si[s].start) = q /\ Chain(si[s].start)' = Append(q, p)
    BY <2>2, <2>3 DEF q
  <2> QED BY <2>4, <2>5, Mapping
<1>21. Queues!AddPacket(s, p)
  BY <1>7, <1>19, <1>20 DEF Queues!AddPacket
<1> QED BY <1>18, <1>21

\* stream_switch_head moves the head of the active list behind the completed one.
LEMMA SwitchStep ==
  ASSUME StreamInv, NEW s \in Streams, SwitchHead(s)
  PROVE  StreamInv' /\ Queues!SwitchHead(s)
<1> DEFINE a == <<"active", s>>
           c == <<"completed", s>>
           qa == Queue(a)
           qc == Queue(c)
           old == si[s].start
           ce == si[s].completed_end
           Q == [l \in Lists |-> IF l = a THEN Tail(qa)
                                 ELSE IF l = c THEN Append(qc, old) ELSE Queue(l)]
<1>1. /\ next \in [Packets -> Pointer] /\ freelist \in Pointer /\ held \subseteq Packets
      /\ si \in [Streams -> [start : Pointer, end : Pointer,
                             completed_start : Pointer, completed_end : Pointer]]
  BY PointerTypes
<1>2. /\ a \in Lists /\ a \in OfStreams /\ a # Free /\ a # c
      /\ c \in Lists /\ c \in OfStreams /\ c # Free
  BY ListNames
<1>3. /\ Start(a) = old /\ End(a) = si[s].end
      /\ Start(a)' = si'[s].start /\ End(a)' = si'[s].end
      /\ Start(c) = si[s].completed_start /\ End(c) = ce
      /\ Start(c)' = si'[s].completed_start /\ End(c)' = si'[s].completed_end
  BY Ends
<1>4. /\ qa \in Seq(Packets) /\ IsInjective(qa) /\ Linked(next, qa, old)
      /\ si[s].end = LastOf(qa)
      /\ ToSet(qa) \cap held = {}
      /\ \A k \in Lists : k # a => ToSet(Queue(k)) \cap ToSet(qa) = {}
  BY <1>2, <1>3, ListFacts
<1>5. /\ qc \in Seq(Packets) /\ IsInjective(qc) /\ Linked(next, qc, si[s].completed_start)
      /\ ToSet(qc) \subseteq Packets /\ ce = LastOf(qc) /\ (ce = NULL <=> qc = <<>>)
      /\ ce # NULL => ce \in ToSet(qc)
      /\ \A k \in Lists : k # c => ToSet(Queue(k)) \cap ToSet(qc) = {}
  <2>1. Start(c) = si[s].completed_start /\ End(c) = ce
    BY <1>3
  <2> HIDE DEF c, ce
  <2> QED BY <1>2, <2>1, ListFacts
<1> HIDE DEF qa, qc
<1>6. old # NULL
  BY DEF SwitchHead
<1>7. /\ qa # <<>> /\ old = Head(qa) /\ old \in ToSet(qa) /\ old \in Packets
      /\ Linked(next, Tail(qa), next[old])
      /\ LastOf(Tail(qa)) = IF next[old] = NULL THEN NULL ELSE LastOf(qa)
  BY <1>4, <1>6, LinkedTail
<1>8. /\ Tail(qa) \in Seq(Packets) /\ IsInjective(Tail(qa))
      /\ ToSet(Tail(qa)) = ToSet(qa) \ {old}
  BY <1>4, <1>7, TailIs
<1>9. /\ old \notin ToSet(qc) /\ ToSet(qa) \cap ToSet(qc) = {}
      /\ \A l \in Lists : l # a => old \notin ToSet(Queue(l))
      /\ \A l \in Lists : l # c => ce \notin ToSet(Queue(l))
      /\ ce \notin ToSet(qa)
  <2>1. ToSet(qa) \cap ToSet(qc) = {}
    BY <1>2, <1>4 DEF qc
  <2>2. \A l \in Lists : l # a => old \notin ToSet(Queue(l))
    BY <1>4, <1>7
  <2>3. \A l \in Lists : l # c => ce \notin ToSet(Queue(l))
    <3> SUFFICES ASSUME NEW l \in Lists, l # c PROVE ce \notin ToSet(Queue(l))
      OBVIOUS
    <3>1. ToSet(Queue(l)) \subseteq Packets
      BY ListFacts
    <3> QED BY <1>5, <3>1, PacketIsNoNull
  <2> QED BY <1>2, <1>7, <2>1, <2>2, <2>3 DEF qa
<1>10. ce # old
  BY <1>2, <1>7, <1>9
<1>11. /\ next' \in [Packets -> Pointer] /\ freelist' = freelist /\ held' = held
       /\ next'[old] = NULL /\ (qc # <<>> => next'[LastOf(qc)] = old)
       /\ \A y \in Packets : y # old /\ y # ce => next'[y] = next[y]
  <2>1. /\ freelist' = freelist /\ held' = held
        /\ next' = [p \in Packets |-> IF p = old THEN NULL
                                      ELSE IF p = ce THEN old ELSE next[p]]
    BY DEF SwitchHead
  <2>2. qc # <<>> => ce \in Packets /\ ce = LastOf(qc)
    BY <1>5
  <2>3. old \in Pointer /\ NULL \in Pointer
    BY <1>7, PacketIsNoNull
  <2> HIDE DEF old, ce
  <2> QED BY <1>1, <1>7, <1>10, <2>1, <2>2, <2>3
<1>12. /\ si' \in [Streams -> [start : Pointer, end : Pointer,
                               completed_start : Pointer, completed_end : Pointer]]
       /\ si'[s].start = next[old]
       /\ si'[s].end = LastOf(Tail(qa))
       /\ si'[s].completed_start = IF qc = <<>> THEN old ELSE si[s].completed_start
       /\ si'[s].completed_end = old
       /\ \A t \in Streams : t # s => si'[t] = si[t]
  <2> DEFINE e == IF next[old] = NULL THEN NULL ELSE si[s].end
             b == IF ce = NULL THEN old ELSE si[s].completed_start
  <2>1. si' = [si EXCEPT ![s].start = next[old], ![s].end = e,
                         ![s].completed_start = b, ![s].completed_end = old]
    BY DEF SwitchHead
  <2>2. /\ next[old] \in Pointer /\ old \in Pointer
        /\ e \in Pointer /\ e = LastOf(Tail(qa))
        /\ b \in Pointer /\ b = IF qc = <<>> THEN old ELSE si[s].completed_start
    BY <1>1, <1>4, <1>5, <1>7, PacketIsNoNull
  <2> DEFINE n == next[old]
             o == old
  <2>3. si' = [si EXCEPT ![s].start = n, ![s].end = e,
                         ![s].completed_start = b, ![s].completed_end = o]
    BY <2>1
  <2>4. n \in Pointer /\ o \in Pointer
    BY <2>2
  <2> HIDE DEF e, b, n, o, old, ce
  <2>5. /\ si' \in [Streams -> [start : Pointer, end : Pointer,
                                completed_start : Pointer, completed_end : Pointer]]
        /\ si'[s].start = n /\ si'[s].end = e
        /\ si'[s].completed_start = b /\ si'[s].completed_end = o
        /\ \A t \in Streams : t # s => si'[t] = si[t]
    <3>1. e \in Pointer /\ b \in Pointer
      BY <2>2
    <3> QED BY <1>1, <2>3, <2>4, <3>1
  <2> QED BY <2>2, <2>5 DEF n, o
<1>13. TypeOK'
  BY <1>1, <1>11, <1>12 DEF TypeOK
<1>14. /\ Append(qc, old) \in Seq(Packets) /\ IsInjective(Append(qc, old))
       /\ ToSet(Append(qc, old)) = ToSet(qc) \cup {old}
       /\ LastOf(Append(qc, old)) = old
  BY <1>5, <1>7, <1>9, AppendIs, LastAppend
<1>15. Linked(next', Append(qc, old), si'[s].completed_start)
  <2>1. \A y \in ToSet(qc) : y # LastOf(qc) => next'[y] = next[y]
    BY <1>5, <1>9, <1>11
  <2> DEFINE h == si'[s].completed_start
  <2>2. h = IF qc = <<>> THEN old ELSE si[s].completed_start
    BY <1>12
  <2>3. next'[old] = NULL /\ (qc # <<>> => next'[LastOf(qc)] = old) /\ old \in Packets
    BY <1>7, <1>11
  <2> HIDE DEF h, old
  <2>4. Linked(next', Append(qc, old), h)
    BY <1>5, <2>1, <2>2, <2>3, LinkedAppend
  <2> QED BY <2>4 DEF h
<1>16. Linked(next', Tail(qa), next[old])
  <2>1. ToSet(qa) \subseteq Packets
    BY <1>4, Elements
  <2>2. \A y \in ToSet(Tail(qa)) : next'[y] = next[y]
    BY <1>8, <1>9, <1>11, <2>1
  <2> QED BY <1>7, <1>8, <2>2, Untouched
<1> HIDE DEF a, c, old, ce
<1>17. ASSUME NEW l \in Lists, l # a, l # c
       PROVE  /\ Linked(next', Queue(l), Start(l)')
              /\ l \in OfStreams => End(l)' = LastOf(Queue(l))
  <2>1. Start(l)' = Start(l) /\ (l \in OfStreams => End(l)' = End(l))
    <3>1. CASE l = Free
      BY <1>11, <3>1, Ends, ListNames
    <3>2. CASE l # Free
      <4>1. PICK t \in Streams : l = <<"active", t>> \/ l = <<"completed", t>>
        BY <3>2, ListNames
      <4>2. t # s
        BY <1>17, <4>1 DEF a, c
      <4>3. CASE l = <<"active", t>>
        BY <1>12, <4>2, <4>3, Ends
      <4>4. CASE l = <<"completed", t>>
        BY <1>12, <4>2, <4>4, Ends
      <4> QED BY <4>1, <4>3, <4>4
    <3> QED BY <3>1, <3>2
  <2>2. /\ Queue(l) \in Seq(Packets) /\ Linked(next, Queue(l), Start(l))
        /\ ToSet(Queue(l)) \subseteq Packets
        /\ l \in OfStreams => End(l) = LastOf(Queue(l))
    BY ListFacts
  <2>3. \A y \in ToSet(Queue(l)) : next'[y] = next[y]
    BY <1>9, <1>11, <1>17, <2>2
  <2>4. Linked(next', Queue(l), Start(l))
    BY <2>2, <2>3, Untouched
  <2> QED BY <2>1, <2>2, <2>4
<1>18. Q[a] = Tail(qa) /\ Q[c] = Append(qc, old)
       /\ \A l \in Lists : l # a /\ l # c => Q[l] = Queue(l)
  BY <1>2
<1> HIDE DEF Q
<1>19. ASSUME NEW l \in Lists
       PROVE  /\ Q[l] \in Seq(Packets) /\ IsInjective(Q[l])
              /\ Linked(next', Q[l], Start(l)')
              /\ l \in OfStreams => End(l)' = LastOf(Q[l])
  <2>1. CASE l = a
    BY <1>3, <1>8, <1>12, <1>16, <1>18, <2>1
  <2>2. CASE l = c
    BY <1>3, <1>12, <1>14, <1>15, <1>18, <2>2
  <2>3. CASE l # a /\ l # c
    BY <1>17, <1>18, <2>3, ListFacts
  <2> QED BY <2>1, <2>2, <2>3
<1>20. \A l \in Lists : ToSet(Q[l]) = IF l = a THEN ToSet(Queue(a)) \ {old}
                        ELSE IF l = c THEN ToSet(Queue(c)) \cup {old} ELSE ToSet(Queue(l))
  BY <1>8, <1>14, <1>18 DEF qa, qc
<1>21. Q \in [Lists -> Seq(Packets)]
  BY <1>19 DEF Q
<1>22. \A l, k \in Lists : l # k => ToSet(Q[l]) \cap ToSet(Q[k]) = {}
  <2>1. ASSUME NEW l \in Lists, NEW x \in ToSet(Q[l])
        PROVE  IF x = old THEN l = c ELSE x \in ToSet(Queue(l))
    BY <1>2, <1>9, <1>20, <2>1
  <2>2. \A l, k \in Lists : l # k => ToSet(Queue(l)) \cap ToSet(Queue(k)) = {}
    BY ListFacts
  <2> SUFFICES ASSUME NEW l \in Lists, NEW k \in Lists, l # k,
                      NEW x \in ToSet(Q[l]), x \in ToSet(Q[k])
               PROVE  FALSE
    OBVIOUS
  <2>3. x # old
    BY <2>1
  <2>4. x \in ToSet(Queue(l)) /\ x \in ToSet(Queue(k))
    BY <2>1, <2>3
  <2> QED BY <2>2, <2>4
<1>23. \A l \in Lists : ToSet(Q[l]) \cap held' = {}
  <2>1. old \notin held
    BY <1>4, <1>7
  <2>2. \A l \in Lists : ToSet(Q[l]) \subseteq ToSet(Queue(l)) \cup {old}
    BY <1>20
  <2> QED BY <1>11, <2>1, <2>2, ListFacts
<1>24. StreamInv' /\ \A l \in Lists : Queue(l)' = Q[l]
  BY <1>13, <1>19, <1>21, <1>22, <1>23, ListNames, Reached
<1>25. Chain(freelist)' = Chain(freelist)
  BY <1>2, <1>18, <1>24, Mapping, ListNames
<1>26. /\ Chain(si[s].start) = qa /\ Chain(si[s].start)' = Tail(qa)
       /\ Chain(si[s].completed_start)' = Append(Chain(si[s].completed_start), Head(qa))
       /\ \A t \in Streams : t # s =>
            /\ Chain(si[t].start)' = Chain(si[t].start)
            /\ Chain(si[t].completed_start)' = Chain(si[t].completed_start)
  <2>1. \A t \in Streams : /\ <<"active", t>> \in Lists /\ <<"completed", t>> \in Lists
                           /\ t # s => /\ <<"active", t>> # a /\ <<"active", t>> # c
                                       /\ <<"completed", t>> # a /\ <<"completed", t>> # c
    BY ListNames DEF a, c
  <2>2. /\ Chain(si[s].start) = Queue(a) /\ Chain(si[s].start)' = Queue(a)'
        /\ Chain(si[s].completed_start) = Queue(c)
        /\ Chain(si[s].completed_start)' = Queue(c)'
    BY Mapping DEF a, c
  <2>3. Queue(a)' = Tail(qa) /\ Queue(c)' = Append(qc, old)
    BY <1>2, <1>18, <1>24
  <2>4. \A t \in Streams : t # s => /\ Queue(<<"active", t>>)' = Queue(<<"active", t>>)
                                    /\ Queue(<<"completed", t>>)' = Queue(<<"completed", t>>)
    BY <1>18, <1>24, <2>1
  <2> QED BY <1>7, <2>2, <2>3, <2>4, Mapping DEF qa, qc
<1>27. Queues!SwitchHead(s)
  BY <1>7, <1>11, <1>25, <1>26 DEF Queues!SwitchHead
<1> QED BY <1>24, <1>27

\* free_packets turns the completed list over onto the free list.
LEMMA FreeStep ==
  ASSUME StreamInv, NEW s \in Streams, FreePackets(s)
  PROVE  StreamInv' /\ Queues!FreePackets(s)
<1> DEFINE c == <<"completed", s>>
           qc == Queue(c)
           pool == Queue(Free)
           n == Len(qc)
           back == Reverse(qc) \o pool
           Q == [l \in Lists |-> IF l = c THEN <<>> ELSE IF l = Free THEN back ELSE Queue(l)]
<1>1. /\ next \in [Packets -> Pointer] /\ freelist \in Pointer /\ held \subseteq Packets
      /\ si \in [Streams -> [start : Pointer, end : Pointer,
                             completed_start : Pointer, completed_end : Pointer]]
  BY PointerTypes
<1>2. c \in Lists /\ c \in OfStreams /\ c # Free /\ Free \in Lists /\ Free \notin OfStreams
  BY ListNames
<1>3. /\ Start(c) = si[s].completed_start /\ End(c) = si[s].completed_end
      /\ Start(c)' = si'[s].completed_start /\ End(c)' = si'[s].completed_end
      /\ Start(Free) = freelist /\ Start(Free)' = freelist'
  BY Ends
<1>4. /\ qc \in Seq(Packets) /\ IsInjective(qc) /\ ToSet(qc) \subseteq Packets
      /\ ToSet(qc) \cap held = {}
      /\ \A k \in Lists : k # c => ToSet(Queue(k)) \cap ToSet(qc) = {}
  BY <1>2, ListFacts
<1>5. /\ pool \in Seq(Packets) /\ IsInjective(pool) /\ Linked(next, pool, freelist)
      /\ ToSet(pool) \subseteq Packets /\ ToSet(pool) \cap held = {}
      /\ \A k \in Lists : k # Free => ToSet(Queue(k)) \cap ToSet(pool) = {}
  BY <1>2, <1>3, ListFacts
<1>6. ToSet(qc) \cap ToSet(pool) = {}
  BY <1>2, <1>4
<1>7. /\ n \in Nat /\ DOMAIN qc = 1 .. n /\ (qc = <<>> <=> n = 0)
      /\ \A i \in 1 .. n : qc[i] \in Packets /\ qc[i] \in ToSet(qc)
      /\ \A y \in ToSet(qc) : \E i \in 1 .. n : y = qc[i]
      /\ \A i, j \in 1 .. n : qc[i] = qc[j] => i = j
  <2>1. n \in Nat /\ DOMAIN qc = 1 .. n /\ (qc = <<>> <=> n = 0)
    BY <1>4, LenProperties, EmptySeq
  <2>2. \A i \in 1 .. n : qc[i] \in ToSet(qc)
    BY <1>4, Elements
  <2> HIDE DEF qc, n
  <2>3. \A y \in ToSet(qc) : \E i \in 1 .. n : y = qc[i]
    BY <2>1 DEF ToSet
  <2>4. \A i, j \in 1 .. n : qc[i] = qc[j] => i = j
    BY <1>4, <2>1 DEF IsInjective
  <2> QED BY <1>4, <2>1, <2>2, <2>3, <2>4
<1>8. Chain(si[s].completed_start) = qc
  BY Mapping
<1>9. /\ next' = [p \in Packets |->
           IF \E i \in 1 .. n : p = qc[i]
             THEN LET i == CHOOSE i \in 1 .. n : p = qc[i]
                  IN IF i = 1 THEN freelist ELSE qc[i - 1]
             ELSE next[p]]
      /\ freelist' = IF n = 0 THEN freelist ELSE qc[n]
      /\ si' = [si EXCEPT ![s].completed_start = NULL, ![s].completed_end = NULL]
      /\ held' = held
  BY <1>8 DEF FreePackets
<1> HIDE DEF qc, pool, n
<1>10. ASSUME NEW i \in 1 .. n
       PROVE  next'[qc[i]] = IF i = 1 THEN freelist ELSE qc[i - 1]
  <2> DEFINE k == CHOOSE j \in 1 .. n : qc[i] = qc[j]
  <2>1. k \in 1 .. n /\ qc[i] = qc[k]
    OBVIOUS
  <2>2. next'[qc[i]] = IF k = 1 THEN freelist ELSE qc[k - 1]
    BY <1>7, <1>9
  <2> HIDE DEF k
  <2>3. k = i
    BY <1>7, <2>1
  <2> QED BY <2>2, <2>3
<1>11. \A y \in Packets : y \notin ToSet(qc) => next'[y] = next[y]
  BY <1>7, <1>9
<1>12. next' \in [Packets -> Pointer]
  <2>1. ASSUME NEW y \in Packets PROVE next'[y] \in Pointer
    <3>1. CASE y \in ToSet(qc)
      <4>1. PICK i \in 1 .. n : y = qc[i]
        BY <1>7, <3>1
      <4>2. next'[y] = IF i = 1 THEN freelist ELSE qc[i - 1]
        BY <1>10, <4>1
      <4>3. i # 1 => i - 1 \in 1 .. n
        BY <1>7
      <4> QED BY <1>1, <1>7, <4>2, <4>3, PacketIsNoNull
    <3>2. CASE y \notin ToSet(qc)
      BY <1>1, <1>11, <3>2
    <3> QED BY <3>1, <3>2
  <2>2. next' = [p \in Packets |-> next'[p]]
    BY <1>9
  <2> QED BY <2>1, <2>2
<1>13. freelist' \in Pointer /\ freelist' = IF qc = <<>> THEN freelist ELSE qc[Len(qc)]
  <2>1. n # 0 => n \in 1 .. n
    BY <1>7
  <2> QED BY <1>1, <1>7, <1>9, <2>1, PacketIsNoNull DEF n
<1>14. /\ si' \in [Streams -> [start : Pointer, end : Pointer,
                               completed_start : Pointer, completed_end : Pointer]]
       /\ si'[s].start = si[s].start /\ si'[s].end = si[s].end
       /\ si'[s].completed_start = NULL /\ si'[s].completed_end = NULL
       /\ \A t \in Streams : t # s => si'[t] = si[t]
  BY <1>1, <1>9, PacketIsNoNull
<1>15. TypeOK'
  BY <1>1, <1>9, <1>12, <1>13, <1>14 DEF TypeOK
<1>16. /\ back \in Seq(Packets) /\ IsInjective(back)
       /\ ToSet(back) = ToSet(qc) \cup ToSet(pool)
  BY <1>4, <1>5, <1>6, GiveBackIs
<1>17. Linked(next', back, freelist')
  <2>1. \A i \in 1 .. Len(qc) : next'[qc[i]] = IF i = 1 THEN freelist ELSE qc[i - 1]
    BY <1>10 DEF n
  <2>2. \A y \in ToSet(pool) : next'[y] = next[y]
    BY <1>5, <1>6, <1>11
  <2>3. Linked(next', back, IF qc = <<>> THEN freelist ELSE qc[Len(qc)])
    BY <1>4, <1>5, <2>1, <2>2, LinkedBack
  <2> QED BY <1>13, <2>3
<1>18. <<>> \in Seq(Packets) /\ IsInjective(<<>>) /\ ToSet(<<>>) = {}
       /\ Linked(next', <<>>, NULL) /\ LastOf(<<>>) = NULL
  BY EmptyQueue DEF Linked, LastOf
<1> HIDE DEF c, back
<1>19. ASSUME NEW l \in Lists, l # c, l # Free
       PROVE  /\ Linked(next', Queue(l), Start(l)')
              /\ l \in OfStreams => End(l)' = LastOf(Queue(l))
  <2>1. Start(l)' = Start(l) /\ End(l)' = End(l)
    <3>1. PICK t \in Streams : l = <<"active", t>> \/ l = <<"completed", t>>
      BY <1>19, ListNames
    <3>2. CASE l = <<"active", t>>
      <4>1. si'[t].start = si[t].start /\ si'[t].end = si[t].end
        BY <1>14
      <4> QED BY <3>2, <4>1, Ends
    <3>3. CASE l = <<"completed", t>>
      <4>1. t # s
        BY <1>19, <3>3 DEF c
      <4> QED BY <1>14, <3>3, <4>1, Ends
    <3> QED BY <3>1, <3>2, <3>3
  <2>2. /\ Queue(l) \in Seq(Packets) /\ Linked(next, Queue(l), Start(l))
        /\ ToSet(Queue(l)) \subseteq Packets /\ ToSet(Queue(l)) \cap ToSet(qc) = {}
        /\ l \in OfStreams => End(l) = LastOf(Queue(l))
    BY <1>4, <1>19, ListFacts
  <2>3. \A y \in ToSet(Queue(l)) : next'[y] = next[y]
    BY <1>11, <2>2
  <2>4. Linked(next', Queue(l), Start(l))
    BY <2>2, <2>3, Untouched
  <2> QED BY <2>1, <2>2, <2>4
<1>20. Q[c] = <<>> /\ Q[Free] = back
       /\ \A l \in Lists : l # c /\ l # Free => Q[l] = Queue(l)
  BY <1>2
<1> HIDE DEF Q
<1>21. ASSUME NEW l \in Lists
       PROVE  /\ Q[l] \in Seq(Packets) /\ IsInjective(Q[l])
              /\ Linked(next', Q[l], Start(l)')
              /\ l \in OfStreams => End(l)' = LastOf(Q[l])
  <2>1. CASE l = c
    BY <1>3, <1>14, <1>18, <1>20, <2>1
  <2>2. CASE l = Free
    BY <1>2, <1>3, <1>16, <1>17, <1>20, <2>2
  <2>3. CASE l # c /\ l # Free
    BY <1>19, <1>20, <2>3, ListFacts
  <2> QED BY <2>1, <2>2, <2>3
<1>22. \A l \in Lists : ToSet(Q[l]) = IF l = c THEN {}
                        ELSE IF l = Free THEN ToSet(qc) \cup ToSet(pool)
                        ELSE ToSet(Queue(l))
  BY <1>16, <1>18, <1>20
<1>23. Q \in [Lists -> Seq(Packets)]
  BY <1>21 DEF Q
<1>24. \A l, k \in Lists : l # k => ToSet(Q[l]) \cap ToSet(Q[k]) = {}
  <2>1. ASSUME NEW l \in Lists, NEW k \in Lists, l # k, l # c, k # c
        PROVE  ToSet(Q[l]) \cap ToSet(Q[k]) = {}
    <3>1. CASE l = Free
      BY <1>4, <1>5, <1>22, <2>1, <3>1
    <3>2. CASE k = Free
      BY <1>4, <1>5, <1>22, <2>1, <3>2
    <3>3. CASE l # Free /\ k # Free
      BY <1>22, <2>1, <3>3, ListFacts
    <3> QED BY <3>1, <3>2, <3>3
  <2>2. ToSet(Q[c]) = {}
    BY <1>2, <1>22
  <2> QED BY <2>1, <2>2
<1>25. \A l \in Lists : ToSet(Q[l]) \cap held' = {}
  BY <1>4, <1>5, <1>9, <1>22, ListFacts
<1>26. StreamInv' /\ \A l \in Lists : Queue(l)' = Q[l]
  BY <1>15, <1>21, <1>23, <1>24, <1>25, ListNames, Reached
<1>27. Chain(freelist)' = Reverse(qc) \o Chain(freelist)
  BY <1>2, <1>20, <1>26, Mapping DEF pool, back
<1>28. /\ Chain(si[s].completed_start)' = <<>>
       /\ \A t \in Streams : Chain(si[t].start)' = Chain(si[t].start)
       /\ \A t \in Streams : t # s =>
            Chain(si[t].completed_start)' = Chain(si[t].completed_start)
  <2>1. \A t \in Streams : /\ <<"active", t>> \in Lists /\ <<"completed", t>> \in Lists
                           /\ <<"active", t>> # c /\ <<"active", t>> # Free
                           /\ t # s => <<"completed", t>> # c
                           /\ <<"completed", t>> # Free
    BY ListNames DEF c
  <2>2. Chain(si[s].completed_start)' = Queue(c)'
    BY Mapping DEF c
  <2>3. Queue(c)' = <<>>
    BY <1>2, <1>20, <1>26
  <2>4. \A t \in Streams : /\ Queue(<<"active", t>>)' = Queue(<<"active", t>>)
                           /\ t # s => Queue(<<"completed", t>>)' = Queue(<<"completed", t>>)
    BY <1>20, <1>26, <2>1
  <2> QED BY <2>2, <2>3, <2>4, Mapping
<1>29. Queues!FreePackets(s)
  <2>1. Chain(freelist)' = Reverse(Chain(si[s].completed_start)) \o Chain(freelist)
    BY <1>8, <1>27
  <2>2. [t \in Streams |-> Chain(si[t].start)]' = [t \in Streams |-> Chain(si[t].start)]
    BY <1>28
  <2>3. [t \in Streams |-> Chain(si[t].completed_start)]'
          = [[t \in Streams |-> Chain(si[t].completed_start)] EXCEPT ![s] = <<>>]
    BY <1>28
  <2>4. held' = held
    BY <1>9
  <2>5. Queues!Reverse(qc) = Reverse(qc)
    BY DEF Queues!Reverse, Reverse
  <2> QED BY <1>8, <2>1, <2>2, <2>3, <2>4, <2>5 DEF Queues!FreePackets
<1> QED BY <1>26, <1>29

\* Every step of the pointers is a step of the queues.
LEMMA StreamStep ==
  ASSUME StreamInv, [Next]_vars
  PROVE  StreamInv' /\ [Queues!ListsNext]_(Queues!listVars)
<1>1. CASE AllocPacket
  BY <1>1, AllocStep DEF Queues!ListsNext
<1>2. ASSUME NEW s \in Streams, NEW p \in held, AddPacket(s, p)
      PROVE  StreamInv' /\ Queues!ListsNext
  <2>1. p \in Queues!Packets
    BY PointerTypes DEF Queues!Packets, Packets
  <2> QED BY <1>2, <2>1, AddStep DEF Queues!ListsNext
<1>3. ASSUME NEW s \in Streams, SwitchHead(s) PROVE StreamInv' /\ Queues!ListsNext
  BY <1>3, SwitchStep DEF Queues!ListsNext
<1>4. ASSUME NEW s \in Streams, FreePackets(s) PROVE StreamInv' /\ Queues!ListsNext
  BY <1>4, FreeStep DEF Queues!ListsNext
<1>5. CASE UNCHANGED vars
  <2>1. /\ next' = next /\ freelist' = freelist /\ si' = si /\ held' = held
    BY <1>5 DEF vars
  <2>2. StreamInv'
    BY <2>1 DEF StreamInv, TypeOK, Listed, Apart, EndsMeet, Queue, Chain, Start, End
  <2>3. UNCHANGED Queues!listVars
    BY <2>1 DEF Queues!listVars, Chain
  <2> QED BY <2>2, <2>3
<1> QED BY <1>1, <1>2, <1>3, <1>4, <1>5 DEF Next
-----------------------------------------------------------------------------
(* add_stream_pkt, switch_head, alloc_packet and free_packets keep every   *)
(* list of driver/stream.h a list: it ends, its two pointers agree, and no *)
(* packet is on two lists, though all lists share one next field and the   *)
(* functions recognise an empty list by different ends.                    *)
THEOREM StreamListsSound == Spec => []StreamInv
<1>1. Init => StreamInv
  BY InitInv
<1>2. StreamInv /\ [Next]_vars => StreamInv'
  BY StreamStep
<1> QED BY <1>1, <1>2, PTL DEF Spec

(* The pointers of driver/stream.h and serial.c carry out the operations   *)
(* of the queues: packets leave each stream in the order they were added.  *)
THEOREM StreamListsImplementQueues == Spec => ImplementsQueues
<1>1. Init => StreamInv /\ Queues!InitLists
  BY InitInv
<1>2. StreamInv /\ [Next]_vars => StreamInv' /\ [Queues!ListsNext]_(Queues!listVars)
  BY StreamStep
<1> QED BY <1>1, <1>2, PTL DEF Spec, ImplementsQueues, Queues!ListsSpec
=============================================================================
