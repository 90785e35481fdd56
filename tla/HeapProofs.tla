----------------------------- MODULE HeapProofs -----------------------------
(***************************************************************************)
(* The two heaps, for every size of the heap and every request: the kernel *)
(* heap (KMem) and the C library heap (KRMalloc).                          *)
(***************************************************************************)
EXTENDS KMem, KRMalloc, ListLemmas, TLAPS

(***************************************************************************)
(* The kernel heap is safe for every heap size, chunk size and request     *)
(* bound.  The inductive invariant is the conjunction of the properties    *)
(* the run checks: disjointness needs the list sorted (free splices by     *)
(* address), sortedness needs disjointness (a freed block meets no listed  *)
(* chunk), and the counter and the reserve follow the list.                *)
(***************************************************************************)
IInv == TypeOK /\ Sorted /\ Disjoint /\ NoneLost /\ CounterExact /\ TopReserved

(* Chunk counts are natural numbers.                                       *)
LEMMA ChunksForNat == ASSUME NEW size \in 0 .. MaxSize
                      PROVE  ChunksFor(size) \in Nat
BY HeapAssumption DEF ChunksFor

(* kmem_t::init establishes the invariant.                                 *)
LEMMA InitInv == Init => IInv
<1> SUFFICES ASSUME Init PROVE IInv
  OBVIOUS
<1> USE HeapAssumption DEF Init, Heap
<1>1. /\ DOMAIN free = 1 .. Chunks /\ Len(free) = Chunks
      /\ \A i \in 1 .. Chunks : free[i] = i
      /\ free \in Seq(1 .. Chunks)
  OBVIOUS
<1>2. TypeOK /\ Sorted /\ CounterExact /\ TopReserved
  BY <1>1 DEF TypeOK, Sorted, CounterExact, TopReserved, FreeSet
<1>3. Disjoint /\ NoneLost
  BY <1>1 DEF Disjoint, NoneLost, FreeSet
<1> QED BY <1>2, <1>3 DEF IInv

(* Taking a run of n nodes off a sorted list leaves a sorted list of all   *)
(* the other chunks.                                                       *)
LEMMA UnlinkRun ==
  ASSUME IInv, NEW n \in Nat, NEW i \in DOMAIN free, Fits(i, n),
         free' = Unlinked(i, n)
  PROVE  /\ free' \in Seq(Heap) /\ Len(free') = Len(free) - n
         /\ Sorted' /\ TopReserved'
         /\ FreeSet' = FreeSet \ (free[i] .. free[i] + n - 1)
         /\ free[i] .. free[i] + n - 1 \subseteq FreeSet
<1> USE HeapAssumption
<1> DEFINE L == Len(free)
<1>1. /\ free \in Seq(Heap) /\ L \in Nat /\ DOMAIN free = 1 .. L
      /\ \A j \in 1 .. L : free[j] \in 1 .. Chunks
      /\ n > 0 /\ i \in 1 .. L /\ i + n <= L
      /\ \A k \in 1 .. n - 1 : free[i + k] = free[i] + k
  BY DEF IInv, TypeOK, Fits, RunAt, Heap
<1>2. \A j, k \in 1 .. L : j < k => free[j] < free[k]
  BY <1>1 DEF IInv, Sorted
<1>3. /\ DOMAIN free' = 1 .. L - n /\ L - n \in Nat
      /\ \A j \in 1 .. L - n : free'[j] = IF j < i THEN free[j] ELSE free[j + n]
  BY <1>1 DEF Unlinked
<1>0. Chunks \in Nat /\ free[i] \in Int /\ \A j \in 1 .. L : free[j] \in Int
  BY <1>1
<1>4. free' \in Seq(Heap) /\ Len(free') = L - n
  <2>1. \A j \in 1 .. L - n : free'[j] \in Heap
    <3> SUFFICES ASSUME NEW j \in 1 .. L - n PROVE free'[j] \in Heap
      OBVIOUS
    <3>1. j \in 1 .. L /\ j + n \in 1 .. L
      BY <1>1
    <3> QED BY <1>1, <1>3, <3>1 DEF Heap
  <2>2. free' = [j \in 1 .. L - n |-> IF j < i THEN free[j] ELSE free[j + n]]
    BY <1>1 DEF Unlinked
  <2>3. L - n \in Nat
    BY <1>3
  <2> HIDE DEF L
  <2> QED BY <1>3, <2>1, <2>2, <2>3
<1>5. Sorted'
  <2>1. SUFFICES ASSUME NEW j \in 1 .. L - n, NEW k \in 1 .. L - n, j < k
                 PROVE  free'[j] < free'[k]
    BY <1>3 DEF Sorted
  <2>2. CASE k < i
    BY <1>1, <1>2, <1>3, <2>1, <2>2
  <2>3. CASE j < i /\ i <= k
    <3>1. /\ free'[j] = free[j] /\ free'[k] = free[k + n]
          /\ j \in 1 .. L /\ k + n \in 1 .. L /\ j < k + n
      BY <1>1, <1>3, <2>3
    <3> QED BY <1>2, <3>1
  <2>4. CASE i <= j
    <3>1. /\ free'[j] = free[j + n] /\ free'[k] = free[k + n]
          /\ j + n \in 1 .. L /\ k + n \in 1 .. L /\ j + n < k + n
      BY <1>1, <1>3, <2>1, <2>4
    <3> QED BY <1>2, <3>1
  <2> QED BY <1>1, <2>1, <2>2, <2>3, <2>4
<1>6. \A k \in 0 .. n - 1 : free[i + k] = free[i] + k
  BY <1>1
<1>7. free[i] .. free[i] + n - 1 \subseteq FreeSet
  <2>1. SUFFICES ASSUME NEW c \in free[i] .. free[i] + n - 1 PROVE c \in FreeSet
    OBVIOUS
  <2>2. c - free[i] \in 0 .. n - 1 /\ i + (c - free[i]) \in 1 .. L
    BY <1>0, <1>1, <2>1
  <2>3. free[i + (c - free[i])] = c
    BY <1>0, <1>6, <2>1, <2>2
  <2> QED BY <1>1, <2>2, <2>3 DEF FreeSet
<1>8. FreeSet' = FreeSet \ (free[i] .. free[i] + n - 1)
  <2>1. ASSUME NEW j \in 1 .. L - n
        PROVE  free'[j] \in FreeSet /\ free'[j] \notin free[i] .. free[i] + n - 1
    <3>1. CASE j < i
      <4>1. j \in 1 .. L /\ free'[j] = free[j] /\ free[j] < free[i]
        BY <1>1, <1>2, <1>3, <3>1
      <4>2. free'[j] \in FreeSet
        BY <1>1, <4>1 DEF FreeSet
      <4>3. free[j] \in Int /\ free[i] \in Int
        BY <1>0, <4>1
      <4> QED BY <4>1, <4>2, <4>3
    <3>2. CASE j >= i
      <4>1. free'[j] = free[j + n] /\ j + n \in 1 .. L /\ i + (n - 1) \in 1 .. L
            /\ i + (n - 1) < j + n
        BY <1>1, <1>3, <3>2
      <4>2. free[i + (n - 1)] = free[i] + (n - 1)
        BY <1>1, <1>6
      <4>3. free[i + (n - 1)] < free[j + n]
        BY <1>2, <4>1
      <4>4. free'[j] \in FreeSet
        BY <1>1, <4>1 DEF FreeSet
      <4>5. free'[j] \notin free[i] .. free[i] + n - 1
        <5>1. free[j + n] \in Int /\ free[i] \in Int /\ n \in Int
          BY <1>0, <4>1
        <5>2. free[j + n] > free[i] + (n - 1)
          BY <4>2, <4>3
        <5> HIDE DEF L
        <5> QED BY <4>1, <5>1, <5>2
      <4> QED BY <4>4, <4>5
    <3> QED BY <3>1, <3>2, <1>1
  <2>2. ASSUME NEW c \in FreeSet, c \notin free[i] .. free[i] + n - 1
        PROVE  c \in FreeSet'
    <3>1. PICK m \in 1 .. L : free[m] = c
      BY <1>1 DEF FreeSet
    <3>2. m < i \/ m >= i + n
      <4>1. ASSUME i <= m, m < i + n PROVE FALSE
        <5>1. m - i \in 0 .. n - 1 /\ i + (m - i) = m
          BY <1>1, <4>1
        <5>2. free[m] = free[i] + (m - i)
          BY <1>6, <5>1
        <5> QED BY <1>0, <1>1, <2>2, <3>1, <5>1, <5>2
      <4> QED BY <1>1, <4>1
    <3>3. CASE m < i
      <4>1. m \in 1 .. L - n /\ free'[m] = c
        BY <1>1, <1>3, <3>1, <3>3
      <4> QED BY <1>3, <4>1 DEF FreeSet
    <3>4. CASE m >= i + n
      <4>1. m - n \in 1 .. L - n /\ ~(m - n < i) /\ (m - n) + n = m
        BY <1>1, <3>4
      <4>2. free'[m - n] = c
        BY <1>3, <3>1, <4>1
      <4> QED BY <1>3, <4>1, <4>2 DEF FreeSet
    <3> QED BY <3>2, <3>3, <3>4
  <2> QED BY <1>3, <2>1, <2>2 DEF FreeSet
<1>9. TopReserved'
  <2>1. free[i] + n - 1 < Chunks
    <3>1. free[i + (n - 1)] = free[i] + (n - 1)
      BY <1>1, <1>6
    <3>2. free[i + (n - 1)] < free[i + n]
      BY <1>1, <1>2
    <3> QED BY <1>1, <3>1, <3>2
  <2> QED BY <1>1, <1>8, <2>1 DEF IInv, TopReserved
<1> QED BY <1>4, <1>5, <1>7, <1>8, <1>9

(* Splicing a block in behind every smaller chunk, where none of its       *)
(* chunks is listed, leaves a sorted list of the old chunks and the new.   *)
LEMMA LinkRun ==
  ASSUME IInv, NEW b \in Block, NEW i \in 0 .. Len(free),
         Extent(b) \subseteq Heap, Extent(b) \cap FreeSet = {},
         \A j \in 1 .. i : b.base > free[j],
         i < Len(free) => ~(b.base > free[i + 1]),
         free' = Linked(i, b)
  PROVE  /\ free' \in Seq(Heap) /\ Len(free') = Len(free) + b.n
         /\ Sorted'
         /\ FreeSet' = FreeSet \cup Extent(b)
<1> USE HeapAssumption
<1> DEFINE L == Len(free)
<1> DEFINE B == b.base
<1> DEFINE N == b.n
<1>1. /\ free \in Seq(Heap) /\ L \in Nat /\ DOMAIN free = 1 .. L
      /\ \A j \in 1 .. L : free[j] \in Int /\ free[j] \in 1 .. Chunks
      /\ i \in 0 .. L /\ B \in Int /\ N \in Nat /\ N > 0
      /\ B \in 1 .. Chunks /\ Chunks \in Nat
  BY DEF IInv, TypeOK, Heap, Block
<1>2. \A j, k \in 1 .. L : j < k => free[j] < free[k]
  BY <1>1 DEF IInv, Sorted
<1>3. /\ DOMAIN free' = 1 .. L + N /\ L + N \in Nat
      /\ \A j \in 1 .. L + N :
           free'[j] = IF j <= i THEN free[j]
                      ELSE IF j <= i + N THEN B + (j - i - 1) ELSE free[j - N]
  BY <1>1 DEF Linked
<1>4. Extent(b) = B .. B + N - 1
  BY DEF Extent
<1>5. \A j \in 1 .. L : j <= i => free[j] < B
  BY <1>1
<1>6. \A j \in 1 .. L : j > i => free[j] > B + N - 1
  <2>1. SUFFICES ASSUME NEW j \in 1 .. L, j > i PROVE free[j] > B + N - 1
    OBVIOUS
  <2>2. i + 1 \in 1 .. L /\ free[i + 1] >= B
    BY <1>1, <2>1
  <2>3. free[j] >= free[i + 1]
    <3>0. free[j] \in Int /\ free[i + 1] \in Int /\ i \in Int /\ j \in Int
      BY <1>1, <2>1, <2>2
    <3>1. CASE j = i + 1
      BY <3>0, <3>1
    <3>2. CASE j > i + 1
      <4>1. free[i + 1] < free[j]
        BY <1>2, <2>1, <2>2, <3>0, <3>2
      <4> QED BY <3>0, <4>1
    <3> QED BY <2>1, <3>0, <3>1, <3>2
  <2>4. free[j] \notin B .. B + N - 1
    <3>1. free[j] \in FreeSet
      BY <1>1, <2>1 DEF FreeSet
    <3> HIDE DEF B, N, L
    <3> QED BY <1>1, <1>4, <3>1
  <2>5. free[j] \in Int /\ free[i + 1] \in Int
    BY <1>1, <2>1, <2>2
  <2> HIDE DEF L, B, N
  <2> QED BY <1>1, <2>2, <2>3, <2>4, <2>5
<1> HIDE DEF L, B, N
<1>7. free' \in Seq(Heap) /\ Len(free') = L + N
  <2>1. \A j \in 1 .. L + N : free'[j] \in Heap
    <3>1. SUFFICES ASSUME NEW j \in 1 .. L + N PROVE free'[j] \in Heap
      OBVIOUS
    <3>2. CASE j <= i
      BY <1>1, <1>3, <3>2 DEF Heap
    <3>3. CASE i < j /\ j <= i + N
      <4>1. free'[j] = B + (j - i - 1) /\ B + (j - i - 1) \in B .. B + N - 1
        BY <1>1, <1>3, <3>3
      <4> QED BY <1>4, <4>1
    <3>4. CASE j > i + N
      BY <1>1, <1>3, <3>4 DEF Heap
    <3> QED BY <1>1, <3>2, <3>3, <3>4
  <2>2. free' = [j \in 1 .. L + N |-> free'[j]]
    BY <1>3 DEF Linked, L, N
  <2> HIDE DEF Heap
  <2> QED BY <1>3, <2>1, <2>2
<1>8. Sorted'
  <2>1. SUFFICES ASSUME NEW j \in 1 .. L + N, NEW k \in 1 .. L + N, j < k
                 PROVE  free'[j] < free'[k]
    BY <1>3 DEF Sorted
  <2>2. CASE k <= i
    BY <1>1, <1>2, <1>3, <2>1, <2>2
  <2>3. CASE j <= i /\ i < k /\ k <= i + N
    <3>1. /\ free'[j] = free[j] /\ free'[k] = B + (k - i - 1)
          /\ j \in 1 .. L /\ free[j] < B /\ free[j] \in Int
      BY <1>1, <1>3, <1>5, <2>1, <2>3
    <3> QED BY <1>1, <2>1, <2>3, <3>1
  <2>4. CASE j <= i /\ k > i + N
    <3>1. /\ free'[j] = free[j] /\ free'[k] = free[k - N]
          /\ j \in 1 .. L /\ k - N \in 1 .. L /\ j < k - N
      BY <1>1, <1>3, <2>1, <2>4
    <3> QED BY <1>2, <3>1
  <2>5. CASE i < j /\ j <= i + N /\ k <= i + N
    BY <1>1, <1>3, <2>1, <2>5
  <2>6. CASE i < j /\ j <= i + N /\ k > i + N
    <3>1. /\ free'[j] = B + (j - i - 1) /\ free'[k] = free[k - N]
          /\ k - N \in 1 .. L /\ k - N > i
      BY <1>1, <1>3, <2>1, <2>6
    <3>2. free[k - N] > B + N - 1 /\ free[k - N] \in Int
      BY <1>1, <1>6, <3>1
    <3>3. B \in Int /\ N \in Nat /\ B + (j - i - 1) <= B + N - 1
      BY <1>1, <2>1, <2>6
    <3> QED BY <2>1, <3>1, <3>2, <3>3
  <2>7. CASE j > i + N
    <3>1. /\ free'[j] = free[j - N] /\ free'[k] = free[k - N]
          /\ j - N \in 1 .. L /\ k - N \in 1 .. L /\ j - N < k - N
      BY <1>1, <1>3, <2>1, <2>7
    <3> QED BY <1>2, <3>1
  <2> QED BY <1>1, <2>1, <2>2, <2>3, <2>4, <2>5, <2>6, <2>7
<1>9. FreeSet' = FreeSet \cup Extent(b)
  <2>1. ASSUME NEW j \in 1 .. L + N
        PROVE  free'[j] \in FreeSet \cup Extent(b)
    <3>1. CASE j <= i
      <4>1. j \in 1 .. L /\ free'[j] = free[j]
        BY <1>1, <1>3, <2>1, <3>1
      <4> QED BY <1>1, <4>1 DEF FreeSet
    <3>2. CASE i < j /\ j <= i + N
      <4>1. free'[j] = B + (j - i - 1) /\ B + (j - i - 1) \in B .. B + N - 1
        BY <1>1, <1>3, <3>2
      <4> QED BY <1>4, <4>1
    <3>3. CASE j > i + N
      <4>1. free'[j] = free[j - N] /\ j - N \in 1 .. L
        BY <1>1, <1>3, <3>3
      <4> QED BY <1>1, <4>1 DEF FreeSet
    <3> QED BY <1>1, <3>1, <3>2, <3>3
  <2>2. ASSUME NEW c \in FreeSet PROVE c \in FreeSet'
    <3>1. PICK m \in 1 .. L : free[m] = c
      BY <1>1 DEF FreeSet
    <3>2. CASE m <= i
      <4>1. m \in 1 .. L + N /\ free'[m] = c
        BY <1>1, <1>3, <3>1, <3>2
      <4> QED BY <1>3, <4>1 DEF FreeSet
    <3>3. CASE m > i
      <4>1. m + N \in 1 .. L + N /\ ~(m + N <= i) /\ ~(m + N <= i + N)
            /\ (m + N) - N = m
        BY <1>1, <3>3
      <4>2. free'[m + N] = c
        BY <1>3, <3>1, <4>1
      <4> QED BY <1>3, <4>1, <4>2 DEF FreeSet
    <3> QED BY <1>1, <3>2, <3>3
  <2>3. ASSUME NEW c \in Extent(b) PROVE c \in FreeSet'
    <3>1. c \in B .. B + N - 1
      BY <1>4
    <3>2. /\ i + 1 + (c - B) \in 1 .. L + N /\ ~(i + 1 + (c - B) <= i)
          /\ i + 1 + (c - B) <= i + N
          /\ B + ((i + 1 + (c - B)) - i - 1) = c
      BY <1>1, <3>1
    <3>3. free'[i + 1 + (c - B)] = c
      BY <1>3, <3>2
    <3> QED BY <1>3, <3>2, <3>3 DEF FreeSet
  <2>4. ASSUME NEW c \in FreeSet' PROVE c \in FreeSet \cup Extent(b)
    <3>1. PICK m \in 1 .. L + N : free'[m] = c
      BY <1>3 DEF FreeSet
    <3> QED BY <2>1, <3>1
  <2> QED BY <2>2, <2>3, <2>4
<1> QED BY <1>7, <1>8, <1>9 DEF L, N

(* kmem_t::alloc preserves the invariant.                                  *)
LEMMA AllocInv ==
  ASSUME IInv, NEW size \in 0 .. MaxSize, Alloc(size)
  PROVE  IInv'
<1> USE HeapAssumption
<1> DEFINE n == ChunksFor(size)
<1>1. PICK i \in DOMAIN free :
        /\ Fits(i, n)
        /\ free' = Unlinked(i, n)
        /\ freeChunks' = freeChunks - n
        /\ blocks' = blocks \cup {[base |-> free[i], n |-> n]}
  BY DEF Alloc
<1> DEFINE b == [base |-> free[i], n |-> n]
<1>2. n \in Nat /\ n > 0
  BY <1>1, ChunksForNat DEF Fits
<1> HIDE DEF n
<1>3. /\ free' \in Seq(Heap) /\ Len(free') = Len(free) - n
      /\ Sorted' /\ TopReserved'
      /\ FreeSet' = FreeSet \ (free[i] .. free[i] + n - 1)
      /\ free[i] .. free[i] + n - 1 \subseteq FreeSet
  BY <1>1, <1>2, UnlinkRun
<1>4. Extent(b) = free[i] .. free[i] + n - 1
  BY DEF Extent
<1>5. FreeSet \subseteq Heap /\ free[i] \in Heap /\ Len(free) \in Nat
  BY DEF IInv, TypeOK, FreeSet
<1>6. b \in Block
  <2>1. free[i] + n - 1 \in free[i] .. free[i] + n - 1
    BY <1>2, <1>5 DEF Heap
  <2>2. n \in 1 .. Chunks
    BY <1>2, <1>3, <1>5, <2>1 DEF Heap
  <2> QED BY <1>5, <2>2 DEF Block
<1>7. Len(free') \in Nat
  BY <1>3
<1>8. TypeOK'
  BY <1>1, <1>2, <1>3, <1>5, <1>6, <1>7 DEF IInv, TypeOK, CounterExact
<1>9. CounterExact'
  BY <1>1, <1>3 DEF IInv, CounterExact
<1> HIDE DEF b
<1>10. Disjoint'
  <2>1. \A c \in blocks : Extent(c) \cap Extent(b) = {}
    BY <1>3, <1>4 DEF IInv, Disjoint
  <2>2. \A c \in blocks' : Extent(c) \cap FreeSet' = {}
    BY <1>1, <1>3, <1>4 DEF IInv, Disjoint, b
  <2>3. \A c, d \in blocks' : c # d => Extent(c) \cap Extent(d) = {}
    BY <1>1, <2>1 DEF IInv, Disjoint, b
  <2> QED BY <2>2, <2>3 DEF Disjoint
<1>11. NoneLost'
  <2>1. Heap = FreeSet \cup UNION {Extent(c) : c \in blocks}
    BY DEF IInv, NoneLost
  <2>2. blocks' = blocks \cup {b} /\ FreeSet = FreeSet' \cup Extent(b)
    BY <1>1, <1>3, <1>4 DEF b
  <2> QED BY <2>1, <2>2, Zenon DEF NoneLost
<1> QED BY <1>3, <1>8, <1>9, <1>10, <1>11 DEF IInv

(* kmem_t::free of a block somebody holds preserves the invariant.         *)
LEMMA FreeInv ==
  ASSUME IInv, NEW b \in blocks, Free(b)
  PROVE  IInv'
<1> USE HeapAssumption
<1>1. PICK i \in 0 .. Len(free) :
        /\ \A j \in 1 .. i : b.base > free[j]
        /\ i < Len(free) => ~(b.base > free[i + 1])
        /\ free' = Linked(i, b)
        /\ freeChunks' = freeChunks + b.n
        /\ blocks' = blocks \ {b}
  BY DEF Free
<1>2. /\ b \in Block /\ Extent(b) \cap FreeSet = {}
  BY DEF IInv, TypeOK, Disjoint
<1>3. Extent(b) \subseteq Heap
  BY DEF IInv, NoneLost
<1>4. /\ free' \in Seq(Heap) /\ Len(free') = Len(free) + b.n
      /\ Sorted'
      /\ FreeSet' = FreeSet \cup Extent(b)
  BY <1>1, <1>2, <1>3, LinkRun
<1>5. TypeOK'
  BY <1>1, <1>2, <1>4 DEF IInv, TypeOK, Block
<1>6. CounterExact' /\ TopReserved'
  BY <1>1, <1>4 DEF IInv, CounterExact, TopReserved
<1>7. Disjoint'
  <2>1. \A c \in blocks' : c \in blocks /\ c # b
    BY <1>1
  <2> QED BY <1>4, <2>1 DEF IInv, Disjoint
<1>8. NoneLost'
  <2>1. Heap = FreeSet \cup UNION {Extent(c) : c \in blocks}
    BY DEF IInv, NoneLost
  <2>2. blocks = blocks' \cup {b} /\ FreeSet' = FreeSet \cup Extent(b)
    BY <1>1, <1>4
  <2> QED BY <2>1, <2>2, Zenon DEF NoneLost
<1> QED BY <1>4, <1>5, <1>6, <1>7, <1>8 DEF IInv

(* The invariant holds in every reachable state.                           *)
LEMMA Inductive == Spec => []IInv
<1>1. IInv /\ [Next]_vars => IInv'
  <2> SUFFICES ASSUME IInv, [Next]_vars PROVE IInv'
    OBVIOUS
  <2>1. ASSUME NEW size \in 0 .. MaxSize, Alloc(size) PROVE IInv'
    BY <2>1, AllocInv
  <2>2. ASSUME NEW b \in blocks, Free(b) PROVE IInv'
    BY <2>2, FreeInv
  <2>3. CASE UNCHANGED vars
    BY <2>3 DEF vars, IInv, TypeOK, Sorted, Disjoint, NoneLost, CounterExact,
                TopReserved, FreeSet
  <2> QED BY <2>1, <2>2, <2>3 DEF Next, AllocNull
<1> QED BY InitInv, <1>1, PTL DEF Spec

(* Every reachable heap is a list of its own chunks with a counter.        *)
THEOREM HeapTypeOK == Spec => []TypeOK
BY Inductive, PTL DEF IInv

(* Whatever the sizes asked for and the order of the calls, the free list  *)
(* stays in ascending address order, so the run test of kmem_t::alloc may  *)
(* compare neighbours only.                                                *)
THEOREM HeapSorted == Spec => []Sorted
BY Inductive, PTL DEF IInv

(* No chunk is handed out twice and none is both listed and handed out.    *)
THEOREM HeapDisjoint == Spec => []Disjoint
BY Inductive, PTL DEF IInv

(* No chunk is lost by kmem_t::alloc and kmem_t::free.                     *)
THEOREM HeapNoneLost == Spec => []NoneLost
BY Inductive, PTL DEF IInv

(* chunks_left() reports the length of the free list.                      *)
THEOREM HeapCounterExact == Spec => []CounterExact
BY Inductive, PTL DEF IInv

(* kmem_t::alloc never hands out the topmost chunk of the heap.            *)
THEOREM HeapTopReserved == Spec => []TopReserved
BY Inductive, PTL DEF IInv

-----------------------------------------------------------------------------
(* The list code implements the abstract heap.                             *)

(* In a sorted list, n listed chunks with consecutive addresses and a      *)
(* listed chunk above them are n consecutive nodes with a node behind.     *)
LEMMA RunIsRun ==
  ASSUME IInv, NEW n \in Nat, n > 0, NEW i \in DOMAIN free
  PROVE  RunAt(i, n) <=> /\ free[i] .. free[i] + n - 1 \subseteq FreeSet
                         /\ \E d \in FreeSet : d > free[i] + n - 1
<1> USE HeapAssumption
<1> DEFINE L == Len(free)
<1>1. /\ L \in Nat /\ DOMAIN free = 1 .. L /\ i \in 1 .. L
      /\ \A j \in 1 .. L : free[j] \in Int
  BY DEF IInv, TypeOK, Heap
<1>2. \A j, k \in 1 .. L : j < k => free[j] < free[k]
  BY <1>1 DEF IInv, Sorted
<1>0. FreeSet = {free[j] : j \in 1 .. L}
  BY <1>1 DEF FreeSet
<1>3. ASSUME RunAt(i, n)
      PROVE  /\ free[i] .. free[i] + n - 1 \subseteq FreeSet
             /\ \E d \in FreeSet : d > free[i] + n - 1
  <2>1. i + n <= L /\ \A k \in 1 .. n - 1 : free[i + k] = free[i] + k
    BY <1>3 DEF RunAt
  <2>2. \A k \in 0 .. n - 1 : i + k \in 1 .. L /\ free[i + k] = free[i] + k
    BY <1>1, <2>1
  <2>3. ASSUME NEW c \in free[i] .. free[i] + n - 1 PROVE c \in FreeSet
    <3>1. c - free[i] \in 0 .. n - 1 /\ free[i] + (c - free[i]) = c
      BY <1>1, <2>3
    <3>2. i + (c - free[i]) \in 1 .. L /\ free[i + (c - free[i])] = c
      BY <2>2, <3>1
    <3> QED BY <1>0, <3>2
  <2>4. i + (n - 1) \in 1 .. L /\ i + n \in 1 .. L /\ i + (n - 1) < i + n
        /\ n - 1 \in 0 .. n - 1
    BY <1>1, <2>1
  <2>5. free[i + n] \in FreeSet /\ free[i + n] > free[i] + (n - 1)
    BY <1>0, <1>2, <2>2, <2>4
  <2>6. free[i + n] > free[i] + n - 1
    BY <1>1, <2>4, <2>5
  <2> QED BY <2>3, <2>5, <2>6
<1>4. ASSUME free[i] .. free[i] + n - 1 \subseteq FreeSet,
             \E d \in FreeSet : d > free[i] + n - 1
      PROVE  RunAt(i, n)
  <2> DEFINE Bad == {k \in 0 .. n : \/ i + k > L
                                    \/ k < n /\ free[i + k] # free[i] + k}
  <2>1. SUFFICES ASSUME Bad # {} PROVE FALSE
    <3>1. i + n <= L
      BY <1>1, <2>1
    <3>2. \A k \in 1 .. n - 1 : free[i + k] = free[i] + k
      BY <1>1, <2>1
    <3> QED BY <3>1, <3>2 DEF RunAt
  <2>2. PICK m \in Bad : \A k \in Bad : m <= k
    <3>1. Bad \in SUBSET Nat
      OBVIOUS
    <3> HIDE DEF Bad
    <3> QED BY <2>1, <3>1, LeastNat
  <2>3. m \in 0 .. n /\ m # 0
    BY <1>1, <2>2
  <2>4. m - 1 \in 0 .. n /\ m - 1 < n /\ m - 1 \notin Bad
    BY <2>2, <2>3
  <2>5. i + (m - 1) \in 1 .. L /\ free[i + (m - 1)] = free[i] + (m - 1)
    BY <1>1, <2>3, <2>4
  <2>6. PICK d \in FreeSet : d >= free[i] + m /\ (m < n => d = free[i] + m)
    <3>1. CASE m < n
      <4>1. free[i] + m \in free[i] .. free[i] + n - 1
        BY <1>1, <2>3, <3>1
      <4> QED BY <1>1, <1>4, <4>1, <2>3
    <3>2. CASE m = n
      <4>1. PICK d \in FreeSet : d > free[i] + n - 1
        BY <1>4
      <4>2. d \in Int /\ free[i] \in Int
        BY <1>0, <1>1, <4>1
      <4> QED BY <3>2, <4>1, <4>2
    <3> QED BY <2>3, <3>1, <3>2
  <2>7. PICK p \in 1 .. L : free[p] = d
    BY <1>0
  <2>8. p > i + (m - 1)
    <3>1. SUFFICES ASSUME p <= i + (m - 1) PROVE FALSE
      BY <1>1, <2>3
    <3>2. free[p] <= free[i + (m - 1)]
      <4>1. CASE p = i + (m - 1)
        BY <1>1, <2>5, <4>1
      <4>2. CASE p < i + (m - 1)
        BY <1>1, <1>2, <2>5, <4>2
      <4> QED BY <1>1, <2>3, <3>1, <4>1, <4>2
    <3> QED BY <1>1, <2>3, <2>5, <2>6, <2>7, <3>2
  <2>9. i + m \in 1 .. L /\ p >= i + m
    BY <1>1, <2>3, <2>8
  <2>10. free[i + m] <= free[p]
    <3>1. CASE p = i + m
      BY <1>1, <2>9, <3>1
    <3>2. CASE p > i + m
      BY <1>1, <1>2, <2>9, <3>2
    <3> QED BY <1>1, <2>3, <2>9, <3>1, <3>2
  <2>11. free[i + m] > free[i] + (m - 1)
    <3>1. i + (m - 1) < i + m
      BY <1>1, <2>3
    <3> QED BY <1>2, <2>5, <2>9, <3>1
  <2>12. m < n => free[i + m] = free[i] + m
    <3>1. free[i + m] \in Int /\ free[i] \in Int /\ m \in Int
      BY <1>1, <2>3, <2>9
    <3> QED BY <2>6, <2>7, <2>10, <2>11, <3>1
  <2> QED BY <1>1, <2>2, <2>3, <2>9, <2>12
<1> QED BY <1>3, <1>4

(* The chunks at the list positions where a request fits are the places    *)
(* where the abstract heap may take it.                                    *)
LEMMA FitsArePlaces ==
  ASSUME IInv, NEW n \in Nat
  PROVE  Abs!Place(n) = {free[i] : i \in {j \in DOMAIN free : Fits(j, n)}}
<1>1. \A c : Aligned(c, n) <=> Abs!Aligned(c, n)
  BY DEF Aligned, Abs!Aligned, Bit, Abs!Bit
<1>2. CASE n = 0
  BY <1>2 DEF Fits, Abs!Place
<1>3. CASE n > 0
  <2>1. \A i \in DOMAIN free :
          Fits(i, n) <=> /\ Aligned(free[i], n)
                         /\ free[i] .. free[i] + n - 1 \subseteq FreeSet
                         /\ \E d \in FreeSet : d > free[i] + n - 1
    BY <1>3, RunIsRun DEF Fits
  <2>2. Abs!Place(n) = {c \in FreeSet : /\ Aligned(c, n)
                                        /\ c .. c + n - 1 \subseteq FreeSet
                                        /\ \E d \in FreeSet : d > c + n - 1}
    BY <1>1, <1>3 DEF Abs!Place, Abs!Run
  <2> QED BY <2>1, <2>2 DEF FreeSet
<1> QED BY <1>2, <1>3

(* The first fit along the list is the lowest fit in memory.               *)
LEMMA AllocImplements ==
  ASSUME IInv, NEW size \in 0 .. MaxSize, Alloc(size)
  PROVE  Abs!Alloc(size)
<1> USE HeapAssumption
<1> DEFINE n == ChunksFor(size)
<1>1. PICK i \in DOMAIN free :
        /\ Fits(i, n)
        /\ \A j \in 1 .. i - 1 : ~Fits(j, n)
        /\ free' = Unlinked(i, n)
        /\ blocks' = blocks \cup {[base |-> free[i], n |-> n]}
  BY DEF Alloc
<1>2. n \in Nat /\ n = Abs!ChunksNeeded(size)
  BY ChunksForNat DEF ChunksFor, Abs!ChunksNeeded
<1> HIDE DEF n
<1>3. FreeSet' = FreeSet \ Abs!Run(free[i], n)
  BY <1>1, <1>2, UnlinkRun DEF Abs!Run
<1>4. Abs!Place(n) = {free[j] : j \in {k \in DOMAIN free : Fits(k, n)}}
  BY <1>2, FitsArePlaces
<1>5. \A d \in Abs!Place(n) : free[i] <= d
  <2>1. SUFFICES ASSUME NEW j \in DOMAIN free, Fits(j, n) PROVE free[i] <= free[j]
    BY <1>4
  <2>2. /\ DOMAIN free = 1 .. Len(free) /\ Len(free) \in Nat
        /\ free[i] \in Int /\ free[j] \in Int
    BY DEF IInv, TypeOK, Heap
  <2>3. j >= i
    BY <1>1, <2>1, <2>2
  <2> QED BY <2>2, <2>3 DEF IInv, Sorted
<1>6. free[i] \in Abs!Place(n)
  BY <1>1, <1>4
<1> QED BY <1>1, <1>2, <1>3, <1>5, <1>6 DEF Abs!Alloc

(* The kernel heap implements its specification.                           *)
THEOREM HeapImplementation == Spec => ImplementsHeap
<1>1. Init => Abs!Init
  <2> SUFFICES ASSUME Init PROVE Abs!Init
    OBVIOUS
  <2>1. DOMAIN free = 1 .. Chunks /\ \A i \in 1 .. Chunks : free[i] = i
    BY HeapAssumption DEF Init, Heap
  <2> QED BY <2>1 DEF Init, Abs!Init, FreeSet
<1>2. IInv /\ [Next]_vars => [Abs!Next]_Abs!hvars
  <2> SUFFICES ASSUME IInv, [Next]_vars PROVE [Abs!Next]_Abs!hvars
    OBVIOUS
  <2>1. ASSUME NEW size \in 0 .. MaxSize, Alloc(size) PROVE Abs!Next
    BY <2>1, AllocImplements DEF Abs!Next
  <2>2. ASSUME NEW b \in blocks, Free(b) PROVE Abs!Next
    <3>1. PICK i \in 0 .. Len(free) :
            /\ \A j \in 1 .. i : b.base > free[j]
            /\ i < Len(free) => ~(b.base > free[i + 1])
            /\ free' = Linked(i, b)
            /\ blocks' = blocks \ {b}
      BY <2>2 DEF Free
    <3>2. b \in Block /\ Extent(b) \cap FreeSet = {} /\ Extent(b) \subseteq Heap
      BY DEF IInv, TypeOK, Disjoint, NoneLost
    <3>3. FreeSet' = FreeSet \cup Extent(b)
      BY <3>1, <3>2, LinkRun
    <3> QED BY <3>1, <3>3 DEF Abs!Next, Abs!Free, Abs!Run, Extent
  <2>3. CASE UNCHANGED vars
    BY <2>3 DEF vars, Abs!hvars, FreeSet
  <2> QED BY <2>1, <2>2, <2>3 DEF Next, AllocNull
<1> QED BY <1>1, <1>2, Inductive, PTL DEF Spec, ImplementsHeap, Abs!Spec

-----------------------------------------------------------------------------
(***************************************************************************)
(* The C library heap.  Of the links only one thing is assumed: each free  *)
(* block links to the next one in ascending order, and the last one to     *)
(* base.  That the walk along them comes round, passes every block, and    *)
(* ends where the loops of malloc and free should end, follows.  Free      *)
(* blocks and blocks in use tile what morecore has given out, and no free  *)
(* blocks touch; from the two follows how many free blocks there can be.   *)
(***************************************************************************)

(* In N, the block behind p is q: the next higher one, or base.            *)
After(N, p, q) ==
  /\ q \in N
  /\ \/ p < q /\ \A x \in N : ~(p < x /\ x < q)
     \/ q = 0 /\ \A x \in N : x <= p
Ringed(s, N) ==
  /\ N \subseteq Cell /\ 0 \in N /\ s.freep \in N
  /\ \A p \in N : After(N, p, s.ptr[p])

(* The units of the heap segment are finitely many.                        *)
LEMMA CellIs == Cell \subseteq Nat /\ Units \in Nat \ {0} /\ IsFiniteSet(Cell) /\ 0 \in Cell
<1>1. Units \in Nat \ {0}
  BY MallocAssumption
<1> QED BY <1>1, FS_Interval DEF Cell

(* A set of units that is not empty has a greatest element.                *)
LEMMA Greatest ==
  ASSUME NEW S \in SUBSET Cell, S # {}
  PROVE  \E m \in S : \A k \in S : k <= m
<1>1. Units \in Nat
  BY CellIs
<1> DEFINE D == {Units - x : x \in S}
<1>2. D \in SUBSET Nat /\ D # {}
  <2>1. \A x \in S : x \in 0 .. Units
    BY DEF Cell
  <2>2. \A x \in S : Units - x \in Nat
    BY <1>1, <2>1
  <2> QED BY <2>2
<1>3. PICK d \in D : \A k \in D : d <= k
  BY <1>2, LeastNat
<1>4. PICK m \in S : d = Units - m
  BY <1>3
<1>5. \A k \in S : Units - m <= Units - k
  BY <1>3, <1>4
<1> QED BY <1>1, <1>4, <1>5 DEF Cell

(* First is the least element of a set that is not empty.                  *)
LEMMA Least ==
  ASSUME NEW S \in SUBSET Nat, S # {}
  PROVE  First(S) \in S /\ \A j \in S : First(S) <= j
BY LeastNat DEF First

(* Node walks along the links: Node is defined by a recursive function, and *)
(* its equation holds.                                                     *)
LEMMA NodeStep ==
  ASSUME NEW s, NEW p, NEW k \in Nat
  PROVE  /\ Node(s, p, 0) = p
         /\ Node(s, p, k + 1) = s.ptr[Node(s, p, k)]
<1> DEFINE Walk(f, n) == f = [i \in 0 .. n |-> IF i = 0 THEN p ELSE s.ptr[f[i - 1]]]
           W(n) == CHOOSE f : Walk(f, n)
<1>1. \A n : Node(s, p, n) = W(n)[n]
  BY DEF Node
<1>2. \A n \in Nat : \E f : Walk(f, n)
  <2> DEFINE S == {n \in Nat : ~\E f : Walk(f, n)}
  <2> HIDE DEF Walk
  <2>1. SUFFICES ASSUME S # {} PROVE FALSE
    OBVIOUS
  <2>2. PICK m \in S : \A n \in S : m <= n
    BY <2>1, LeastNat
  <2>3. m \in Nat /\ ~\E f : Walk(f, m)
    BY <2>2
  <2>4. \A n \in Nat : n < m => \E f : Walk(f, n)
    BY <2>2, <2>3
  <2> HIDE DEF S
  <2>5. CASE m = 0
    <3>1. Walk([i \in 0 .. 0 |-> p], 0)
      BY DEF Walk
    <3> QED BY <2>3, <2>5, <3>1
  <2>6. CASE m # 0
    <3>1. m - 1 \in Nat /\ m - 1 < m
      BY <2>3, <2>6
    <3>2. PICK g : Walk(g, m - 1)
      BY <3>1, <2>4
    <3> DEFINE f == [i \in 0 .. m |-> IF i < m THEN g[i] ELSE s.ptr[g[m - 1]]]
    <3>3. Walk(f, m)
      BY <3>1, <3>2, <2>3 DEF Walk
    <3> QED BY <3>3, <2>3
  <2> QED BY <2>5, <2>6
<1>3. \A n \in Nat : Walk(W(n), n)
  BY <1>2
<1> HIDE DEF W
<1>4. \A n \in Nat : W(n)[0] = p /\ \A i \in 1 .. n : W(n)[i] = s.ptr[W(n)[i - 1]]
  BY <1>3
<1>5. \A i \in 0 .. k : W(k)[i] = W(k + 1)[i]
  <2> SUFFICES ASSUME NEW S, S = {i \in 0 .. k : W(k)[i] # W(k + 1)[i]}, S # {} PROVE FALSE
    OBVIOUS
  <2>1. S \in SUBSET Nat
    OBVIOUS
  <2>2. PICK m \in S : \A n \in S : m <= n
    BY <2>1, LeastNat
  <2>3. m # 0
    BY <1>4, <2>2
  <2>4. m - 1 \in 0 .. k /\ m - 1 \notin S /\ m \in 1 .. k /\ m \in 1 .. k + 1 /\ k + 1 \in Nat
    BY <2>2, <2>3
  <2> QED BY <1>4, <2>2, <2>4
<1> QED BY <1>1, <1>4, <1>5

(* A part of the ring that the links do not leave is all of it: from the   *)
(* highest block of the part a link leads to base, and from base no block  *)
(* is skipped.                                                             *)
LEMMA Closed ==
  ASSUME NEW s, NEW N, Ringed(s, N), NEW T \in SUBSET N, T # {}, \A p \in T : s.ptr[p] \in T
  PROVE  T = N
<1>1. N \subseteq Nat /\ T \subseteq Cell /\ N \subseteq Cell
  BY CellIs DEF Ringed
<1>2. PICK m \in T : \A k \in T : k <= m
  BY <1>1, Greatest
<1>3. s.ptr[m] \in T /\ s.ptr[m] <= m /\ m \in N
  BY <1>2
<1>4. 0 \in T
  <2>1. After(N, m, s.ptr[m])
    BY <1>3 DEF Ringed
  <2>2. m \in Nat /\ s.ptr[m] \in Nat
    BY <1>1, <1>3
  <2> QED BY <1>3, <2>1, <2>2 DEF After
<1> SUFFICES ASSUME N \ T # {} PROVE FALSE
  OBVIOUS
<1>5. PICK q \in N \ T : \A k \in N \ T : q <= k
  BY <1>1, LeastNat
<1> DEFINE B == {x \in N : x < q}
<1>6. B \in SUBSET Cell /\ 0 \in B
  <2>1. q \in Nat /\ q # 0
    BY <1>1, <1>4, <1>5
  <2>2. 0 < q
    BY <2>1
  <2>3. B \subseteq N
    OBVIOUS
  <2> QED BY <1>1, <1>4, <2>2, <2>3
<1>7. PICK p \in B : \A k \in B : k <= p
  BY <1>6, Greatest
<1> DEFINE r == s.ptr[p]
<1>8. p \in T /\ p \in N /\ p < q /\ p \in Nat /\ q \in Nat /\ q \in N
  BY <1>1, <1>5, <1>7
<1>9. r \in T /\ After(N, p, r) /\ r \in N /\ r \in Nat /\ r # q
  BY <1>1, <1>5, <1>8 DEF Ringed
<1> HIDE DEF r
<1>10. \A k \in N : k < q => k <= p
  BY <1>7
<1> QED BY <1>8, <1>9, <1>10 DEF After

(* No two blocks of a ring link to the same block.                         *)
LEMMA OneBefore ==
  ASSUME NEW s, NEW N, Ringed(s, N), NEW p \in N, NEW q \in N, s.ptr[p] = s.ptr[q]
  PROVE  p = q
<1>1. p \in Nat /\ q \in Nat
  BY CellIs DEF Ringed
<1> DEFINE r == s.ptr[p]
<1>2. After(N, p, r) /\ After(N, q, r)
  BY DEF Ringed
<1>3. r \in Nat
  BY <1>2, CellIs DEF After, Ringed
<1> HIDE DEF r
<1> QED BY <1>1, <1>2, <1>3 DEF After

(* The links never leave the ring.                                         *)
LEMMA NodesIn ==
  ASSUME NEW s, NEW N, Ringed(s, N), NEW p \in N
  PROVE  \A k \in Nat : Node(s, p, k) \in N
<1> DEFINE S == {k \in Nat : Node(s, p, k) \notin N}
<1> SUFFICES ASSUME S # {} PROVE FALSE
  OBVIOUS
<1>1. PICK m \in S : \A k \in S : m <= k
  BY LeastNat
<1>2. m \in Nat /\ m # 0
  BY NodeStep
<1>3. m - 1 \in Nat /\ m - 1 \notin S /\ m = (m - 1) + 1
  BY <1>1, <1>2
<1> DEFINE q == Node(s, p, m - 1)
<1>4. q \in N
  BY <1>3
<1>5. Node(s, p, m) = s.ptr[q]
  BY <1>3, NodeStep
<1>6. s.ptr[q] \in N
  BY <1>4 DEF Ringed, After
<1> QED BY <1>5, <1>6

(* From a block of the ring the links lead back to it, in at most as many  *)
(* steps as there are blocks: some block comes up twice (pigeonhole), and  *)
(* the first one that does is the first of all, for two links never meet.  *)
LEMMA Returns ==
  ASSUME NEW s, NEW N, Ringed(s, N), NEW p \in N
  PROVE  /\ IsFiniteSet(N) /\ Cardinality(N) \in Nat
         /\ \E k \in 1 .. Cardinality(N) : Node(s, p, k) = p
<1>1. IsFiniteSet(N) /\ Cardinality(N) \in Nat
  BY CellIs, FS_Subset, FS_CardinalityType DEF Ringed
<1> DEFINE n == Cardinality(N)
           f == [k \in 0 .. n |-> Node(s, p, k)]
<1> HIDE DEF n
<1>2. n \in Nat
  BY <1>1 DEF n
<1>3. f \in [0 .. n -> N]
  BY <1>2, NodesIn
<1>4. IsFiniteSet(0 .. n) /\ Cardinality(0 .. n) = n + 1
  <2>1. Cardinality(0 .. n) = IF 0 > n THEN 0 ELSE n - 0 + 1
    BY <1>2, FS_Interval
  <2> QED BY <1>2, <2>1, FS_Interval
<1>5. Cardinality(N) < Cardinality(0 .. n)
  BY <1>2, <1>4 DEF n
<1>6. \E x, y \in 0 .. n : x # y /\ f[x] = f[y]
  <2> HIDE DEF f
  <2> QED BY <1>1, <1>3, <1>4, <1>5, FS_PigeonHole
<1> DEFINE S == {i \in 0 .. n : \E j \in 0 .. n : i < j /\ Node(s, p, i) = Node(s, p, j)}
<1>7. S # {}
  <2>1. PICK x \in 0 .. n, y \in 0 .. n : x # y /\ f[x] = f[y]
    BY <1>6
  <2>2. x < y \/ y < x
    BY <1>2, <2>1
  <2> QED BY <2>1, <2>2
<1>8. PICK i \in S : \A k \in S : i <= k
  <2>1. S \in SUBSET Nat
    BY <1>2
  <2> HIDE DEF S
  <2> QED BY <1>7, <2>1, LeastNat
<1>9. PICK j \in 0 .. n : i < j /\ Node(s, p, i) = Node(s, p, j)
  BY <1>8
<1>10. i = 0
  <2> SUFFICES ASSUME i # 0 PROVE FALSE
    OBVIOUS
  <2>1. /\ i - 1 \in Nat /\ j - 1 \in Nat /\ i - 1 \in 0 .. n /\ j - 1 \in 0 .. n /\ i - 1 < j - 1
        /\ (i - 1) + 1 = i /\ (j - 1) + 1 = j
    BY <1>2, <1>8, <1>9
  <2>2. i - 1 \notin S
    BY <1>8, <2>1
  <2> DEFINE a == Node(s, p, i - 1)
             b == Node(s, p, j - 1)
  <2>3. s.ptr[a] = s.ptr[b] /\ a \in N /\ b \in N
    <3>1. Node(s, p, i) = s.ptr[a]
      BY <2>1, NodeStep
    <3>2. Node(s, p, j) = s.ptr[b]
      BY <2>1, NodeStep
    <3> QED BY <1>9, <2>1, <3>1, <3>2, NodesIn
  <2>4. a = b
    <3> HIDE DEF a, b
    <3> QED BY <2>3, OneBefore
  <2> QED BY <2>1, <2>2, <2>4
<1>11. j \in 1 .. n /\ Node(s, p, j) = p
  BY <1>2, <1>9, <1>10, NodeStep
<1> QED BY <1>1, <1>11 DEF n

(* On the way round the links pass every block.                            *)
LEMMA Covered ==
  ASSUME NEW s, NEW N, Ringed(s, N), NEW p \in N, NEW r \in Nat \ {0}, Node(s, p, r) = p
  PROVE  \A q \in N : \E k \in 0 .. r - 1 : Node(s, p, k) = q
<1> DEFINE T == {Node(s, p, k) : k \in 0 .. r - 1}
<1>1. T \in SUBSET N
  BY NodesIn
<1>2. 0 \in 0 .. r - 1 /\ T # {}
  OBVIOUS
<1>3. ASSUME NEW q \in T PROVE s.ptr[q] \in T
  <2>1. PICK k \in 0 .. r - 1 : q = Node(s, p, k)
    BY <1>3
  <2>2. k \in Nat /\ Node(s, p, k + 1) = s.ptr[q]
    BY <2>1, NodeStep
  <2>3. CASE k + 1 = r
    BY <1>2, <2>2, <2>3, NodeStep
  <2>4. CASE k + 1 # r
    <3>1. k + 1 \in 0 .. r - 1
      BY <2>2, <2>4
    <3> QED BY <2>2, <3>1
  <2> QED BY <2>3, <2>4
<1>4. T = N
  <2> HIDE DEF T
  <2> QED BY <1>1, <1>2, <1>3, Closed
<1> QED BY <1>4

(* The bound on a round is a number.                                       *)
LEMMA LongestIs == Longest \in Nat /\ MaxLive \in Nat /\ Longest = MaxLive + 4
BY MallocAssumption DEF Longest

(* Round is where a search that starts at freep is back, with every block  *)
(* passed.                                                                 *)
LEMMA RoundIs ==
  ASSUME NEW s, NEW N, Ringed(s, N), Cardinality(N) <= Longest
  PROVE  /\ Round(s) \in 1 .. Longest /\ Node(s, s.freep, Round(s)) = s.freep
         /\ \A q \in N : \E k \in 0 .. Round(s) - 1 : Node(s, s.freep, k) = q
<1> DEFINE S == {k \in 1 .. Longest : Node(s, s.freep, k) = s.freep}
<1>1. s.freep \in N
  BY DEF Ringed
<1>2. PICK k \in 1 .. Cardinality(N) : Node(s, s.freep, k) = s.freep
  BY <1>1, Returns
<1>3. Cardinality(N) \in Nat
  BY <1>1, Returns
<1>4. k \in S
  BY <1>2, <1>3, LongestIs
<1>5. S \in SUBSET Nat
  OBVIOUS
<1>6. Round(s) = First(S)
  BY DEF Round
<1>7. Round(s) \in S
  <2> HIDE DEF S
  <2> QED BY <1>4, <1>5, <1>6, Least
<1>8. Round(s) \in Nat \ {0} /\ Node(s, s.freep, Round(s)) = s.freep
  BY <1>7
<1> QED BY <1>1, <1>7, <1>8, Covered

(* The blocks that Ring collects are those of the ring.                    *)
LEMMA RingIs ==
  ASSUME NEW s, NEW N, Ringed(s, N), Cardinality(N) <= Longest
  PROVE  {Node(s, 0, k) : k \in 0 .. Longest} = N
<1>1. 0 \in N
  BY DEF Ringed
<1>2. PICK r \in 1 .. Cardinality(N) : Node(s, 0, r) = 0
  BY <1>1, Returns
<1>3. Cardinality(N) \in Nat /\ r \in Nat \ {0} /\ 0 .. r - 1 \subseteq 0 .. Longest
  BY <1>1, <1>2, Returns, LongestIs
<1>4. \A q \in N : \E k \in 0 .. r - 1 : Node(s, 0, k) = q
  BY <1>1, <1>2, <1>3, Covered
<1>5. \A k \in 0 .. Longest : Node(s, 0, k) \in N
  BY <1>1, NodesIn
<1> QED BY <1>3, <1>4, <1>5

(* The heaps after the first call.                                         *)
Heaps == [ptr : [Cell -> Cell], size : [Cell -> Nat], freep : Cell, bss : 1 .. Units + 1]

(* The fields of a heap, each with its type.                               *)
LEMMA HeapFields ==
  ASSUME NEW s \in Heaps
  PROVE  /\ s.ptr \in [Cell -> Cell] /\ s.size \in [Cell -> Nat]
         /\ s.freep \in Cell /\ s.bss \in 1 .. Units + 1
         /\ s = [ptr |-> s.ptr, size |-> s.size, freep |-> s.freep, bss |-> s.bss]
BY DEF Heaps

(* The search of malloc finds nothing exactly if every free block is too   *)
(* small.                                                                  *)
LEMMA HitsNone ==
  ASSUME NEW s \in Heaps, NEW N, Ringed(s, N), Cardinality(N) <= Longest, NEW nu \in Nat
  PROVE  Hits(s, nu) = {} <=> \A p \in N : s.size[p] < nu
<1> DEFINE R == Round(s)
           f == s.freep
<1>1. /\ R \in 1 .. Longest /\ Node(s, f, R) = f /\ f \in N
      /\ \A q \in N : \E k \in 0 .. R - 1 : Node(s, f, k) = q
  BY RoundIs DEF Ringed
<1>2. Longest \in Nat /\ R \in Nat \ {0}
  BY <1>1, LongestIs
<1>3. \A k \in Nat : Node(s, f, k) \in N
  BY <1>1, NodesIn
<1>4. Node(s, f, 0) = f
  BY NodeStep
<1>5. \A p \in N : s.size[p] \in Nat
  BY HeapFields DEF Ringed
<1>6. Hits(s, nu) = {k \in 1 .. R : s.size[Node(s, f, k)] >= nu}
  BY DEF Hits
<1> HIDE DEF R, f
<1>7. ASSUME Hits(s, nu) = {}, NEW p \in N PROVE s.size[p] < nu
  <2>1. PICK k \in 0 .. R - 1 : Node(s, f, k) = p
    BY <1>1
  <2>2. PICK j \in 1 .. R : Node(s, f, j) = p
    <3>1. CASE k = 0
      BY <1>1, <1>2, <1>4, <2>1, <3>1
    <3>2. CASE k # 0
      <4>1. k \in 1 .. R
        BY <1>2, <2>1, <3>2
      <4> QED BY <2>1, <4>1
    <3> QED BY <3>1, <3>2
  <2>3. ~(s.size[p] >= nu)
    BY <1>6, <1>7, <2>2
  <2> QED BY <1>5, <2>3
<1>8. ASSUME \A p \in N : s.size[p] < nu PROVE Hits(s, nu) = {}
  <2> SUFFICES ASSUME NEW k \in 1 .. R, s.size[Node(s, f, k)] >= nu PROVE FALSE
    BY <1>6
  <2>1. Node(s, f, k) \in N
    BY <1>2, <1>3
  <2> QED BY <1>5, <1>8, <2>1
<1> QED BY <1>7, <1>8

(* Cut, with the blocks that the search ends at named.                     *)
CutHeap(s, nu, prev, p) ==
  IF p + s.size[p] - nu = p
  THEN [s EXCEPT !.ptr[prev] = s.ptr[p], !.ptr[p] = 0, !.freep = prev]
  ELSE [s EXCEPT !.size[p] = @ - nu, !.size[p + s.size[p] - nu] = nu, !.freep = prev]

(* What malloc cuts is cut off a block of the ring that is big enough, and *)
(* the block before it is known.                                           *)
LEMMA CutIs ==
  ASSUME NEW s \in Heaps, NEW N, Ringed(s, N), Cardinality(N) <= Longest, NEW nu \in Nat,
         Hits(s, nu) # {}
  PROVE  \E prev, p \in N :
           /\ s.ptr[prev] = p /\ s.size[p] >= nu
           /\ Cut(s, nu).at = p + s.size[p] - nu
           /\ Cut(s, nu).heap = CutHeap(s, nu, prev, p)
<1> DEFINE k == First(Hits(s, nu))
           prev == Node(s, s.freep, k - 1)
           p    == Node(s, s.freep, k)
<1>1. Round(s) \in 1 .. Longest /\ s.freep \in N
  BY RoundIs DEF Ringed
<1>2. Hits(s, nu) \subseteq 1 .. Round(s) /\ \A j \in Hits(s, nu) : s.size[Node(s, s.freep, j)] >= nu
  BY DEF Hits
<1>3. k \in Hits(s, nu)
  <2>1. Hits(s, nu) \in SUBSET Nat
    BY <1>2
  <2> QED BY <2>1, Least
<1>4. s.size[p] >= nu /\ k \in 1 .. Round(s)
  BY <1>2, <1>3
<1>5. k - 1 \in Nat /\ (k - 1) + 1 = k /\ k \in Nat
  BY <1>1, <1>4, LongestIs
<1>6. s.ptr[prev] = p /\ prev \in N /\ p \in N
  <2> HIDE DEF k
  <2>1. Node(s, s.freep, (k - 1) + 1) = s.ptr[prev]
    BY <1>5, NodeStep
  <2> QED BY <1>1, <1>5, <2>1, NodesIn
<1>7. /\ Cut(s, nu).at = p + s.size[p] - nu
      /\ Cut(s, nu).heap = CutHeap(s, nu, prev, p)
  BY DEF Cut, CutHeap
<1> QED BY <1>4, <1>6, <1>7

(* The loop of free ends at the last block below bp: the next one is above *)
(* bp, or base.                                                            *)
LEMMA BehindIs ==
  ASSUME NEW s \in Heaps, NEW N, Ringed(s, N), Cardinality(N) <= Longest,
         NEW bp \in Cell \ {0}, bp \notin N
  PROVE  LET p == Behind(s, bp) IN
         /\ p \in N /\ p < bp /\ \A x \in N : x <= p \/ x > bp
         /\ s.ptr[p] > bp \/ s.ptr[p] = 0
<1> DEFINE Follows(p) == \/ p < bp /\ bp < s.ptr[p]
                         \/ p >= s.ptr[p] /\ (bp > p \/ bp < s.ptr[p])
           R == Round(s)
           f == s.freep
           S == {k \in 0 .. R - 1 : Follows(Node(s, f, k))}
<1>1. /\ R \in 1 .. Longest /\ Node(s, f, R) = f /\ f \in N
      /\ \A q \in N : \E k \in 0 .. R - 1 : Node(s, f, k) = q
  BY RoundIs DEF Ringed
<1>2. Longest \in Nat /\ R \in Nat \ {0}
  BY <1>1, LongestIs
<1>3. \A k \in Nat : Node(s, f, k) \in N
  BY <1>1, NodesIn
<1>4. N \subseteq Cell /\ N \subseteq Nat /\ bp \in Nat /\ bp > 0
      /\ \A p \in N : After(N, p, s.ptr[p]) /\ s.ptr[p] \in N /\ s.ptr[p] \in Nat
  <2>1. N \subseteq Cell /\ N \subseteq Nat /\ bp \in Nat /\ bp > 0
    <3>1. N \subseteq Cell
      BY DEF Ringed
    <3>2. bp \in Nat /\ bp # 0
      BY CellIs
    <3> QED BY <3>1, <3>2, CellIs
  <2>2. \A p \in N : After(N, p, s.ptr[p])
    BY DEF Ringed
  <2>3. \A p \in N : s.ptr[p] \in N
    BY <2>2 DEF After
  <2> QED BY <2>1, <2>2, <2>3
<1>5. Behind(s, bp) = Node(s, f, First(S))
  BY DEF Behind
<1>6. \E q \in N : Follows(q)
  <2> DEFINE B == {x \in N : x < bp}
  <2>1. B \in SUBSET Cell /\ B # {}
    <3>1. 0 \in N
      BY DEF Ringed
    <3> QED BY <1>4, <3>1
  <2>2. PICK q \in B : \A x \in B : x <= q
    BY <2>1, Greatest
  <2>3. q \in N /\ q < bp /\ q \in Nat /\ \A x \in N : x < bp => x <= q
    BY <1>4, <2>2
  <2> DEFINE r == s.ptr[q]
  <2>4. After(N, q, r) /\ r \in N /\ r \in Nat /\ r # bp
    BY <1>4, <2>3
  <2>5. (q < bp /\ bp < r) \/ (q >= r /\ (bp > q \/ bp < r))
    <3> HIDE DEF r
    <3> QED BY <1>4, <2>3, <2>4 DEF After
  <2> QED BY <2>3, <2>5
<1>7. First(S) \in S
  <2>1. PICK q \in N : Follows(q)
    BY <1>6
  <2>2. PICK k \in 0 .. R - 1 : Node(s, f, k) = q
    BY <1>1
  <2>3. k \in S
    BY <2>1, <2>2
  <2>4. S \in SUBSET Nat
    OBVIOUS
  <2> HIDE DEF S
  <2> QED BY <2>3, <2>4, Least
<1> DEFINE p == Behind(s, bp)
<1>8. p \in N /\ Follows(p)
  <2>1. First(S) \in Nat /\ Follows(Node(s, f, First(S)))
    <3>1. \A k \in S : k \in Nat /\ Follows(Node(s, f, k))
      BY <1>2
    <3> HIDE DEF S, Follows
    <3> QED BY <1>7, <3>1
  <2> QED BY <1>3, <1>5, <2>1
<1> DEFINE r == s.ptr[p]
<1>9. /\ p \in N /\ p \in Nat /\ After(N, p, r) /\ r \in N /\ r \in Nat /\ r # bp /\ p # bp
      /\ (p < bp /\ bp < r) \/ (p >= r /\ (bp > p \/ bp < r))
  BY <1>4, <1>8
<1> HIDE DEF p, r
<1>10. p < bp /\ (\A x \in N : x <= p \/ x > bp) /\ (r > bp \/ r = 0)
  <2>1. CASE p < r
    BY <1>4, <1>9, <2>1 DEF After
  <2>2. CASE ~(p < r)
    BY <1>4, <1>9, <2>2 DEF After
  <2> QED BY <2>1, <2>2
<1> QED BY <1>9, <1>10 DEF p, r

(* The links lead from each block of N to the next.                        *)
Cyc(N, ptr) == \A p \in N : After(N, p, ptr[p])

(* A block taken off the ring leaves a ring.                               *)
LEMMA CycRemove ==
  ASSUME NEW N \in SUBSET Nat, 0 \in N, NEW ptr, Cyc(N, ptr),
         NEW prev \in N, NEW p \in N, p # 0, ptr[prev] = p,
         NEW new, new[prev] = ptr[p], \A x \in N \ {prev, p} : new[x] = ptr[x]
  PROVE  prev # p /\ Cyc(N \ {p}, new)
<1> DEFINE r == ptr[p]
<1>1. /\ prev \in Nat /\ p \in Nat /\ r \in Nat /\ r \in N
      /\ After(N, prev, p) /\ After(N, p, r) /\ new[prev] = r
  BY DEF Cyc, After
<1> HIDE DEF r
<1>2. prev # p /\ prev < p /\ \A x \in N : ~(prev < x /\ x < p)
  BY <1>1 DEF After
<1>3. r # p
  BY <1>1 DEF After
<1>4. ASSUME NEW x \in N \ {p} PROVE After(N \ {p}, x, new[x])
  <2>1. CASE x = prev
    <3>1. r \in N \ {p}
      BY <1>1, <1>3
    <3>2. CASE p < r
      <4>1. \A y \in N \ {p} : ~(prev < y /\ y < r)
        BY <1>1, <1>2, <3>2 DEF After
      <4>2. prev < r
        BY <1>1, <1>2, <3>2
      <4> QED BY <1>1, <2>1, <3>1, <4>1, <4>2 DEF After
    <3>3. CASE ~(p < r)
      <4>1. r = 0 /\ \A y \in N : y <= p
        BY <1>1, <3>3 DEF After
      <4>2. \A y \in N \ {p} : y <= prev
        BY <1>1, <1>2, <4>1
      <4> QED BY <1>1, <2>1, <3>1, <4>1, <4>2 DEF After
    <3> QED BY <3>2, <3>3
  <2>2. CASE x # prev
    <3> DEFINE q == ptr[x]
    <3>1. new[x] = q /\ After(N, x, q) /\ x \in N /\ x \in Nat
      BY <2>2 DEF Cyc
    <3>2. q \in N /\ q \in Nat
      BY <3>1 DEF After
    <3> HIDE DEF q
    <3>3. q # p
      BY <1>1, <1>2, <2>2, <3>1, <3>2 DEF After
    <3> QED BY <3>1, <3>2, <3>3 DEF After
  <2> QED BY <2>1, <2>2
<1> QED BY <1>2, <1>4 DEF Cyc

(* A block put behind the last one below it leaves a ring.                 *)
LEMMA CycInsert ==
  ASSUME NEW N \in SUBSET Nat, 0 \in N, NEW ptr, Cyc(N, ptr),
         NEW p \in N, NEW b \in Nat, b \notin N, p < b, \A x \in N : x <= p \/ x > b,
         NEW new, new[b] = ptr[p], new[p] = b, \A x \in N \ {p} : new[x] = ptr[x]
  PROVE  Cyc(N \cup {b}, new)
<1> DEFINE r == ptr[p]
<1>1. p \in Nat /\ r \in Nat /\ r \in N /\ After(N, p, r) /\ new[b] = r
  BY DEF Cyc, After
<1> HIDE DEF r
<1>2. After(N \cup {b}, b, new[b])
  <2>1. CASE p < r
    <3>1. r > b /\ \A x \in N \cup {b} : ~(b < x /\ x < r)
      BY <1>1, <2>1 DEF After
    <3> QED BY <1>1, <3>1 DEF After
  <2>2. CASE ~(p < r)
    <3>1. r = 0 /\ \A x \in N \cup {b} : x <= b
      BY <1>1, <2>2 DEF After
    <3> QED BY <1>1, <3>1 DEF After
  <2> QED BY <2>1, <2>2
<1>3. After(N \cup {b}, p, new[p])
  BY <1>1 DEF After
<1>4. ASSUME NEW x \in N \ {p} PROVE After(N \cup {b}, x, new[x])
  <2> DEFINE q == ptr[x]
  <2>1. new[x] = q /\ After(N, x, q) /\ x \in Nat
    BY DEF Cyc
  <2>2. q \in N /\ q \in Nat
    BY <2>1 DEF After
  <2> HIDE DEF q
  <2>3. CASE x < q
    <3>1. \A y \in N : ~(x < y /\ y < q)
      BY <2>1, <2>2, <2>3 DEF After
    <3>2. ~(x < b /\ b < q)
      BY <1>1, <2>1, <2>2, <3>1
    <3> QED BY <2>1, <2>2, <2>3, <3>1, <3>2 DEF After
  <2>4. CASE ~(x < q)
    <3>1. q = 0 /\ \A y \in N : y <= x
      BY <2>1, <2>2, <2>4 DEF After
    <3>2. b <= x
      BY <1>1, <2>1, <3>1
    <3> QED BY <2>1, <2>2, <3>1, <3>2 DEF After
  <2> QED BY <2>3, <2>4
<1> QED BY <1>2, <1>3, <1>4 DEF Cyc

(* The blocks H lie side by side, below the unit top.                      *)
Tiles(H, size, top) ==
  /\ \A p \in H : size[p] \in Nat \ {0} /\ p >= 1 /\ p + size[p] <= top
  /\ \A p, q \in H : p < q => p + size[p] <= q
  /\ \A u \in 1 .. top - 1 : \E p \in H : p <= u /\ u < p + size[p]

(* The tail end of a block, made a block of its own, leaves a tiling.      *)
LEMMA TilesSplit ==
  ASSUME NEW H \in SUBSET Nat, NEW size, NEW top \in Nat, Tiles(H, size, top),
         NEW p \in H, NEW nu \in Nat \ {0}, nu < size[p], NEW at, at = p + size[p] - nu,
         NEW new, new[p] = size[p] - nu, new[at] = nu, \A x \in H \ {p, at} : new[x] = size[x]
  PROVE  at \notin H /\ at \in Nat /\ at > p /\ at + nu <= top /\ Tiles(H \cup {at}, new, top)
<1> DEFINE n == size[p]
<1>1. /\ p \in Nat /\ n \in Nat \ {0} /\ p >= 1 /\ p + n <= top /\ nu < n
      /\ at = p + n - nu /\ new[p] = n - nu
  BY DEF Tiles
<1>2. \A q \in H : (p < q => p + n <= q) /\ (q < p => q + size[q] <= p)
  BY DEF Tiles
<1>3. \A q \in H : size[q] \in Nat \ {0} /\ q >= 1 /\ q + size[q] <= top /\ q \in Nat
  BY DEF Tiles
<1>4. \A q, x \in H : q < x => q + size[q] <= x
  BY DEF Tiles
<1>5. \A u \in 1 .. top - 1 : \E q \in H : q <= u /\ u < q + size[q]
  BY DEF Tiles
<1> HIDE DEF n
<1>6. at \notin H /\ at \in Nat /\ at > p /\ at + nu = p + n
  BY <1>1, <1>2
<1>7. \A x \in H \ {p} : new[x] = size[x]
  BY <1>6
<1>8. \A q \in H \cup {at} : new[q] \in Nat \ {0} /\ q >= 1 /\ q + new[q] <= top
  BY <1>1, <1>3, <1>6, <1>7
<1>9. ASSUME NEW q \in H \cup {at}, NEW x \in H \cup {at}, q < x PROVE q + new[q] <= x
  <2>1. CASE q = at
    BY <1>1, <1>2, <1>3, <1>6, <1>9, <2>1
  <2>2. CASE q = p
    BY <1>1, <1>2, <1>3, <1>6, <1>9, <2>2
  <2>3. CASE q \in H \ {p}
    BY <1>1, <1>2, <1>3, <1>4, <1>6, <1>7, <1>9, <2>3
  <2> QED BY <2>1, <2>2, <2>3
<1>10. ASSUME NEW u \in 1 .. top - 1 PROVE \E q \in H \cup {at} : q <= u /\ u < q + new[q]
  <2>1. PICK q \in H : q <= u /\ u < q + size[q]
    BY <1>5
  <2>2. CASE q # p
    BY <1>7, <2>1, <2>2
  <2>3. CASE q = p /\ u < at
    BY <1>1, <2>1, <2>3
  <2>4. CASE q = p /\ u >= at
    <3>1. size[q] = n
      BY <2>4 DEF n
    <3> QED BY <1>1, <1>6, <2>1, <2>4, <3>1
  <2> QED BY <1>6, <2>2, <2>3, <2>4
<1> QED BY <1>1, <1>6, <1>8, <1>9, <1>10 DEF Tiles

(* Two blocks that touch, made one, leave a tiling.                        *)
LEMMA TilesJoin ==
  ASSUME NEW H \in SUBSET Nat, NEW size, NEW top \in Nat, Tiles(H, size, top),
         NEW p \in H, NEW q \in H, p + size[p] = q,
         NEW new, new[p] = size[p] + size[q], \A x \in H \ {p, q} : new[x] = size[x]
  PROVE  p # q /\ Tiles(H \ {q}, new, top)
<1> DEFINE n == size[p]
           m == size[q]
<1>1. /\ p \in Nat /\ n \in Nat \ {0} /\ p >= 1 /\ q \in Nat /\ m \in Nat \ {0} /\ q + m <= top
      /\ q = p + n /\ new[p] = n + m
  BY DEF Tiles
<1>2. \A x \in H : size[x] \in Nat \ {0} /\ x >= 1 /\ x + size[x] <= top /\ x \in Nat
  BY DEF Tiles
<1>3. \A y, x \in H : y < x => y + size[y] <= x
  BY DEF Tiles
<1>4. \A x \in H : (q < x => q + m <= x) /\ (p < x => p + n <= x)
  BY DEF Tiles
<1>5. \A u \in 1 .. top - 1 : \E x \in H : x <= u /\ u < x + size[x]
  BY DEF Tiles
<1>6. size[p] = n /\ size[q] = m
  OBVIOUS
<1> HIDE DEF n, m
<1>7. \A x \in H \ {q} : new[x] \in Nat \ {0} /\ x >= 1 /\ x + new[x] <= top
  BY <1>1, <1>2
<1>8. ASSUME NEW y \in H \ {q}, NEW x \in H \ {q}, y < x PROVE y + new[y] <= x
  <2>1. CASE y = p
    BY <1>1, <1>2, <1>4, <1>8, <2>1
  <2>2. CASE y # p
    BY <1>2, <1>3, <1>8, <2>2
  <2> QED BY <2>1, <2>2
<1>9. ASSUME NEW u \in 1 .. top - 1 PROVE \E x \in H \ {q} : x <= u /\ u < x + new[x]
  <2>1. PICK x \in H : x <= u /\ u < x + size[x]
    BY <1>5
  <2>2. CASE x \notin {p, q}
    BY <2>1, <2>2
  <2>3. CASE x \in {p, q}
    <3>1. p \in H \ {q} /\ p <= u /\ u < p + new[p]
      BY <1>1, <1>6, <2>1, <2>3
    <3> QED BY <3>1
  <2> QED BY <2>2, <2>3
<1> QED BY <1>1, <1>7, <1>8, <1>9 DEF Tiles

(* A block put on top leaves a tiling that reaches further.                *)
LEMMA TilesGrow ==
  ASSUME NEW H \in SUBSET Nat, NEW size, NEW top \in Nat \ {0}, Tiles(H, size, top),
         NEW n \in Nat \ {0}, NEW new, new[top] = n, \A x \in H \ {top} : new[x] = size[x]
  PROVE  top \notin H /\ Tiles(H \cup {top}, new, top + n)
<1>1. \A x \in H : size[x] \in Nat \ {0} /\ x >= 1 /\ x + size[x] <= top /\ x \in Nat
  BY DEF Tiles
<1>2. \A y, x \in H : y < x => y + size[y] <= x
  BY DEF Tiles
<1>3. \A u \in 1 .. top - 1 : \E x \in H : x <= u /\ u < x + size[x]
  BY DEF Tiles
<1>4. top \notin H
  BY <1>1
<1>5. \A x \in H : new[x] = size[x] /\ x < top
  BY <1>1, <1>4
<1>6. \A x \in H \cup {top} : new[x] \in Nat \ {0} /\ x >= 1 /\ x + new[x] <= top + n
  BY <1>1, <1>5
<1>7. ASSUME NEW y \in H \cup {top}, NEW x \in H \cup {top}, y < x PROVE y + new[y] <= x
  BY <1>1, <1>2, <1>5, <1>7
<1>8. ASSUME NEW u \in 1 .. top + n - 1 PROVE \E x \in H \cup {top} : x <= u /\ u < x + new[x]
  <2>1. CASE u < top
    <3>1. PICK x \in H : x <= u /\ u < x + size[x]
      BY <1>3, <2>1
    <3> QED BY <1>5, <3>1
  <2>2. CASE u >= top
    BY <2>2
  <2> QED BY <2>1, <2>2
<1> QED BY <1>4, <1>6, <1>7, <1>8 DEF Tiles

(* Only headers hold a size.                                               *)
Clean(N, L, size) == \A c \in Cell \ (N \cup L) : size[c] = 0

(* In heap s, N is the ring of the free blocks and L the blocks in use.    *)
Good(s, N, L) ==
  /\ s \in Heaps /\ Ringed(s, N) /\ s.size[0] = 0
  /\ L \subseteq Cell \ {0} /\ L \cap N = {}
  /\ Tiles((N \ {0}) \cup L, s.size, s.bss) /\ Clean(N, L, s.size)
(* No free blocks touch; a round is within the bound.                      *)
Parted(s, N) == \A p, q \in N \ {0} : p + s.size[p] # q
Short(N) == Cardinality(N) <= Longest

(* A ring is a cycle through base and freep.                               *)
LEMMA RingedIs ==
  ASSUME NEW s, NEW N
  PROVE  Ringed(s, N) <=> N \subseteq Cell /\ 0 \in N /\ s.freep \in N /\ Cyc(N, s.ptr)
BY DEF Ringed, Cyc

(* The updates of Cut and JoinedTo, each a name of its own.                *)
Put(f, i, v) == [f EXCEPT ![i] = v]

(* The fields of the heap that malloc cuts a block from, whole or at the   *)
(* tail.                                                                   *)
LEMMA CutFields ==
  ASSUME NEW s \in Heaps, NEW prev \in Cell, NEW p \in Cell, NEW nu \in Nat,
         p + s.size[p] - nu \in Cell, nu <= s.size[p]
  PROVE  LET t == CutHeap(s, nu, prev, p)
             at == p + s.size[p] - nu
         IN /\ t \in Heaps /\ t.freep = prev /\ t.bss = s.bss
            /\ at = p => /\ t.size = s.size
                         /\ t.ptr = Put(Put(s.ptr, prev, s.ptr[p]), p, 0)
            /\ at # p => /\ t.ptr = s.ptr
                         /\ t.size = Put(Put(s.size, p, s.size[p] - nu), at, nu)
<1> DEFINE ptr == s.ptr
           size == s.size
           at == p + size[p] - nu
           P1 == Put(Put(ptr, prev, ptr[p]), p, 0)
           S1 == Put(Put(size, p, size[p] - nu), at, nu)
           t == CutHeap(s, nu, prev, p)
<1>1. /\ ptr \in [Cell -> Cell] /\ size \in [Cell -> Nat] /\ s.bss \in 1 .. Units + 1
      /\ s = [ptr |-> ptr, size |-> size, freep |-> s.freep, bss |-> s.bss]
  BY HeapFields
<1>2. P1 \in [Cell -> Cell]
  <2>1. ptr[p] \in Cell /\ 0 \in Cell
    BY <1>1, CellIs
  <2> QED BY <1>1, <2>1 DEF Put
<1>3. S1 \in [Cell -> Nat]
  <2>1. size[p] - nu \in Nat
    BY <1>1
  <2> QED BY <1>1, <2>1 DEF Put
<1>4. CASE at = p
  <2>1. t = [s EXCEPT !.ptr[prev] = s.ptr[p], !.ptr[p] = 0, !.freep = prev]
    BY <1>4 DEF CutHeap
  <2>2. t = [ptr |-> P1, size |-> size, freep |-> prev, bss |-> s.bss]
    BY <1>1, <2>1 DEF Put
  <2> QED BY <1>1, <1>2, <1>4, <2>2 DEF Heaps
<1>5. CASE at # p
  <2>1. t = [s EXCEPT !.size[p] = @ - nu, !.size[at] = nu, !.freep = prev]
    BY <1>5 DEF CutHeap
  <2>2. t = [ptr |-> ptr, size |-> S1, freep |-> prev, bss |-> s.bss]
    BY <1>1, <2>1 DEF Put
  <2> QED BY <1>1, <1>3, <1>5, <2>2 DEF Heaps
<1> QED BY <1>4, <1>5

(* In heap t, the block at "at" of nu units is one more in use than in heap *)
(* s.                                                                      *)
HasCut(s, t, at, N, L, nu) ==
  /\ at \in Cell \ {0} /\ at \notin L
  /\ t.bss = s.bss /\ t.size[at] = nu /\ \A x \in L : t.size[x] = s.size[x]
  /\ \E M \in SUBSET N : Good(t, M, L \cup {at}) /\ Parted(t, M)

(* malloc cuts one block off and leaves a well-formed heap, in which still *)
(* no free blocks touch.                                                   *)
LEMMA CutGood ==
  ASSUME NEW s, NEW N, NEW L, Good(s, N, L), Short(N), Parted(s, N),
         NEW nu \in Nat \ {0}, Hits(s, nu) # {}
  PROVE  HasCut(s, Cut(s, nu).heap, Cut(s, nu).at, N, L, nu)
<1>1. /\ s \in Heaps /\ Ringed(s, N) /\ s.size[0] = 0
      /\ L \subseteq Cell \ {0} /\ L \cap N = {}
      /\ Tiles((N \ {0}) \cup L, s.size, s.bss) /\ Clean(N, L, s.size)
  BY DEF Good
<1>2. PICK prev \in N, p \in N :
        /\ s.ptr[prev] = p /\ s.size[p] >= nu
        /\ Cut(s, nu).at = p + s.size[p] - nu
        /\ Cut(s, nu).heap = CutHeap(s, nu, prev, p)
  BY <1>1, CutIs DEF Short
<1> DEFINE at == p + s.size[p] - nu
           H == (N \ {0}) \cup L
<1>3. PICK t : t = CutHeap(s, nu, prev, p)
  OBVIOUS
<1>4. /\ N \subseteq Cell /\ 0 \in N /\ s.freep \in N /\ Cyc(N, s.ptr) /\ Cell \subseteq Nat
      /\ N \subseteq Nat /\ H \subseteq Nat /\ H \subseteq Cell
  BY <1>1, RingedIs, CellIs
<1>5. s.size \in [Cell -> Nat] /\ s.ptr \in [Cell -> Cell] /\ s.bss \in 1 .. Units + 1
      /\ s.bss \in Nat
  BY <1>1, HeapFields, CellIs
<1>6. p # 0 /\ p \in H /\ p \in Cell /\ p \in Nat /\ prev \in Cell /\ s.size[p] \in Nat
  <2>1. s.size[p] # 0
    BY <1>2, <1>4, <1>5
  <2> QED BY <1>1, <1>2, <1>4, <1>5, <2>1
<1>7. p >= 1 /\ p + s.size[p] <= s.bss
  BY <1>1, <1>6 DEF Tiles
<1>8. at \in Cell \ {0} /\ at >= p
  <2> DEFINE n == s.size[p]
  <2>1. n \in Nat /\ n >= nu /\ p >= 1 /\ p + n <= Units + 1 /\ Units \in Nat /\ p \in Nat
    BY <1>2, <1>5, <1>6, <1>7, CellIs
  <2> HIDE DEF n
  <2>2. p + n - nu \in 1 .. Units /\ p + n - nu >= p
    BY <2>1
  <2> QED BY <2>2 DEF n, Cell
<1>9. /\ t \in Heaps /\ t.freep = prev /\ t.bss = s.bss
      /\ at = p => /\ t.size = s.size
                   /\ t.ptr = Put(Put(s.ptr, prev, s.ptr[p]), p, 0)
      /\ at # p => /\ t.ptr = s.ptr
                   /\ t.size = Put(Put(s.size, p, s.size[p] - nu), at, nu)
  BY <1>1, <1>2, <1>3, <1>6, <1>8, CutFields
<1>10. p \notin L
  BY <1>1
<1>11. \A x, y \in N \ {0} : x + s.size[x] # y
  BY DEF Parted
<1>12. CASE at = p
  <2> DEFINE M == N \ {p}
  <2>1. t.ptr[prev] = s.ptr[p] \/ prev = p
    BY <1>5, <1>6, <1>9, <1>12 DEF Put
  <2>2. \A x \in N \ {prev, p} : t.ptr[x] = s.ptr[x]
    BY <1>4, <1>5, <1>6, <1>9, <1>12 DEF Put
  <2>3. prev # p
    <3>1. After(N, prev, p)
      BY <1>2, <1>4 DEF Cyc
    <3> QED BY <1>4, <1>6, <3>1 DEF After
  <2>4. Cyc(M, t.ptr)
    BY <1>2, <1>4, <1>6, <2>1, <2>2, <2>3, CycRemove
  <2>5. Ringed(t, M)
    BY <1>4, <1>6, <1>9, <2>3, <2>4, RingedIs
  <2>6. (M \ {0}) \cup (L \cup {p}) = H
    BY <1>6
  <2>7. Good(t, M, L \cup {p})
    <3>1. Clean(M, L \cup {p}, t.size)
      BY <1>1, <1>9, <1>12 DEF Clean
    <3> QED BY <1>1, <1>6, <1>9, <1>12, <2>5, <2>6, <3>1 DEF Good
  <2>8. Parted(t, M)
    BY <1>9, <1>11, <1>12 DEF Parted
  <2>9. t.size[p] = nu
    BY <1>6, <1>9, <1>12
  <2>10. /\ Cut(s, nu).at = p /\ Cut(s, nu).heap = t /\ p \in Cell \ {0} /\ M \in SUBSET N
         /\ t.bss = s.bss /\ \A x \in L : t.size[x] = s.size[x]
    BY <1>2, <1>3, <1>6, <1>9, <1>12
  <2> HIDE DEF M
  <2> QED BY <1>10, <2>7, <2>8, <2>9, <2>10 DEF HasCut
<1>13. CASE at # p
  <2>1. nu < s.size[p]
    BY <1>2, <1>6, <1>8, <1>13
  <2>2. /\ t.size[p] = s.size[p] - nu /\ t.size[at] = nu
        /\ \A x \in Cell \ {p, at} : t.size[x] = s.size[x]
    BY <1>5, <1>6, <1>8, <1>9, <1>13 DEF Put
  <2>3. \A x \in H \ {p, at} : t.size[x] = s.size[x]
    BY <1>4, <2>2
  <2>4. at \notin H /\ at > p /\ Tiles(H \cup {at}, t.size, s.bss)
    <3>1. PICK a, sz, ns, top, G : a = at /\ sz = s.size /\ ns = t.size /\ top = s.bss /\ G = H
      OBVIOUS
    <3>2. a = p + sz[p] - nu /\ Tiles(G, sz, top) /\ G \in SUBSET Nat
      BY <1>1, <1>4, <3>1
    <3>3. p \in G /\ top \in Nat /\ nu < sz[p] /\ ns[p] = sz[p] - nu /\ ns[a] = nu
      BY <1>5, <1>6, <2>1, <2>2, <3>1
    <3>4. \A x \in G \ {p, a} : ns[x] = sz[x]
      BY <2>3, <3>1
    <3> HIDE DEF H, at
    <3>5. a \notin G /\ a \in Nat /\ a > p /\ a + nu <= top /\ Tiles(G \cup {a}, ns, top)
      BY <3>2, <3>3, <3>4, TilesSplit
    <3> QED BY <3>1, <3>5
  <2>5. at \notin L /\ at \notin N
    BY <1>8, <2>4
  <2>6. (N \ {0}) \cup (L \cup {at}) = H \cup {at}
    OBVIOUS
  <2>7. Ringed(t, N)
    BY <1>1, <1>2, <1>9, <1>13, RingedIs
  <2>8. t.size[0] = 0
    BY <1>1, <1>6, <1>8, <2>2, CellIs
  <2>9. Good(t, N, L \cup {at})
    <3>1. \A c \in Cell \ (N \cup (L \cup {at})) : c \notin {p, at} /\ s.size[c] = 0
      BY <1>1 DEF Clean
    <3>2. Clean(N, L \cup {at}, t.size)
      BY <2>2, <3>1 DEF Clean
    <3> QED BY <1>1, <1>8, <1>9, <2>4, <2>5, <2>6, <2>7, <2>8, <3>2 DEF Good
  <2>10. Parted(t, N)
    <3> SUFFICES ASSUME NEW x \in N \ {0}, NEW y \in N \ {0}, x + t.size[x] = y PROVE FALSE
      BY DEF Parted
    <3>1. CASE x = p
      <4>1. x + t.size[x] = at
        BY <1>6, <2>2, <3>1
      <4> QED BY <2>5, <4>1
    <3>2. CASE x # p
      BY <1>4, <1>11, <2>2, <2>5, <3>2
    <3> QED BY <3>1, <3>2
  <2>11. \A x \in L : t.size[x] = s.size[x]
    BY <1>1, <1>10, <2>2, <2>5
  <2> QED BY <1>2, <1>3, <1>8, <1>9, <2>2, <2>5, <2>9, <2>10, <2>11 DEF HasCut
<1> QED BY <1>12, <1>13

(* A heap as the record of its fields, and the updates of one.             *)
Of(P, S, f, b) == [ptr |-> P, size |-> S, freep |-> f, bss |-> b]
SetPtr(s, i, v) == [s EXCEPT !.ptr[i] = v]
SetSize(s, i, v) == [s EXCEPT !.size[i] = v]
Gone(s, i) == [s EXCEPT !.ptr[i] = 0, !.size[i] = 0]
Longer(s, i, j, v, w) == [s EXCEPT !.size[i] = @ + v, !.ptr[i] = w, !.size[j] = 0]
Chained(s, i, j, v, w) == [s EXCEPT !.size[j] = v, !.ptr[j] = w, !.ptr[i] = j]
From(s, i) == [s EXCEPT !.freep = i]

(* An update of one field, written as a record.                            *)
LEMMA OneSet ==
  ASSUME NEW P, NEW S, NEW f, NEW b, NEW i, NEW v
  PROVE  /\ Of(P, S, f, b).ptr = P /\ Of(P, S, f, b).size = S
         /\ SetPtr(Of(P, S, f, b), i, v) = Of(Put(P, i, v), S, f, b)
         /\ SetSize(Of(P, S, f, b), i, v) = Of(P, Put(S, i, v), f, b)
<1> PICK s : s = [ptr |-> P, size |-> S, freep |-> f, bss |-> b]
  OBVIOUS
<1>1. s.ptr = P /\ s.size = S
  OBVIOUS
<1>2. [s EXCEPT !.ptr[i] = v] = [ptr |-> [P EXCEPT ![i] = v], size |-> S, freep |-> f, bss |-> b]
  OBVIOUS
<1>3. [s EXCEPT !.size[i] = v] = [ptr |-> P, size |-> [S EXCEPT ![i] = v], freep |-> f, bss |-> b]
  OBVIOUS
<1> QED BY <1>1, <1>2, <1>3, Zenon DEF Of, Put, SetPtr, SetSize

(* The header of a joined block is forgotten.                              *)
LEMMA GoneIs ==
  ASSUME NEW P, NEW S, NEW f, NEW b, NEW s, s = Of(P, S, f, b), NEW i
  PROVE  Gone(s, i) = Of(Put(P, i, 0), Put(S, i, 0), f, b)
<1>1. Gone(s, i) = SetSize(SetPtr(s, i, 0), i, 0)
  BY DEF Of, SetPtr, SetSize, Gone
<1> QED BY <1>1, OneSet

(* The next search starts at block i.                                      *)
LEMMA FromIs ==
  ASSUME NEW P, NEW S, NEW f, NEW b, NEW s, s = Of(P, S, f, b), NEW i
  PROVE  From(s, i) = Of(P, S, i, b)
BY DEF Of, From

(* The two ways free links a block in, written as records.                 *)
LEMMA Rewritten ==
  ASSUME NEW P, NEW S, NEW f, NEW b, NEW s, s = Of(P, S, f, b),
         NEW i, NEW j, NEW v, NEW w
  PROVE  /\ Longer(s, i, j, v, w) = Of(Put(P, i, w), Put(Put(S, i, S[i] + v), j, 0), f, b)
         /\ Chained(s, i, j, v, w) = Of(Put(Put(P, j, w), i, j), Put(S, j, v), f, b)
<1>1. Longer(s, i, j, v, w) = SetSize(SetPtr(SetSize(s, i, s.size[i] + v), i, w), j, 0)
  BY DEF Of, SetPtr, SetSize, Longer
<1>2. Chained(s, i, j, v, w) = SetPtr(SetPtr(SetSize(s, j, v), j, w), i, j)
  BY DEF Of, SetPtr, SetSize, Chained
<1>3. s.size = S
  BY DEF Of
<1> QED BY <1>1, <1>2, <1>3, OneSet

(* What free makes of the links and sizes when it puts bp behind p.        *)
Joins(ptr, size, p, bp, np, ns) ==
  LET a    == ptr[p]
      up   == bp + size[bp] = a
      sum  == IF up THEN size[bp] + size[a] ELSE size[bp]
      next == IF up THEN ptr[a] ELSE a
  IN /\ \A x \in Cell \ {p, bp} : x # a \/ ~up => np[x] = ptr[x] /\ ns[x] = size[x]
     /\ p + size[p] = bp => ns[p] = size[p] + sum /\ np[p] = next
     /\ p + size[p] # bp => /\ ns[bp] = sum /\ np[bp] = next
                            /\ np[p] = bp /\ ns[p] = size[p]
     /\ up => ns[a] = 0
     /\ p + size[p] = bp => ns[bp] = 0

(* The links and sizes after free, in the four cases of a neighbour that   *)
(* touches or not.                                                         *)
LEMMA JoinedIs ==
  ASSUME NEW s \in Heaps, NEW p \in Cell, NEW bp \in Cell, p # bp,
         bp + s.size[bp] = s.ptr[p] => s.ptr[p] \notin {p, bp}
  PROVE  LET t == From(JoinedTo(s, p, bp), p)
         IN /\ t \in Heaps /\ t.freep = p /\ t.bss = s.bss
            /\ Joins(s.ptr, s.size, p, bp, t.ptr, t.size)
<1> DEFINE ptr  == s.ptr
           size == s.size
           a    == ptr[p]
           t    == From(JoinedTo(s, p, bp), p)
<1>1. /\ ptr \in [Cell -> Cell] /\ size \in [Cell -> Nat] /\ s.bss \in 1 .. Units + 1
      /\ s = Of(ptr, size, s.freep, s.bss)
  BY HeapFields DEF Of
<1>2. a \in Cell /\ 0 \in Cell /\ ptr[a] \in Cell /\ size[bp] \in Nat /\ size[a] \in Nat
      /\ size[p] \in Nat
  BY <1>1, CellIs
<1>3. ASSUME NEW P \in [Cell -> Cell], NEW S \in [Cell -> Nat], Joins(ptr, size, p, bp, P, S),
             JoinedTo(s, p, bp) = Of(P, S, s.freep, s.bss)
      PROVE  /\ t \in Heaps /\ t.freep = p /\ t.bss = s.bss
             /\ Joins(ptr, size, p, bp, t.ptr, t.size)
  <2> HIDE DEF ptr, size
  <2>1. t = Of(P, S, p, s.bss)
    <3>1. PICK r, f, b : r = JoinedTo(s, p, bp) /\ f = s.freep /\ b = s.bss
      OBVIOUS
    <3>2. r = Of(P, S, f, b)
      BY <1>3, <3>1
    <3>3. From(r, p) = Of(P, S, p, b)
      BY <3>2, FromIs
    <3> QED BY <3>1, <3>3
  <2>2. t.ptr = P /\ t.size = S /\ t.freep = p /\ t.bss = s.bss
    BY <2>1 DEF Of
  <2>3. t \in Heaps
    BY <1>1, <1>3, <2>1 DEF Heaps, Of
  <2> QED BY <1>3, <2>2, <2>3
<1>4. CASE bp + size[bp] = a
  <2> DEFINE u  == Gone(s, a)
             Ps == Put(ptr, a, 0)
             Ss == Put(size, a, 0)
             n  == size[bp] + size[a]
  <2>1. u = Of(Ps, Ss, s.freep, s.bss)
    <3> HIDE DEF ptr, size, a
    <3> QED BY <1>1, GoneIs
  <2>2. a \notin {p, bp} /\ n \in Nat
    BY <1>2, <1>4
  <2>3. Ps \in [Cell -> Cell] /\ Ss \in [Cell -> Nat] /\ Ss[p] = size[p]
    BY <1>1, <1>2, <2>2 DEF Put
  <2>4. CASE p + size[p] = bp
    <3> DEFINE P3 == Put(Ps, p, ptr[a])
               S3 == Put(Put(Ss, p, Ss[p] + n), bp, 0)
    <3>1. JoinedTo(s, p, bp) = Longer(u, p, bp, n, ptr[a])
      BY <1>4, <2>4 DEF JoinedTo, Gone, Longer, Chained
    <3>2. JoinedTo(s, p, bp) = Of(P3, S3, s.freep, s.bss)
      <4> HIDE DEF n, u, Ps, Ss, ptr
      <4> QED BY <2>1, <3>1, Rewritten
    <3>3. P3 \in [Cell -> Cell] /\ S3 \in [Cell -> Nat]
      BY <1>2, <2>2, <2>3 DEF Put
    <3>4. Joins(ptr, size, p, bp, P3, S3)
      BY <1>1, <1>2, <1>4, <2>2, <2>4 DEF Joins, Put
    <3> HIDE DEF P3, S3
    <3> QED BY <1>3, <3>2, <3>3, <3>4
  <2>5. CASE p + size[p] # bp
    <3> DEFINE P3 == Put(Put(Ps, bp, ptr[a]), p, bp)
               S3 == Put(Ss, bp, n)
    <3>1. JoinedTo(s, p, bp) = Chained(u, p, bp, n, ptr[a])
      BY <1>4, <2>5 DEF JoinedTo, Gone, Longer, Chained
    <3>2. JoinedTo(s, p, bp) = Of(P3, S3, s.freep, s.bss)
      <4> HIDE DEF n, u, Ps, Ss, ptr
      <4> QED BY <2>1, <3>1, Rewritten
    <3>3. P3 \in [Cell -> Cell] /\ S3 \in [Cell -> Nat]
      BY <1>2, <2>2, <2>3 DEF Put
    <3>4. Joins(ptr, size, p, bp, P3, S3)
      BY <1>1, <1>2, <1>4, <2>2, <2>5 DEF Joins, Put
    <3> HIDE DEF P3, S3
    <3> QED BY <1>3, <3>2, <3>3, <3>4
  <2> QED BY <2>4, <2>5
<1>5. CASE bp + size[bp] # a
  <2> DEFINE n == size[bp]
  <2>1. n + 0 = n /\ n \in Nat
    BY <1>2
  <2>2. CASE p + size[p] = bp
    <3> DEFINE P3 == Put(ptr, p, a)
               S3 == Put(Put(size, p, size[p] + n), bp, 0)
    <3>1. JoinedTo(s, p, bp) = Longer(s, p, bp, n, a)
      BY <1>5, <2>1, <2>2 DEF JoinedTo, Gone, Longer, Chained
    <3>2. JoinedTo(s, p, bp) = Of(P3, S3, s.freep, s.bss)
      <4> HIDE DEF n, a, ptr, size
      <4> QED BY <1>1, <3>1, Rewritten
    <3>3. P3 \in [Cell -> Cell] /\ S3 \in [Cell -> Nat]
      BY <1>1, <1>2 DEF Put
    <3>4. Joins(ptr, size, p, bp, P3, S3)
      BY <1>1, <1>2, <1>5, <2>2 DEF Joins, Put
    <3> HIDE DEF P3, S3
    <3> QED BY <1>3, <3>2, <3>3, <3>4
  <2>3. CASE p + size[p] # bp
    <3> DEFINE P3 == Put(Put(ptr, bp, a), p, bp)
               S3 == Put(size, bp, n)
    <3>1. JoinedTo(s, p, bp) = Chained(s, p, bp, n, a)
      BY <1>5, <2>1, <2>3 DEF JoinedTo, Gone, Longer, Chained
    <3>2. JoinedTo(s, p, bp) = Of(P3, S3, s.freep, s.bss)
      <4> HIDE DEF n, a, ptr, size
      <4> QED BY <1>1, <3>1, Rewritten
    <3>3. P3 \in [Cell -> Cell] /\ S3 \in [Cell -> Nat]
      BY <1>1, <1>2 DEF Put
    <3>4. Joins(ptr, size, p, bp, P3, S3)
      BY <1>1, <1>2, <1>5, <2>3 DEF Joins, Put
    <3> HIDE DEF P3, S3
    <3> QED BY <1>3, <3>2, <3>3, <3>4
  <2> QED BY <2>2, <2>3
<1> QED BY <1>4, <1>5

(* Being a cycle is a matter of the links of its blocks only.              *)
LEMMA CycSame ==
  ASSUME NEW N, NEW ptr, NEW new, Cyc(N, ptr), \A x \in N : new[x] = ptr[x]
  PROVE  Cyc(N, new)
BY DEF Cyc

(* Being a tiling is a matter of the sizes of its blocks only.             *)
LEMMA TilesSame ==
  ASSUME NEW H, NEW size, NEW top, NEW new, Tiles(H, size, top), \A x \in H : new[x] = size[x]
  PROVE  Tiles(H, new, top)
BY DEF Tiles

(* A ring N of free blocks, next to the blocks in use L, as two functions. *)
Links(N, L, ptr, size, top) ==
  /\ N \subseteq Nat /\ 0 \in N /\ L \subseteq Nat /\ 0 \notin L /\ L \cap N = {}
  /\ Cyc(N, ptr) /\ Tiles((N \ {0}) \cup L, size, top)

(* The only free block that bp can touch from below is the next one, the   *)
(* only one from above is the one before.                                  *)
LEMMA AboveIs ==
  ASSUME NEW N, NEW L, NEW ptr, NEW size, NEW top \in Nat, Links(N, L, ptr, size, top),
         NEW bp \in L, NEW p \in N, p < bp, \A x \in N : x <= p \/ x > bp
  PROVE  /\ bp \in Nat \ {0} /\ size[bp] \in Nat \ {0} /\ p \in Nat
         /\ ptr[p] \in N /\ ptr[p] \in Nat
         /\ bp + size[bp] = ptr[p] => ptr[p] \notin {0, p, bp} /\ ptr[p] > bp
         /\ \A y \in N : bp + size[bp] = y => y = ptr[p]
         /\ \A x \in N \ {0} : x + size[x] = bp => x = p
<1> DEFINE a == ptr[p]
           n == size[bp]
<1>1. /\ N \subseteq Nat /\ 0 \in N /\ L \subseteq Nat /\ 0 \notin L /\ L \cap N = {}
      /\ Cyc(N, ptr) /\ Tiles((N \ {0}) \cup L, size, top)
  BY DEF Links
<1>2. bp \in Nat \ {0} /\ p \in Nat /\ a \in N /\ a \in Nat /\ After(N, p, a) /\ bp \notin N
  BY <1>1 DEF Cyc, After
<1>3. n \in Nat \ {0}
  BY <1>1 DEF Tiles
<1>4. \A x \in (N \ {0}) \cup L : bp < x => bp + n <= x
  BY <1>1 DEF Tiles
<1>5. \A x \in N \ {0} : x < p /\ p # 0 => x + size[x] <= p
  BY <1>1 DEF Tiles
<1>6. \A x \in N \ {0} : size[x] \in Nat \ {0} /\ x \in Nat
  BY <1>1 DEF Tiles
<1> HIDE DEF a, n
<1>7. bp + n = a => a \notin {0, p, bp} /\ a > bp
  BY <1>2, <1>3
<1>8. ASSUME NEW y \in N, bp + n = y PROVE y = a
  <2>1. y \in Nat /\ y > bp /\ y # 0
    BY <1>1, <1>2, <1>3, <1>8
  <2>2. p < a /\ ~(p < y /\ y < a)
    BY <1>1, <1>2, <1>8, <2>1 DEF After
  <2>3. a <= y /\ a # 0
    BY <1>2, <2>1, <2>2
  <2>4. a > bp
    BY <1>2, <2>2
  <2>5. bp + n <= a
    BY <1>2, <1>4, <2>3, <2>4
  <2> QED BY <1>2, <1>3, <1>8, <2>1, <2>3, <2>5
<1>9. ASSUME NEW x \in N \ {0}, x + size[x] = bp PROVE x = p
  <2>1. x \in Nat /\ size[x] \in Nat \ {0} /\ x <= p
    BY <1>2, <1>6, <1>9
  <2>2. ~(x < p)
    BY <1>2, <1>5, <1>9, <2>1
  <2> QED BY <1>2, <2>1, <2>2
<1> QED BY <1>2, <1>3, <1>7, <1>8, <1>9 DEF a, n

(* bp, free and not joined to anything yet.                                *)
LEMMA Inserted ==
  ASSUME NEW N, NEW L, NEW ptr, NEW size, NEW top \in Nat, Links(N, L, ptr, size, top),
         NEW bp \in L, NEW p \in N, p < bp, \A x \in N : x <= p \/ x > bp,
         NEW new, new[bp] = ptr[p], new[p] = bp, \A x \in N \ {p} : new[x] = ptr[x]
  PROVE  Links(N \cup {bp}, L \ {bp}, new, size, top)
<1>1. /\ N \in SUBSET Nat /\ 0 \in N /\ L \subseteq Nat /\ 0 \notin L /\ L \cap N = {}
      /\ Cyc(N, ptr) /\ Tiles((N \ {0}) \cup L, size, top)
  BY DEF Links
<1>2. bp \in Nat /\ bp \notin N /\ bp # 0
  BY <1>1
<1>3. Cyc(N \cup {bp}, new)
  BY <1>1, <1>2, CycInsert
<1>4. ((N \cup {bp}) \ {0}) \cup (L \ {bp}) = (N \ {0}) \cup L
  BY <1>2
<1> QED BY <1>1, <1>2, <1>3, <1>4 DEF Links

(* A free block joined to the next one that it touches.                    *)
LEMMA JoinLinks ==
  ASSUME NEW N, NEW L, NEW ptr, NEW size, NEW top \in Nat, Links(N, L, ptr, size, top),
         NEW b \in N \ {0}, NEW a, a = ptr[b], b + size[b] = a,
         NEW np, np[b] = ptr[a], \A x \in N \ {b, a} : np[x] = ptr[x],
         NEW ns, ns[b] = size[b] + size[a], \A x \in (N \cup L) \ {b, a} : ns[x] = size[x]
  PROVE  Links(N \ {a}, L, np, ns, top)
<1>0. /\ N \in SUBSET Nat /\ 0 \in N /\ L \in SUBSET Nat /\ 0 \notin L /\ L \cap N = {}
      /\ Cyc(N, ptr) /\ Tiles((N \ {0}) \cup L, size, top)
  BY DEF Links
<1> DEFINE H == (N \ {0}) \cup L
<1>1. size[b] \in Nat \ {0} /\ b \in Nat
  BY <1>0 DEF Tiles
<1>2. a \in N /\ a \in Nat /\ a # 0 /\ a # b /\ b < a
  <2>1. a \in N
    BY <1>0 DEF Cyc, After
  <2> QED BY <1>1, <2>1
<1>3. Cyc(N \ {a}, np)
  <2>1. a # 0 /\ b \in N /\ a \in N
    BY <1>2
  <2> QED BY <1>0, <2>1, CycRemove
<1>4. Tiles(H \ {a}, ns, top)
  <2>1. H \in SUBSET Nat /\ Tiles(H, size, top) /\ b \in H /\ a \in H
    BY <1>0, <1>2
  <2>2. \A x \in H \ {b, a} : ns[x] = size[x]
    OBVIOUS
  <2> HIDE DEF H
  <2> QED BY <2>1, <2>2, TilesJoin
<1>5. H \ {a} = ((N \ {a}) \ {0}) \cup L
  BY <1>0, <1>2
<1>6. N \ {a} \subseteq Nat /\ 0 \in N \ {a} /\ L \cap (N \ {a}) = {}
  BY <1>0, <1>2
<1> HIDE DEF H
<1> QED BY <1>0, <1>3, <1>4, <1>5, <1>6 DEF Links

(* Both together, and what the other units hold does not matter.           *)
LEMMA LinksSame ==
  ASSUME NEW N, NEW L, NEW ptr, NEW size, NEW top, Links(N, L, ptr, size, top),
         NEW np, \A x \in N : np[x] = ptr[x],
         NEW ns, \A x \in N \cup L : ns[x] = size[x]
  PROVE  Links(N, L, np, ns, top)
<1>1. Cyc(N, np) /\ Tiles((N \ {0}) \cup L, ns, top)
  BY CycSame, TilesSame DEF Links
<1> QED BY <1>1 DEF Links

(* No free block ends where another one starts.                            *)
Apart(N, size) == \A x, y \in N \ {0} : x + size[x] # y

(* A ring and a rest of blocks in use that these links and sizes are those *)
(* of.                                                                     *)
Leaves(N, L, size, top, bp, p, np, ns) ==
  \E M \in SUBSET (N \cup {bp}) :
    /\ p \in M /\ Links(M, L \ {bp}, np, ns, top) /\ Apart(M, ns) /\ ns[0] = 0
    /\ Clean(M, L \ {bp}, ns)
    /\ \E q \in M \ {0} : ns[q] >= size[bp]
    /\ \A x \in L \ {bp} : ns[x] = size[x]

(* free puts bp on the ring, joins it to the block above, then to the one  *)
(* below: each step leaves a ring and a tiling, and the last one leaves no *)
(* free blocks that touch.                                                 *)
LEMMA FreeLinks ==
  ASSUME NEW N \in SUBSET Cell, NEW L \in SUBSET Cell, NEW ptr, NEW size, NEW top \in Nat,
         Links(N, L, ptr, size, top), Apart(N, size), size[0] = 0,
         Clean(N, L, size),
         NEW bp \in L, NEW p \in N, p < bp, \A x \in N : x <= p \/ x > bp,
         NEW np, NEW ns, Joins(ptr, size, p, bp, np, ns)
  PROVE  Leaves(N, L, size, top, bp, p, np, ns)
<1> DEFINE a    == ptr[p]
           n    == size[bp]
           m    == size[a]
           up   == bp + n = a
           down == p + size[p] = bp
           sum  == IF up THEN n + m ELSE n
           next == IF up THEN ptr[a] ELSE a
           U    == IF up THEN (N \cup {bp}) \ {a} ELSE N \cup {bp}
           K    == L \ {bp}
           P1   == [x \in Nat |-> IF x = bp THEN a ELSE IF x = p THEN bp ELSE ptr[x]]
           P2   == [x \in Nat |-> IF x = bp THEN next ELSE IF x = p THEN bp ELSE ptr[x]]
           S2   == [x \in Nat |-> IF x = bp THEN sum ELSE size[x]]
<1>1. /\ N \subseteq Nat /\ 0 \in N /\ L \subseteq Nat /\ 0 \notin L /\ L \cap N = {}
      /\ \A x \in (N \ {0}) \cup L : size[x] \in Nat \ {0}
  BY DEF Links, Tiles
<1>2. /\ bp \in Nat \ {0} /\ n \in Nat \ {0} /\ p \in Nat /\ a \in N /\ a \in Nat /\ bp \notin N
      /\ up => a \notin {0, p, bp} /\ a > bp /\ m \in Nat \ {0}
      /\ \A y \in N : bp + n = y => y = a
      /\ \A x \in N \ {0} : x + size[x] = bp => x = p
  <2>1. /\ bp \in Nat \ {0} /\ n \in Nat \ {0} /\ p \in Nat /\ a \in N /\ a \in Nat
        /\ up => a \notin {0, p, bp} /\ a > bp
        /\ \A y \in N : bp + n = y => y = a
        /\ \A x \in N \ {0} : x + size[x] = bp => x = p
    BY AboveIs
  <2> HIDE DEF a
  <2> QED BY <1>1, <2>1
<1>3. /\ \A x \in Cell \ {p, bp} : x # a \/ ~up => np[x] = ptr[x] /\ ns[x] = size[x]
      /\ down => ns[p] = size[p] + sum /\ np[p] = next
      /\ ~down => ns[bp] = sum /\ np[bp] = next /\ np[p] = bp /\ ns[p] = size[p]
      /\ up => ns[a] = 0
      /\ down => ns[bp] = 0
  BY DEF Joins
<1>4. Links(N \cup {bp}, K, P1, size, top)
  <2>1. P1[bp] = a /\ P1[p] = bp /\ \A x \in N \ {p} : P1[x] = ptr[x]
    BY <1>1, <1>2
  <2> HIDE DEF P1
  <2> QED BY <2>1, Inserted
<1>5. Links(U, K, P2, S2, top)
  <2>1. P2[bp] = next /\ \A x \in N : P2[x] = P1[x]
    BY <1>1, <1>2
  <2>2. S2[bp] = sum /\ \A x \in N \cup K : S2[x] = size[x]
    BY <1>1, <1>2
  <2>3. CASE up
    <3>1. bp \in (N \cup {bp}) \ {0} /\ a = P1[bp] /\ bp + size[bp] = a /\ P1[a] = ptr[a]
      BY <1>2, <2>3
    <3>2. P2[bp] = P1[a] /\ S2[bp] = size[bp] + size[a]
      BY <2>1, <2>2, <2>3, <3>1
    <3>3. U = (N \cup {bp}) \ {a}
      BY <2>3
    <3>4. \A x \in (N \cup {bp}) \ {bp, a} : P2[x] = P1[x]
      BY <2>1
    <3>5. \A x \in ((N \cup {bp}) \cup K) \ {bp, a} : S2[x] = size[x]
      BY <2>2
    <3> HIDE DEF P1, P2, S2, K, U, a
    <3> QED BY <1>4, <3>1, <3>2, <3>3, <3>4, <3>5, JoinLinks
  <2>4. CASE ~up
    <3>1. U = N \cup {bp} /\ \A x \in N \cup {bp} : P2[x] = P1[x]
      BY <1>2, <2>1, <2>4
    <3>2. \A x \in (N \cup {bp}) \cup K : S2[x] = size[x]
      BY <2>2, <2>4
    <3> HIDE DEF P1, P2, S2, K, U, a
    <3> QED BY <1>4, <3>1, <3>2, LinksSame
  <2> QED BY <2>3, <2>4
<1>6. \A x \in U \ {p, bp} : /\ x \in N /\ x \in Cell /\ x \in Nat /\ (x # a \/ ~up)
                             /\ np[x] = ptr[x] /\ ns[x] = size[x] /\ P2[x] = ptr[x] /\ S2[x] = size[x]
  <2>1. \A x \in U \ {p, bp} : x \in N /\ (x # a \/ ~up)
    OBVIOUS
  <2>2. \A x \in N \ {p, bp} : P2[x] = ptr[x] /\ S2[x] = size[x]
    BY <1>1
  <2> HIDE DEF U, P2, S2, a
  <2> QED BY <1>1, <1>3, <2>1, <2>2
<1>7. \A x \in K : x \notin {p, bp, 0} /\ ns[x] = size[x] /\ S2[x] = size[x] /\ x \in L
  <2>1. \A x \in K : x \in Cell \ {p, bp} /\ x # a /\ x \in Nat /\ x \in L /\ x # 0
    BY <1>1, <1>2
  <2>2. \A x \in K : S2[x] = size[x]
    BY <2>1
  <2> HIDE DEF K, S2, a
  <2> QED BY <1>3, <2>1, <2>2
<1>8. /\ bp \in U /\ p \in U /\ 0 \in U /\ U \subseteq N \cup {bp} /\ p # bp
      /\ P2[bp] = next /\ P2[p] = bp /\ S2[bp] = sum /\ S2[p] = size[p]
      /\ sum \in Nat \ {0} /\ sum >= n /\ S2[0] = 0
  <2>1. bp \in U /\ p \in U /\ 0 \in U /\ U \subseteq N \cup {bp} /\ p # bp
    BY <1>1, <1>2
  <2>2. P2[bp] = next /\ P2[p] = bp /\ S2[bp] = sum /\ S2[p] = size[p] /\ S2[0] = 0
    BY <1>2, <2>1
  <2>3. sum \in Nat \ {0} /\ sum >= n
    BY <1>2
  <2> QED BY <2>1, <2>2, <2>3
<1>9. ASSUME NEW y \in N \ {0}, bp + sum = y PROVE FALSE
  <2>1. CASE up
    <3>1. a + m = y /\ a \in N \ {0}
      BY <1>1, <1>2, <1>9, <2>1
    <3> QED BY <3>1 DEF Apart
  <2>2. CASE ~up
    BY <1>2, <1>9, <2>2
  <2> QED BY <2>1, <2>2
<1>13. ASSUME NEW c \in Cell \ (U \cup K), c # bp PROVE ns[c] = 0
  <2>1. c # p /\ c \notin L
    BY <1>8, <1>13
  <2>2. CASE up /\ c = a
    BY <1>3, <2>2
  <2>3. CASE ~(up /\ c = a)
    <3>1. c \notin N \cup L /\ c \in Cell \ {p, bp} /\ (c # a \/ ~up)
      BY <1>13, <2>1, <2>3
    <3>2. size[c] = 0 /\ ns[c] = size[c]
      BY <1>3, <3>1 DEF Clean
    <3> QED BY <3>2
  <2> QED BY <2>2, <2>3
<1> DEFINE Result(M) == /\ p \in M /\ Links(M, K, np, ns, top) /\ Apart(M, ns) /\ ns[0] = 0
                        /\ Clean(M, K, ns)
                        /\ \E q \in M \ {0} : ns[q] >= n
<1>10. SUFFICES \E M \in SUBSET (N \cup {bp}) : Result(M)
  BY <1>7 DEF Leaves
<1> HIDE DEF P1, P2, S2, K, U, sum, next, m, n
<1>11. CASE ~down
  <2>1. /\ \A x \in U : np[x] = P2[x] /\ ns[x] = S2[x]
        /\ \A x \in K : ns[x] = S2[x]
    BY <1>3, <1>6, <1>7, <1>8, <1>11
  <2>2. Links(U, K, np, ns, top)
    BY <1>5, <2>1, LinksSame
  <2>3. ns[0] = 0
    BY <1>8, <2>1
  <2>4. ASSUME NEW x \in U \ {0}, NEW y \in U \ {0}, x + ns[x] = y PROVE FALSE
    <3>1. CASE x = bp
      <4>1. bp + sum = y
        BY <1>3, <1>11, <2>4, <3>1
      <4>2. y \in N \ {0}
        BY <1>2, <1>8, <4>1
      <4> QED BY <1>9, <4>1, <4>2
    <3>2. CASE x # bp
      <4>1. x \in N \ {0} /\ x + size[x] = y
        BY <1>6, <1>8, <1>3, <1>11, <2>4, <3>2
      <4>2. CASE y = bp
        <5>1. x = p
          BY <1>2, <4>1, <4>2
        <5> QED BY <1>11, <4>1, <4>2, <5>1
      <4>3. CASE y # bp
        <5>1. y \in N \ {0}
          BY <1>8, <4>3
        <5> QED BY <4>1, <5>1 DEF Apart
      <4> QED BY <4>2, <4>3
    <3> QED BY <3>1, <3>2
  <2>5. ns[bp] >= n /\ bp \in U \ {0}
    BY <1>2, <1>3, <1>8, <1>11
  <2>6. Apart(U, ns)
    BY <2>4 DEF Apart
  <2>7. Clean(U, K, ns)
    <3>1. \A c \in Cell \ (U \cup K) : ns[c] = 0
      BY <1>8, <1>13
    <3> QED BY <3>1 DEF Clean
  <2>8. Result(U)
    BY <1>8, <2>2, <2>3, <2>5, <2>6, <2>7
  <2> HIDE DEF Result
  <2> QED BY <1>8, <2>8
<1>12. CASE down
  <2> DEFINE M == U \ {bp}
  <2>1. p # 0 /\ p \in U \ {0} /\ p \in N \ {0} /\ size[p] \in Nat \ {0}
    <3>1. p # 0
      BY <1>2, <1>12
    <3> QED BY <1>1, <1>8, <3>1
  <2>2. Links(M, K, np, ns, top)
    <3>1. bp = P2[p] /\ p + S2[p] = bp
      BY <1>8, <1>12
    <3>2. np[p] = P2[bp] /\ ns[p] = S2[p] + S2[bp]
      BY <1>3, <1>8, <1>12
    <3>3. \A x \in U \ {p, bp} : np[x] = P2[x]
      BY <1>6
    <3>4. \A x \in (U \cup K) \ {p, bp} : ns[x] = S2[x]
      BY <1>6, <1>7
    <3> QED BY <1>5, <2>1, <3>1, <3>2, <3>3, <3>4, JoinLinks
  <2>3. ns[0] = 0
    <3>1. 0 \in U \ {p, bp}
      BY <1>2, <1>8, <2>1
    <3> QED BY <1>6, <3>1
  <2>4. ASSUME NEW x \in M \ {0}, NEW y \in M \ {0}, x + ns[x] = y PROVE FALSE
    <3>0. y \in N \ {0}
      BY <1>8
    <3>1. CASE x = p
      <4>1. bp + sum = y
        BY <1>2, <1>3, <1>8, <1>12, <2>1, <2>4, <3>1
      <4> QED BY <1>9, <3>0, <4>1
    <3>2. CASE x # p
      <4>1. x \in N \ {0} /\ x + size[x] = y
        BY <1>6, <2>4, <3>2
      <4> QED BY <3>0, <4>1 DEF Apart
    <3> QED BY <3>1, <3>2
  <2>5. ns[p] >= n /\ p \in M \ {0}
    <3>1. ns[p] = size[p] + sum /\ n \in Nat
      BY <1>2, <1>3, <1>12
    <3> QED BY <1>2, <1>8, <2>1, <3>1
  <2>6. Apart(M, ns)
    BY <2>4 DEF Apart
  <2>7. Clean(M, K, ns)
    <3>1. \A c \in Cell \ (M \cup K) : ns[c] = 0
      BY <1>3, <1>8, <1>12, <1>13
    <3> QED BY <3>1 DEF Clean
  <2>8. Result(M) /\ M \in SUBSET (N \cup {bp})
    BY <1>8, <2>2, <2>3, <2>5, <2>6, <2>7
  <2> HIDE DEF Result, M
  <2> QED BY <2>8
<1> QED BY <1>11, <1>12

(* The well-formed heap, with its links and sizes apart.                   *)
LEMMA GoodIs ==
  ASSUME NEW s, NEW N, NEW L
  PROVE  Good(s, N, L) <=>
           /\ s \in Heaps /\ N \subseteq Cell /\ s.freep \in N /\ s.size[0] = 0
           /\ L \subseteq Cell /\ Links(N, L, s.ptr, s.size, s.bss) /\ Clean(N, L, s.size)
<1>1. Cell \subseteq Nat
  BY CellIs
<1>2. Good(s, N, L) =>
           /\ s \in Heaps /\ N \subseteq Cell /\ s.freep \in N /\ s.size[0] = 0
           /\ L \subseteq Cell /\ Links(N, L, s.ptr, s.size, s.bss) /\ Clean(N, L, s.size)
  BY <1>1 DEF Good, Links, Ringed, Cyc
<1>3. ASSUME /\ s \in Heaps /\ N \subseteq Cell /\ s.freep \in N /\ s.size[0] = 0
             /\ L \subseteq Cell /\ Links(N, L, s.ptr, s.size, s.bss) /\ Clean(N, L, s.size)
      PROVE  Good(s, N, L)
  <2>1. Ringed(s, N)
    BY <1>3 DEF Links, Ringed, Cyc
  <2> QED BY <1>3, <2>1 DEF Good, Links
<1> QED BY <1>2, <1>3

(* In heap t, bp of heap s is part of a free block.                        *)
HasFreed(s, t, N, L, bp) ==
  /\ t.bss = s.bss /\ \A x \in L \ {bp} : t.size[x] = s.size[x]
  /\ \E M \in SUBSET (N \cup {bp}) :
       /\ Good(t, M, L \ {bp}) /\ Parted(t, M)
       /\ \E q \in M \ {0} : t.size[q] >= s.size[bp]

(* free leaves a well-formed heap in which no free blocks touch.           *)
LEMMA FreedGood ==
  ASSUME NEW s, NEW N, NEW L, Good(s, N, L), Short(N), Parted(s, N), NEW bp \in L
  PROVE  HasFreed(s, Freed(s, bp), N, L, bp)
<1>1. /\ s \in Heaps /\ N \subseteq Cell /\ s.freep \in N /\ s.size[0] = 0
      /\ L \subseteq Cell /\ Links(N, L, s.ptr, s.size, s.bss) /\ Clean(N, L, s.size)
      /\ Ringed(s, N)
  BY GoodIs DEF Good
<1>2. bp \in Cell \ {0} /\ bp \notin N
  BY DEF Good
<1> PICK p : p = Behind(s, bp)
  OBVIOUS
<1>3. p \in N /\ p < bp /\ \A x \in N : x <= p \/ x > bp
  BY <1>1, <1>2, BehindIs DEF Short
<1>4. s.bss \in Nat
  BY <1>1, HeapFields, CellIs
<1>5. bp + s.size[bp] = s.ptr[p] => s.ptr[p] \notin {p, bp}
  <2> PICK ptr, size, top : ptr = s.ptr /\ size = s.size /\ top = s.bss
    OBVIOUS
  <2>1. Links(N, L, ptr, size, top) /\ top \in Nat
    BY <1>1, <1>4
  <2>2. bp + size[bp] = ptr[p] => ptr[p] \notin {0, p, bp} /\ ptr[p] > bp
    BY <1>3, <2>1, AboveIs
  <2> QED BY <2>2
<1> PICK t : t = Freed(s, bp)
  OBVIOUS
<1>6. t = From(JoinedTo(s, p, bp), p)
  BY DEF Freed, From
<1>7. p # bp /\ p \in Cell
  BY <1>1, <1>2, <1>3
<1>8. t \in Heaps /\ t.freep = p /\ t.bss = s.bss /\ Joins(s.ptr, s.size, p, bp, t.ptr, t.size)
  BY <1>1, <1>2, <1>5, <1>6, <1>7, JoinedIs
<1>9. PICK M \in SUBSET (N \cup {bp}) :
           /\ p \in M /\ Links(M, L \ {bp}, t.ptr, t.size, s.bss) /\ Apart(M, t.size) /\ t.size[0] = 0
           /\ Clean(M, L \ {bp}, t.size)
           /\ \E q \in M \ {0} : t.size[q] >= s.size[bp]
           /\ \A x \in L \ {bp} : t.size[x] = s.size[x]
  <2> PICK ptr, size, top, np, ns :
        ptr = s.ptr /\ size = s.size /\ top = s.bss /\ np = t.ptr /\ ns = t.size
    OBVIOUS
  <2>1. Links(N, L, ptr, size, top) /\ Clean(N, L, size) /\ size[0] = 0 /\ top \in Nat
        /\ Joins(ptr, size, p, bp, np, ns) /\ N \in SUBSET Cell /\ L \in SUBSET Cell
    BY <1>1, <1>4, <1>8
  <2>2. Apart(N, size)
    BY DEF Apart, Parted
  <2>3. Leaves(N, L, size, top, bp, p, np, ns)
    BY <1>3, <2>1, <2>2, FreeLinks
  <2> QED BY <2>3 DEF Leaves
<1>10. Parted(t, M)
  BY <1>9 DEF Apart, Parted
<1>11. M \subseteq Cell /\ L \ {bp} \subseteq Cell
  BY <1>1, <1>2, <1>9
<1>12. Good(t, M, L \ {bp})
  BY <1>8, <1>9, <1>11, GoodIs
<1> QED BY <1>8, <1>9, <1>10, <1>12 DEF HasFreed

(* The rounding of morecore never rounds down.                             *)
LEMMA MoreIs ==
  ASSUME NEW nu \in Nat \ {0}
  PROVE  MoreUnits(nu) \in Nat \ {0} /\ MoreUnits(nu) >= nu
<1> DEFINE q == nu \div 4
           r == nu % 4
           k == (q + 3) \div 4
<1>1. nu = 4 * q + r /\ q \in Nat /\ r \in 0 .. 3
  OBVIOUS
<1>2. k \in Nat /\ 4 * k >= q
  OBVIOUS
<1>3. MoreUnits(nu) = 16 * k + r
  BY DEF MoreUnits
<1> HIDE DEF q, r, k
<1> QED BY <1>1, <1>2, <1>3

(* The extra byte of __malloc_top gives no unit beyond the segment, unless *)
(* seven bytes are left over: Odd < 7.                                     *)
LEMMA RoomIs ==
  ASSUME NEW s \in Heaps, NEW nu \in Nat \ {0}, Room(s, nu), Odd < 7
  PROVE  s.bss \in Cell /\ s.bss \in Nat \ {0} /\ s.bss + MoreUnits(nu) \in 1 .. Units + 1
<1> DEFINE b == s.bss
           m == MoreUnits(nu)
<1>1. b \in 1 .. Units + 1
  BY HeapFields
<1>2. m \in Nat \ {0}
  BY MoreIs
<1>3. Units \in Nat /\ Odd \in Nat
  BY MallocAssumption
<1>4. 8 * (b - 1 + m) <= 8 * Units + Odd + 1
  BY DEF Room, TopByte, HeaderSize
<1> HIDE DEF b, m
<1>5. b - 1 + m \in Nat
  BY <1>1, <1>2, <1>3
<1>6. b - 1 + m <= Units
  BY <1>3, <1>4, <1>5
<1>7. b \in 0 .. Units /\ b \in Nat \ {0} /\ b + m \in 1 .. Units + 1
  BY <1>1, <1>2, <1>3, <1>6
<1> QED BY <1>7 DEF b, m, Cell

(* Where a block ends, another one starts, below the top.                  *)
LEMMA NextStarts ==
  ASSUME NEW H \in SUBSET Nat, NEW size, NEW top \in Nat, Tiles(H, size, top),
         NEW p \in H, p + size[p] < top
  PROVE  p + size[p] \in H
<1> DEFINE u == p + size[p]
<1>1. size[p] \in Nat \ {0} /\ p \in Nat /\ p >= 1 /\ u \in 1 .. top - 1
  BY DEF Tiles
<1>2. PICK x \in H : x <= u /\ u < x + size[x]
  BY <1>1 DEF Tiles
<1>3. x \in Nat /\ size[x] \in Nat \ {0} /\ (x < p => x + size[x] <= p) /\ (p < x => u <= x)
  BY DEF Tiles
<1>4. x # p
  BY <1>1, <1>2
<1> HIDE DEF u
<1>5. x = u
  BY <1>1, <1>2, <1>3, <1>4 DEF u
<1> QED BY <1>5 DEF u

(* Each free block but the topmost is followed by one in use: there are at *)
(* most two more blocks on the ring than in use, base among them.          *)
LEMMA FewFree ==
  ASSUME NEW s, NEW N, NEW L, Good(s, N, L), Parted(s, N)
  PROVE  /\ IsFiniteSet(L) /\ Cardinality(L) \in Nat /\ Cardinality(N) <= Cardinality(L) + 2
         /\ IsFiniteSet(N) /\ Cardinality(N) \in Nat
<1> PICK size, top : size = s.size /\ top = s.bss
  OBVIOUS
<1>1. /\ s \in Heaps /\ N \subseteq Cell /\ L \subseteq Cell /\ 0 \in N
      /\ Tiles((N \ {0}) \cup L, size, top) /\ top \in Nat /\ Cell \subseteq Nat
  BY CellIs, HeapFields DEF Good, Ringed
<1>2. IsFiniteSet(L) /\ Cardinality(L) \in Nat /\ IsFiniteSet(N) /\ Cardinality(N) \in Nat
  BY <1>1, CellIs, FS_Subset, FS_CardinalityType
<1> DEFINE H == (N \ {0}) \cup L
           F == N \ {0}
           f == [p \in F |-> p + size[p]]
           T == L \cup {top}
<1>3. H \in SUBSET Nat
  BY <1>1
<1>4. \A p \in F : p \in Nat /\ size[p] \in Nat \ {0} /\ p + size[p] <= top
  BY <1>1 DEF Tiles
<1>5. \A p, q \in F : p < q => p + size[p] <= q
  BY <1>1 DEF Tiles
<1>6. f \in [F -> T]
  <2> SUFFICES ASSUME NEW p \in F PROVE p + size[p] \in T
    OBVIOUS
  <2>1. CASE p + size[p] < top
    <3>1. p \in H
      OBVIOUS
    <3> HIDE DEF H
    <3>2. p + size[p] \in H
      BY <1>1, <1>3, <2>1, <3>1, NextStarts DEF H
    <3> QED BY <3>2 DEF H, Parted
  <2>2. CASE ~(p + size[p] < top)
    <3>1. p \in Nat /\ size[p] \in Nat /\ p + size[p] <= top /\ top \in Nat
      BY <1>1, <1>4
    <3>2. p + size[p] = top
      BY <2>2, <3>1
    <3> QED BY <3>2
  <2> QED BY <2>1, <2>2
<1>7. \A p, q \in F : f[p] = f[q] => p = q
  BY <1>4, <1>5
<1>8. IsFiniteSet(T) /\ Cardinality(T) <= Cardinality(L) + 1 /\ Cardinality(T) \in Nat
  <2>1. IsFiniteSet(T) /\ Cardinality(T) = IF top \in L THEN Cardinality(L) ELSE Cardinality(L) + 1
    BY <1>2, FS_AddElement
  <2> QED BY <1>2, <2>1
<1>9. Cardinality(F) <= Cardinality(T)
  <2>1. f \in Injection(F, T)
    BY <1>6, <1>7 DEF Injection, IsInjective
  <2> HIDE DEF f, F, T
  <2> QED BY <1>8, <2>1, FS_Injection
<1>10. Cardinality(F) = Cardinality(N) - 1
  BY <1>1, <1>2, FS_RemoveElement
<1> QED BY <1>2, <1>8, <1>9, <1>10

(* morecore puts a block of its own on the ring, which is big enough.      *)
LEMMA GrownGood ==
  ASSUME NEW s, NEW N, NEW L, Good(s, N, L), Short(N), Parted(s, N),
         NEW nu \in Nat \ {0}, Room(s, nu), Odd < 7
  PROVE  LET t == Grown(s, nu)
         IN /\ \A x \in L : t.size[x] = s.size[x]
            /\ \E M \in SUBSET Cell : /\ Good(t, M, L) /\ Parted(t, M)
                                      /\ \E q \in M \ {0} : t.size[q] >= nu
<1>a. PICK b, m, P, S, f : b = s.bss /\ m = MoreUnits(nu) /\ P = s.ptr /\ S = s.size /\ f = s.freep
  OBVIOUS
<1>1. /\ s \in Heaps /\ N \subseteq Cell /\ 0 \in N /\ f \in N /\ S[0] = 0
      /\ L \subseteq Cell \ {0} /\ L \cap N = {} /\ Ringed(s, N)
      /\ Tiles((N \ {0}) \cup L, S, b) /\ Clean(N, L, S) /\ Cell \subseteq Nat
  BY <1>a, CellIs DEF Good, Ringed
<1>2. P \in [Cell -> Cell] /\ S \in [Cell -> Nat] /\ f \in Cell
      /\ s = [ptr |-> P, size |-> S, freep |-> f, bss |-> b]
  BY <1>1, <1>a, HeapFields
<1>3. b \in Cell /\ b \in Nat \ {0} /\ b + m \in 1 .. Units + 1 /\ m \in Nat \ {0} /\ m >= nu
  BY <1>1, <1>a, RoomIs, MoreIs
<1>b. PICK r, R : r = [s EXCEPT !.bss = @ + m, !.size[b] = m] /\ R = [S EXCEPT ![b] = m]
  OBVIOUS
<1>4. r = [ptr |-> P, size |-> R, freep |-> f, bss |-> b + m]
  BY <1>2, <1>a, <1>b
<1>5. r.ptr = P /\ r.size = R /\ r.freep = f /\ r.bss = b + m
  BY <1>4
<1>6. R \in [Cell -> Nat] /\ R[b] = m /\ \A x \in Cell \ {b} : R[x] = S[x]
  BY <1>2, <1>3, <1>b
<1>7. r \in Heaps
  BY <1>2, <1>3, <1>4, <1>6 DEF Heaps
<1> DEFINE H == (N \ {0}) \cup L
<1>8. b \notin H /\ Tiles(H \cup {b}, R, b + m)
  <2>1. H \in SUBSET Nat /\ \A x \in H \ {b} : R[x] = S[x]
    BY <1>1, <1>6
  <2>2. Tiles(H, S, b)
    BY <1>1
  <2> HIDE DEF H
  <2> QED BY <1>3, <1>6, <2>1, <2>2, TilesGrow
<1>9. b \notin N /\ b \notin L
  BY <1>3, <1>8
<1>10. (N \ {0}) \cup (L \cup {b}) = H \cup {b}
  OBVIOUS
<1>11. Clean(N, L \cup {b}, R)
  BY <1>1, <1>6 DEF Clean
<1>12. R[0] = 0
  BY <1>1, <1>3, <1>6, CellIs
<1>13. Ringed(r, N)
  BY <1>1, <1>2, <1>5, <1>a, RingedIs
<1>14. Good(r, N, L \cup {b})
  BY <1>1, <1>3, <1>5, <1>7, <1>8, <1>9, <1>10, <1>11, <1>12, <1>13 DEF Good
<1>15. Parted(r, N)
  <2> SUFFICES ASSUME NEW x \in N \ {0}, NEW y \in N \ {0}, x + R[x] = y PROVE FALSE
    BY <1>5 DEF Parted
  <2>1. R[x] = S[x]
    BY <1>1, <1>6, <1>9
  <2> QED BY <1>a, <2>1 DEF Parted
<1>c. PICK t : t = Freed(r, b)
  OBVIOUS
<1>16. t = Grown(s, nu)
  BY <1>a, <1>b, <1>c DEF Grown
<1>17. /\ \A x \in (L \cup {b}) \ {b} : t.size[x] = R[x]
       /\ \E M \in SUBSET (N \cup {b}) :
                 /\ Good(t, M, (L \cup {b}) \ {b}) /\ Parted(t, M)
                 /\ \E q \in M \ {0} : t.size[q] >= m
  <2>1. PICK K : K = L \cup {b}
    OBVIOUS
  <2>2. b \in K /\ Good(r, N, K)
    BY <1>14, <2>1
  <2>3. HasFreed(r, t, N, K, b)
    BY <1>15, <1>c, <2>2, FreedGood
  <2> QED BY <1>5, <1>6, <2>1, <2>3 DEF HasFreed
<1>18. (L \cup {b}) \ {b} = L
  BY <1>9
<1>19. \A x \in L : t.size[x] = S[x]
  BY <1>1, <1>6, <1>9, <1>17
<1>20. PICK M \in SUBSET (N \cup {b}) :
                 /\ Good(t, M, L) /\ Parted(t, M)
                 /\ \E q \in M \ {0} : t.size[q] >= m
  BY <1>17, <1>18
<1>21. PICK q \in M \ {0} : t.size[q] >= m
  BY <1>20
<1>22. t.size[q] \in Nat
  <2>1. t \in Heaps /\ M \subseteq Cell
    BY <1>20 DEF Good, Ringed
  <2> QED BY <2>1, HeapFields
<1>23. t.size[q] >= nu
  BY <1>3, <1>21, <1>22
<1>24. M \in SUBSET Cell
  BY <1>1, <1>3
<1> QED BY <1>a, <1>16, <1>19, <1>20, <1>23, <1>24

(* The blocks in use, as live has them.                                    *)
Blocks(L, size) == {[at |-> p, n |-> size[p]] : p \in L}

(* The blocks b are those of heap s that are in use; N is the ring.        *)
Settled(s, N, L, b) ==
  /\ Good(s, N, L) /\ Parted(s, N)
  /\ IsFiniteSet(L) /\ Cardinality(L) <= MaxLive
  /\ b = Blocks(L, s.size) /\ \A p \in L : s.size[p] >= 2

(* Before the first call.                                                  *)
Fresh(s) == s = [ptr |-> [c \in Cell |-> 0], size |-> [c \in Cell |-> 0], freep |-> NULL, bss |-> 1]

(* The inductive invariant.                                                *)
MallocInv ==
  \/ Fresh(h) /\ live = {}
  \/ \E N, L \in SUBSET Cell : Settled(h, N, L, live)

(* The ring has no more blocks than the bound on a round.                  *)
LEMMA SettledShort ==
  ASSUME NEW s, NEW N, NEW L, NEW b, Settled(s, N, L, b)
  PROVE  Short(N) /\ IsFiniteSet(N) /\ Cardinality(N) \in Nat /\ IsFiniteSet(L) /\ Cardinality(L) \in Nat
<1>1. Good(s, N, L) /\ Parted(s, N) /\ Cardinality(L) <= MaxLive
  BY DEF Settled
<1>2. /\ IsFiniteSet(L) /\ Cardinality(L) \in Nat /\ Cardinality(N) <= Cardinality(L) + 2
      /\ IsFiniteSet(N) /\ Cardinality(N) \in Nat
  BY <1>1, FewFree
<1> QED BY <1>1, <1>2, LongestIs DEF Short

(* As many records as blocks.                                              *)
LEMMA BlocksCount ==
  ASSUME NEW L, NEW size, IsFiniteSet(L)
  PROVE  IsFiniteSet(Blocks(L, size)) /\ Cardinality(Blocks(L, size)) = Cardinality(L)
<1> DEFINE f == [p \in L |-> [at |-> p, n |-> size[p]]]
           B == Blocks(L, size)
<1>1. f \in [L -> B] /\ \A p, q \in L : f[p] = f[q] => p = q
  <2>1. \A p \in L : [at |-> p, n |-> size[p]].at = p
    OBVIOUS
  <2> QED BY <2>1 DEF Blocks
<1>2. f \in Surjection(L, B)
  <2>1. \A b \in B : \E p \in L : f[p] = b
    BY DEF Blocks
  <2> QED BY <1>1, <2>1 DEF Surjection
<1>3. f \in Injection(L, B)
  BY <1>1 DEF Injection, IsInjective
<1> HIDE DEF f, B
<1>4. IsFiniteSet(B) /\ Cardinality(B) = Cardinality(L)
  BY <1>2, <1>3, FS_Surjection
<1> QED BY <1>4 DEF B

(* The first call makes a ring of base alone.                              *)
LEMMA FreshSettled ==
  ASSUME NEW s, Fresh(s)
  PROVE  Settled(WithBase(s), {0}, {}, {}) /\ WithBase(s).bss = s.bss
<1> PICK z : z = [c \in Cell |-> 0]
  OBVIOUS
<1>1. z \in [Cell -> Cell] /\ z \in [Cell -> Nat] /\ [z EXCEPT ![0] = 0] = z /\ z[0] = 0
      /\ \A c \in Cell : z[c] = 0
  BY CellIs
<1>2. s = [ptr |-> z, size |-> z, freep |-> NULL, bss |-> 1]
  BY DEF Fresh
<1>3. WithBase(s) = [ptr |-> z, size |-> z, freep |-> 0, bss |-> 1]
  <2>1. WithBase(s) = [s EXCEPT !.ptr[0] = 0, !.size[0] = 0, !.freep = 0]
    BY <1>2 DEF WithBase
  <2>2. PICK u, f, w : u = Gone(s, 0) /\ f = NULL /\ w = Put(z, 0, 0)
    OBVIOUS
  <2>3. WithBase(s) = From(u, 0)
    BY <1>2, <2>1, <2>2 DEF From, Gone
  <2>4. s = Of(z, z, f, 1)
    BY <1>2, <2>2 DEF Of
  <2>5. u = Of(w, w, f, 1)
    BY <2>2, <2>4, GoneIs
  <2>6. From(u, 0) = Of(w, w, 0, 1)
    BY <2>5, FromIs
  <2>7. w = z
    BY <1>1, <2>2 DEF Put
  <2> QED BY <2>3, <2>6, <2>7 DEF Of
<1> PICK t : t = WithBase(s)
  OBVIOUS
<1>4. t.ptr = z /\ t.size = z /\ t.freep = 0 /\ t.bss = 1 /\ s.bss = 1
  BY <1>2, <1>3
<1>5. t \in Heaps
  <2>1. 0 \in Cell /\ 1 \in 1 .. Units + 1
    BY CellIs
  <2> QED BY <1>1, <1>3, <2>1 DEF Heaps
<1>6. Ringed(t, {0})
  BY <1>1, <1>4, CellIs DEF Ringed, After
<1>7. Tiles({}, z, 1) /\ Clean({0}, {}, z)
  BY <1>1 DEF Tiles, Clean
<1>8. ({0} \ {0}) \cup {} = {}
  OBVIOUS
<1>9. Good(t, {0}, {}) /\ Parted(t, {0})
  BY <1>1, <1>4, <1>5, <1>6, <1>7, <1>8 DEF Good, Parted
<1>10. IsFiniteSet({}) /\ Cardinality({}) <= MaxLive
  BY FS_EmptySet, LongestIs
<1> QED BY <1>4, <1>9, <1>10 DEF Settled, Blocks

(* After the first lines of malloc the heap is well formed.                *)
LEMMA BaseSettled ==
  ASSUME MallocInv
  PROVE  /\ \E N, L \in SUBSET Cell : Settled(WithBase(h), N, L, live)
         /\ WithBase(h).bss = h.bss
<1>1. CASE Fresh(h) /\ live = {}
  <2>1. {0} \in SUBSET Cell /\ {} \in SUBSET Cell
    BY CellIs
  <2> QED BY <1>1, <2>1, FreshSettled
<1>2. ASSUME NEW N \in SUBSET Cell, NEW L \in SUBSET Cell, Settled(h, N, L, live)
      PROVE  WithBase(h) = h
  <2>1. h.freep \in Nat
    BY <1>2, HeapFields, CellIs DEF Settled, Good
  <2> QED BY <2>1 DEF WithBase, NULL
<1> QED BY <1>1, <1>2 DEF MallocInv

(* Taking a block keeps the books.                                         *)
LEMMA TakeSettled ==
  ASSUME NEW s, NEW N, NEW L, NEW b, Settled(s, N, L, b), Cardinality(b) < MaxLive,
         NEW nu \in Nat, nu >= 2, Hits(s, nu) # {}
  PROVE  \E M, K \in SUBSET Cell :
           Settled(Cut(s, nu).heap, M, K, b \cup {[at |-> Cut(s, nu).at, n |-> nu]})
<1> PICK t, at : t = Cut(s, nu).heap /\ at = Cut(s, nu).at
  OBVIOUS
<1>1. /\ Good(s, N, L) /\ Parted(s, N) /\ IsFiniteSet(L) /\ b = Blocks(L, s.size)
      /\ \A p \in L : s.size[p] >= 2
  BY DEF Settled
<1>2. Short(N) /\ Cardinality(L) \in Nat
  BY SettledShort
<1>3. HasCut(s, t, at, N, L, nu)
  BY <1>1, <1>2, CutGood
<1>4. /\ at \in Cell \ {0} /\ at \notin L /\ t.size[at] = nu /\ \A x \in L : t.size[x] = s.size[x]
  BY <1>3 DEF HasCut
<1>5. PICK M \in SUBSET N : Good(t, M, L \cup {at}) /\ Parted(t, M)
  BY <1>3 DEF HasCut
<1>6. IsFiniteSet(L \cup {at}) /\ Cardinality(L \cup {at}) <= MaxLive
  <2>1. Cardinality(L) < MaxLive
    BY <1>1, BlocksCount
  <2>2. IsFiniteSet(L \cup {at}) /\ Cardinality(L \cup {at}) = Cardinality(L) + 1
    BY <1>1, <1>4, FS_AddElement
  <2> QED BY <1>2, <2>1, <2>2, LongestIs
<1>7. b \cup {[at |-> at, n |-> nu]} = Blocks(L \cup {at}, t.size)
  BY <1>1, <1>4 DEF Blocks
<1>8. \A p \in L \cup {at} : t.size[p] >= 2
  BY <1>1, <1>4
<1>9. M \in SUBSET Cell /\ L \cup {at} \in SUBSET Cell
  BY <1>5 DEF Good, Ringed
<1>10. Settled(t, M, L \cup {at}, b \cup {[at |-> at, n |-> nu]})
  BY <1>5, <1>6, <1>7, <1>8 DEF Settled
<1> QED BY <1>9, <1>10

(* So does growing the heap, after which the search succeeds.              *)
LEMMA GrowSettled ==
  ASSUME NEW s, NEW N, NEW L, NEW b, Settled(s, N, L, b), NEW nu \in Nat \ {0}, Room(s, nu), Odd < 7
  PROVE  /\ Hits(Grown(s, nu), nu) # {}
         /\ \E M \in SUBSET Cell : Settled(Grown(s, nu), M, L, b)
<1> PICK t : t = Grown(s, nu)
  OBVIOUS
<1>1. /\ Good(s, N, L) /\ Parted(s, N) /\ IsFiniteSet(L) /\ b = Blocks(L, s.size)
      /\ Cardinality(L) <= MaxLive /\ \A p \in L : s.size[p] >= 2
  BY DEF Settled
<1>2. Short(N)
  BY SettledShort
<1>3. \A x \in L : t.size[x] = s.size[x]
  BY <1>1, <1>2, GrownGood
<1>4. PICK M \in SUBSET Cell : /\ Good(t, M, L) /\ Parted(t, M)
                               /\ \E q \in M \ {0} : t.size[q] >= nu
  BY <1>1, <1>2, GrownGood
<1>5. Blocks(L, t.size) = Blocks(L, s.size)
  BY <1>3 DEF Blocks
<1>6. Settled(t, M, L, b)
  BY <1>1, <1>3, <1>4, <1>5 DEF Settled
<1>7. Hits(t, nu) # {}
  <2>1. t \in Heaps /\ Ringed(t, M) /\ Cardinality(M) <= Longest /\ M \subseteq Cell
    BY <1>4, <1>6, SettledShort DEF Good, Short, Ringed
  <2>2. PICK q \in M : t.size[q] >= nu
    BY <1>4
  <2>3. t.size[q] \in Nat
    BY <2>1, HeapFields
  <2>4. ~(t.size[q] < nu)
    BY <2>2, <2>3
  <2> QED BY <2>1, <2>4, HitsNone
<1> QED BY <1>6, <1>7

(* So does giving a block back.                                            *)
LEMMA FreeSettled ==
  ASSUME NEW s, NEW N, NEW L, NEW b, Settled(s, N, L, b), NEW x \in b
  PROVE  /\ x.at \in L
         /\ \E M, K \in SUBSET Cell : Settled(Freed(s, x.at), M, K, b \ {x})
<1> PICK t, at : t = Freed(s, at) /\ at = x.at
  OBVIOUS
<1>1. /\ Good(s, N, L) /\ Parted(s, N) /\ IsFiniteSet(L) /\ b = Blocks(L, s.size)
      /\ Cardinality(L) <= MaxLive /\ \A p \in L : s.size[p] >= 2
  BY DEF Settled
<1>2. at \in L /\ x = [at |-> at, n |-> s.size[at]]
  BY <1>1 DEF Blocks
<1>3. Short(N) /\ Cardinality(L) \in Nat
  BY SettledShort
<1>4. HasFreed(s, t, N, L, at)
  BY <1>1, <1>2, <1>3, FreedGood
<1>5. \A y \in L \ {at} : t.size[y] = s.size[y]
  BY <1>4 DEF HasFreed
<1>6. PICK M \in SUBSET (N \cup {at}) : Good(t, M, L \ {at}) /\ Parted(t, M)
  BY <1>4 DEF HasFreed
<1>7. b \ {x} = Blocks(L \ {at}, t.size)
  BY <1>1, <1>2, <1>5 DEF Blocks
<1>8. IsFiniteSet(L \ {at}) /\ Cardinality(L \ {at}) <= MaxLive
  <2>1. IsFiniteSet(L \ {at}) /\ Cardinality(L \ {at}) = Cardinality(L) - 1
    BY <1>1, <1>2, FS_RemoveElement
  <2> QED BY <1>1, <1>3, <2>1, LongestIs
<1>9. \A y \in L \ {at} : t.size[y] >= 2
  BY <1>1, <1>5
<1>10. M \in SUBSET Cell /\ L \ {at} \in SUBSET Cell
  BY <1>6 DEF Good, Ringed
<1>11. Settled(t, M, L \ {at}, b \ {x})
  BY <1>6, <1>7, <1>8, <1>9 DEF Settled
<1> QED BY <1>2, <1>10, <1>11

(* A request takes a header and at least one unit more.                    *)
LEMMA NUnitsIs ==
  ASSUME NEW bytes \in Requests
  PROVE  NUnits(bytes) \in Nat \ {0} /\ NUnits(bytes) >= 2
<1>1. bytes \in Nat \ {0}
  BY MallocAssumption
<1>2. (bytes + 7) \div 8 \in Nat /\ (bytes + 7) \div 8 >= 1
  BY <1>1
<1>3. NUnits(bytes) = (bytes + 7) \div 8 + 1
  BY <1>1 DEF NUnits, HeaderSize
<1> QED BY <1>2, <1>3

(* Every call keeps the inductive invariant.                               *)
LEMMA MallocStep ==
  ASSUME Odd < 7, MallocInv, MallocNext
  PROVE  MallocInv'
<1> PICK s : s = WithBase(h)
  OBVIOUS
<1>1. PICK N \in SUBSET Cell, L \in SUBSET Cell : Settled(s, N, L, live)
  BY BaseSettled
<1>2. ASSUME NEW t, h' = t, \E M, K \in SUBSET Cell : Settled(t, M, K, live')
      PROVE  MallocInv'
  BY <1>2 DEF MallocInv
<1>3. ASSUME NEW bytes \in Requests, Malloc(bytes)
      PROVE  MallocInv'
  <2> PICK nu : nu = NUnits(bytes)
    OBVIOUS
  <2>1. nu \in Nat \ {0} /\ nu >= 2
    BY NUnitsIs
  <2>2. /\ Cardinality(live) < MaxLive
        /\ \/ Hits(s, nu) # {} /\ Take(s, nu)
           \/ Hits(s, nu) = {} /\ Room(s, nu) /\ Take(Grown(s, nu), nu)
    BY <1>3 DEF Malloc
  <2>3. ASSUME NEW t, NEW M \in SUBSET Cell, Settled(t, M, L, live), Hits(t, nu) # {}, Take(t, nu)
        PROVE  MallocInv'
    <3>1. h' = Cut(t, nu).heap /\ live' = live \cup {[at |-> Cut(t, nu).at, n |-> nu]}
      BY <2>3 DEF Take
    <3>2. \E A, K \in SUBSET Cell :
             Settled(Cut(t, nu).heap, A, K, live \cup {[at |-> Cut(t, nu).at, n |-> nu]})
      BY <2>1, <2>2, <2>3, TakeSettled
    <3>3. PICK A, K \in SUBSET Cell : Settled(h', A, K, live')
      BY <3>1, <3>2
    <3> QED BY <1>2, <3>3
  <2>4. CASE Hits(s, nu) # {} /\ Take(s, nu)
    BY <1>1, <2>3, <2>4
  <2>5. CASE Room(s, nu) /\ Take(Grown(s, nu), nu)
    <3> PICK t : t = Grown(s, nu)
      OBVIOUS
    <3>1. Hits(t, nu) # {} /\ \E M \in SUBSET Cell : Settled(t, M, L, live)
      BY <1>1, <2>1, <2>5, GrowSettled
    <3> QED BY <2>3, <2>5, <3>1
  <2> QED BY <2>2, <2>4, <2>5
<1>4. ASSUME NEW bytes \in Requests, MallocNull(bytes)
      PROVE  MallocInv'
  <2>1. h' = s /\ live' = live
    BY <1>4 DEF MallocNull
  <2> QED BY <1>1, <1>2, <2>1
<1>5. ASSUME NEW b \in live, FreeBlock(b)
      PROVE  MallocInv'
  <2>1. h' = Freed(h, b.at) /\ live' = live \ {b}
    BY <1>5 DEF FreeBlock
  <2>2. PICK M \in SUBSET Cell, K \in SUBSET Cell : Settled(h, M, K, live)
    BY <1>5 DEF MallocInv
  <2>3. PICK A, B \in SUBSET Cell : Settled(Freed(h, b.at), A, B, live \ {b})
    BY <1>5, <2>2, FreeSettled
  <2>4. PICK t : t = Freed(h, b.at)
    OBVIOUS
  <2> QED BY <1>2, <2>1, <2>3, <2>4
<1> QED BY <1>3, <1>4, <1>5 DEF MallocNext

(* So it always holds.                                                     *)
LEMMA MallocAlways == ASSUME Odd < 7 PROVE MallocSpec => []MallocInv
<1>1. MallocInit => MallocInv
  BY DEF MallocInit, MallocInv, Fresh
<1>2. MallocInv /\ [MallocNext]_mallocVars => MallocInv'
  <2>1. ASSUME MallocInv, UNCHANGED mallocVars PROVE MallocInv'
    BY <2>1 DEF MallocInv, mallocVars
  <2> QED BY <2>1, MallocStep
<1> QED BY <1>1, <1>2, PTL DEF MallocSpec

(* The invariant gives the types: a block that lies in the segment is no   *)
(* longer than it.                                                         *)
LEMMA TypesFollow == ASSUME MallocInv PROVE MallocTypeOK
<1>1. CASE Fresh(h) /\ live = {}
  <2>1. 0 \in Cell
    BY CellIs
  <2> QED BY <1>1, <2>1 DEF Fresh, MallocTypeOK
<1>2. ASSUME NEW N \in SUBSET Cell, NEW L \in SUBSET Cell, Settled(h, N, L, live)
      PROVE  MallocTypeOK
  <2> PICK P, S, f, b : P = h.ptr /\ S = h.size /\ f = h.freep /\ b = h.bss
    OBVIOUS
  <2>1. /\ h \in Heaps /\ S[0] = 0 /\ Tiles((N \ {0}) \cup L, S, b) /\ Clean(N, L, S)
        /\ live = Blocks(L, S) /\ \A p \in L : S[p] >= 2 /\ p # 0
    BY <1>2 DEF Settled, Good
  <2>2. /\ P \in [Cell -> Cell] /\ S \in [Cell -> Nat] /\ f \in Cell /\ b \in 1 .. Units + 1
        /\ h = [ptr |-> P, size |-> S, freep |-> f, bss |-> b] /\ b \in Nat
    BY <2>1, HeapFields, CellIs
  <2>3. Units \in Nat /\ Cell = 0 .. Units
    BY CellIs DEF Cell
  <2>4. \A p \in (N \ {0}) \cup L : S[p] \in 1 .. Units
    <3>1. \A p \in (N \ {0}) \cup L : S[p] \in Nat \ {0} /\ p >= 1 /\ p + S[p] <= b /\ p \in 0 .. Units
      BY <2>1, <2>3 DEF Tiles
    <3> SUFFICES ASSUME NEW p \in (N \ {0}) \cup L PROVE S[p] \in 1 .. Units
      OBVIOUS
    <3> PICK n : n = S[p]
      OBVIOUS
    <3>2. n \in Nat \ {0} /\ p >= 1 /\ p + n <= b /\ p \in Nat
      BY <2>3, <3>1
    <3>3. b \in Nat /\ b <= Units + 1 /\ Units \in Nat
      BY <2>2, <2>3
    <3>4. n \in 1 .. Units
      BY <3>2, <3>3
    <3> QED BY <3>4
  <2>5. \A c \in Cell : S[c] \in Cell
    <3> SUFFICES ASSUME NEW c \in Cell PROVE S[c] \in Cell
      OBVIOUS
    <3>1. CASE c \in (N \ {0}) \cup L
      BY <2>3, <2>4, <3>1
    <3>2. CASE c \notin (N \ {0}) \cup L
      <4>1. S[c] = 0
        BY <2>1, <3>2 DEF Clean
      <4> QED BY <4>1, CellIs
    <3> QED BY <3>1, <3>2
  <2>6. S \in [Cell -> Cell]
    BY <2>2, <2>5
  <2>7. \A p \in L : p \in 1 .. Units /\ S[p] \in 2 .. Units
    BY <2>1, <2>3, <2>4
  <2>8. live \subseteq [at : 1 .. Units, n : 2 .. Units]
    BY <2>1, <2>7 DEF Blocks
  <2> QED BY <2>2, <2>6, <2>8 DEF MallocTypeOK
<1> QED BY <1>1, <1>2 DEF MallocInv

(* The units of block p.                                                   *)
Span(size, p) == p .. p + size[p] - 1

(* The spans of a tiling are apart and fill everything below the top.      *)
LEMMA ExtentsApart ==
  ASSUME NEW H \in SUBSET Nat, NEW size, NEW top \in Nat, Tiles(H, size, top)
  PROVE  /\ UNION {Span(size, p) : p \in H} = 1 .. top - 1
         /\ \A p, q \in H : p # q => Span(size, p) \cap Span(size, q) = {}
         /\ \A p \in H : p \in Span(size, p)
<1>1. \A p \in H : size[p] \in Nat \ {0} /\ p >= 1 /\ p + size[p] <= top /\ p \in Nat
  BY DEF Tiles
<1>2. \A p, q \in H : p < q => p + size[p] <= q
  BY DEF Tiles
<1>3. \A u \in 1 .. top - 1 : \E p \in H : p <= u /\ u < p + size[p]
  BY DEF Tiles
<1>4. \A p \in H : \A u : u \in Span(size, p) <=> u \in Int /\ p <= u /\ u < p + size[p]
  <2> SUFFICES ASSUME NEW p \in H, NEW u
               PROVE  u \in Span(size, p) <=> u \in Int /\ p <= u /\ u < p + size[p]
    OBVIOUS
  <2>1. size[p] \in Nat /\ p \in Nat
    BY <1>1
  <2> QED BY <2>1 DEF Span
<1>5. \A p \in H : p \in Span(size, p)
  BY <1>1, <1>4
<1>6. ASSUME NEW p \in H, NEW q \in H, p # q PROVE Span(size, p) \cap Span(size, q) = {}
  <2> SUFFICES ASSUME NEW u \in Span(size, p), u \in Span(size, q) PROVE FALSE
    OBVIOUS
  <2>1. u \in Int /\ p <= u /\ u < p + size[p] /\ q <= u /\ u < q + size[q]
    BY <1>4
  <2>2. p \in Nat /\ q \in Nat /\ size[p] \in Nat /\ size[q] \in Nat
        /\ (p < q => p + size[p] <= q) /\ (q < p => q + size[q] <= p)
    BY <1>1, <1>2
  <2> QED BY <1>6, <2>1, <2>2
<1>7. ASSUME NEW u \in 1 .. top - 1 PROVE \E p \in H : u \in Span(size, p)
  BY <1>3, <1>4
<1>8. ASSUME NEW p \in H, NEW u \in Span(size, p) PROVE u \in 1 .. top - 1
  <2>1. u \in Int /\ p <= u /\ u < p + size[p]
    BY <1>4
  <2>2. size[p] \in Nat \ {0} /\ p >= 1 /\ p + size[p] <= top /\ p \in Nat
    BY <1>1
  <2> QED BY <2>1, <2>2
<1>9. UNION {Span(size, p) : p \in H} = 1 .. top - 1
  BY <1>7, <1>8
<1> QED BY <1>5, <1>6, <1>9

(* There are as many spans as blocks.                                      *)
LEMMA ExtentsCount ==
  ASSUME NEW H \in SUBSET Nat, NEW size, NEW top \in Nat, Tiles(H, size, top), IsFiniteSet(H)
  PROVE  Cardinality({Span(size, p) : p \in H}) = Cardinality(H)
<1> DEFINE E == {Span(size, p) : p \in H}
           f == [p \in H |-> Span(size, p)]
<1>1. \A p, q \in H : p # q => f[p] # f[q]
  <2>1. \A p, q \in H : p # q => Span(size, p) \cap Span(size, q) = {}
    BY ExtentsApart
  <2>2. \A p \in H : p \in Span(size, p)
    BY ExtentsApart
  <2> QED BY <2>1, <2>2
<1>2. f \in Injection(H, E)
  BY <1>1 DEF Injection, IsInjective
<1>3. f \in Surjection(H, E)
  BY DEF Surjection
<1> HIDE DEF f, E
<1>4. Cardinality(E) = Cardinality(H)
  BY <1>2, <1>3, FS_Surjection
<1> QED BY <1>4 DEF E

(* The invariant implies Tiled.                                            *)
LEMMA TiledFollows == ASSUME MallocInv PROVE Tiled
<1> SUFFICES ASSUME h.freep # NULL PROVE /\ UNION Extents = 1 .. h.bss - 1 /\ h.bss - 1 <= Units
                                         /\ \A x, y \in Extents : x # y => x \cap y = {}
                                         /\ Cardinality(Extents) = Cardinality(Ring) - 1 + Cardinality(live)
                                         /\ \A b \in live : h.size[b.at] = b.n
  BY DEF Tiled
<1>1. PICK N \in SUBSET Cell, L \in SUBSET Cell : Settled(h, N, L, live)
  BY DEF MallocInv, Fresh
<1> PICK S, top : S = h.size /\ top = h.bss
  OBVIOUS
<1> DEFINE H == (N \ {0}) \cup L
<1>2. /\ Good(h, N, L) /\ Tiles(H, S, top) /\ live = Blocks(L, S) /\ L \cap N = {} /\ 0 \in N
      /\ H \in SUBSET Nat
  <2>1. Good(h, N, L) /\ live = Blocks(L, S)
    BY <1>1 DEF Settled
  <2> QED BY <2>1, CellIs DEF Good, Ringed
<1>3. top \in Nat /\ top - 1 <= Units
  <2>1. top \in 1 .. Units + 1 /\ Units \in Nat
    BY <1>2, HeapFields, CellIs DEF Good
  <2> QED BY <2>1
<1>4. /\ Cardinality(N) \in Nat /\ Cardinality(L) \in Nat /\ IsFiniteSet(N) /\ IsFiniteSet(L)
      /\ Short(N) /\ Cardinality(live) = Cardinality(L)
  BY <1>1, <1>2, SettledShort, BlocksCount
<1>5. Ring = N
  BY <1>2, <1>4, RingIs DEF Ring, Good, Short
<1>6. Extents = {Span(S, p) : p \in H}
  <2>1. \A p \in N \ {0} : FreeExtent(p) = Span(S, p)
    BY DEF FreeExtent, Span
  <2>2. {b.at .. b.at + b.n - 1 : b \in live} = {Span(S, p) : p \in L}
    <3>1. \A b \in live : b.at \in L /\ b.at .. b.at + b.n - 1 = Span(S, b.at)
      BY <1>2 DEF Blocks, Span
    <3>2. ASSUME NEW p \in L PROVE \E b \in live : Span(S, p) = b.at .. b.at + b.n - 1
      <4> PICK b : b = [at |-> p, n |-> S[p]]
        OBVIOUS
      <4>1. b \in live /\ b.at = p /\ b.n = S[p]
        BY <1>2 DEF Blocks
      <4> QED BY <4>1 DEF Span
    <3> QED BY <3>1, <3>2
  <2> QED BY <1>5, <2>1, <2>2 DEF Extents
<1>7. Cardinality(H) = Cardinality(N) - 1 + Cardinality(L) /\ IsFiniteSet(H)
  <2> DEFINE F == N \ {0}
  <2>1. IsFiniteSet(F) /\ Cardinality(F) = Cardinality(N) - 1
    BY <1>2, <1>4, FS_RemoveElement
  <2>2. F \cap L = {}
    BY <1>2
  <2> HIDE DEF F
  <2>3. IsFiniteSet(F \cup L) /\ Cardinality(F \cup L) = Cardinality(F) + Cardinality(L) - Cardinality({})
    BY <1>4, <2>1, <2>2, FS_Union
  <2>4. Cardinality({}) = 0
    BY FS_EmptySet
  <2> QED BY <1>4, <2>1, <2>3, <2>4 DEF F
<1>8. \A b \in live : S[b.at] = b.n
  BY <1>2 DEF Blocks
<1> HIDE DEF H
<1>9. UNION Extents = 1 .. top - 1
  BY <1>2, <1>3, <1>6, ExtentsApart
<1>10. \A x, y \in Extents : x # y => x \cap y = {}
  <2>1. \A p, q \in H : p # q => Span(S, p) \cap Span(S, q) = {}
    BY <1>2, <1>3, ExtentsApart
  <2> QED BY <1>6, <2>1
<1>11. Cardinality(Extents) = Cardinality(H)
  BY <1>2, <1>3, <1>6, <1>7, ExtentsCount
<1> QED BY <1>3, <1>4, <1>5, <1>7, <1>8, <1>9, <1>10, <1>11

(* The invariant implies HonestNull: in a run of free units that were long *)
(* enough, the free block that covers its first unit would be followed by  *)
(* another free one.                                                       *)
LEMMA HonestFollows == ASSUME MallocInv PROVE HonestNull
<1> PICK s : s = WithBase(h)
  OBVIOUS
<1>1. h.bss = s.bss /\ \E N, L \in SUBSET Cell : Settled(s, N, L, live)
  BY BaseSettled
<1>2. PICK N \in SUBSET Cell, L \in SUBSET Cell : Settled(s, N, L, live)
  BY <1>1
<1> SUFFICES ASSUME NEW bytes \in Requests, NoneLeft(bytes),
                    NEW c \in 1 .. h.bss - NUnits(bytes)
             PROVE  \E u \in c .. c + NUnits(bytes) - 1 : \E b \in live :
                      u \in b.at .. b.at + b.n - 1
  BY DEF HonestNull
<1> PICK S, top, nu : S = s.size /\ top = s.bss /\ nu = NUnits(bytes)
  OBVIOUS
<1> DEFINE H == (N \ {0}) \cup L
<1>3. /\ s \in Heaps /\ Ringed(s, N) /\ Tiles(H, S, top) /\ live = Blocks(L, S)
      /\ H \in SUBSET Nat /\ Parted(s, N) /\ Cardinality(N) <= Longest
  <2>1. Good(s, N, L) /\ live = Blocks(L, S) /\ Parted(s, N) /\ Short(N)
    BY <1>2, SettledShort DEF Settled
  <2> QED BY <2>1, CellIs DEF Good, Short
<1>4. top \in Nat /\ nu \in Nat \ {0} /\ c \in 1 .. top - nu
  <2>1. top \in Nat
    BY <1>3, HeapFields, CellIs
  <2>2. nu \in Nat \ {0}
    BY NUnitsIs
  <2> QED BY <1>1, <2>1, <2>2
<1>5. \A p \in N : S[p] < nu
  <2>1. Hits(s, nu) = {}
    BY DEF NoneLeft
  <2> QED BY <1>3, <1>4, <2>1, HitsNone
<1>6. ASSUME NEW u \in c .. c + nu - 1, NEW p \in L, p <= u, u < p + S[p]
      PROVE  \E v \in c .. c + nu - 1 : \E b \in live : v \in b.at .. b.at + b.n - 1
  <2> DEFINE b == [at |-> p, n |-> S[p]]
  <2>1. b \in live /\ b.at = p /\ b.n = S[p]
    BY <1>3 DEF Blocks
  <2>2. p \in Nat /\ S[p] \in Nat /\ u \in Int
    BY <1>3, <1>4 DEF Tiles
  <2>3. u \in p .. p + S[p] - 1
    BY <1>6, <2>2
  <2> QED BY <2>1, <2>3
<1>7. PICK p \in H : p <= c /\ c < p + S[p]
  BY <1>3, <1>4 DEF Tiles
<1>8. p \in Nat /\ S[p] \in Nat \ {0}
  BY <1>3, <1>7 DEF Tiles
<1>9. CASE p \in L
  <2>1. c \in c .. c + nu - 1
    BY <1>4
  <2> QED BY <1>6, <1>7, <1>9, <2>1
<1>10. CASE p \in N \ {0}
  <2> PICK u : u = p + S[p]
    OBVIOUS
  <2>1. u \in c .. c + nu - 1 /\ u < top
    BY <1>4, <1>5, <1>7, <1>8, <1>10
  <2>2. u \in H
    <3> HIDE DEF H
    <3> QED BY <1>3, <1>4, <1>7, <2>1, NextStarts
  <2>3. u \in L
    BY <1>3, <1>10, <2>2 DEF Parted
  <2>4. S[u] \in Nat \ {0} /\ u \in Nat
    BY <1>3, <2>2 DEF Tiles
  <2>5. u <= u /\ u < u + S[u]
    BY <2>4
  <2> QED BY <1>6, <2>1, <2>3, <2>5
<1> QED BY <1>7, <1>9, <1>10

(* The heap of the C library keeps its types.                              *)
THEOREM MallocTypes == ASSUME Odd < 7 PROVE MallocSpec => []MallocTypeOK
BY MallocAlways, TypesFollow, PTL

(* Whatever the program asks for and gives back, what morecore has given   *)
(* out is the free blocks and the blocks in use, each unit in one of them, *)
(* and lies in the segment (malloc.c, free.c).                             *)
THEOREM HeapTiled == ASSUME Odd < 7 PROVE MallocSpec => []Tiled
BY MallocAlways, TiledFollows, PTL

(* malloc returns NULL only when no run of free units is long enough,      *)
(* wherever the last search ended.                                         *)
THEOREM NullIsHonest == ASSUME Odd < 7 PROVE MallocSpec => []HonestNull
BY MallocAlways, HonestFollows, PTL
=============================================================================
