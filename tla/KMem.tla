-------------------------------- MODULE KMem --------------------------------
(***************************************************************************)
(* The kernel heap: kmem_t of pistachio/src/kmemory.cc.                    *)
(*                                                                         *)
(* The heap is an array of KMEM_CHUNKSIZE chunks.  Free chunks form a      *)
(* singly linked list threaded through their own first words; "free" is    *)
(* that list, in list order, each chunk named by its number (its address   *)
(* divided by KMEM_CHUNKSIZE).  "blocks" is a history variable: what the   *)
(* callers hold.  Chunk 0 is the kmem_resource_t, which sits in front of   *)
(* the heap it manages (kmem_resource_t::init).                            *)
(***************************************************************************)
EXTENDS Integers, Sequences, FiniteSets

CONSTANTS Chunks,    \* the heap is the chunks 1 .. Chunks
          ChunkSize, \* KMEM_CHUNKSIZE, in bytes
          MaxSize    \* bound: the largest size ever requested, in bytes

ASSUME HeapAssumption ==
  /\ Chunks \in Nat \ {0}
  /\ ChunkSize \in Nat \ {0}
  /\ MaxSize \in Nat

VARIABLES free,       \* kmem_free_list, as the sequence of chunks it links
          freeChunks, \* free_chunks
          blocks      \* history: the blocks handed out and not freed

vars == <<free, freeChunks, blocks>>

Heap   == 1 .. Chunks
Block  == [base : Heap, n : 1 .. Chunks]

Extent(b)  == b.base .. b.base + b.n - 1

(* The size is rounded up to whole chunks; the unsigned arithmetic turns a *)
(* request of 0 bytes into 0 chunks.                                       *)
ChunksFor(size) == (size + ChunkSize - 1) \div ChunkSize

(* curr & (size - 1): every bit of chunk number c that is also set in      *)
(* n - 1.  It is the usual alignment test only when n is a power of two.   *)
Bit(x, k)     == (x \div 2^k) % 2
Aligned(c, n) == \A k \in 0 .. Chunks : ~(Bit(c, k) = 1 /\ Bit(n - 1, k) = 1)

(* Seeded fault: a run that need not be complete.                          *)
RunAtAny(i, n) ==
  \A k \in 1 .. n - 1 : i + k <= Len(free) => free[i + k] = free[i] + k

(* The inner loop of alloc: from list position i, n list nodes with        *)
(* consecutive addresses.  The loop succeeds only if it stops on a node    *)
(* (tmp # NULL), so a run that ends at the tail of the list is refused.    *)
RunAt(i, n) ==
  /\ i + n <= Len(free)
  /\ \A k \in 1 .. n - 1 : free[i + k] = free[i] + k

Fits(i, n) == n > 0 /\ Aligned(free[i], n) /\ RunAt(i, n)

(* Seeded faults: one node too few unlinked; the block pushed on the front *)
(* of the list; its last chunk not linked.                                  *)
UnlinkedShort(i, n) ==
  [j \in 1 .. Len(free) - n + 1 |-> IF j < i THEN free[j] ELSE free[j + n - 1]]

LinkedInFront(i, b) ==
  [j \in 1 .. Len(free) + b.n |->
     IF j <= b.n THEN b.base + (j - 1) ELSE free[j - b.n]]

LinkedShort(i, b) ==
  [j \in 1 .. Len(free) + b.n - 1 |->
     IF j <= i THEN free[j]
     ELSE IF j < i + b.n THEN b.base + (j - i - 1)
     ELSE free[j - b.n + 1]]

(* The list without the n nodes from position i, and with the chunks of a  *)
(* block spliced in behind position i.                                     *)
Unlinked(i, n) ==
  [j \in 1 .. Len(free) - n |-> IF j < i THEN free[j] ELSE free[j + n]]

Linked(i, b) ==
  [j \in 1 .. Len(free) + b.n |->
     IF j <= i THEN free[j]
     ELSE IF j <= i + b.n THEN b.base + (j - i - 1)
     ELSE free[j - b.n]]

-----------------------------------------------------------------------------
(* kmem_t::init: the whole range is freed into the empty list.             *)
Init ==
  /\ free = [i \in Heap |-> i]
  /\ freeChunks = Chunks
  /\ blocks = {}

(* kmem_t::alloc: first fit along the list.                                *)
Alloc(size) ==
  \E i \in DOMAIN free :
    LET n == ChunksFor(size)
    IN /\ Fits(i, n)
       /\ \A j \in 1 .. i - 1 : ~Fits(j, n)
       /\ free' = Unlinked(i, n)
       /\ freeChunks' = freeChunks - n
       /\ blocks' = blocks \cup {[base |-> free[i], n |-> n]}

(* kmem_t::alloc running off the end of the list and returning NULL.       *)
AllocNull(size) ==
  /\ \A i \in DOMAIN free : ~Fits(i, ChunksFor(size))
  /\ UNCHANGED vars

(* Seeded fault: one chunk counted whatever the size of the block.         *)
FreeMiscounted(b) ==
  \E i \in 0 .. Len(free) :
    /\ \A j \in 1 .. i : b.base > free[j]
    /\ i < Len(free) => ~(b.base > free[i + 1])
    /\ free' = Linked(i, b)
    /\ freeChunks' = freeChunks + 1
    /\ blocks' = blocks \ {b}

(* kmem_t::free of a block the caller holds: its chunks are linked in      *)
(* ascending order and spliced in before the first node that is not below  *)
(* the block's address.  The sizes passed to free are whole chunks: every  *)
(* call site in the kernel passes a page, UTCB page or page table size.    *)
Free(b) ==
  \E i \in 0 .. Len(free) :
    /\ \A j \in 1 .. i : b.base > free[j]
    /\ i < Len(free) => ~(b.base > free[i + 1])
    /\ free' = Linked(i, b)
    /\ freeChunks' = freeChunks + b.n
    /\ blocks' = blocks \ {b}

Next ==
  \/ \E size \in 0 .. MaxSize : Alloc(size) \/ AllocNull(size)
  \/ \E b \in blocks : Free(b)

Spec == Init /\ [][Next]_vars

-----------------------------------------------------------------------------
FreeSet == {free[i] : i \in DOMAIN free}

TypeOK ==
  /\ free \in Seq(Heap)
  /\ freeChunks \in Nat
  /\ blocks \subseteq Block

(* The free list is strictly ascending: alloc's run test (the next node    *)
(* must be the next chunk) finds a run only because of it, and free keeps  *)
(* it so when it splices a block between its neighbours.                   *)
Sorted == \A i, j \in DOMAIN free : i < j => free[i] < free[j]

(* No chunk is in two places: on the free list and in a caller's block, or *)
(* in two callers' blocks; and no chunk is lost.  kmem_t::alloc dequeues   *)
(* exactly the run it returns, kmem_t::free links exactly what it gets.    *)
Disjoint ==
  /\ \A b \in blocks : Extent(b) \cap FreeSet = {}
  /\ \A b, c \in blocks : b # c => Extent(b) \cap Extent(c) = {}

NoneLost == Heap = FreeSet \cup UNION {Extent(b) : b \in blocks}

(* free_chunks, which chunks_left() reports, is the length of the list.    *)
CounterExact == freeChunks = Len(free)

(* Because alloc wants a list node behind the run it takes, the topmost    *)
(* chunk of the heap is never handed out and the list is never empty.      *)
TopReserved == Chunks \in FreeSet

(* Implementation of the abstract heap: with the list forgotten, every     *)
(* step of the list code is a step of HeapSpec.  In particular kmem_t's    *)
(* first fit along the list is the lowest fit in memory.                   *)
Abs == INSTANCE HeapSpec WITH avail <- FreeSet
ImplementsHeap == Abs!Spec
=============================================================================
