------------------------------ MODULE HeapSpec ------------------------------
(***************************************************************************)
(* What the kernel heap promises its callers, without the list: a set of   *)
(* available chunks, from which alloc takes the lowest aligned run that    *)
(* still leaves some available chunk above it, and to which free returns   *)
(* a block.  KMem implements it.                                           *)
(***************************************************************************)
EXTENDS Integers

CONSTANTS Chunks,    \* the heap is the chunks 1 .. Chunks
          ChunkSize, \* bytes in a chunk
          MaxSize    \* bound: the largest size ever requested, in bytes

VARIABLES avail,  \* the chunks nobody holds
          blocks  \* the blocks handed out and not freed

hvars == <<avail, blocks>>

Run(c, n) == c .. c + n - 1

ChunksNeeded(size) == (size + ChunkSize - 1) \div ChunkSize

Bit(x, k)     == (x \div 2^k) % 2
Aligned(c, n) == \A k \in 0 .. Chunks : ~(Bit(c, k) = 1 /\ Bit(n - 1, k) = 1)

(* The places where a run of n chunks may be taken.                        *)
Place(n) ==
  {c \in avail : /\ n > 0 /\ Aligned(c, n)
                 /\ Run(c, n) \subseteq avail
                 /\ \E d \in avail : d > c + n - 1}

Init == avail = 1 .. Chunks /\ blocks = {}

Alloc(size) ==
  LET n == ChunksNeeded(size)
  IN \E c \in Place(n) :
       /\ \A d \in Place(n) : c <= d
       /\ avail' = avail \ Run(c, n)
       /\ blocks' = blocks \cup {[base |-> c, n |-> n]}

AllocNull(size) == Place(ChunksNeeded(size)) = {} /\ UNCHANGED hvars

Free(b) ==
  /\ avail' = avail \cup Run(b.base, b.n)
  /\ blocks' = blocks \ {b}

Next ==
  \/ \E size \in 0 .. MaxSize : Alloc(size) \/ AllocNull(size)
  \/ \E b \in blocks : Free(b)

Spec == Init /\ [][Next]_hvars
=============================================================================
