----------------------------- MODULE SmallAlloc -----------------------------
(***************************************************************************)
(* The kernel's small-object pools (pistachio/src/smallalloc.cc, created by *)
(* kmem_resource.cc): each pool cuts blocks of SMALL_OBJECT_BLOCKSIZE, that *)
(* it takes from the kernel heap of HeapSpec, into equal objects, with the  *)
(* block's header (next, id and a bitmap of free objects) behind them.      *)
(* Sizes are in words.                                                      *)
(***************************************************************************)
EXTENDS Integers, FiniteSets

CONSTANTS
  Chunks, ChunkSize, MaxSize,  \* the heap, as in HeapSpec
  BlockSize,                   \* SMALL_OBJECT_BLOCKSIZE
  WordBits,                    \* bits in a word of the bitmap
  Pools,                       \* the pools: space, tcb, ...
  ObjSize                      \* object size of a pool, rounded to words

PoolAssumption ==
  /\ BlockSize \in 1 .. MaxSize /\ WordBits \in Nat \ {0}
  /\ ObjSize \in [Pools -> 1 .. BlockSize]

VARIABLES
  avail, blocks,  \* the heap
  first_free,     \* the block a pool allocates from, 0 for none
  bitmap,         \* the free positions of the block at a chunk
  objects,        \* the objects handed out
  undefined       \* set once the code has followed a pointer it never set

heap == <<avail, blocks>>
vars == <<avail, blocks, first_free, bitmap, objects, undefined>>

Heap == INSTANCE HeapSpec
-----------------------------------------------------------------------------
\* small_alloc_block_t::header_size: next, id, and the bitmap.
HeaderSize(size) == 2 + (BlockSize \div size + WordBits - 1) \div WordBits

\* small_alloc_t::init: the objects that leave room for the header.
ObjsPerBlockAll(size) == BlockSize \div size  \* seeded fault: no room is left
ObjsPerBlock(size) ==
  LET extra == BlockSize % size IN
  IF extra >= HeaderSize(size)
  THEN BlockSize \div size
  ELSE BlockSize \div size - (HeaderSize(size) - extra) \div size - 1

HeaderOffset(size) == ObjsPerBlock(size) * size

\* The words of the block based at chunk c, of the object at position i of
\* it (get_object) and of its header.
BlockWords(c, n) == (c - 1) * ChunkSize .. (c + n - 1) * ChunkSize - 1
HeaderWords(p, c) ==
  LET at == (c - 1) * ChunkSize + HeaderOffset(ObjSize[p])
  IN at .. at + HeaderSize(ObjSize[p]) - 1
ObjectWords(o) ==
  LET at == (o.base - 1) * ChunkSize + o.pos * ObjSize[o.pool]
  IN at .. at + ObjSize[o.pool] - 1

Lowest(S) == CHOOSE i \in S : \A j \in S : i <= j

\* The object small_alloc_t::allocate takes from a block with free positions.
\* Once none is left it goes on to block->next, which allocate_block has left
\* as it found it: what the code does from there on is undefined.
TakeObject(p, c, positions) ==
  LET i == Lowest(positions) IN
  /\ objects' = objects \cup {[pool |-> p, base |-> c, pos |-> i]}
  /\ bitmap' = [bitmap EXCEPT ![c] = positions \ {i}]
  /\ first_free' = [first_free EXCEPT ![p] = c]
  /\ undefined' = (positions = {i})
-----------------------------------------------------------------------------
Init ==
  /\ Heap!Init
  /\ first_free = [p \in Pools |-> 0]
  /\ bitmap = [c \in 1 .. Chunks |-> {}]
  /\ objects = {} /\ undefined = FALSE

\* allocate from the pool's block.
Allocate(p) ==
  /\ ~undefined /\ first_free[p] # 0
  /\ TakeObject(p, first_free[p], bitmap[first_free[p]])
  /\ UNCHANGED heap

\* allocate with no block yet: allocate_block takes one from the heap and
\* sets every bit of its bitmap.
AllocateBlock(p) ==
  /\ ~undefined /\ first_free[p] = 0
  /\ Heap!Alloc(BlockSize)
  /\ \E b \in blocks' \ blocks :
       TakeObject(p, b.base, 0 .. ObjsPerBlock(ObjSize[p]) - 1)

\* The heap has no block: heap.alloc returns NULL, which is not looked at.
AllocateNoBlock(p) ==
  /\ ~undefined /\ first_free[p] = 0
  /\ Heap!AllocNull(BlockSize)
  /\ undefined' = TRUE
  /\ UNCHANGED <<first_free, bitmap, objects>>

\* Any other group's request to the same heap (kmem_resource_t::alloc with a
\* size).  kmem_resource_t::free is empty: nothing comes back.
OtherAlloc(size) ==
  /\ ~undefined
  /\ Heap!Alloc(size) \/ Heap!AllocNull(size)
  /\ UNCHANGED <<first_free, bitmap, objects, undefined>>

Next ==
  \/ \E p \in Pools : Allocate(p) \/ AllocateBlock(p) \/ AllocateNoBlock(p)
  \/ \E size \in 0 .. MaxSize : OtherAlloc(size)

Spec == Init /\ [][Next]_vars
-----------------------------------------------------------------------------
Blocks(p) == {b \in blocks : \E o \in objects : o.pool = p /\ o.base = b.base}

\* A pool that has a block has a free position in it, and the free positions
\* are exactly those not handed out, unless the end of the block was passed.
TypeOK ==
  /\ objects \subseteq [pool : Pools, base : 1 .. Chunks, pos : 0 .. BlockSize]
  /\ undefined \in BOOLEAN
  /\ \A p \in Pools : LET c == first_free[p] IN
       c # 0 =>
         /\ \E b \in blocks : b.base = c
         /\ bitmap[c] = (0 .. ObjsPerBlock(ObjSize[p]) - 1)
                          \ {o.pos : o \in {x \in objects : x.base = c}}
         /\ undefined \/ bitmap[c] # {}

\* No two objects share a word, and no object lies outside its block or on
\* the block's header, which itself fits the block: the arithmetic of
\* small_alloc_t::init and get_object.
ObjectsApart ==
  /\ \A o1, o2 \in objects :
       o1 # o2 => ObjectWords(o1) \cap ObjectWords(o2) = {}
  /\ \A p \in Pools : \A b \in Blocks(p) : \A o \in objects :
       /\ HeaderWords(p, b.base) \subseteq BlockWords(b.base, b.n)
       /\ ObjectWords(o) \cap HeaderWords(p, b.base) = {}
  /\ \A o \in objects : \E b \in blocks :
       o.base = b.base /\ ObjectWords(o) \subseteq BlockWords(b.base, b.n)

\* smallalloc.h:14, "max = 0 means unlimited": a pool initialised without a
\* maximum (all are) goes on as long as the heap has a block for it.
Unlimited == undefined => Heap!Place(Heap!ChunksNeeded(BlockSize)) = {}
=============================================================================
