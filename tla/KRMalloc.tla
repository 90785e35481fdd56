------------------------------ MODULE KRMalloc ------------------------------
(***************************************************************************)
(* malloc and free of libs/c (malloc.c, free.c, sys-okl4/sys_morecore.c).   *)
(*                                                                         *)
(* Memory is counted in units, the size of a Header: unit 0 is the static  *)
(* Header "base", the heap segment of the cell is the units from 1.  Free   *)
(* blocks form a ring in ascending order, linked through the ptr fields of  *)
(* their headers; a search starts where the last one ended.                *)
(***************************************************************************)
EXTENDS Integers, FiniteSets

CONSTANTS
  Units,     \* whole units in the heap segment
  Odd,       \* bytes of the segment beyond the last whole unit
  Requests,  \* the sizes asked of malloc, in bytes
  MaxLive    \* bound: blocks in use at a time

ASSUME MallocAssumption ==
  /\ Units \in Nat \ {0} /\ Odd \in 0 .. 7
  /\ Requests \subseteq Nat \ {0} /\ MaxLive \in Nat

VARIABLES
  h,    \* the memory of the allocator: ptr and size of the header in each
        \* unit, freep, and bss, the first unit morecore has not given out
  live  \* history: the blocks in use

mallocVars == <<h, live>>
-----------------------------------------------------------------------------
HeaderSize == 8
NULL == -1
Cell == 0 .. Units

\* nunits of malloc: whole units, and one for the header.
NUnits(bytes) == (bytes + HeaderSize - 1) \div HeaderSize + 1

\* morecore's round_up to NALLOC = 100 bytes, which is no power of two: of the
\* sum, the mask ~99 clears bits 0, 1, 5 and 6.  In units, that rounds nu \div 4
\* up to a multiple of 4 and leaves the rest alone.
MoreUnits(nu) == 16 * ((nu \div 4 + 3) \div 4) + (nu % 4)

\* More than the blocks a ring can have: base and what the blocks in use part.
Longest == MaxLive + 4

\* The block that k links lead to from block p.
Node(s, p, k) ==
  LET visit[i \in 0 .. k] == IF i = 0 THEN p ELSE s.ptr[visit[i - 1]]
  IN visit[k]

First(S) == CHOOSE k \in S : \A j \in S : k <= j
Round(s) == First({k \in 1 .. Longest : Node(s, s.freep, k) = s.freep})

\* The first call of malloc or free makes a ring of base alone.
WithBase(s) ==
  IF s.freep = NULL
  THEN [s EXCEPT !.ptr[0] = 0, !.size[0] = 0, !.freep = 0]
  ELSE s

\* The steps of malloc's search that end at a block which is big enough.
Hits(s, nu) == {k \in 1 .. Round(s) : s.size[Node(s, s.freep, k)] >= nu}

\* malloc takes a block of the same size off the ring, or the tail end of a
\* larger one; the search will start from the block before.
Cut(s, nu) ==
  LET k    == First(Hits(s, nu))
      prev == Node(s, s.freep, k - 1)
      p    == Node(s, s.freep, k)
      at   == p + s.size[p] - nu
  IN [at   |-> at,
      heap |-> IF at = p
               THEN [s EXCEPT !.ptr[prev] = s.ptr[p], !.ptr[p] = 0, !.freep = prev]
               ELSE [s EXCEPT !.size[p] = @ - nu, !.size[at] = nu, !.freep = prev]]

\* The loop of free: the block behind which bp belongs.
Behind(s, bp) ==
  LET Follows(p) == \/ p < bp /\ bp < s.ptr[p]
                    \/ p >= s.ptr[p] /\ (bp > p \/ bp < s.ptr[p])
  IN Node(s, s.freep,
          First({k \in 0 .. Round(s) - 1 : Follows(Node(s, s.freep, k))}))

\* free puts a block behind p and joins it to its neighbours on either side.
\* The header of a block that is joined to a lower one is no header any more,
\* and what it holds is forgotten: 0.
JoinedUpOnly(s, p, bp) ==  \* seeded fault: never to the lower one
  LET above == s.ptr[p]
      up    == bp + s.size[bp] = above
      total == s.size[bp] + (IF up THEN s.size[above] ELSE 0)
  IN [s EXCEPT !.ptr[bp] = IF up THEN s.ptr[above] ELSE above,
               !.size[bp] = total, !.ptr[p] = bp]
JoinedTwice(s, p, bp) ==  \* seeded fault: the upper one stays on the ring
  LET above == s.ptr[p]
      up    == bp + s.size[bp] = above
      total == s.size[bp] + (IF up THEN s.size[above] ELSE 0)
  IN [s EXCEPT !.ptr[bp] = above, !.size[bp] = total, !.ptr[p] = bp]
JoinedTo(s, p, bp) ==
  LET above == s.ptr[p]
      up    == bp + s.size[bp] = above
      total == s.size[bp] + (IF up THEN s.size[above] ELSE 0)
      next  == IF up THEN s.ptr[above] ELSE above
      t     == IF up THEN [s EXCEPT !.ptr[above] = 0, !.size[above] = 0] ELSE s
  IN IF p + s.size[p] = bp
     THEN [t EXCEPT !.size[p] = @ + total, !.ptr[p] = next, !.size[bp] = 0]
     ELSE [t EXCEPT !.size[bp] = total, !.ptr[bp] = next, !.ptr[p] = bp]

Freed(s, bp) ==
  LET p == Behind(s, bp) IN [JoinedTo(s, p, bp) EXCEPT !.freep = p]

\* morecore: the end that __malloc_init gets is the first byte behind the
\* segment (sys_init.c), and it adds one.
TopByte == HeaderSize * Units + Odd + 1
Room(s, nu) == HeaderSize * (s.bss - 1 + MoreUnits(nu)) <= TopByte
Grown(s, nu) ==
  Freed([s EXCEPT !.bss = @ + MoreUnits(nu), !.size[s.bss] = MoreUnits(nu)], s.bss)
-----------------------------------------------------------------------------
MallocInit ==
  /\ h = [ptr |-> [c \in Cell |-> 0], size |-> [c \in Cell |-> 0],
          freep |-> NULL, bss |-> 1]
  /\ live = {}

Take(s, nu) ==
  /\ h' = Cut(s, nu).heap
  /\ live' = live \cup {[at |-> Cut(s, nu).at, n |-> nu]}

Malloc(bytes) ==
  LET nu == NUnits(bytes)
      s  == WithBase(h)
  IN /\ Cardinality(live) < MaxLive
     /\ \/ Hits(s, nu) # {} /\ Take(s, nu)
        \/ Hits(s, nu) = {} /\ Room(s, nu) /\ Take(Grown(s, nu), nu)

\* malloc has gone round the ring and morecore has no more.
NoneLeft(bytes) ==
  LET s == WithBase(h) IN Hits(s, NUnits(bytes)) = {} /\ ~Room(s, NUnits(bytes))

MallocNull(bytes) ==
  /\ NoneLeft(bytes)
  /\ h' = WithBase(h)
  /\ UNCHANGED live

FreeBlock(b) ==
  /\ h' = Freed(h, b.at)
  /\ live' = live \ {b}

MallocNext ==
  \/ \E bytes \in Requests : Malloc(bytes) \/ MallocNull(bytes)
  \/ \E b \in live : FreeBlock(b)

MallocSpec == MallocInit /\ [][MallocNext]_mallocVars
-----------------------------------------------------------------------------
Ring == {Node(h, 0, k) : k \in 0 .. Longest}
FreeExtent(p) == p .. p + h.size[p] - 1
Extents == {FreeExtent(p) : p \in Ring \ {0}} \cup {b.at .. b.at + b.n - 1 : b \in live}

MallocTypeOK ==
  /\ h \in [ptr : [Cell -> Cell], size : [Cell -> Cell],
            freep : Cell \cup {NULL}, bss : Nat]
  /\ live \subseteq [at : 1 .. Units, n : 2 .. Units]

\* What morecore has given out is the free blocks and the blocks in use, each
\* unit in exactly one of them, all on one ring or in use: both loops of free
\* stop only because of it.  None of it lies beyond the heap segment, although
\* __malloc_top is two bytes behind its last byte.  The header of a block in
\* use still says how long it is: free reads it there.
Tiled ==
  h.freep # NULL =>
    /\ UNION Extents = 1 .. h.bss - 1 /\ h.bss - 1 <= Units
    /\ \A x, y \in Extents : x # y => x \cap y = {}
    /\ Cardinality(Extents) = Cardinality(Ring) - 1 + Cardinality(live)
    /\ \A b \in live : h.size[b.at] = b.n

\* malloc gives up only when no run of free units is long enough, wherever
\* the last search ended: free has joined what touches.
HonestNull ==
  \A bytes \in Requests : NoneLeft(bytes) =>
    \A c \in 1 .. h.bss - NUnits(bytes) :
      \E u \in c .. c + NUnits(bytes) - 1 : \E b \in live :
        u \in b.at .. b.at + b.n - 1
=============================================================================
