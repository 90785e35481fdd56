------------------------------ MODULE MCPools ------------------------------
(* Pools on pages of 4 bytes.                                              *)
EXTENDS Pools, TLC
CONSTANTS low, high, zone, other

Mem(first, last) == [first |-> first, last |-> last, rights |-> {}]
Seg(base, size) == [base |-> base, size |-> size]

\* Two regions that touch, one above a gap, and one that overlaps the first.
MCMemory == {Mem(0, 7), Mem(8, 15), Mem(20, 31), Mem(4, 11)}
\* Inside a region of a pool.
MCDirects == {Mem(4, 7), Mem(24, 27)}
\* Inside a page, across the border of two windows, the first page again, out
\* of every pool, the end of one region and the page after it, a whole page.
MCSegments == {Seg(5, 2), Seg(6, 6), Seg(4, 3), Seg(32, 4), Seg(28, 8), Seg(12, 4)}
MCSizes == {4, 6}

\* Two zones over one pool, and the segments they may have: one in either of
\* two windows, and one that is in neither.
MCUnder == [z \in {zone, other} |-> low]
ZonesAlike == Permutations({zone, other})
MCClaims == {Seg(5, 2), Seg(6, 6), Seg(12, 4)}
NoUnder == [z \in {} |-> low]

\* A direct region that belongs to no pool.
FarDirects == {Mem(40, 43)}
FarSegments == {Seg(8, 4), Seg(9, 2)}
\* A segment around another.
NestedSegments == {Seg(4, 4), Seg(0, 12)}
\* A part of a page, and that whole page.
AgainSegments == {Seg(4, 3), Seg(4, 4)}
\* A direct region that takes from two pools.
SpanDirects == {Mem(4, 11)}
=============================================================================
