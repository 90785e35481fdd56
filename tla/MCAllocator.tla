----------------------------- MODULE MCAllocator -----------------------------
(* The allocator on pages of 4 bytes.                                      *)
EXTENDS Allocator
CONSTANTS cached, uncached

All == {cached, uncached}
Mem(first, last) == [first |-> first, last |-> last, rights |-> All]
Only(first, last, policy) ==
  [first |-> first, last |-> last, rights |-> {policy}]
At(base, size) == [base |-> base, size |-> size, policy |-> cached]
Thing(size, align, offset, addr) ==
  [size |-> size, align |-> align, offset |-> offset, policy |-> cached,
   addr |-> addr]
Group(distance, items) == [distance |-> distance, items |-> items]

\* Two regions with a gap of a page, one that closes the gap, and a page
\* that may only be cached.
MCOffers == {Mem(0, 11), Mem(16, 27), Mem(12, 15), Only(32, 35, cached)}
\* Inside a page, across two pages, across two regions, a single byte, and
\* one that the page's rights forbid.
MCMarks == {At(5, 2), At(18, 4), At(8, 12), At(32, 1),
            [base |-> 32, size |-> 4, policy |-> uncached]}
\* An item that is not page-sized, one with an offset into an aligned range,
\* two that must be near, two that fit side by side in a page, two
\* that need a window once the memory is in use, and one that goes close to a
\* marked range.
MCGroups ==
  {Group(None, <<Thing(3, 4, 0, None)>>),
   Group(None, <<Thing(5, 8, 4, None)>>),
   Group(2, <<Thing(3, 4, 0, None), Thing(8, 4, 0, None)>>),
   Group(None, <<Thing(2, 1, 0, None), Thing(3, 1, 0, None)>>),
   Group(None, <<Thing(7, 4, 0, None), Thing(9, 8, 0, None)>>),
   Group(4, <<Thing(2, 4, 0, 5), Thing(4, 4, 0, None)>>)}

\* What a zone can fetch from its pool: a window that touches the last page.
MCWindows == {Mem(36, 47)}

\* A range that ends with the first byte of a page.
TailMarks == {At(2, 7)}
\* A region around one that is already there.
NestedOffers == {Mem(4, 7), Mem(0, 11)}
\* A kernel at the top of the memory, and its heap.
TopMarks == {At(20, 8)}
TopGroups == {Group(4, <<Thing(8, 4, 0, 20), Thing(4, 4, 0, None)>>)}
\* Adjacent regions with different rights, and an item for the first only.
MixedOffers == {Mem(0, 3), Only(4, 7, uncached)}
MixedGroups == {Group(None, <<Thing(8, 4, 0, None)>>)}
=============================================================================
