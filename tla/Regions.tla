------------------------------- MODULE Regions -------------------------------
(***************************************************************************)
(* The regions of the weaver's free lists and what the loops of            *)
(* tools/pyelf/weaver/allocator.py do to one of them.  A region is a range  *)
(* of byte addresses with the cache policies its memory type allows; a     *)
(* list that the code keeps sorted by address is a set of regions, and its *)
(* first element is the lowest.                                            *)
(***************************************************************************)
EXTENDS Integers, Sequences, SequencesExt

CONSTANTS Page,     \* min_alloc_size
          Policies  \* the cache policies; a memory type is the set it allows

ASSUME PageAssumption == Page \in Nat \ {0, 1}

Region == [first : Nat, last : Nat, rights : SUBSET Policies]
Whole(r) == r.first % Page = 0 /\ (r.last + 1) % Page = 0 /\ r.first < r.last

AlignDown(a, n) == a - (a % n)
AlignUp(a, n)   == AlignDown(a + n - 1, n)

Lowest(S)  == CHOOSE r \in S : \A x \in S : r.first <= x.first

\* Allocator.__merge over the sorted list: each maximal chain of adjacent
\* regions becomes one, with the memory type of the first.
Merged(S) ==
  LET Heads   == {r \in S : \A x \in S : x.last + 1 # r.first}
      Ends(r) == {x \in S : x.first >= r.first
                            /\ \A y \in S : y.first # x.last + 1}
  IN {[r EXCEPT !.last = Lowest(Ends(r)).last] : r \in Heads}

\* The overlap test of add_memory: one of the new region's ends lies in a
\* region of the full list.
Overlaps(new, full) ==
  \E r \in full : new.first \in r.first .. r.last
                  \/ new.last \in r.first .. r.last

\* The last byte mark removes: the end of the last page, where the end of
\* the region is rounded up, except when the region is a single byte.
MarkEnd(m) ==
  LET end == m.base + m.size - 1
  IN AlignUp(IF end = m.base THEN end + 1 ELSE end, Page) - 1

\* What is left of a free region r without the bytes first .. last.
Rest(r, first, last) ==
  (IF r.first < first THEN {[r EXCEPT !.last = first - 1]} ELSE {})
  \cup (IF last < r.last THEN {[r EXCEPT !.first = last + 1]} ELSE {})

\* The regions of a free list that mark touches, its base rounded down.
Hit(list, m) ==
  LET base == AlignDown(m.base, Page) IN
  {r \in list : base \in r.first .. r.last \/ r.first \in base .. MarkEnd(m)}

\* The free list that mark leaves.
Unmarked(list, m) ==
  (list \ Hit(list, m))
  \cup UNION {Rest(r, AlignDown(m.base, Page), MarkEnd(m)) : r \in Hit(list, m)}

\* mark_window: the whole pages of a hole, a single byte at the start of one
\* not among them.
HoleOf(m) == [first |-> AlignDown(m.base, Page),
              last |-> AlignUp(m.base + m.size - 1, Page) - 1]

\* The loop goes up through the window: what comes next must be free or be
\* the next hole, and no hole may reach into free memory.  Holes that are left
\* when the end is reached go unnoticed.
Stuck == -1
FilledAnyway(list, window, holes) ==  \* seeded fault: what is no hole is skipped
  \A h \in {holes[i] : i \in DOMAIN holes}, r \in list :
    h.last < r.first \/ r.last < h.first
Filled(list, window, holes) ==
  LET Past(a)     == IF \E r \in list : a \in r.first .. r.last
                     THEN (CHOOSE r \in list : a \in r.first .. r.last).last + 1 ELSE a
      Through(a, h) ==
        IF a > window.last THEN a
        ELSE IF h.first = Past(a) /\ \A r \in list : r.first \notin h.first .. h.last
        THEN h.last + 1 ELSE Stuck
  IN Past(FoldLeft(Through, window.first, holes)) > window.last

\* The parts of a free list in a window, and what is left of it without them.
In(list, window) == {r \in list : r.first <= window.last /\ window.first <= r.last}
Removed(list, window) ==
  {[r EXCEPT !.first = IF @ < window.first THEN window.first ELSE @,
             !.last  = IF @ > window.last THEN window.last ELSE @] : r \in In(list, window)}
WithoutWindow(list, window) ==
  (list \ In(list, window))
  \cup UNION {Rest(r, window.first, window.last) : r \in In(list, window)}

PagesOf(r) == r.first \div Page .. r.last \div Page
=============================================================================
