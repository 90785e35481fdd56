-------------------------------- MODULE Pools --------------------------------
(***************************************************************************)
(* The virtual memory pools of an image and the tracker that watches over   *)
(* all of them (tools/pyelf/weaver/pools.py).  Each pool is an allocator    *)
(* with its own free list; what keeps the pools apart is the bookkeeping    *)
(* of Pools and AllocatedMemoryTracker.  A zone is a pool that gets its      *)
(* memory from another one in windows.  The physical pools are the same     *)
(* without zones and without a direct pool.  Memory given by base and size   *)
(* has all rights, so cache policies play no part here (see Allocator).     *)
(***************************************************************************)
EXTENDS Regions, FiniteSets

CONSTANTS
  Virtual,  \* the pools of the specification
  Direct,   \* the pool "direct", which merge creates before all others
  Memory,   \* the regions a pool is given
  Zones,    \* the zones, which have a pool's name as well
  Under,    \* the pool that a zone gets its windows from
  Window,   \* WINDOW_SIZE
  Claims,   \* bound: the segments that may belong to a zone, and
  MaxClaims,\* how many each has
  Directs,  \* the regions of physical pools declared direct
  Segments, \* the segments with a fixed address: base, size
  Sizes,    \* the sizes of those without
  Within    \* whether a direct region always lies in one region of one pool

ASSUME PoolsAssumption ==
  /\ IsFiniteSet(Virtual \cup Zones)
  /\ Direct \notin Virtual \cup Zones /\ Virtual \cap Zones = {}
  /\ Under \in [Zones -> Virtual]
  /\ Window \in Nat \ {0} /\ Window % Page = 0
  /\ \A r \in Memory \cup Directs : r \in Region /\ Whole(r)
  /\ Segments \subseteq [base : Nat, size : Nat \ {0}]
  /\ Sizes \subseteq Nat \ {0} /\ Within \in BOOLEAN

VARIABLES
  phase,          \* pools, direct, marks, prime, layout, or stopped by an error
  free, full,     \* the free and full list of each pool
  poolmem,        \* virtual_pool_mem.mem: what was given to any pool
  mem,            \* allocated_virtual.mem: what was marked or allocated
  marking_direct, \* the flag of allocated_virtual
  memsections,    \* of each zone, those with a fixed address
  primed,         \* the zones that know their pool
  windows,        \* of each zone
  segs            \* history: what segments were accepted, and for which zone

zones == <<memsections, primed, windows>>
vars  == <<phase, free, full, poolmem, mem, marking_direct, zones, segs>>
-----------------------------------------------------------------------------
NoZone == "none"
AllPools == Virtual \cup {Direct} \cup Zones
Extent(first, last) == [first |-> first, last |-> last]
Bytes(m)  == Extent(m.base, m.base + m.size - 1)
Segment(r, z) == [first |-> r.first, last |-> r.last, zone |-> z]
Claim(r)  == [base |-> r.first, size |-> r.last - r.first + 1]

\* The whole pages that mark takes, which is what it reports.
Pages(m) == Extent(AlignDown(m.base, Page), MarkEnd(m))

\* AllocatedMemoryTracker.__check; exact allows the same range once more.
ClashInside(new, tracked, exact) ==  \* seeded fault: only the base is looked at
  \E t \in tracked : ~(exact /\ t = new) /\ new.first \in t.first .. t.last
Clash(new, tracked, exact) ==
  Overlaps(new, IF exact THEN tracked \ {new} ELSE tracked)

Refuse ==
  /\ phase' = "stopped"
  /\ UNCHANGED <<free, full, poolmem, mem, marking_direct, zones, segs>>

Before(p, q) ==
  LET order == [pools |-> 1, direct |-> 2, marks |-> 3, prime |-> 4, layout |-> 5,
                stopped |-> 6]
  IN order[p] <= order[q]
-----------------------------------------------------------------------------
Init ==
  /\ phase = "pools"
  /\ free = [p \in AllPools |-> {}] /\ full = [p \in AllPools |-> {}]
  /\ poolmem = {} /\ mem = {}
  /\ marking_direct = FALSE
  /\ memsections = [z \in Zones |-> <<>>] /\ primed = {}
  /\ windows = [z \in Zones |-> {}]
  /\ segs = {}

\* Allocator.add_memory for pool p, over the free list list.
Given(p, new, list) ==
  /\ free' = [list EXCEPT ![p] = Merged(@ \cup {new})]
  /\ full' = [full EXCEPT ![p] = Merged(@ \cup {new})]

\* add_virtual_memory.  All that any pool but "direct" ever gets is in
\* poolmem, so add_memory's own test finds nothing new.
AddVirtual(p, new) ==
  /\ phase = "pools"
  /\ IF Clash(Extent(new.first, new.last), poolmem, FALSE) THEN Refuse
     ELSE /\ poolmem' = poolmem \cup {Extent(new.first, new.last)}
          /\ Given(p, new, free)
          /\ UNCHANGED <<phase, mem, marking_direct, zones, segs>>

\* remove_virtual: the pools are asked in the order of a Python dict, and
\* none after the first that marks anything.  The first region that is hit
\* takes the flag back; further ones are tracked like a segment.
Taken(p, new) == [free EXCEPT ![p] = Unmarked(@, Claim(new))]
RemoveVirtualNot(new, list, tracked, flag) ==  \* seeded fault: nothing is taken
  list = free /\ tracked = {} /\ flag = FALSE
RemoveVirtual(new, list, tracked, flag) ==
  LET asked == {p \in AllPools : Hit(free[p], Claim(new)) # {}} IN
  \/ /\ asked = {} /\ list = free /\ tracked = {} /\ flag = TRUE
  \/ \E p \in asked :
       /\ list = Taken(p, new) /\ flag = FALSE
       /\ tracked = IF Cardinality(Hit(free[p], Claim(new))) = 1 THEN {}
                    ELSE {Pages(Claim(new))}

\* add_direct_memory, for each region of a direct physical pool.
AddDirect(new) ==
  /\ Before(phase, "direct")
  /\ Within => \E p \in Virtual : \E r \in free[p] :
                 r.first <= new.first /\ new.last <= r.last
  /\ \E list \in {free} \cup {Taken(p, new) : p \in AllPools},
        tracked \in {{}, {Pages(Claim(new))}}, flag \in BOOLEAN :
       /\ RemoveVirtual(new, list, tracked, flag)
       /\ IF Overlaps(new, full[Direct])
             \/ \E t \in tracked : Clash(t, mem, TRUE)
          THEN Refuse
          ELSE /\ Given(Direct, new, list)
               /\ mem' = mem \cup tracked /\ marking_direct' = flag
               /\ phase' = "direct"
               /\ UNCHANGED <<poolmem, zones, segs>>

\* How many of the regions that are hit are reported: not the first one while
\* the flag is up, which it takes back.
ReportsLess(hits) == Cardinality(hits) - 1  \* seeded fault: the flag stays up
Reports(hits) == Cardinality(hits) - (IF marking_direct THEN 1 ELSE 0)

\* add_memsection of the image and mark_virtual: every pool is asked.  A
\* segment outside all of them is only compared with what is tracked.  A zone
\* remembers its segments.
MarkVirtual(m, z) ==
  LET hits    == UNION {{p} \X Hit(free[p], m) : p \in AllPools}
      refused == IF hits = {} THEN Clash(Bytes(m), mem, TRUE)
                 ELSE Reports(hits) > 0 /\ Clash(Pages(m), mem, TRUE)
  IN /\ Before(phase, "marks")
     /\ z \in Zones => m \in Claims /\ Len(memsections[z]) < MaxClaims
     /\ IF refused THEN Refuse
        ELSE /\ free' = [p \in AllPools |-> Unmarked(free[p], m)]
             /\ mem' = IF hits # {} /\ Reports(hits) > 0 THEN mem \cup {Pages(m)} ELSE mem
             /\ marking_direct' = (marking_direct /\ hits = {})
             /\ memsections' = [x \in Zones |-> IF x = z THEN Append(memsections[x], m)
                                                ELSE memsections[x]]
             /\ segs' = segs \cup {Segment(Bytes(m), z)}
             /\ phase' = "marks"
             /\ UNCHANGED <<full, poolmem, primed, windows>>

\* Zone.prime: the segments in order of address, those in one window together.
\* Each window moves from the pool to the zone, but for the segments; an
\* assertion fails where one reaches beyond its window.
WindowAt(base) == Extent(AlignDown(base, Window), AlignDown(base, Window) + Window - 1)

Holes(z, w) ==
  LET ms       == memsections[z]
      here     == {i \in DOMAIN ms : WindowAt(ms[i].base) = w}
      Place(i) == Cardinality({j \in here : \/ ms[j].base < ms[i].base
                                            \/ ms[j].base = ms[i].base /\ j <= i})
  IN [k \in 1 .. Cardinality(here) |-> HoleOf(ms[CHOOSE i \in here : Place(i) = k])]

\* mark_window, with the assertions about holes.
CanMark(pool, w, holes) ==
  /\ \E r \in full[pool] : r.first <= w.first /\ w.last <= r.last
  /\ \A i \in DOMAIN holes : {holes[i].first, holes[i].last} \subseteq w.first .. w.last
  /\ Filled(free[pool], w, holes)

Prime(z) ==
  LET pool == Under[z]
      new  == {WindowAt(m.base) : m \in Range(memsections[z])}
      got  == UNION {Removed(free[pool], w) : w \in new}
  IN /\ Before(phase, "prime") /\ z \notin primed
     /\ IF \E w \in new : ~CanMark(pool, w, Holes(z, w)) THEN Refuse
        ELSE /\ free' = [free EXCEPT ![z] = Merged(got),
                           ![pool] = FoldSet(LAMBDA w, l : WithoutWindow(l, w), @, new)]
             /\ full' = [full EXCEPT ![z] = Merged(got)]
             /\ windows' = [windows EXCEPT ![z] = new]
             /\ primed' = primed \cup {z} /\ phase' = "prime"
             /\ UNCHANGED <<poolmem, mem, marking_direct, memsections, segs>>

\* alloc_virtual of one page-aligned item, from the free lists given: the
\* lowest region that holds it, of which partial pages are lost; the tracker
\* gets the bytes.
Fit(list, size) == {r \in list : r.first + size - 1 <= r.last}
Item(list, size) == [base |-> Lowest(Fit(list, size)).first, size |-> size]
Possible(list, size) ==
  Fit(list, size) # {} /\ ~Clash(Bytes(Item(list, size)), mem, FALSE)

Allocate(p, size, frees) ==
  LET r     == Lowest(Fit(frees[p], size))
      m     == Item(frees[p], size)
      above == AlignUp(r.first + size, Page)
  IN /\ free' = [frees EXCEPT ![p] =
                   (@ \ {r}) \cup (IF above < r.last THEN {[r EXCEPT !.first = above]} ELSE {})]
     /\ mem' = mem \cup {Bytes(m)}
     /\ segs' = segs \cup {Segment(Bytes(m), IF p \in Zones THEN p ELSE NoZone)}
     /\ phase' = "layout"
     /\ UNCHANGED <<poolmem, marking_direct, memsections, primed>>

Layout == Before(phase, "layout") /\ primed = Zones

AllocVirtual(p, size) ==
  /\ Layout
  /\ p \in Zones => Fit(free[p], size) # {}
  /\ IF Possible(free[p], size)
     THEN Allocate(p, size, free) /\ UNCHANGED <<full, windows>> ELSE Refuse

\* Zone.alloc after a failure: a window from the pool, which the tracker is
\* told to overlook, and the item once more.
HoldsWindow(r) == AlignUp(r.first, Window) + Window - 1 <= r.last
ZoneAlloc(z, size) ==
  LET pool == Under[z]
      from == Lowest({r \in free[pool] : HoldsWindow(r)})
      w    == WindowAt(AlignUp(from.first, Window))
      new  == [from EXCEPT !.first = w.first, !.last = w.last]
      list == Merged(free[z] \cup {new})
  IN /\ Layout /\ Fit(free[z], size) = {}
     /\ IF (\E r \in free[pool] : HoldsWindow(r)) /\ Possible(list, size)
        THEN /\ Allocate(z, size, [free EXCEPT ![pool] = WithoutWindow(@, w), ![z] = list])
             /\ full' = [full EXCEPT ![z] = Merged(@ \cup {new})]
             /\ windows' = [windows EXCEPT ![z] = @ \cup {w}]
        ELSE Refuse

\* The order of merge.py: virtual pools, physical pools, the kernel and the
\* cells with their fixed addresses, the layout, which primes the zones first.
Next ==
  \/ \E p \in Virtual, new \in Memory : AddVirtual(p, new)
  \/ \E new \in Directs : AddDirect(new)
  \/ \E m \in Segments, z \in Zones \cup {NoZone} : MarkVirtual(m, z)
  \/ \E z \in Zones : Prime(z)
  \/ \E p \in AllPools, size \in Sizes : AllocVirtual(p, size)
  \/ \E z \in Zones, size \in Sizes : ZoneAlloc(z, size)

Spec == Init /\ [][Next]_vars
-----------------------------------------------------------------------------
Disjoint(a, b) == a.last < b.first \/ b.last < a.first

\* Lists of whole pages; nothing is free in a pool that it was not given.
TypeOK ==
  /\ phase \in {"pools", "direct", "marks", "prime", "layout", "stopped"}
  /\ primed \subseteq Zones
  /\ \A p \in AllPools : \A r \in free[p] :
       /\ r \in Region /\ Whole(r)
       /\ \E x \in full[p] : x.first <= r.first /\ r.last <= x.last
  /\ marking_direct \in BOOLEAN

\* "Ensure no overlaps in memory pools": no byte is free in two pools, not
\* even after regions have moved to the direct pool (remove_virtual).
PoolsApart ==
  \A p, q \in AllPools : p # q =>
    \A r \in free[p], x \in free[q] : Disjoint(r, x)

\* "... or memory allocations across pools": no byte of a pool belongs to two
\* segments, unless they are the same range.  Segments are compared when they
\* hit a pool and when they do not, and the pools differ; a byte outside every
\* pool is nobody's to give.
PoolBytes == UNION {x.first .. x.last : x \in UNION {full[p] : p \in AllPools}}
SegmentsApart ==
  \A s, t \in segs : [s EXCEPT !.zone = t.zone] # t =>
    (s.first .. s.last) \cap (t.first .. t.last) \cap PoolBytes = {}

\* A page of a segment is free in no pool, and what the tracker knows covers
\* every segment that touches memory of a pool: the check of later segments,
\* inside or outside the pools, relies on nothing else.
TrackerKnows ==
  \A s \in segs :
    /\ \A p \in AllPools : \A r \in free[p] : PagesOf(r) \cap PagesOf(s) = {}
    /\ (\E p \in AllPools : \E x \in full[p] : PagesOf(x) \cap PagesOf(s) # {})
         => \E t \in mem : t.first <= s.first /\ s.last <= t.last

\* A window belongs to one zone: none of it is free in another pool, a segment
\* in it is one of the zone's, and what is no such segment is free in the zone.
\* The allocation of a window goes unseen by the tracker and prime compares
\* nothing with it: only the walk through the window finds a stranger.
WindowsKept ==
  \A z \in Zones : \A w \in windows[z] :
    LET own == {s \in segs : s.zone = z} IN
    /\ \A p \in AllPools \ {z} : \A r \in free[p] : Disjoint(r, w)
    /\ \A s \in segs : Disjoint(s, w) \/ [s EXCEPT !.zone = z] \in own
    /\ \A b \in w.first .. w.last :
         \/ \E r \in free[z] : b \in r.first .. r.last
         \/ \E s \in own : b \div Page \in PagesOf(s)
=============================================================================
