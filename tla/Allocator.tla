------------------------------ MODULE Allocator ------------------------------
(***************************************************************************)
(* The weaver's first-fit memory allocator, and the zones built on it      *)
(* (tools/pyelf/weaver/allocator.py; Zone.alloc of pools.py).              *)
(*                                                                         *)
(* alloc() places the items of a group one by one and may start over; each *)
(* round of its loops is a step.                                           *)
(***************************************************************************)
EXTENDS Regions, FiniteSets

CONSTANTS
  None,     \* Python's None
  Offers,   \* the regions add_memory may be called with
  Marks,    \* the calls of mark: base, size, policy
  Groups,   \* the groups to allocate: distance, and a sequence of items
  Windows   \* what a zone's pool has to give; empty for a plain pool

ASSUME AllocatorAssumption ==
  /\ None \notin Int
  /\ Offers \cup Windows \subseteq Region
  /\ \A r \in Offers \cup Windows : Whole(r)
  /\ Marks \subseteq [base : Nat, size : Nat \ {0}, policy : Policies]
  /\ \A g \in Groups :
       /\ g.items # <<>> /\ g.distance \in Nat \cup {None}
       /\ g.items \in Seq([size : Nat \ {0}, align : Nat \ {0}, offset : Nat,
                           policy : Policies, addr : Nat \cup {None}])

VARIABLES
  freelist, fulllist, \* the regions that are free, and all that were added
  windows,            \* the windows the zone's pool still has
  pc,                 \* idle, placing, grow, or stopped by an exception
  job,                \* the group being placed: the locals of alloc
  marked, placed      \* history: the marks made, the groups placed

vars == <<freelist, fulllist, windows, pc, job, marked, placed>>
-----------------------------------------------------------------------------
\* The end of alloc: partial pages leave the free list, and regions that
\* are rounded out of existence with them.
WholePagesOut(S) ==  \* seeded fault: rounded outwards
  {[r EXCEPT !.first = AlignDown(r.first, Page),
             !.last = AlignUp(r.last + 1, Page) - 1] : r \in S}
WholePages(S) ==
  LET Rounded == {[r EXCEPT !.first = AlignUp(r.first, Page),
                            !.last = AlignDown(r.last + 1, Page) - 1] : r \in S}
  IN {r \in Rounded : r.first < r.last}

\* __simple_alloc: where an item would go in region r, and whether it fits.
StartFar(r, item) ==  \* seeded fault: an exact fit is bumped up
  AlignDown(r.first, item.align) + item.offset + item.align
Start(r, item) ==
  LET start == AlignDown(r.first, item.align) + item.offset
  IN IF start < r.first THEN start + item.align ELSE start
Fits(r, item) == Start(r, item) + item.size - 1 <= r.last

\* The parts of r that __simple_alloc keeps below and above an item at
\* addr; a remainder of a single byte is dropped.
Below(r, addr) ==
  IF r.first < addr - 1 THEN {[r EXCEPT !.last = addr - 1]} ELSE {}
Above(r, addr, size) ==
  IF addr + size < r.last THEN {[r EXCEPT !.first = addr + size]} ELSE {}
-----------------------------------------------------------------------------
NoJob == [group |-> None, addrs |-> <<>>, rest |-> {}, kept |-> {},
          popped |-> {}, grown |-> FALSE]

\* __group_alloc called for group g with the free list S.
Round(g, S, popped, grown) ==
  [group |-> g, addrs |-> <<>>, rest |-> S, kept |-> {}, popped |-> popped,
   grown |-> grown]

Init ==
  /\ freelist = {} /\ fulllist = {} /\ windows = Windows
  /\ pc = "idle" /\ job = NoJob
  /\ marked = {} /\ placed = {}

\* The effect of add_memory on the two lists, both sorted and merged.
Add(new) ==
  /\ ~Overlaps(new, fulllist)
  /\ fulllist' = Merged(fulllist \cup {new})
  /\ freelist' = Merged(freelist \cup {new})

\* The pools are filled before anything is marked, and marks are made before
\* the layout (collect_image_objects and merge of merge.py).
Collecting == pc = "idle" /\ marked = {} /\ placed = {}
Declaring  == pc = "idle" /\ placed = {}

AddMemory(new) ==
  /\ Collecting
  /\ Add(new)
  /\ UNCHANGED <<windows, pc, job, marked, placed>>

AddMemoryRefused(new) ==
  /\ Collecting
  /\ Overlaps(new, fulllist)
  /\ pc' = "stopped"
  /\ UNCHANGED <<freelist, fulllist, windows, job, marked, placed>>

Mark(m) ==
  /\ Declaring
  /\ \A r \in Hit(freelist, m) : m.policy \in r.rights
  /\ freelist' = Unmarked(freelist, m)
  /\ marked' = marked \cup {m}
  /\ UNCHANGED <<fulllist, windows, pc, job, placed>>

MarkRefused(m) ==
  /\ Declaring
  /\ \E r \in Hit(freelist, m) : m.policy \notin r.rights
  /\ pc' = "stopped"
  /\ UNCHANGED <<freelist, fulllist, windows, job, marked, placed>>

\* A group is allocated once, and the addresses that are fixed beforehand
\* have been marked (ImageSegment, ImageMemsection of image.py).
Alloc(g) ==
  /\ pc = "idle"
  /\ \A p \in placed : p.group # g
  /\ \A i \in DOMAIN g.items :
       g.items[i].addr # None =>
         \E m \in marked : m.base = g.items[i].addr /\ m.size = g.items[i].size
  /\ pc' = "placing" /\ job' = Round(g, freelist, {}, FALSE)
  /\ UNCHANGED <<freelist, fulllist, windows, marked, placed>>

\* The item whose turn it is, and whether addr is too far from the last one.
Item == job.group.items[Len(job.addrs) + 1]

TooFarNever(addr) == FALSE  \* seeded fault: no distance is too large
TooFar(addr) ==
  LET n == Len(job.addrs) IN
  /\ n > 0 /\ job.group.distance # None
  /\ addr - (job.addrs[n] + job.group.items[n].size) > job.group.distance

\* An AllocatorException leaves alloc: a zone asks its pool for a window
\* and tries once more, any other caller gives up.  The groups that must stay
\* together, the kernel with its heap and with its init script, are placed by
\* a pool and by no zone.
InZone ==
  Windows # {} /\ (job.group.distance = None \/ Len(job.group.items) = 1)
Fail ==
  /\ pc' = IF InZone /\ ~job.grown THEN "grow" ELSE "stopped"
  /\ UNCHANGED <<freelist, job>>

\* The item goes to addr; or it is too far away, and the group starts over
\* without the first region of the free list (which curr_freelist aliases).
PopCopies(S) ==  \* seeded fault: it stays in the list as well
  /\ freelist' = freelist
  /\ job' = Round(job.group, freelist, job.popped \cup {Lowest(S)}, job.grown)
Pop(S) ==
  /\ freelist' = freelist \ {Lowest(S)}
  /\ job' = Round(job.group, freelist', job.popped \cup {Lowest(S)}, job.grown)

Settle(addr, rest, kept) ==
  \/ /\ ~TooFar(addr)
     /\ job' = [job EXCEPT !.addrs = Append(@, addr),
                           !.rest = rest, !.kept = kept]
     /\ UNCHANGED <<freelist, pc>>
  \/ /\ TooFar(addr)
     /\ IF Cardinality(freelist) <= 1 THEN Fail ELSE Pop(freelist) /\ UNCHANGED pc

PlaceItem ==
  /\ pc = "placing" /\ Len(job.addrs) < Len(job.group.items)
  /\ Item.addr = None
  /\ LET fit  == {r \in job.rest : Fits(r, Item)}
         r    == Lowest(fit)
         addr == Start(r, Item)
     IN IF fit = {} \/ (fit # {} /\ Item.policy \notin r.rights)
        THEN Fail
        ELSE Settle(addr,
                    Above(r, addr, Item.size)
                      \cup {x \in job.rest : x.first > r.first},
                    job.kept \cup Below(r, addr)
                      \cup {x \in job.rest : x.first < r.first})
  /\ UNCHANGED <<fulllist, windows, marked, placed>>

\* An item with an address of its own: the search goes on above it, or from
\* where it was when the address is above all free memory.
FixedItem ==
  /\ pc = "placing" /\ Len(job.addrs) < Len(job.group.items)
  /\ Item.addr # None
  /\ LET ahead  == {x \in job.rest : x.last >= Item.addr}
         passed == IF ahead = {} THEN {} ELSE job.rest \ ahead
     IN IF \E x \in ahead : x.first <= Item.addr
        THEN pc' = "stopped" /\ UNCHANGED <<freelist, job>>  \* assert base > addr
        ELSE Settle(Item.addr, job.rest \ passed, job.kept \cup passed)
  /\ UNCHANGED <<fulllist, windows, marked, placed>>

FinishKeeps ==  \* seeded fault: what was put by is forgotten
  /\ pc = "placing" /\ Len(job.addrs) = Len(job.group.items)
  /\ freelist' = WholePages(job.kept \cup job.rest)
  /\ placed' = placed \cup {[group |-> job.group, addrs |-> job.addrs]}
  /\ pc' = "idle" /\ job' = NoJob
  /\ UNCHANGED <<fulllist, windows, marked>>

\* Every item has its place: the free list is put together again.
Finish ==
  /\ pc = "placing" /\ Len(job.addrs) = Len(job.group.items)
  /\ freelist' = WholePages(job.popped \cup job.kept \cup job.rest)
  /\ placed' = placed \cup {[group |-> job.group, addrs |-> job.addrs]}
  /\ pc' = "idle" /\ job' = NoJob
  /\ UNCHANGED <<fulllist, windows, marked>>

\* Zone.alloc after the first failure.
Grow ==
  /\ pc = "grow"
  /\ \E w \in windows :
       /\ windows' = windows \ {w}
       /\ Add(w)
       /\ job' = Round(job.group, freelist', {}, TRUE)
  /\ pc' = "placing"
  /\ UNCHANGED <<marked, placed>>

GrowRefused ==
  /\ pc = "grow"
  /\ windows = {} \/ \E w \in windows : Overlaps(w, fulllist)
  /\ pc' = "stopped"
  /\ UNCHANGED <<freelist, fulllist, windows, job, marked, placed>>

Step == PlaceItem \/ FixedItem \/ Finish \/ Grow \/ GrowRefused

Next ==
  \/ \E new \in Offers : AddMemory(new) \/ AddMemoryRefused(new)
  \/ \E m \in Marks : Mark(m) \/ MarkRefused(m)
  \/ \E g \in Groups : Alloc(g)
  \/ Step

\* alloc is straight-line code: it goes on until it returns or raises.
Spec == Init /\ [][Next]_vars /\ WF_vars(Step)
-----------------------------------------------------------------------------
(* What the allocator promises.                                            *)


\* The items of placed groups that the allocator found a place for.
PlacedItems ==
  UNION {{[first |-> p.addrs[i], last |-> p.addrs[i] + p.group.items[i].size - 1,
           group |-> p.group, item |-> i, policy |-> p.group.items[i].policy] :
            i \in {j \in DOMAIN p.addrs : p.group.items[j].addr = None}} :
           p \in placed}
MarkedRanges ==
  {[first |-> m.base, last |-> m.base + m.size - 1] : m \in marked}

\* The free and full lists hold whole pages and the locals of alloc are those
\* of a group in progress.
TypeOK ==
  /\ \A r \in freelist \cup fulllist \cup job.popped : r \in Region /\ Whole(r)
  /\ pc \in {"idle", "placing", "grow", "stopped"}
  /\ job.rest \cup job.kept \subseteq Region
  /\ marked \subseteq Marks /\ windows \subseteq Windows
  /\ \A p \in placed : /\ p.group \in Groups
                       /\ DOMAIN p.addrs = DOMAIN p.group.items
                       /\ \A i \in DOMAIN p.addrs : p.addrs[i] \in Nat

\* No byte is free twice, on the free list or among the pieces alloc has cut
\* it into: the group rounds of alloc keep them in three lists that are joined
\* at the end.
FreeApart ==
  LET Apart(S) == \A r, x \in S :
        r # x => r.last < x.first \/ x.last < r.first
      pieces == job.kept \cup job.rest
  IN /\ Apart(freelist \cup job.popped)
     /\ job.kept \cap job.rest = {} /\ Apart(pieces \cup job.popped)

\* "Remove all of the pages containing the region" (mark), "separate calls ...
\* will result in items being allocated in different pages" (the class): no
\* page of an item or a marked range is free again, items never share a byte,
\* and items of different groups never a page.
TakenNotFree ==
  \A t \in PlacedItems \cup MarkedRanges, r \in freelist \cup job.popped :
    PagesOf(t) \cap PagesOf(r) = {}
ItemsApart ==
  \A a, b \in PlacedItems :
    a # b => /\ a.last < b.first \/ b.last < a.first
             /\ a.group # b.group => PagesOf(a) \cap PagesOf(b) = {}
TakenApart == TakenNotFree /\ ItemsApart

\* Every page that was added is free unless an item or a mark touches it,
\* whatever was split, put by and rounded on the way.
NothingLost ==
  pc = "idle" =>
    UNION {PagesOf(r) : r \in fulllist}
      \subseteq UNION {PagesOf(r) : r \in freelist \cup PlacedItems \cup MarkedRanges}

\* "Items in a group are allocated in increasing order of address", "no
\* further than distance bytes" from their neighbours: for groups whose items
\* all have to be placed.
Gap(p, i) ==  \* bytes between item i and the one before it
  LET up   == p.addrs[i] - (p.addrs[i-1] + p.group.items[i-1].size)
      down == p.addrs[i-1] - (p.addrs[i] + p.group.items[i].size)
  IN IF p.addrs[i] > p.addrs[i-1] THEN up ELSE down
Near(p) ==
  p.group.distance # None =>
    \A i \in 2 .. Len(p.addrs) : Gap(p, i) <= p.group.distance
Together ==
  \A p \in placed :
    (\A i \in DOMAIN p.addrs : p.group.items[i].addr = None) =>
      Near(p) /\ \A i \in 2 .. Len(p.addrs) : p.addrs[i] > p.addrs[i-1]

\* The same distance, when an item of the group has its address already: the
\* kernel and its heap (set_kernel_heap_proximity of machine.py).
HeapNearKernel == \A p \in placed : Near(p)

\* "An individual item will be placed at the lowest address that satisfy its
\* size, offset and alignment requirements": below the address a lone item
\* gets, every candidate address has a byte that is not free.
Single(p) == Len(p.addrs) = 1 /\ p.group.items[1].addr = None
LowestPlace ==
  \A p \in placed' \ placed : Single(p) =>
    LET item == p.group.items[1] IN
    \A addr \in 0 .. p.addrs[1] - 1 :
      addr % item.align = item.offset =>
        \E byte \in addr .. addr + item.size - 1 :
          \A r \in freelist : byte \notin r.first .. r.last
LowestFit == [][LowestPlace]_vars

\* An item only goes where the memory it gets was added with rights that
\* allow its cache policy (check_cache_permissions).
RightsKept ==
  \A t \in PlacedItems, o \in Offers \cup Windows :
    PagesOf(t) \cap PagesOf(o) # {} => t.policy \in o.rights

\* alloc returns or raises: every new round has one region less.
AllocReturns == pc \in {"placing", "grow"} ~> pc \in {"idle", "stopped"}
=============================================================================
