--------------------------- MODULE AllocatorProofs ---------------------------
(***************************************************************************)
(* The weaver's allocator keeps its books for every page size, every list  *)
(* of regions, marks and groups: no byte is free twice, nothing taken is   *)
(* free, nothing free is lost, and items go where the class says.          *)
(*                                                                         *)
(* The invariant speaks of bytes, not of regions: merging, cutting and     *)
(* putting regions together changes the lists, and which bytes are on them *)
(* only where a byte is taken.                                             *)
(***************************************************************************)
EXTENDS Allocator, RegionLemmas

\* What the callers owe.  add_memory compares the ends of the new region with
\* the old ones: a region around another goes unnoticed.  mark rounds the
\* address of the last byte up: a range that ends with the first byte of a
\* page loses it.  What a zone gets from its pool is free there, so that no
\* mark touches it.
NoneAround ==
  \A o, x \in Offers \cup Windows : ~(o.first < x.first /\ x.last < o.last)
MarksWhole ==
  \A m \in Marks : m.size = 1 \/ (m.base + m.size - 1) % Page # 0
WindowsUnmarked ==
  \A m \in Marks, w \in Windows :
    PagesOf([first |-> m.base, last |-> m.base + m.size - 1]) \cap PagesOf(w) = {}
-----------------------------------------------------------------------------
pieces == job.rest \cup job.kept
free   == freelist \cup job.popped
Taken  == PlacedItems \cup MarkedRanges
Guarded == PlacedItems \cup {t \in MarkedRanges : MarksWhole /\ WindowsUnmarked}

\* The two lists: sorted and merged, whole pages, of memory that was added.
ListsSound ==
  /\ Sound(fulllist) /\ Sound(free)
  /\ \A r \in fulllist \cup free : Whole(r)
  /\ freelist \cap job.popped = {}
  /\ \A r \in fulllist : \E o \in Offers \cup Windows :
       r.first <= o.first /\ o.last <= r.last
  /\ \A b \in Nat : Has(free, b) => Has(fulllist, b)

\* The pieces alloc has cut the free list into.
PiecesSound ==
  /\ Sound(pieces \cup job.popped)
  /\ job.rest \cap job.kept = {} /\ pieces \cap job.popped = {}
  /\ \A b \in Nat : Has(pieces, b) => Has(freelist, b)

\* The locals of alloc are those six, whatever round it is in.
Shape(j) ==
  [group |-> j.group, addrs |-> j.addrs, rest |-> j.rest, kept |-> j.kept,
   popped |-> j.popped, grown |-> j.grown]

JobInStep ==
  /\ job = Shape(job)
  /\ pc \in {"idle", "placing", "grow", "stopped"}
  /\ marked \subseteq Marks /\ windows \subseteq Windows
  /\ pc = "idle" => job = NoJob
  /\ pc \in {"placing", "grow"} =>
       /\ job.group \in Groups /\ \A p \in placed : p.group # job.group
       /\ job.addrs \in Seq(Nat) /\ Len(job.addrs) <= Len(job.group.items)
       /\ job.popped # {} => job.group.distance # None /\ Len(job.group.items) > 1
  /\ pc = "grow" => InZone

PlacedTyped ==
  /\ \A p \in placed :
       /\ p.group \in Groups
       /\ p.addrs \in Seq(Nat) /\ Len(p.addrs) = Len(p.group.items)
  /\ \A p, q \in placed : p.group = q.group => p = q

\* The items of the group in progress, and what they leave.
Chosen  == {i \in DOMAIN job.addrs : job.group.items[i].addr = None}
Span(i) == [first |-> job.addrs[i], last |-> job.addrs[i] + job.group.items[i].size - 1]
SpansTaken ==
  pc = "placing" =>
    /\ \A i \in Chosen, b \in Nat :
         Span(i).first <= b /\ b <= Span(i).last =>
           Has(freelist, b) /\ ~Has(pieces \cup job.popped, b)
    /\ \A i, j \in Chosen :
         i # j => Span(i).last < Span(j).first \/ Span(j).last < Span(i).first
PagesLeft ==
  pc = "placing" =>
    \A b \in Nat : Has(freelist, b) =>
      (\E i \in Chosen : Touch(Span(i), b)) \/ \E r \in pieces : Covers(r, b)

\* What was taken is not free, and what is not taken is.
TakenKept ==
  /\ \A t \in Guarded, b \in Nat : Has(free, b) => ~Touch(t, b)
  /\ \A t \in PlacedItems, b \in Nat :
       t.first <= b /\ b <= t.last => Has(fulllist, b)
  /\ ItemsApart
FreeKept ==
  pc # "stopped" =>
    \A b \in Nat : Has(fulllist, b) => Has(free, b) \/ \E t \in Taken : Touch(t, b)

\* A group none of whose items has an address goes up, and a lone item goes
\* to the lowest place there is.
AllOpen(g) == \A i \in DOMAIN g.items : g.items[i].addr = None
Rising(g, addrs) ==
  \A i \in 2 .. Len(addrs) :
    LET end == addrs[i-1] + g.items[i-1].size IN
    addrs[i] >= end /\ (g.distance # None => addrs[i] - end <= g.distance)
JobRises ==
  pc = "placing" /\ AllOpen(job.group) =>
    /\ Rising(job.group, job.addrs)
    /\ LET n == Len(job.addrs) IN
       n > 0 => \A r \in job.rest : r.first >= job.addrs[n] + job.group.items[n].size
PlacedRises == \A p \in placed : AllOpen(p.group) => Rising(p.group, p.addrs)

NoneBelow(item, addr) ==
  \A a \in 0 .. addr - 1 : a % item.align = item.offset =>
    \E b \in a .. a + item.size - 1 : ~Has(freelist, b)
FirstFit ==
  pc = "placing" /\ Len(job.group.items) = 1 /\ job.group.items[1].addr = None =>
    IF Len(job.addrs) = 0 THEN job.rest = freelist
    ELSE NoneBelow(job.group.items[1], job.addrs[1])

AInv ==
  /\ ListsSound /\ PiecesSound /\ JobInStep /\ PlacedTyped /\ SpansTaken
  /\ PagesLeft /\ TakenKept /\ FreeKept /\ JobRises /\ PlacedRises /\ FirstFit
-----------------------------------------------------------------------------
\* The end of alloc keeps whole pages, all that the pieces cover.
LEMMA WholePagesList ==
  ASSUME NEW S, Sound(S)
  PROVE  LET W == WholePages(S) IN
         /\ Sound(W) /\ \A r \in W : Whole(r)
         /\ \A b \in Nat : Has(W, b) => Has(S, b)
         /\ \A b \in Nat : (\E r \in S : Covers(r, b)) => Has(W, b)
<1> Page \in Nat \ {0} /\ Page \in Int /\ Page > 1
  BY PageAssumption
<1> DEFINE W == WholePages(S)
           Lo(r) == AlignUp(r.first, Page)
           Hi(r) == AlignDown(r.last + 1, Page) - 1
           Cut(r) == [r EXCEPT !.first = Lo(r), !.last = Hi(r)]
<1>1. /\ S \subseteq Region
      /\ \A r \in S : r.first \in Nat /\ r.last \in Nat /\ r.first <= r.last
  BY RegionFields DEF Sound, Bounded
<1>2. ASSUME NEW r \in S
      PROVE  /\ Lo(r) \in Nat /\ Lo(r) % Page = 0 /\ r.first <= Lo(r)
             /\ Hi(r) \in Int /\ (Hi(r) + 1) % Page = 0 /\ Hi(r) <= r.last
  <2> DEFINE f == r.first
             l == r.last + 1
  <2>1. f \in Nat /\ f \in Int /\ l \in Int
    BY <1>1
  <2>2. /\ AlignUp(f, Page) \in Int /\ AlignUp(f, Page) % Page = 0 /\ f <= AlignUp(f, Page)
    BY <2>1, UpMultiple
  <2>3. /\ AlignDown(l, Page) \in Int /\ AlignDown(l, Page) % Page = 0
        /\ AlignDown(l, Page) <= l
    BY <2>1, DownMultiple
  <2> DEFINE d == AlignDown(l, Page)
  <2>4. Hi(r) = d - 1 /\ d \in Int /\ d % Page = 0 /\ d <= r.last + 1
    BY <2>3
  <2> HIDE DEF d, Hi
  <2>5. Hi(r) \in Int /\ Hi(r) + 1 = d /\ Hi(r) <= r.last
    BY <1>1, <2>4
  <2> QED BY <2>1, <2>2, <2>4, <2>5
<1>3. \A x : x \in W <=> \E r \in S : x = Cut(r) /\ x.first < x.last
  BY DEF WholePages
<1> HIDE DEF W, Lo, Hi
<1>4. ASSUME NEW r \in S
      PROVE  Cut(r).first = Lo(r) /\ Cut(r).last = Hi(r)
  BY <1>1 DEF Region
<1>5. ASSUME NEW r \in S, Lo(r) < Hi(r)
      PROVE  Cut(r) \in Region
  <2>1. Hi(r) \in Nat /\ Lo(r) \in Nat /\ r \in Region
    BY <1>1, <1>2, <1>5
  <2> QED BY <2>1, CutBoth
<1> HIDE DEF Cut
<1>6. ASSUME NEW x \in W
      PROVE  /\ x \in Region /\ x.first <= x.last /\ Whole(x)
             /\ \E r \in S : x = Cut(r) /\ r.first <= x.first /\ x.last <= r.last
  <2>1. PICK r \in S : x = Cut(r) /\ x.first < x.last
    BY <1>3
  <2>2. x.first = Lo(r) /\ x.last = Hi(r) /\ x \in Region
    BY <1>4, <1>5, <2>1
  <2>3. x.first \in Nat /\ x.last \in Nat
    BY <2>2, RegionFields
  <2> QED BY <1>2, <2>1, <2>2, <2>3 DEF Whole
<1>7. Sound(W)
  <2>1. W \in SUBSET Region /\ \A x \in W : x.first <= x.last
    BY <1>6
  <2>2. \A x \in W : \E r \in S : r.first <= x.first /\ x.last <= r.last
    BY <1>6
  <2>3. ASSUME NEW r \in S, NEW x \in W, r.first <= x.first, x.last <= r.last
        PROVE  x = Cut(r)
    <3>1. PICK q \in S : x = Cut(q) /\ q.first <= x.first /\ x.last <= q.last
      BY <1>6
    <3>2. x.first \in Nat /\ x.last \in Nat /\ x.first <= x.last
      BY <1>6, RegionFields
    <3>3. CASE q # r
      <4>1. q.last < r.first \/ r.last < q.first
        BY <3>3, SoundIsDisjoint DEF NoneMeet
      <4> QED BY <1>1, <2>3, <3>1, <3>2, <4>1
    <3> QED BY <3>1, <3>3
  <2>4. \A r \in S, x, y \in W :
          x # y /\ r.first <= x.first /\ x.last <= r.last
                /\ r.first <= y.first /\ y.last <= r.last =>
            x.last + 1 < y.first \/ y.last + 1 < x.first
    BY <2>3
  <2> QED BY <2>1, <2>2, <2>4, PartsSound
<1>8. ASSUME NEW b \in Nat, Has(W, b) PROVE Has(S, b)
  <2>1. PICK x \in W : x.first <= b /\ b <= x.last
    BY <1>8 DEF Has
  <2>2. PICK r \in S : r.first <= x.first /\ x.last <= r.last
    BY <1>6
  <2>3. x.first \in Nat /\ x.last \in Nat
    BY <1>6, RegionFields
  <2> QED BY <1>1, <2>1, <2>2, <2>3 DEF Has
<1>9. ASSUME NEW b \in Nat, NEW r \in S, Covers(r, b) PROVE Has(W, b)
  <2> DEFINE s == AlignDown(b, Page)
  <2>1. /\ s \in Nat /\ s % Page = 0 /\ s <= b /\ b < s + Page
        /\ \A c \in Nat : PageOf(c) = PageOf(b) <=> s <= c /\ c < s + Page
    BY PageBytes
  <2> HIDE DEF s
  <2>2. r.first <= s /\ s + Page - 1 <= r.last
    <3> DEFINE z == s + Page - 1
    <3>1. z \in Nat /\ s <= z /\ z < s + Page
      BY <2>1
    <3> HIDE DEF z
    <3>2. PageOf(z) = PageOf(b) /\ PageOf(s) = PageOf(b)
      BY <2>1, <3>1
    <3>3. r.first <= s /\ z <= r.last
      BY <1>9, <2>1, <3>1, <3>2 DEF Covers
    <3> QED BY <3>3 DEF z
  <2> DEFINE f == r.first
             l == r.last + 1
  <2>3. f \in Int /\ l \in Int /\ s \in Int /\ f <= s
    BY <1>1, <2>1, <2>2
  <2>4. Lo(r) <= s
    <3>1. AlignUp(f, Page) <= s
      BY <2>1, <2>3, MultipleBounds
    <3> QED BY <3>1 DEF Lo
  <2>5. s + Page - 1 <= Hi(r)
    <3> DEFINE v == s + Page
    <3>1. v \in Int /\ v <= l
      BY <1>1, <2>1, <2>2
    <3>2. v % Page = 0
      BY <2>1, <2>3, NextMultiple
    <3> HIDE DEF v, l
    <3>3. v <= AlignDown(l, Page)
      BY <2>3, <3>1, <3>2, MultipleBounds
    <3> DEFINE d == AlignDown(l, Page)
    <3>4. d \in Int
      BY <2>3, DownMultiple
    <3>5. Hi(r) = d - 1
      BY DEF Hi, l
    <3> HIDE DEF d
    <3>6. v <= d
      BY <3>3 DEF d
    <3>7. s + Page <= d
      BY <3>6 DEF v
    <3> QED BY <2>1, <3>4, <3>5, <3>7
  <2>6. Lo(r) <= b /\ b <= Hi(r) /\ Lo(r) < Hi(r)
    BY <1>2, <2>1, <2>4, <2>5
  <2>7. Cut(r) \in W
    BY <1>3, <1>4, <2>6
  <2> QED BY <1>4, <2>6, <2>7 DEF Has
<1>10. \A r \in W : Whole(r)
  BY <1>6
<1> QED BY <1>7, <1>8, <1>9, <1>10 DEF W
-----------------------------------------------------------------------------
(* The steps.  First those that only stop, or that only ask for a window.  *)

LEMMA GroupItems ==
  ASSUME NEW g \in Groups
  PROVE  /\ Len(g.items) \in Nat /\ Len(g.items) > 0 /\ DOMAIN g.items = 1 .. Len(g.items)
         /\ g.distance \in Nat \cup {None} /\ None \notin Int
         /\ \A i \in 1 .. Len(g.items) :
              /\ g.items[i].size \in Nat \ {0} /\ g.items[i].align \in Nat \ {0}
              /\ g.items[i].offset \in Nat /\ g.items[i].addr \in Nat \cup {None}
<1> DEFINE Items == [size : Nat \ {0}, align : Nat \ {0}, offset : Nat,
                     policy : Policies, addr : Nat \cup {None}]
<1>1. /\ g.items # <<>> /\ g.items \in Seq(Items)
      /\ g.distance \in Nat \cup {None} /\ None \notin Int
  BY AllocatorAssumption
<1>2. /\ Len(g.items) \in Nat /\ Len(g.items) > 0 /\ DOMAIN g.items = 1 .. Len(g.items)
      /\ \A i \in 1 .. Len(g.items) : g.items[i] \in Items
  <2> HIDE DEF Items
  <2> QED BY <1>1
<1> QED BY <1>1, <1>2

LEMMA SameLists ==
  ASSUME UNCHANGED <<freelist, fulllist, job, placed, marked>>
  PROVE  /\ ListsSound => ListsSound'
         /\ PiecesSound => PiecesSound'
         /\ PlacedTyped => PlacedTyped'
         /\ TakenKept => TakenKept'
         /\ PlacedRises => PlacedRises'
<1>1. free' = free /\ pieces' = pieces
  BY DEF free, pieces
<1>2. PlacedItems' = PlacedItems /\ MarkedRanges' = MarkedRanges /\ Guarded' = Guarded
  BY DEF PlacedItems, MarkedRanges, Guarded
<1>3. ListsSound => ListsSound'
  BY <1>1 DEF ListsSound
<1>4. PiecesSound => PiecesSound'
  BY <1>1 DEF PiecesSound
<1>5. PlacedTyped => PlacedTyped'
  BY DEF PlacedTyped
<1>6. TakenKept => TakenKept'
  BY <1>1, <1>2 DEF TakenKept, ItemsApart
<1>7. PlacedRises => PlacedRises'
  BY DEF PlacedRises
<1> QED BY <1>3, <1>4, <1>5, <1>6, <1>7

LEMMA StopStep ==
  ASSUME AInv, pc' = "stopped",
         UNCHANGED <<freelist, fulllist, windows, job, marked, placed>>
  PROVE  AInv'
<1>1. ListsSound' /\ PiecesSound' /\ PlacedTyped' /\ TakenKept' /\ PlacedRises'
  BY SameLists DEF AInv
<1>2. JobInStep'
  BY DEF AInv, JobInStep
<1>3. SpansTaken' /\ PagesLeft' /\ FreeKept' /\ JobRises' /\ FirstFit'
  BY DEF SpansTaken, PagesLeft, FreeKept, JobRises, FirstFit
<1> QED BY <1>1, <1>2, <1>3 DEF AInv

LEMMA FailStep ==
  ASSUME AInv, pc = "placing", Fail, UNCHANGED <<fulllist, windows, marked, placed>>
  PROVE  AInv'
<1>1. UNCHANGED <<freelist, job>>
  BY DEF Fail
<1>2. CASE InZone /\ ~job.grown
  <2>1. pc' = "grow"
    BY <1>2 DEF Fail
  <2>2. ListsSound' /\ PiecesSound' /\ PlacedTyped' /\ TakenKept' /\ PlacedRises'
    BY <1>1, SameLists DEF AInv
  <2>3. JobInStep'
    BY <1>1, <1>2, <2>1 DEF AInv, JobInStep, InZone
  <2>4. SpansTaken' /\ PagesLeft' /\ JobRises' /\ FirstFit'
    BY <2>1 DEF SpansTaken, PagesLeft, JobRises, FirstFit
  <2>5. FreeKept'
    <3>1. free' = free /\ Taken' = Taken
      BY <1>1 DEF free, Taken, PlacedItems, MarkedRanges
    <3> QED BY <2>1, <3>1 DEF AInv, FreeKept
  <2> QED BY <2>2, <2>3, <2>4, <2>5 DEF AInv
<1>3. CASE ~(InZone /\ ~job.grown)
  <2>1. pc' = "stopped"
    BY <1>3 DEF Fail
  <2> QED BY <1>1, <2>1, StopStep
<1> QED BY <1>2, <1>3
-----------------------------------------------------------------------------
(* Memory is added and marked.                                             *)

LEMMA Shapes ==
  /\ NoJob = Shape(NoJob)
  /\ \A g, S, P, x : Round(g, S, P, x) = Shape(Round(g, S, P, x))
BY DEF NoJob, Round, Shape

LEMMA InitAInv == Init => AInv
<1> SUFFICES ASSUME Init PROVE AInv
  OBVIOUS
<1>1. /\ fulllist = {} /\ freelist = {} /\ job = NoJob /\ windows = Windows
      /\ pc = "idle" /\ marked = {} /\ placed = {}
  BY DEF Init
<1>2. job.popped = {} /\ job.rest = {} /\ job.kept = {}
  BY <1>1 DEF NoJob
<1>3. free = {} /\ pieces = {} /\ pieces \cup job.popped = {}
  BY <1>1, <1>2 DEF free, pieces
<1>4. PlacedItems = {} /\ MarkedRanges = {} /\ Guarded = {}
  BY <1>1 DEF PlacedItems, MarkedRanges, Guarded
<1>5. ListsSound
  BY <1>1, <1>2, <1>3, EmptyList DEF ListsSound
<1>6. PiecesSound
  BY <1>2, <1>3, EmptyList DEF PiecesSound
<1>7. JobInStep /\ PlacedTyped /\ PlacedRises
  BY <1>1, Shapes DEF JobInStep, PlacedTyped, PlacedRises
<1>8. SpansTaken /\ PagesLeft /\ JobRises /\ FirstFit
  BY <1>1 DEF SpansTaken, PagesLeft, JobRises, FirstFit
<1>9. TakenKept
  BY <1>4 DEF TakenKept, ItemsApart
<1>10. FreeKept
  BY <1>1, EmptyList DEF FreeKept
<1> QED BY <1>5, <1>6, <1>7, <1>8, <1>9, <1>10 DEF AInv

LEMMA GivenRegions ==
  ASSUME NEW r \in Offers \cup Windows
  PROVE  /\ r \in Region /\ Whole(r) /\ r.first \in Nat /\ r.last \in Nat
         /\ r.first <= r.last
<1>1. r \in Region /\ Whole(r)
  BY AllocatorAssumption
<1> QED BY <1>1, RegionFields DEF Whole

LEMMA AddedLists ==
  ASSUME AInv, NoneAround, NEW n \in Offers \cup Windows, Add(n), job.popped = {}
  PROVE  /\ Sound(fulllist') /\ Sound(freelist')
         /\ \A r \in fulllist' \cup freelist' : Whole(r)
         /\ \A r \in fulllist' : \E o \in Offers \cup Windows :
              r.first <= o.first /\ o.last <= r.last
         /\ \A b \in Nat :
              /\ Has(fulllist', b) <=> Has(fulllist, b) \/ (n.first <= b /\ b <= n.last)
              /\ Has(freelist', b) <=> Has(freelist, b) \/ (n.first <= b /\ b <= n.last)
              /\ n.first <= b /\ b <= n.last => ~Has(fulllist, b)
<1>1. /\ n \in Region /\ Whole(n) /\ n.first \in Nat /\ n.last \in Nat /\ n.first <= n.last
  BY GivenRegions
<1>2. /\ fulllist' = Merged(fulllist \cup {n}) /\ freelist' = Merged(freelist \cup {n})
      /\ ~Overlaps(n, fulllist)
  BY DEF Add
<1>3. /\ Sound(fulllist) /\ Sound(freelist) /\ free = freelist
      /\ \A r \in fulllist \cup freelist : Whole(r)
      /\ \A r \in fulllist : \E o \in Offers \cup Windows :
           r.first <= o.first /\ o.last <= r.last
      /\ \A b \in Nat : Has(freelist, b) => Has(fulllist, b)
  BY DEF AInv, ListsSound, free
<1>4. \A r \in fulllist \cup freelist :
        r \in Region /\ r.first \in Nat /\ r.last \in Nat /\ r.first <= r.last
  BY <1>3, RegionFields DEF Sound, Bounded
<1>5. ASSUME NEW r \in fulllist
      PROVE  r.last < n.first \/ n.last < r.first
  <2>1. PICK o \in Offers \cup Windows : r.first <= o.first /\ o.last <= r.last
    BY <1>3
  <2>2. ~(n.first < o.first /\ o.last < n.last)
    BY DEF NoneAround
  <2>3. ~(r.first <= n.first /\ n.first <= r.last)
    BY <1>1, <1>2, <1>4 DEF Overlaps
  <2>4. ~(r.first <= n.last /\ n.last <= r.last)
    BY <1>1, <1>2, <1>4 DEF Overlaps
  <2>5. o.first \in Nat /\ o.last \in Nat
    BY GivenRegions
  <2> QED BY <1>1, <1>4, <2>1, <2>2, <2>3, <2>4, <2>5
<1>6. ASSUME NEW b \in Nat, n.first <= b, b <= n.last PROVE ~Has(fulllist, b)
  <2>1. SUFFICES ASSUME NEW r \in fulllist, r.first <= b, b <= r.last PROVE FALSE
    BY DEF Has
  <2> QED BY <1>1, <1>4, <1>5, <1>6, <2>1
<1>7. ASSUME NEW r \in freelist
      PROVE  r.last < n.first \/ n.last < r.first
  <2>1. SUFFICES ASSUME n.first <= r.last, r.first <= n.last PROVE FALSE
    BY <1>1, <1>4
  <2>2. \E b \in Nat : r.first <= b /\ b <= r.last /\ n.first <= b /\ b <= n.last
    <3>1. CASE r.first <= n.first
      BY <1>1, <1>4, <2>1, <3>1
    <3>2. CASE n.first < r.first
      BY <1>1, <1>4, <2>1, <3>2
    <3> QED BY <1>1, <1>4, <3>1, <3>2
  <2>3. PICK b \in Nat : r.first <= b /\ b <= r.last /\ n.first <= b /\ b <= n.last
    BY <2>2
  <2>4. Has(fulllist, b)
    BY <1>3, <2>3 DEF Has
  <2> QED BY <1>6, <2>3, <2>4
<1>8. /\ Bounded(fulllist \cup {n}) /\ NoneMeet(fulllist \cup {n})
      /\ \A b \in Nat : Has(fulllist \cup {n}, b)
           <=> Has(fulllist, b) \/ (n.first <= b /\ b <= n.last)
  BY <1>1, <1>3, <1>5, OneMore
<1>9. /\ Bounded(freelist \cup {n}) /\ NoneMeet(freelist \cup {n})
      /\ \A b \in Nat : Has(freelist \cup {n}, b)
           <=> Has(freelist, b) \/ (n.first <= b /\ b <= n.last)
  BY <1>1, <1>3, <1>7, OneMore
<1>10. /\ Sound(fulllist')
       /\ \A b \in Nat : Has(fulllist', b) <=> Has(fulllist \cup {n}, b)
       /\ (\A r \in fulllist \cup {n} : Whole(r)) => \A m \in fulllist' : Whole(m)
       /\ \A m \in fulllist' : \E r \in fulllist \cup {n} :
            m.first <= r.first /\ r.last <= m.last
  BY <1>2, <1>8, MergedList
<1>11. /\ Sound(freelist')
       /\ \A b \in Nat : Has(freelist', b) <=> Has(freelist \cup {n}, b)
       /\ (\A r \in freelist \cup {n} : Whole(r)) => \A m \in freelist' : Whole(m)
  BY <1>2, <1>9, MergedList
<1>12. \A r \in fulllist' \cup freelist' : Whole(r)
  BY <1>1, <1>3, <1>10, <1>11
<1>13. ASSUME NEW m \in fulllist'
       PROVE  \E o \in Offers \cup Windows : m.first <= o.first /\ o.last <= m.last
  <2>1. PICK r \in fulllist \cup {n} : m.first <= r.first /\ r.last <= m.last
    BY <1>10
  <2>2. PICK o \in Offers \cup Windows : r.first <= o.first /\ o.last <= r.last
    BY <1>1, <1>3
  <2>3. /\ m.first \in Nat /\ m.last \in Nat /\ r.first \in Nat /\ r.last \in Nat
        /\ o.first \in Nat /\ o.last \in Nat
    BY <1>1, <1>4, <1>10, GivenRegions, RegionFields DEF Sound, Bounded
  <2> QED BY <2>1, <2>2, <2>3
<1> QED BY <1>6, <1>8, <1>9, <1>10, <1>11, <1>12, <1>13

\* A new round of placing begins with the free list as it is.
LEMMA RoundBegins ==
  ASSUME ListsSound', NEW g \in Groups, NEW x,
         job' = Round(g, freelist', job'.popped, x)
  PROVE  PiecesSound' /\ SpansTaken' /\ PagesLeft' /\ JobRises' /\ FirstFit'
<1>1. /\ job'.group = g /\ job'.addrs = <<>> /\ job'.rest = freelist' /\ job'.kept = {}
  BY DEF Round
<1>2. pieces' = freelist' /\ pieces' \cup job'.popped = free'
  BY <1>1 DEF pieces, free
<1>3. PiecesSound'
  BY <1>1, <1>2 DEF PiecesSound, ListsSound
<1>4. Chosen' = {} /\ Len(job'.addrs) = 0 /\ DOMAIN job'.addrs = {}
  BY <1>1 DEF Chosen
<1>5. SpansTaken'
  BY <1>4 DEF SpansTaken
<1>6. PagesLeft'
  <2>1. ASSUME NEW b \in Nat, Has(freelist', b) PROVE \E r \in pieces' : Covers(r, b)
    <3>1. PICK r \in freelist' : r.first <= b /\ b <= r.last
      BY <2>1 DEF Has
    <3>2. r \in Region /\ Whole(r)
      BY DEF ListsSound, Sound, Bounded, free
    <3> QED BY <1>2, <3>1, <3>2, WholeCovers
  <2> QED BY <2>1 DEF PagesLeft
<1>7. JobRises'
  <2>1. 2 .. Len(job'.addrs) = {}
    BY <1>4
  <2> QED BY <1>4, <2>1 DEF JobRises, Rising
<1>8. FirstFit'
  BY <1>1, <1>4 DEF FirstFit
<1> QED BY <1>3, <1>5, <1>6, <1>7, <1>8

LEMMA AddMemoryStep ==
  ASSUME AInv, NoneAround, NEW n \in Offers, AddMemory(n)
  PROVE  AInv'
<1>1. /\ pc = "idle" /\ marked = {} /\ placed = {} /\ Add(n)
      /\ UNCHANGED <<windows, pc, job, marked, placed>>
  BY DEF AddMemory, Collecting
<1>2. job = NoJob /\ job.popped = {} /\ job.rest = {} /\ job.kept = {}
  BY <1>1 DEF AInv, JobInStep, NoJob
<1>3. /\ Sound(fulllist') /\ Sound(freelist')
      /\ \A r \in fulllist' \cup freelist' : Whole(r)
      /\ \A r \in fulllist' : \E o \in Offers \cup Windows :
           r.first <= o.first /\ o.last <= r.last
      /\ \A b \in Nat :
           /\ Has(fulllist', b) <=> Has(fulllist, b) \/ (n.first <= b /\ b <= n.last)
           /\ Has(freelist', b) <=> Has(freelist, b) \/ (n.first <= b /\ b <= n.last)
  BY <1>1, <1>2, AddedLists
<1>4. free' = freelist' /\ pieces' = {} /\ free = freelist
  BY <1>1, <1>2 DEF free, pieces
<1>5. PlacedItems' = {} /\ MarkedRanges' = {} /\ Guarded' = {} /\ Taken' = {} /\ Taken = {}
  BY <1>1 DEF PlacedItems, MarkedRanges, Guarded, Taken
<1>6. ListsSound'
  BY <1>1, <1>2, <1>3, <1>4 DEF AInv, ListsSound
<1>7. PiecesSound'
  BY <1>1, <1>2, <1>4, EmptyList DEF PiecesSound
<1>8. JobInStep' /\ PlacedTyped' /\ PlacedRises'
  BY <1>1 DEF AInv, JobInStep, PlacedTyped, PlacedRises
<1>9. SpansTaken' /\ PagesLeft' /\ JobRises' /\ FirstFit'
  BY <1>1 DEF SpansTaken, PagesLeft, JobRises, FirstFit
<1>10. TakenKept'
  BY <1>5 DEF TakenKept, ItemsApart
<1>11. FreeKept'
  BY <1>1, <1>3, <1>4, <1>5 DEF AInv, FreeKept
<1> QED BY <1>6, <1>7, <1>8, <1>9, <1>10, <1>11 DEF AInv

LEMMA MarkStep ==
  ASSUME AInv, NEW m \in Marks, Mark(m)
  PROVE  AInv'
<1> DEFINE lo == AlignDown(m.base, Page)
           hi == MarkEnd(m)
           t  == [first |-> m.base, last |-> m.base + m.size - 1]
<1>1. /\ pc = "idle" /\ placed = {} /\ freelist' = Unmarked(freelist, m)
      /\ marked' = marked \cup {m}
      /\ UNCHANGED <<fulllist, windows, pc, job, placed>>
  BY DEF Mark, Declaring
<1>2. job = NoJob /\ job.popped = {} /\ job.rest = {} /\ job.kept = {}
  BY <1>1 DEF AInv, JobInStep, NoJob
<1>3. m.base \in Nat /\ m.size \in Nat \ {0}
  BY AllocatorAssumption
<1>4. /\ \A b \in Nat : lo <= b /\ b <= hi => Touch(t, b)
      /\ m.size = 1 \/ (m.base + m.size - 1) % Page # 0 =>
           \A b \in Nat : Touch(t, b) => lo <= b /\ b <= hi
  BY <1>3, MarkBounds
<1>5. free = freelist /\ free' = freelist' /\ pieces' = {}
  BY <1>1, <1>2 DEF free, pieces
<1>6. Sound(freelist) /\ \A r \in freelist : Whole(r)
  BY <1>5 DEF AInv, ListsSound
<1>7. /\ Sound(freelist') /\ \A r \in freelist' : Whole(r)
      /\ \A b \in Nat : Has(freelist', b) <=> Has(freelist, b) /\ ~(lo <= b /\ b <= hi)
  BY <1>1, <1>3, <1>6, UnmarkedList
<1> HIDE DEF lo, hi
<1>8. PlacedItems = {} /\ PlacedItems' = {} /\ MarkedRanges' = MarkedRanges \cup {t}
  BY <1>1 DEF PlacedItems, MarkedRanges
<1> HIDE DEF t
<1>9. ListsSound'
  BY <1>1, <1>2, <1>5, <1>7 DEF AInv, ListsSound
<1>10. PiecesSound'
  BY <1>1, <1>2, <1>5, EmptyList DEF PiecesSound
<1>11. JobInStep' /\ PlacedTyped' /\ PlacedRises'
  BY <1>1 DEF AInv, JobInStep, PlacedTyped, PlacedRises
<1>12. SpansTaken' /\ PagesLeft' /\ JobRises' /\ FirstFit'
  BY <1>1 DEF SpansTaken, PagesLeft, JobRises, FirstFit
<1>13. TakenKept'
  <2>1. ASSUME NEW u \in Guarded', NEW b \in Nat, Has(free', b) PROVE ~Touch(u, b)
    <3>1. /\ MarksWhole /\ WindowsUnmarked /\ u \in MarkedRanges \cup {t}
      BY <1>8, <2>1 DEF Guarded
    <3>2. Has(free, b) /\ ~(lo <= b /\ b <= hi)
      BY <1>5, <1>7, <2>1
    <3>3. CASE u \in MarkedRanges
      BY <3>1, <3>2, <3>3 DEF AInv, TakenKept, Guarded
    <3>4. CASE u = t
      BY <1>4, <3>1, <3>2, <3>4 DEF MarksWhole
    <3> QED BY <3>1, <3>3, <3>4
  <2> QED BY <1>8, <2>1 DEF TakenKept, ItemsApart
<1>14. FreeKept'
  <2>1. ASSUME NEW b \in Nat, Has(fulllist, b)
        PROVE  Has(free', b) \/ \E u \in Taken' : Touch(u, b)
    <3>1. Has(free, b) \/ \E u \in Taken : Touch(u, b)
      BY <1>1, <2>1 DEF AInv, FreeKept
    <3>2. Taken' = Taken \cup {t}
      BY <1>8 DEF Taken
    <3> QED BY <1>4, <1>5, <1>7, <3>1, <3>2
  <2> QED BY <1>1, <2>1 DEF FreeKept
<1> QED BY <1>9, <1>10, <1>11, <1>12, <1>13, <1>14 DEF AInv

LEMMA AllocStep ==
  ASSUME AInv, NEW g \in Groups, Alloc(g)
  PROVE  AInv'
<1>1. /\ pc = "idle" /\ pc' = "placing" /\ job' = Round(g, freelist, {}, FALSE)
      /\ UNCHANGED <<freelist, fulllist, windows, marked, placed>>
      /\ \A p \in placed : p.group # g
  BY DEF Alloc
<1>2. job.popped = {}
  BY <1>1 DEF AInv, JobInStep, NoJob
<1>3. /\ job'.popped = {} /\ job'.group = g /\ job'.addrs = <<>>
  BY <1>1 DEF Round
<1>4. free' = free /\ Taken' = Taken /\ Guarded' = Guarded /\ PlacedItems' = PlacedItems
  BY <1>1, <1>2, <1>3 DEF free, Taken, Guarded, PlacedItems, MarkedRanges
<1>5. ListsSound'
  BY <1>1, <1>2, <1>3, <1>4 DEF AInv, ListsSound
<1>6. PiecesSound' /\ SpansTaken' /\ PagesLeft' /\ JobRises' /\ FirstFit'
  BY <1>1, <1>3, <1>5, RoundBegins
<1>7. JobInStep'
  <2>1. <<>> \in Seq(Nat) /\ Len(<<>>) = 0 /\ 0 <= Len(g.items)
    BY GroupItems
  <2>2. job' = Shape(job')
    BY <1>1, Shapes
  <2> QED BY <1>1, <1>3, <2>1, <2>2 DEF AInv, JobInStep
<1>8. PlacedTyped' /\ PlacedRises'
  BY <1>1 DEF AInv, PlacedTyped, PlacedRises
<1>9. TakenKept'
  BY <1>1, <1>4 DEF AInv, TakenKept, ItemsApart
<1>10. FreeKept'
  BY <1>1, <1>4 DEF AInv, FreeKept
<1> QED BY <1>5, <1>6, <1>7, <1>8, <1>9, <1>10 DEF AInv

LEMMA ItemRange ==
  ASSUME PlacedTyped, NEW t \in PlacedItems
  PROVE  \E p \in placed : \E i \in DOMAIN p.addrs :
           /\ t = [first |-> p.addrs[i], last |-> p.addrs[i] + p.group.items[i].size - 1,
                   group |-> p.group, item |-> i, policy |-> p.group.items[i].policy]
           /\ p.group.items[i].addr = None /\ i \in 1 .. Len(p.group.items)
           /\ t.first = p.addrs[i] /\ t.last = p.addrs[i] + p.group.items[i].size - 1
           /\ t.first \in Nat /\ t.last \in Nat /\ t.first <= t.last
           /\ t.group = p.group
<1>0. PICK p \in placed : \E i \in DOMAIN p.addrs :
        /\ p.group.items[i].addr = None
        /\ t = [first |-> p.addrs[i], last |-> p.addrs[i] + p.group.items[i].size - 1,
                group |-> p.group, item |-> i, policy |-> p.group.items[i].policy]
  BY DEF PlacedItems
<1>1. PICK i \in DOMAIN p.addrs :
        /\ p.group.items[i].addr = None
        /\ t = [first |-> p.addrs[i], last |-> p.addrs[i] + p.group.items[i].size - 1,
                group |-> p.group, item |-> i, policy |-> p.group.items[i].policy]
  BY <1>0
<1>2. p.group \in Groups /\ p.addrs \in Seq(Nat) /\ Len(p.addrs) = Len(p.group.items)
  BY DEF PlacedTyped
<1>3. i \in 1 .. Len(p.group.items) /\ p.addrs[i] \in Nat
  BY <1>2
<1>4. p.group.items[i].size \in Nat \ {0}
  BY <1>2, <1>3, GroupItems
<1> DEFINE f == p.addrs[i]
           z == p.group.items[i].size
           l == f + z - 1
<1>5. f \in Nat /\ z \in Nat \ {0}
  BY <1>3, <1>4
<1>6. t.first = f /\ t.last = l /\ t.group = p.group
  BY <1>1
<1> HIDE DEF f, z
<1>7. l \in Nat /\ f <= l
  BY <1>5
<1> QED BY <1>1, <1>3, <1>5, <1>6, <1>7 DEF f, z

\* The pages of a placed item are memory that was added.
LEMMA ItemPages ==
  ASSUME AInv, NEW t \in PlacedItems, NEW b \in Nat, Touch(t, b)
  PROVE  Has(fulllist, b)
<1>1. t.first \in Nat /\ t.last \in Nat /\ t.first <= t.last
  BY ItemRange DEF AInv
<1>2. PICK c \in Nat : t.first <= c /\ c <= t.last /\ PageOf(c) = PageOf(b)
  BY <1>1, TouchedByte DEF Touch
<1>3. Has(fulllist, c)
  BY <1>2 DEF AInv, TakenKept
<1> QED BY <1>2, <1>3, PageTogether DEF AInv, ListsSound

LEMMA GrowStep ==
  ASSUME AInv, NoneAround, Grow
  PROVE  AInv'
<1>1. PICK w \in windows : /\ windows' = windows \ {w} /\ Add(w)
                           /\ job' = Round(job.group, freelist', {}, TRUE)
  BY DEF Grow
<1>2. pc = "grow" /\ pc' = "placing" /\ UNCHANGED <<marked, placed>>
  BY DEF Grow
<1>3. /\ job.group \in Groups /\ \A p \in placed : p.group # job.group
      /\ job.popped = {} /\ w \in Windows /\ windows \subseteq Windows
  <2>1. /\ job.group \in Groups /\ \A p \in placed : p.group # job.group
        /\ job.popped # {} => job.group.distance # None /\ Len(job.group.items) > 1
        /\ InZone /\ windows \subseteq Windows
    BY <1>2 DEF AInv, JobInStep
  <2> DEFINE n == Len(job.group.items)
  <2>2. n = 1 => ~(n > 1)
    OBVIOUS
  <2> HIDE DEF n
  <2>3. job.popped # {} => job.group.distance # None /\ n > 1
    BY <2>1 DEF n
  <2>4. job.group.distance = None \/ n = 1
    BY <2>1 DEF InZone, n
  <2> QED BY <2>1, <2>2, <2>3, <2>4
<1>4. /\ Sound(fulllist') /\ Sound(freelist')
      /\ \A r \in fulllist' \cup freelist' : Whole(r)
      /\ \A r \in fulllist' : \E o \in Offers \cup Windows :
           r.first <= o.first /\ o.last <= r.last
      /\ \A b \in Nat :
           /\ Has(fulllist', b) <=> Has(fulllist, b) \/ (w.first <= b /\ b <= w.last)
           /\ Has(freelist', b) <=> Has(freelist, b) \/ (w.first <= b /\ b <= w.last)
           /\ w.first <= b /\ b <= w.last => ~Has(fulllist, b)
  BY <1>1, <1>3, AddedLists
<1>5. job'.popped = {} /\ job'.group = job.group /\ job'.addrs = <<>>
  BY <1>1 DEF Round
<1>6. free' = freelist' /\ free = freelist
  BY <1>3, <1>5 DEF free
<1>7. /\ PlacedItems' = PlacedItems /\ MarkedRanges' = MarkedRanges
      /\ Guarded' = Guarded /\ Taken' = Taken
  BY <1>2 DEF PlacedItems, MarkedRanges, Guarded, Taken
<1>8. ListsSound'
  BY <1>4, <1>5, <1>6 DEF AInv, ListsSound
<1>9. PiecesSound' /\ SpansTaken' /\ PagesLeft' /\ JobRises' /\ FirstFit'
  BY <1>1, <1>3, <1>5, <1>8, RoundBegins
<1>10. JobInStep'
  <2>1. <<>> \in Seq(Nat) /\ Len(<<>>) = 0 /\ 0 <= Len(job.group.items)
    BY <1>3, GroupItems
  <2>2. windows' \subseteq Windows
    BY <1>1, <1>3
  <2>3. job' = Shape(job')
    BY <1>1, Shapes
  <2> QED BY <1>2, <1>3, <1>5, <2>1, <2>2, <2>3 DEF AInv, JobInStep
<1>11. PlacedTyped' /\ PlacedRises'
  BY <1>2 DEF AInv, PlacedTyped, PlacedRises
<1>12. TakenKept'
  <2>1. ASSUME NEW t \in Guarded, NEW b \in Nat, Has(free', b) PROVE ~Touch(t, b)
    <3>1. CASE Has(free, b)
      BY <3>1 DEF AInv, TakenKept
    <3>2. CASE w.first <= b /\ b <= w.last
      <4>1. CASE t \in PlacedItems
        BY <1>4, <3>2, <4>1, ItemPages
      <4>2. CASE t \in MarkedRanges /\ WindowsUnmarked
        <5>1. PICK m \in marked : t = [first |-> m.base, last |-> m.base + m.size - 1]
          BY <4>2 DEF MarkedRanges
        <5>2. PagesOf(t) \cap PagesOf(w) = {}
          BY <1>3, <4>2, <5>1 DEF AInv, JobInStep, WindowsUnmarked
        <5>3. w.first \in Nat /\ w.last \in Nat
          BY <1>3, GivenRegions
        <5>4. /\ PageOf(b) \in Int /\ PageOf(w.first) <= PageOf(b)
              /\ PageOf(b) <= PageOf(w.last)
              /\ PageOf(w.first) \in Int /\ PageOf(w.last) \in Int
          BY <3>2, <5>3, PageMono
        <5>5. PageOf(b) \in PagesOf(w)
          BY <5>4 DEF PagesOf, PageOf
        <5>6. m.base \in Nat /\ m.size \in Nat \ {0}
          BY <1>3, AllocatorAssumption DEF AInv, JobInStep
        <5>7. t.first \in Nat /\ t.last \in Nat
          BY <5>1, <5>6
        <5>8. PageOf(t.first) \in Int /\ PageOf(t.last) \in Int
          BY <5>7, PageMono
        <5>9. ASSUME Touch(t, b) PROVE PageOf(b) \in PagesOf(t)
          BY <5>4, <5>8, <5>9 DEF Touch, PagesOf, PageOf
        <5> QED BY <5>2, <5>5, <5>9
      <4> QED BY <4>1, <4>2 DEF Guarded
    <3> QED BY <1>4, <1>6, <2>1, <3>1, <3>2
  <2>2. ASSUME NEW t \in PlacedItems, NEW b \in Nat, t.first <= b, b <= t.last
        PROVE  Has(fulllist', b)
    BY <1>4, <2>2 DEF AInv, TakenKept
  <2>3. ItemsApart'
    BY <1>7 DEF AInv, TakenKept, ItemsApart
  <2> QED BY <1>7, <2>1, <2>2, <2>3 DEF TakenKept
<1>13. FreeKept'
  <2>1. ASSUME NEW b \in Nat, Has(fulllist', b)
        PROVE  Has(free', b) \/ \E t \in Taken : Touch(t, b)
    BY <1>2, <1>4, <1>6, <2>1 DEF AInv, FreeKept
  <2> QED BY <1>7, <2>1 DEF FreeKept
<1> QED BY <1>8, <1>9, <1>10, <1>11, <1>12, <1>13 DEF AInv

\* Starting over without the lowest region: it is put by, not forgotten.
LEMMA PopStep ==
  ASSUME AInv, pc = "placing", pc' = pc, ~(Cardinality(freelist) <= 1), Pop(freelist),
         job.group.distance # None, Len(job.group.items) > 1,
         UNCHANGED <<fulllist, windows, marked, placed>>
  PROVE  AInv'
<1> DEFINE l == Lowest(freelist)
<1>1. freelist' = freelist \ {l} /\ job' = Round(job.group, freelist', job.popped \cup {l}, job.grown)
  BY DEF Pop
<1>2. l \in freelist
  <2>1. freelist # {}
    <3>1. SUFFICES ASSUME freelist = {} PROVE FALSE
      OBVIOUS
    <3>2. Cardinality({}) = 0
      BY FS_EmptySet
    <3>3. ~(Cardinality({}) <= 1)
      BY <3>1
    <3> QED BY <3>2, <3>3
  <2>2. freelist \in SUBSET Region
    BY DEF AInv, ListsSound, Sound, Bounded, free
  <2> QED BY <2>1, <2>2, LowestRegion
<1> HIDE DEF l
<1>3. /\ job'.popped = job.popped \cup {l} /\ job'.group = job.group /\ job'.addrs = <<>>
  BY <1>1 DEF Round
<1>4. free' = free
  BY <1>1, <1>2, <1>3 DEF free
<1>5. freelist' \cap job'.popped = {}
  BY <1>1, <1>3 DEF AInv, ListsSound
<1>6. ListsSound'
  BY <1>4, <1>5 DEF AInv, ListsSound
<1>7. job.group \in Groups
  BY DEF AInv, JobInStep
<1>8. PiecesSound' /\ SpansTaken' /\ PagesLeft' /\ JobRises' /\ FirstFit'
  BY <1>1, <1>3, <1>6, <1>7, RoundBegins
<1>9. JobInStep'
  <2>1. <<>> \in Seq(Nat) /\ Len(<<>>) = 0 /\ 0 <= Len(job.group.items)
    BY <1>7, GroupItems
  <2>2. job' = Shape(job')
    BY <1>1, Shapes
  <2> QED BY <1>3, <2>1, <2>2 DEF AInv, JobInStep
<1>10. PlacedItems' = PlacedItems /\ Taken' = Taken /\ Guarded' = Guarded
  BY DEF PlacedItems, Taken, Guarded, MarkedRanges
<1>11. PlacedTyped' /\ PlacedRises'
  BY DEF AInv, PlacedTyped, PlacedRises
<1>12. TakenKept' /\ FreeKept'
  BY <1>4, <1>10 DEF AInv, TakenKept, ItemsApart, FreeKept
<1> QED BY <1>6, <1>8, <1>9, <1>11, <1>12 DEF AInv
-----------------------------------------------------------------------------
(* An item finds its place.                                                *)

\* Where first fit puts an item: in the region, on an address that is offset
\* bytes above a multiple of align, and on the first one of them.
LEMMA StartInRegion ==
  ASSUME NEW r \in Region, NEW item, item.align \in Nat \ {0}, item.offset \in Nat
  PROVE  /\ Start(r, item) \in Nat /\ r.first <= Start(r, item)
         /\ \A a \in Nat : r.first <= a /\ a % item.align = item.offset =>
              Start(r, item) <= a
<1> DEFINE n == item.align
           o == item.offset
           f == r.first
           s == AlignDown(f, n)
<1>1. n \in Nat \ {0} /\ o \in Nat /\ f \in Nat
  BY RegionFields
<1>2. Start(r, item) = IF s + o < f THEN s + o + n ELSE s + o
  BY DEF Start
<1> DEFINE st == Start(r, item)
<1>3. s \in Int /\ s <= f /\ f < s + n /\ s % n = 0
  BY <1>1, Quotient
<1>4. 0 <= s
  <2>1. 0 \in Int /\ 0 % n = 0 /\ f \in Int
    BY <1>1
  <2> QED BY <1>1, <2>1, MultipleBounds
<1> HIDE DEF s, st
<1>5. st = (IF s + o < f THEN s + o + n ELSE s + o)
  BY <1>2 DEF st
<1> HIDE DEF n, o, f
<1>6. st \in Nat /\ f <= st
  BY <1>1, <1>3, <1>4, <1>5
<1>7. ASSUME NEW a \in Nat, f <= a, a % n = o PROVE st <= a
  <2> DEFINE u == AlignDown(a, n)
  <2>1. u = a - o /\ u \in Int
    <3>1. u = a - (a % n)
      BY DEF AlignDown
    <3> QED BY <1>1, <1>7, <3>1
  <2>2. u % n = 0 /\ u <= a
    BY <1>1, Quotient
  <2> HIDE DEF u
  <2>3. s <= u
    <3>1. s <= AlignDown(a, n)
      <4>1. a \in Int /\ s <= a
        BY <1>1, <1>3, <1>7
      <4> QED BY <1>1, <1>3, <4>1, MultipleBounds
    <3> QED BY <3>1 DEF u
  <2>4. CASE u = s
    BY <1>1, <1>3, <1>5, <1>7, <2>1, <2>4
  <2>5. CASE s < u
    <3>1. s + n <= u
      <4>1. s + n <= AlignUp(u, n) /\ AlignUp(u, n) <= u
        <5>1. u <= u
          BY <2>1
        <5> QED BY <1>1, <1>3, <2>1, <2>2, <2>5, <5>1, MultipleBounds
      <4>2. AlignUp(u, n) \in Int
        BY <1>1, <2>1, UpMultiple
      <4> QED BY <1>1, <1>3, <2>1, <4>1, <4>2
    <3> QED BY <1>1, <1>3, <1>5, <2>1, <3>1
  <2> QED BY <1>3, <2>1, <2>3, <2>4, <2>5
<1> QED BY <1>6, <1>7 DEF st, n, o, f

\* What __simple_alloc leaves of the region it takes the item from.
LEMMA AroundItem ==
  ASSUME NEW r \in Region, NEW addr \in Nat, NEW size \in Nat \ {0},
         r.first <= addr, addr + size - 1 <= r.last
  PROVE  /\ \A x \in Below(r, addr) :
              /\ x \in Region /\ x.first <= x.last
              /\ x.first = r.first /\ x.last = addr - 1
         /\ \A x \in Above(r, addr, size) :
              /\ x \in Region /\ x.first <= x.last
              /\ x.first = addr + size /\ x.last = r.last
         /\ \A x, y \in Below(r, addr) : x = y
         /\ \A x, y \in Above(r, addr, size) : x = y
         /\ r.first < addr - 1 => Below(r, addr) # {}
         /\ addr + size < r.last => Above(r, addr, size) # {}
<1>1. r.first \in Nat /\ r.last \in Nat
  BY RegionFields
<1> DEFINE k == addr - 1
           j == addr + size
<1>2. k \in Int /\ (r.first < k => k \in Nat) /\ j \in Nat
  BY <1>1
<1>3. Below(r, addr) = IF r.first < k THEN {[r EXCEPT !.last = k]} ELSE {}
  BY DEF Below
<1>4. Above(r, addr, size) = IF j < r.last THEN {[r EXCEPT !.first = j]} ELSE {}
  BY DEF Above
<1> HIDE DEF k, j
<1>5. ASSUME NEW x \in Below(r, addr)
      PROVE  x \in Region /\ x.first <= x.last /\ x.first = r.first /\ x.last = k
  <2>1. r.first < k /\ x = [r EXCEPT !.last = k]
    BY <1>3
  <2>2. k \in Nat
    BY <1>2, <2>1
  <2>3. x \in Region /\ x.first = r.first /\ x.last = k
    BY <2>1, <2>2, CutLast
  <2> QED BY <1>1, <1>2, <2>1, <2>3
<1>6. ASSUME NEW x \in Above(r, addr, size)
      PROVE  x \in Region /\ x.first <= x.last /\ x.first = j /\ x.last = r.last
  <2>1. j < r.last /\ x = [r EXCEPT !.first = j]
    BY <1>4
  <2>3. x \in Region /\ x.first = j /\ x.last = r.last
    BY <1>2, <2>1, CutFirst
  <2> QED BY <1>1, <1>2, <2>1, <2>3
<1>7. /\ \A x, y \in Below(r, addr) : x = y
      /\ \A x, y \in Above(r, addr, size) : x = y
  BY <1>3, <1>4
<1>8. /\ r.first < k => Below(r, addr) # {}
      /\ j < r.last => Above(r, addr, size) # {}
  BY <1>3, <1>4
<1> QED BY <1>5, <1>6, <1>7, <1>8 DEF k, j

\* The step of PlaceItem that succeeds: region r, address addr.
Settled(r, addr) ==
  /\ pc = "placing" /\ pc' = pc
  /\ Len(job.addrs) < Len(job.group.items) /\ Item.addr = None
  /\ r \in job.rest /\ Fits(r, Item) /\ addr = Start(r, Item)
  /\ \A x \in job.rest : Fits(x, Item) => r.first <= x.first
  /\ ~TooFar(addr)
  /\ job' = [job EXCEPT !.addrs = Append(@, addr),
                        !.rest = Above(r, addr, Item.size)
                                   \cup {x \in job.rest : x.first > r.first},
                        !.kept = job.kept \cup Below(r, addr)
                                   \cup {x \in job.rest : x.first < r.first}]
  /\ UNCHANGED <<freelist, fulllist, windows, marked, placed>>

LEMMA ShapeFields ==
  ASSUME job = Shape(job), NEW a, NEW R, NEW K,
         job' = [job EXCEPT !.addrs = a, !.rest = R, !.kept = K]
  PROVE  /\ job'.group = job.group /\ job'.addrs = a /\ job'.rest = R
         /\ job'.kept = K /\ job'.popped = job.popped /\ job'.grown = job.grown
         /\ job' = Shape(job')
BY DEF Shape

LEMMA SettledFacts ==
  ASSUME AInv, NEW r, NEW addr, Settled(r, addr)
  PROVE  LET n == Len(job.addrs)
             size == Item.size
         IN /\ job.group \in Groups /\ n \in Nat /\ n + 1 \in 1 .. Len(job.group.items)
            /\ Item = job.group.items[n + 1] /\ Item.size \in Nat \ {0}
            /\ Item.align \in Nat \ {0} /\ Item.offset \in Nat
            /\ r \in pieces /\ r \in Region /\ r.first \in Nat /\ r.last \in Nat
            /\ addr \in Nat /\ r.first <= addr /\ addr + size - 1 <= r.last
            /\ job'.group = job.group /\ job'.popped = job.popped /\ job' = Shape(job')
            /\ job'.rest = Above(r, addr, size) \cup {x \in job.rest : x.first > r.first}
            /\ job'.kept = job.kept \cup Below(r, addr)
                             \cup {x \in job.rest : x.first < r.first}
            /\ job.addrs \in Seq(Nat) /\ job'.addrs = Append(job.addrs, addr)
            /\ job'.addrs \in Seq(Nat) /\ Len(job'.addrs) = n + 1
            /\ DOMAIN job.addrs = 1 .. n /\ DOMAIN job'.addrs = 1 .. n + 1
            /\ \A i \in 1 .. n : job'.addrs[i] = job.addrs[i] /\ job.addrs[i] \in Nat
            /\ job'.addrs[n + 1] = addr
<1> DEFINE n == Len(job.addrs)
           g == job.group
<1>1. /\ g \in Groups /\ job.addrs \in Seq(Nat) /\ n <= Len(g.items) /\ n < Len(g.items)
      /\ job = Shape(job)
  BY DEF AInv, JobInStep, Settled
<1>2. n \in Nat /\ Len(g.items) \in Nat
  BY <1>1, GroupItems
<1>3. n + 1 \in 1 .. Len(g.items)
  BY <1>1, <1>2
<1>4. Item = g.items[n + 1]
  BY DEF Item
<1>5. Item.size \in Nat \ {0} /\ Item.align \in Nat \ {0} /\ Item.offset \in Nat
  BY <1>1, <1>3, <1>4, GroupItems
<1>6. r \in pieces /\ r \in Region
  BY DEF AInv, PiecesSound, Sound, Bounded, Settled, pieces
<1>7. r.first \in Nat /\ r.last \in Nat
  BY <1>6, RegionFields
<1>8. addr \in Nat /\ r.first <= addr
  BY <1>5, <1>6, StartInRegion DEF Settled
<1>9. addr + Item.size - 1 <= r.last
  BY DEF Settled, Fits
<1>10. /\ job'.group = g /\ job'.popped = job.popped /\ job' = Shape(job')
       /\ job'.rest = Above(r, addr, Item.size) \cup {x \in job.rest : x.first > r.first}
       /\ job'.kept = job.kept \cup Below(r, addr)
                        \cup {x \in job.rest : x.first < r.first}
       /\ job'.addrs = Append(job.addrs, addr)
  <2> DEFINE a == Append(job.addrs, addr)
             R == Above(r, addr, Item.size) \cup {x \in job.rest : x.first > r.first}
             K == job.kept \cup Below(r, addr) \cup {x \in job.rest : x.first < r.first}
  <2>1. job' = [job EXCEPT !.addrs = a, !.rest = R, !.kept = K]
    BY DEF Settled
  <2> HIDE DEF a, R, K
  <2>2. /\ job'.group = job.group /\ job'.addrs = a /\ job'.rest = R
        /\ job'.kept = K /\ job'.popped = job.popped /\ job' = Shape(job')
    BY <1>1, <2>1, ShapeFields
  <2> QED BY <2>2 DEF a, R, K
<1>11. /\ job'.addrs \in Seq(Nat) /\ Len(job'.addrs) = n + 1
       /\ DOMAIN job.addrs = 1 .. n /\ DOMAIN job'.addrs = 1 .. n + 1
       /\ \A i \in 1 .. n : job'.addrs[i] = job.addrs[i] /\ job.addrs[i] \in Nat
       /\ job'.addrs[n + 1] = addr
  <2> DEFINE s == job.addrs
             t == Append(s, addr)
  <2>1. s \in Seq(Nat) /\ addr \in Nat
    BY <1>1, <1>8
  <2> HIDE DEF s
  <2>2. /\ t \in Seq(Nat) /\ Len(t) = Len(s) + 1
        /\ DOMAIN s = 1 .. Len(s) /\ DOMAIN t = 1 .. Len(s) + 1
        /\ \A i \in 1 .. Len(s) : t[i] = s[i] /\ s[i] \in Nat
        /\ t[Len(s) + 1] = addr
    BY <2>1
  <2> QED BY <1>10, <2>2 DEF s
<1> QED BY <1>1, <1>2, <1>3, <1>4, <1>5, <1>6, <1>7, <1>8, <1>9, <1>10, <1>11

\* The pieces afterwards: those of before without r, and what is left of r.
LEMMA SettledPieces ==
  ASSUME AInv, NEW r, NEW addr, Settled(r, addr)
  PROVE  LET S    == pieces \cup job.popped
             last == addr + Item.size - 1
             Left == Above(r, addr, Item.size) \cup Below(r, addr)
         IN /\ \A x \in S : x # r => x.last < r.first \/ r.last < x.first
            /\ \A x \in S : x \in Region /\ x.first \in Nat /\ x.last \in Nat /\ x.first <= x.last
            /\ r \in S /\ last \in Nat /\ addr <= last
            /\ \A x \in Left :
                 /\ x \in Region /\ x.first \in Nat /\ x.last \in Nat /\ x.first <= x.last
                 /\ r.first <= x.first /\ x.last <= r.last
                 /\ x.last < addr \/ last < x.first
            /\ \A x, y \in Left : x # y => x.last + 1 < y.first \/ y.last + 1 < x.first
            /\ \A b \in Nat : Covers(r, b) /\ ~(PageOf(addr) <= PageOf(b) /\ PageOf(b) <= PageOf(last)) =>
                 \E x \in Left : Covers(x, b)
            /\ pieces' \cup job'.popped = (S \ {r}) \cup Left
            /\ pieces' = (pieces \ {r}) \cup Left
            /\ \A x \in job'.rest : last < x.first
<1> DEFINE S    == pieces \cup job.popped
           z    == Item.size
           last == addr + z - 1
           A    == Above(r, addr, z)
           B    == Below(r, addr)
           Left == A \cup B
<1>1. /\ z \in Nat \ {0} /\ r \in pieces /\ r \in Region
      /\ r.first \in Nat /\ r.last \in Nat
      /\ addr \in Nat /\ r.first <= addr /\ addr + z - 1 <= r.last
      /\ job'.popped = job.popped
      /\ job'.rest = A \cup {x \in job.rest : x.first > r.first}
      /\ job'.kept = job.kept \cup B \cup {x \in job.rest : x.first < r.first}
  BY SettledFacts
<1>2. r \in job.rest /\ r \notin job.kept /\ r \notin job.popped /\ r \in S
  BY <1>1 DEF AInv, PiecesSound, Settled
<1>3. Sound(S) /\ NoneMeet(S)
  BY SoundIsDisjoint DEF AInv, PiecesSound
<1>4. \A x \in S : x \in Region /\ x.first \in Nat /\ x.last \in Nat /\ x.first <= x.last
  BY <1>3, RegionFields DEF Sound, Bounded
<1>5. \A x \in S : x # r => x.last < r.first \/ r.last < x.first
  BY <1>2, <1>3 DEF NoneMeet
<1>6. last \in Nat /\ addr <= last /\ last = addr + z - 1 /\ addr + z = last + 1
  BY <1>1
<1>7. /\ \A x \in B : /\ x \in Region /\ x.first <= x.last
                      /\ x.first = r.first /\ x.last = addr - 1
      /\ \A x \in A : /\ x \in Region /\ x.first <= x.last
                      /\ x.first = addr + z /\ x.last = r.last
      /\ \A x, y \in B : x = y
      /\ \A x, y \in A : x = y
      /\ r.first < addr - 1 => B # {}
      /\ addr + z < r.last => A # {}
  BY <1>1, AroundItem
<1> HIDE DEF S, z, last, A, B
<1>8. ASSUME NEW x \in Left
      PROVE  /\ x \in Region /\ x.first \in Nat /\ x.last \in Nat /\ x.first <= x.last
             /\ r.first <= x.first /\ x.last <= r.last
             /\ x.last < addr \/ last < x.first
  <2>1. x \in Region /\ x.first \in Nat /\ x.last \in Nat /\ x.first <= x.last
    BY <1>7, RegionFields
  <2>2. CASE x \in A
    BY <1>1, <1>6, <1>7, <2>1, <2>2
  <2>3. CASE x \in B
    BY <1>1, <1>6, <1>7, <2>1, <2>3
  <2> QED BY <2>1, <2>2, <2>3
<1>9. ASSUME NEW x \in Left, NEW y \in Left, x # y
      PROVE  x.last + 1 < y.first \/ y.last + 1 < x.first
  <2>1. CASE x \in A /\ y \in B
    BY <1>1, <1>6, <1>7, <2>1
  <2>2. CASE x \in B /\ y \in A
    BY <1>1, <1>6, <1>7, <2>2
  <2> QED BY <1>7, <1>9, <2>1, <2>2
<1>10. ASSUME NEW b \in Nat, Covers(r, b), ~(PageOf(addr) <= PageOf(b) /\ PageOf(b) <= PageOf(last))
       PROVE  \E x \in Left : Covers(x, b)
  <2> DEFINE s == AlignDown(b, Page)
             e == s + Page - 1
  <2>0. Page \in Nat /\ Page > 1
    BY PageAssumption
  <2>1. /\ s \in Nat /\ s <= b /\ b < s + Page
        /\ \A c \in Nat : PageOf(c) = PageOf(b) <=> s <= c /\ c < s + Page
    BY PageBytes
  <2> HIDE DEF s
  <2>2. /\ e \in Nat /\ s < e /\ b <= e
        /\ \A c \in Nat : PageOf(c) = PageOf(b) <=> s <= c /\ c <= e
    BY <2>0, <2>1
  <2> HIDE DEF e
  <2>3. r.first <= s /\ e <= r.last
    BY <1>10, <2>1, <2>2 DEF Covers
  <2>4. ~(addr <= e /\ s <= last)
    <3>1. SUFFICES ASSUME addr <= e, s <= last
                   PROVE  PageOf(addr) <= PageOf(b) /\ PageOf(b) <= PageOf(last)
      BY <1>10
    <3>2. PageOf(s) = PageOf(b) /\ PageOf(e) = PageOf(b)
      BY <2>1, <2>2
    <3>3. PageOf(addr) <= PageOf(e)
      BY <1>1, <2>2, <3>1, PageMono
    <3>4. PageOf(s) <= PageOf(last)
      BY <1>6, <2>1, <3>1, PageMono
    <3> QED BY <3>2, <3>3, <3>4
  <2>5. CASE e < addr
    <3>1. r.first < addr - 1
      BY <1>1, <2>1, <2>2, <2>3, <2>5
    <3>2. PICK x \in B : x.first = r.first /\ x.last = addr - 1
      BY <1>7, <3>1
    <3>3. \A c \in Nat : PageOf(c) = PageOf(b) => x.first <= c /\ c <= x.last
      BY <1>1, <2>1, <2>2, <2>3, <2>5, <3>2
    <3> QED BY <3>3 DEF Covers
  <2>6. CASE last < s
    <3>1. addr + z < r.last
      BY <1>1, <1>6, <2>1, <2>2, <2>3, <2>6
    <3>2. PICK x \in A : x.first = addr + z /\ x.last = r.last
      BY <1>7, <3>1
    <3>3. \A c \in Nat : PageOf(c) = PageOf(b) => x.first <= c /\ c <= x.last
      BY <1>1, <1>6, <2>1, <2>2, <2>3, <2>6, <3>2
    <3> QED BY <3>3 DEF Covers
  <2> QED BY <1>1, <1>6, <2>1, <2>2, <2>4, <2>5, <2>6
<1>11. \A x \in job.rest : x # r => x.first > r.first \/ x.first < r.first
  <2> SUFFICES ASSUME NEW x \in job.rest, x # r PROVE x.first > r.first \/ x.first < r.first
    OBVIOUS
  <2>1. x \in S
    BY DEF S, pieces
  <2> QED BY <1>1, <1>4, <1>5, <2>1
<1>12. /\ ~(r.first > r.first) /\ ~(r.first < r.first)
  BY <1>1
<1>13. pieces' = (pieces \ {r}) \cup Left
  <2>1. pieces' = job'.rest \cup job'.kept
    BY DEF pieces
  <2>2. \A x : x \in job'.rest \cup job'.kept <=> (x \in job.rest \cup job.kept /\ x # r) \/ x \in Left
    BY <1>1, <1>2, <1>11, <1>12
  <2> QED BY <2>1, <2>2 DEF pieces
<1>14. pieces' \cup job'.popped = (S \ {r}) \cup Left
  BY <1>1, <1>2, <1>13 DEF S
<1>15. ASSUME NEW x \in job'.rest PROVE last < x.first
  <2>1. CASE x \in A
    BY <1>6, <1>7, <2>1
  <2>2. CASE x \in job.rest /\ x.first > r.first
    <3>1. x \in S /\ x # r
      BY <1>1, <2>2 DEF S, pieces
    <3>2. last <= r.last
      BY <1>1 DEF last
    <3> QED BY <1>1, <1>4, <1>5, <1>6, <2>2, <3>1, <3>2
  <2> QED BY <1>1, <2>1, <2>2
<1> QED BY <1>2, <1>4, <1>5, <1>6, <1>8, <1>9, <1>10, <1>13, <1>14, <1>15 DEF S, last, z, A, B

LEMMA SettledSound ==
  ASSUME AInv, NEW r, NEW addr, Settled(r, addr)
  PROVE  PiecesSound'
<1> DEFINE S    == pieces \cup job.popped
           last == addr + Item.size - 1
           Left == Above(r, addr, Item.size) \cup Below(r, addr)
           T    == pieces' \cup job'.popped
<1>1. /\ \A x \in S : x # r => x.last < r.first \/ r.last < x.first
      /\ \A x \in S : x \in Region /\ x.first \in Nat /\ x.last \in Nat /\ x.first <= x.last
      /\ r \in S
      /\ \A x \in Left :
           /\ x \in Region /\ x.first \in Nat /\ x.last \in Nat /\ x.first <= x.last
           /\ r.first <= x.first /\ x.last <= r.last
      /\ \A x, y \in Left : x # y => x.last + 1 < y.first \/ y.last + 1 < x.first
      /\ T = (S \ {r}) \cup Left
      /\ pieces' = (pieces \ {r}) \cup Left
      /\ \A x \in job'.rest : last < x.first
      /\ last \in Nat /\ addr <= last
  BY SettledPieces
<1>2. Sound(S) /\ NoneMeet(S)
  BY SoundIsDisjoint DEF AInv, PiecesSound
<1>3. /\ r \in pieces /\ r \in Region /\ job'.popped = job.popped /\ addr \in Nat
      /\ Item.size \in Nat \ {0}
      /\ r.first \in Nat /\ r.last \in Nat /\ r.first <= addr /\ addr + Item.size - 1 <= r.last
      /\ job'.rest = Above(r, addr, Item.size) \cup {x \in job.rest : x.first > r.first}
      /\ job'.kept = job.kept \cup Below(r, addr)
                       \cup {x \in job.rest : x.first < r.first}
  BY SettledFacts
<1>4. /\ \A x \in Below(r, addr) : x.last = addr - 1
  BY <1>3, AroundItem
<1>5. \A x \in Above(r, addr, Item.size) : x.first = addr + Item.size
  BY <1>3, AroundItem
<1>5a. r \in job.rest
  BY DEF Settled
<1> HIDE DEF S, T, Left, last
<1>6. ASSUME NEW x \in Left, x \in S, x # r PROVE FALSE
  BY <1>1, <1>3, <1>6
<1>7. ASSUME NEW x \in T, NEW q \in S, q.first <= x.first, x.last <= q.last
      PROVE  (q = r /\ x \in Left) \/ (q # r /\ x = q)
  <2>1. CASE x \in Left
    <3>1. CASE q # r
      BY <1>1, <1>3, <1>7, <2>1, <3>1
    <3> QED BY <2>1, <3>1
  <2>2. CASE x \in S /\ x # r
    <3>1. x = q
      <4>1. CASE x # q
        <5>1. x.last < q.first \/ q.last < x.first
          BY <1>2, <2>2, <4>1 DEF NoneMeet
        <5> QED BY <1>1, <1>7, <2>2, <5>1
      <4> QED BY <4>1
    <3> QED BY <2>2, <3>1
  <2> QED BY <1>1, <2>1, <2>2
<1>8. Sound(T)
  <2>1. T \in SUBSET Region /\ \A x \in T : x.first <= x.last
    BY <1>1
  <2>2. \A x \in T : \E q \in S : q.first <= x.first /\ x.last <= q.last
    BY <1>1
  <2>3. ASSUME NEW q \in S, NEW x \in T, NEW y \in T, x # y,
               q.first <= x.first, x.last <= q.last, q.first <= y.first, y.last <= q.last
        PROVE  x.last + 1 < y.first \/ y.last + 1 < x.first
    <3>1. x \in Left /\ y \in Left
      BY <1>7, <2>3
    <3> QED BY <1>1, <2>3, <3>1
  <2> QED BY <1>2, <2>1, <2>2, <2>3, PartsSound
<1>9. job'.rest \cap job'.kept = {}
  <2> SUFFICES ASSUME NEW x, x \in job'.rest, x \in job'.kept PROVE FALSE
    OBVIOUS
  <2>1. last < x.first
    BY <1>1
  <2>2. CASE x \in Below(r, addr)
    <3>1. x.last = addr - 1 /\ x \in Left
      BY <1>4, <2>2 DEF Left
    <3> QED BY <1>1, <1>3, <2>1, <3>1
  <2>3. CASE x \in job.kept
    <3>1. x \in S /\ x # r /\ x \notin job.rest
      BY <1>5a, <2>3 DEF S, pieces, AInv, PiecesSound
    <3>2. x \in Left
      BY <1>3, <3>1 DEF Left
    <3> QED BY <1>6, <3>1, <3>2
  <2>4. CASE x \in job.rest /\ x.first < r.first
    <3>1. x \in S
      BY <2>4 DEF S, pieces
    <3>2. x.first < last
      BY <1>1, <1>3, <2>4, <3>1
    <3> QED BY <1>1, <2>1, <3>1, <3>2
  <2> QED BY <1>3, <2>2, <2>3, <2>4
<1>10. pieces' \cap job'.popped = {}
  <2> SUFFICES ASSUME NEW x, x \in pieces', x \in job.popped PROVE FALSE
    BY <1>3
  <2>1. x \in S /\ x \notin pieces /\ x # r
    BY <1>3 DEF S, AInv, PiecesSound
  <2>2. x \in Left
    BY <1>1, <2>1
  <2> QED BY <1>6, <2>1, <2>2
<1>11. ASSUME NEW b \in Nat, Has(pieces', b) PROVE Has(freelist', b)
  <2>1. PICK x \in pieces' : x.first <= b /\ b <= x.last
    BY <1>11 DEF Has
  <2>2. Has(pieces, b)
    <3>1. CASE x \in pieces
      BY <2>1, <3>1 DEF Has
    <3>2. CASE x \in Left
      <4>1. r.first <= b /\ b <= r.last
        BY <1>1, <1>3, <2>1, <3>2
      <4> QED BY <1>3, <4>1 DEF Has
    <3> QED BY <1>1, <3>1, <3>2
  <2>3. freelist' = freelist
    BY DEF Settled
  <2> QED BY <2>2, <2>3 DEF AInv, PiecesSound
<1> QED BY <1>8, <1>9, <1>10, <1>11 DEF PiecesSound, T

LEMMA SettledSpans ==
  ASSUME AInv, NEW r, NEW addr, Settled(r, addr), NEW n, n = Len(job.addrs)
  PROVE  /\ Chosen' = Chosen \cup {n + 1} /\ n + 1 \notin Chosen
         /\ \A i \in Chosen : Span(i)' = Span(i) /\ Span(i).first \in Nat /\ Span(i).last \in Nat
                              /\ Span(i).first <= Span(i).last
         /\ Span(n + 1)' = [first |-> addr, last |-> addr + Item.size - 1]
<1> DEFINE g == job.group
<1>1. /\ g \in Groups /\ n \in Nat /\ n + 1 \in 1 .. Len(g.items)
      /\ Item = g.items[n + 1] /\ job'.group = g
      /\ DOMAIN job.addrs = 1 .. n /\ DOMAIN job'.addrs = 1 .. n + 1
      /\ \A i \in 1 .. n : job'.addrs[i] = job.addrs[i] /\ job.addrs[i] \in Nat
      /\ job'.addrs[n + 1] = addr
  BY SettledFacts
<1>2. Item.addr = None
  BY DEF Settled
<1>3. \A i : i \in 1 .. n + 1 <=> i \in 1 .. n \/ i = n + 1
  BY <1>1
<1>4. n + 1 \notin 1 .. n
  BY <1>1
<1>5. Chosen' = Chosen \cup {n + 1} /\ n + 1 \notin Chosen
  BY <1>1, <1>2, <1>3, <1>4 DEF Chosen
<1>6. Span(n + 1)' = [first |-> addr, last |-> addr + Item.size - 1]
  BY <1>1 DEF Span
<1>7. ASSUME NEW i \in Chosen
      PROVE  Span(i)' = Span(i) /\ Span(i).first \in Nat /\ Span(i).last \in Nat
             /\ Span(i).first <= Span(i).last
  <2>1. i \in 1 .. n
    BY <1>1 DEF Chosen
  <2>2. job'.addrs[i] = job.addrs[i] /\ job.addrs[i] \in Nat
    BY <1>1, <2>1
  <2>3. Span(i)' = Span(i)
    BY <1>1, <2>2 DEF Span
  <2>4. i \in 1 .. Len(g.items)
    <3>1. Len(g.items) \in Nat
      BY <1>1, GroupItems
    <3> QED BY <1>1, <2>1, <3>1
  <2>5. g.items[i].size \in Nat \ {0}
    BY <1>1, <2>4, GroupItems
  <2> DEFINE f == job.addrs[i]
             z == g.items[i].size
  <2>6. Span(i).first = f /\ Span(i).last = f + z - 1
    BY DEF Span
  <2>7. f \in Nat /\ z \in Nat \ {0}
    BY <2>2, <2>5
  <2> HIDE DEF f, z
  <2> QED BY <2>3, <2>6, <2>7
<1> QED BY <1>5, <1>6, <1>7

\* The spans of the items of the group in progress.
LEMMA SpanTyped ==
  ASSUME AInv, pc = "placing", NEW i \in Chosen
  PROVE  /\ i \in 1 .. Len(job.addrs) /\ i \in 1 .. Len(job.group.items)
         /\ Span(i).first = job.addrs[i]
         /\ Span(i).last = job.addrs[i] + job.group.items[i].size - 1
         /\ Span(i).first \in Nat /\ Span(i).last \in Nat /\ Span(i).first <= Span(i).last
<1> DEFINE g == job.group
<1>1. /\ g \in Groups /\ job.addrs \in Seq(Nat) /\ Len(job.addrs) <= Len(g.items)
  BY DEF AInv, JobInStep
<1>2. i \in 1 .. Len(job.addrs) /\ job.addrs[i] \in Nat
  BY <1>1 DEF Chosen
<1>3. i \in 1 .. Len(g.items)
  <2>1. Len(g.items) \in Nat /\ Len(job.addrs) \in Nat
    BY <1>1, GroupItems
  <2> QED BY <1>1, <1>2, <2>1
<1>4. g.items[i].size \in Nat \ {0}
  BY <1>1, <1>3, GroupItems
<1> DEFINE f == job.addrs[i]
           z == g.items[i].size
<1>5. Span(i).first = f /\ Span(i).last = f + z - 1
  BY DEF Span
<1>6. f \in Nat /\ z \in Nat \ {0}
  BY <1>2, <1>4
<1> HIDE DEF f, z
<1>7. Span(i).first \in Nat /\ Span(i).last \in Nat /\ Span(i).first <= Span(i).last
  BY <1>5, <1>6
<1> QED BY <1>2, <1>3, <1>5, <1>7 DEF f, z

LEMMA SettledStep ==
  ASSUME AInv, NEW r, NEW addr, Settled(r, addr)
  PROVE  AInv'
<1>0. PICK n : n = Len(job.addrs)
  OBVIOUS
<1> DEFINE S    == pieces \cup job.popped
           last == addr + Item.size - 1
           Left == Above(r, addr, Item.size) \cup Below(r, addr)
           g    == job.group
<1>1. /\ \A x \in S : x # r => x.last < r.first \/ r.last < x.first
      /\ \A x \in S : x \in Region /\ x.first \in Nat /\ x.last \in Nat /\ x.first <= x.last
      /\ r \in S /\ last \in Nat /\ addr <= last
      /\ \A x \in Left :
           /\ x \in Region /\ x.first \in Nat /\ x.last \in Nat /\ x.first <= x.last
           /\ r.first <= x.first /\ x.last <= r.last
           /\ x.last < addr \/ last < x.first
      /\ \A b \in Nat : Covers(r, b) /\ ~(PageOf(addr) <= PageOf(b) /\ PageOf(b) <= PageOf(last)) =>
           \E x \in Left : Covers(x, b)
      /\ pieces' \cup job'.popped = (S \ {r}) \cup Left
      /\ pieces' = (pieces \ {r}) \cup Left
      /\ \A x \in job'.rest : last < x.first
  BY SettledPieces
<1>2. /\ g \in Groups /\ n \in Nat /\ n + 1 \in 1 .. Len(g.items)
      /\ Item = g.items[n + 1] /\ Item.size \in Nat \ {0}
      /\ Item.align \in Nat \ {0} /\ Item.offset \in Nat
      /\ r \in pieces /\ r \in Region /\ r.first \in Nat /\ r.last \in Nat
      /\ addr \in Nat /\ r.first <= addr /\ addr + Item.size - 1 <= r.last
      /\ job'.group = g /\ job'.popped = job.popped /\ job' = Shape(job')
      /\ job.addrs \in Seq(Nat) /\ job'.addrs \in Seq(Nat) /\ Len(job'.addrs) = n + 1
      /\ DOMAIN job.addrs = 1 .. n /\ DOMAIN job'.addrs = 1 .. n + 1
      /\ \A i \in 1 .. n : job'.addrs[i] = job.addrs[i] /\ job.addrs[i] \in Nat
      /\ job'.addrs[n + 1] = addr
  BY <1>0, SettledFacts
<1>3. /\ Chosen' = Chosen \cup {n + 1} /\ n + 1 \notin Chosen
      /\ \A i \in Chosen : Span(i)' = Span(i) /\ Span(i).first \in Nat /\ Span(i).last \in Nat
                           /\ Span(i).first <= Span(i).last
      /\ Span(n + 1)' = [first |-> addr, last |-> last]
  BY <1>0, SettledSpans
<1>4. /\ pc = "placing" /\ pc' = "placing" /\ r \in job.rest /\ Fits(r, Item)
      /\ addr = Start(r, Item) /\ Item.addr = None
      /\ \A x \in job.rest : Fits(x, Item) => r.first <= x.first
      /\ ~TooFar(addr)
      /\ UNCHANGED <<freelist, fulllist, windows, marked, placed>>
  BY DEF Settled
<1> DEFINE span == [first |-> addr, last |-> last]
<1>5. span.first = addr /\ span.last = last
  OBVIOUS
<1>6. free' = free /\ Taken' = Taken /\ Guarded' = Guarded /\ PlacedItems' = PlacedItems
  BY <1>2, <1>4 DEF free, Taken, Guarded, PlacedItems, MarkedRanges
<1>6a. /\ last <= r.last
       /\ \A x \in Nat : last < x => x >= addr + Item.size
  <2> DEFINE z == Item.size
  <2>1. last = addr + z - 1 /\ z \in Nat \ {0} /\ addr \in Nat /\ addr + z - 1 <= r.last
    BY <1>2
  <2> HIDE DEF z, last
  <2>2. last <= r.last /\ \A x \in Nat : last < x => x >= addr + z
    BY <2>1
  <2> QED BY <2>2 DEF z
<1> HIDE DEF S, last, Left, span
<1>7. ListsSound'
  BY <1>2, <1>4, <1>6 DEF AInv, ListsSound
<1>8. PiecesSound'
  BY SettledSound
<1>9. JobInStep'
  <2>1. n + 1 <= Len(g.items) /\ Len(g.items) \in Nat
    BY <1>2, GroupItems
  <2> QED BY <1>2, <1>4, <2>1 DEF AInv, JobInStep
<1>10. PlacedTyped' /\ PlacedRises'
  BY <1>4 DEF AInv, PlacedTyped, PlacedRises
<1>11. TakenKept' /\ FreeKept'
  BY <1>4, <1>6 DEF AInv, TakenKept, ItemsApart, FreeKept
\* A byte of the new pieces is one of the old, and none of the item's.
<1>12. ASSUME NEW b \in Nat, Has(pieces' \cup job'.popped, b)
       PROVE  Has(S, b) /\ ~(addr <= b /\ b <= last)
  <2>1. PICK x \in (S \ {r}) \cup Left : x.first <= b /\ b <= x.last
    BY <1>1, <1>12 DEF Has
  <2>2. CASE x \in S /\ x # r
    <3>1. Has(S, b)
      BY <2>1, <2>2 DEF Has
    <3>2. x.last < r.first \/ r.last < x.first
      BY <1>1, <2>2
    <3>3. /\ x.first \in Nat /\ x.last \in Nat /\ r.first \in Nat /\ r.last \in Nat
          /\ addr \in Nat /\ last \in Nat /\ r.first <= addr /\ last <= r.last
      BY <1>1, <1>2, <1>6a, <2>2
    <3>4. ~(addr <= b /\ b <= last)
      BY <2>1, <3>2, <3>3
    <3> QED BY <3>1, <3>4
  <2>3. CASE x \in Left
    <3>0. /\ x.first \in Nat /\ x.last \in Nat /\ r.first <= x.first /\ x.last <= r.last
          /\ r.first \in Nat /\ r.last \in Nat
      BY <1>1, <1>2, <2>3
    <3>1. r.first <= b /\ b <= r.last
      BY <2>1, <3>0
    <3>2. Has(S, b)
      BY <1>1, <3>1 DEF Has
    <3>3. x.first \in Nat /\ x.last \in Nat /\ (x.last < addr \/ last < x.first)
      BY <1>1, <2>3
    <3>4. addr \in Nat /\ last \in Nat
      BY <1>1, <1>2
    <3>5. ~(addr <= b /\ b <= last)
      BY <2>1, <3>3, <3>4
    <3> QED BY <3>2, <3>5
  <2> QED BY <2>1, <2>2, <2>3
<1>13. SpansTaken'
  <2>1. \A i \in Chosen, b \in Nat :
          Span(i).first <= b /\ b <= Span(i).last => Has(freelist, b) /\ ~Has(S, b)
    BY <1>4 DEF AInv, SpansTaken, S
  <2>2. \A i, j \in Chosen :
          i # j => Span(i).last < Span(j).first \/ Span(j).last < Span(i).first
    BY <1>4 DEF AInv, SpansTaken
  <2>3. ASSUME NEW b \in Nat, addr <= b, b <= last
        PROVE  Has(pieces, b) /\ Has(freelist, b) /\ Has(S, b)
    <3>0. /\ r.first \in Nat /\ r.last \in Nat /\ addr \in Nat /\ last \in Nat
          /\ r.first <= addr /\ last <= r.last /\ r \in pieces /\ r \in S
      BY <1>1, <1>2, <1>6a
    <3>1. r.first <= b /\ b <= r.last
      BY <2>3, <3>0
    <3>2. Has(pieces, b) /\ Has(S, b)
      BY <3>0, <3>1 DEF Has
    <3> QED BY <3>2 DEF AInv, PiecesSound
  <2>4. ASSUME NEW i \in Chosen
        PROVE  Span(i).last < addr \/ last < Span(i).first
    <3> DEFINE f == Span(i).first
               l == Span(i).last
    <3>2. f \in Nat /\ l \in Nat /\ f <= l
      BY <1>3
    <3>0. addr \in Nat /\ last \in Nat
      BY <1>1, <1>2
    <3> HIDE DEF f, l
    <3>1. SUFFICES ASSUME addr <= l, f <= last PROVE FALSE
      BY <3>0, <3>2 DEF f, l
    <3>3. \E b \in Nat : addr <= b /\ b <= last /\ f <= b /\ b <= l
      <4>0. addr <= last
        BY <1>1
      <4>1. CASE f <= addr
        BY <3>0, <3>1, <4>0, <4>1
      <4>2. CASE addr < f
        BY <3>0, <3>1, <3>2, <4>2
      <4> QED BY <3>0, <3>2, <4>1, <4>2
    <3>4. PICK b \in Nat : addr <= b /\ b <= last /\ f <= b /\ b <= l
      BY <3>3
    <3>5. ~Has(S, b)
      BY <2>1, <3>4 DEF f, l
    <3> QED BY <2>3, <3>4, <3>5
  <2>5. ASSUME NEW i \in Chosen', NEW b \in Nat, Span(i)'.first <= b, b <= Span(i)'.last
        PROVE  Has(freelist', b) /\ ~Has(pieces' \cup job'.popped, b)
    <3>1. CASE i \in Chosen
      <4>1. Has(freelist, b) /\ ~Has(S, b)
        BY <1>3, <2>1, <2>5, <3>1
      <4> QED BY <1>4, <1>12, <4>1
    <3>2. CASE i = n + 1
      <4>1. addr <= b /\ b <= last
        BY <1>3, <1>5, <2>5, <3>2 DEF span
      <4> QED BY <1>4, <1>12, <2>3, <4>1
    <3> QED BY <1>3, <2>5, <3>1, <3>2
  <2>6. ASSUME NEW i \in Chosen', NEW j \in Chosen', i # j
        PROVE  Span(i)'.last < Span(j)'.first \/ Span(j)'.last < Span(i)'.first
    <3>1. CASE i \in Chosen /\ j \in Chosen
      BY <1>3, <2>2, <2>6, <3>1
    <3>2. CASE i \in Chosen /\ j = n + 1
      BY <1>3, <1>5, <2>4, <3>2 DEF span
    <3>3. CASE i = n + 1 /\ j \in Chosen
      BY <1>3, <1>5, <2>4, <3>3 DEF span
    <3> QED BY <1>3, <2>6, <3>1, <3>2, <3>3
  <2> QED BY <2>5, <2>6 DEF SpansTaken
<1>14. PagesLeft'
  <2>1. ASSUME NEW b \in Nat, Has(freelist', b)
        PROVE  (\E i \in Chosen' : Touch(Span(i)', b)) \/ \E x \in pieces' : Covers(x, b)
    <3>1. (\E i \in Chosen : Touch(Span(i), b)) \/ \E x \in pieces : Covers(x, b)
      BY <1>4, <2>1 DEF AInv, PagesLeft
    <3>2. CASE \E i \in Chosen : Touch(Span(i), b)
      BY <1>3, <3>2
    <3>3. CASE \E x \in pieces : x # r /\ Covers(x, b)
      BY <1>1, <3>3
    <3>4. CASE Covers(r, b)
      <4>1. CASE PageOf(addr) <= PageOf(b) /\ PageOf(b) <= PageOf(last)
        <5>1. Touch(span, b)
          BY <1>5, <4>1 DEF Touch
        <5> QED BY <1>3, <5>1 DEF span
      <4>2. CASE ~(PageOf(addr) <= PageOf(b) /\ PageOf(b) <= PageOf(last))
        <5>1. \E x \in Left : Covers(x, b)
          BY <1>1, <3>4, <4>2
        <5> QED BY <1>1, <5>1
      <4> QED BY <4>1, <4>2
    <3> QED BY <3>1, <3>2, <3>3, <3>4
  <2> QED BY <2>1 DEF PagesLeft
<1>15. JobRises'
  <2>1. SUFFICES ASSUME AllOpen(g)
                 PROVE  /\ Rising(g, job'.addrs)
                        /\ \A x \in job'.rest : x.first >= job'.addrs[n + 1] + g.items[n + 1].size
    BY <1>2 DEF JobRises
  <2>2. \A x \in job'.rest : x.first >= job'.addrs[n + 1] + g.items[n + 1].size
    <3> SUFFICES ASSUME NEW x \in job'.rest PROVE x.first >= addr + Item.size
      BY <1>2
    <3>1. x \in pieces' /\ last < x.first
      BY <1>1 DEF pieces
    <3>2. x.first \in Nat
      BY <1>1, <3>1 DEF S
    <3> QED BY <1>1, <1>2, <1>6a, <3>1, <3>2
  <2>3. ASSUME NEW i \in 2 .. n + 1
        PROVE  LET end == job'.addrs[i-1] + g.items[i-1].size IN
               /\ job'.addrs[i] >= end
               /\ g.distance # None => job'.addrs[i] - end <= g.distance
    <3>0. Rising(g, job.addrs)
      BY <1>4, <2>1 DEF AInv, JobRises
    <3>1. CASE i \in 2 .. n
      <4>1. i \in 1 .. n /\ i - 1 \in 1 .. n
        BY <1>2, <3>1
      <4>2. /\ job.addrs[i] >= job.addrs[i-1] + g.items[i-1].size
            /\ g.distance # None =>
                 job.addrs[i] - (job.addrs[i-1] + g.items[i-1].size) <= g.distance
        BY <1>0, <3>0, <3>1 DEF Rising
      <4>3. job'.addrs[i] = job.addrs[i] /\ job'.addrs[i-1] = job.addrs[i-1]
        BY <1>2, <4>1
      <4> QED BY <4>2, <4>3
    <3>2. CASE i = n + 1
      <4>1. n > 0 /\ n \in 1 .. n /\ i - 1 = n
        BY <1>2, <2>3, <3>2
      <4>2. r.first >= job.addrs[n] + g.items[n].size
        BY <1>0, <1>4, <2>1, <4>1 DEF AInv, JobRises
      <4>3. job'.addrs[i] = addr /\ job'.addrs[i-1] = job.addrs[n] /\ job.addrs[n] \in Nat
        BY <1>2, <3>2, <4>1
      <4>4. g.items[n].size \in Nat
        <5>1. n \in 1 .. Len(g.items)
          BY <1>2, <4>1, GroupItems
        <5> QED BY <1>2, <5>1, GroupItems
      <4> DEFINE end == job.addrs[n] + g.items[n].size
      <4>5. end \in Nat
        BY <4>3, <4>4
      <4>6. addr >= end
        <5>1. r.first >= end
          BY <4>2
        <5> HIDE DEF end
        <5> QED BY <1>2, <4>5, <5>1
      <4>7. g.distance # None => addr - end <= g.distance
        <5>1. SUFFICES ASSUME g.distance # None PROVE addr - end <= g.distance
          OBVIOUS
        <5>2. ~(addr - end > g.distance)
          BY <1>0, <1>4, <4>1, <5>1 DEF TooFar
        <5>3. g.distance \in Nat
          BY <1>2, <5>1, GroupItems
        <5> DEFINE d == g.distance
        <5>4. d \in Nat /\ ~(addr - end > d)
          BY <5>2, <5>3
        <5> HIDE DEF end, d
        <5>5. addr - end <= d
          BY <1>2, <4>5, <5>4
        <5> QED BY <5>5 DEF d
      <4> QED BY <4>1, <4>3, <4>6, <4>7
    <3> QED BY <1>2, <2>3, <3>1, <3>2
  <2>4. Rising(g, job'.addrs)
    BY <1>2, <2>3 DEF Rising
  <2> QED BY <2>2, <2>4
<1>16. FirstFit'
  <2>1. SUFFICES ASSUME Len(g.items) = 1, g.items[1].addr = None
                 PROVE  \A a \in 0 .. job'.addrs[1] - 1 : a % g.items[1].align = g.items[1].offset =>
                          \E b \in a .. a + g.items[1].size - 1 : ~Has(freelist', b)
    BY <1>2 DEF FirstFit, NoneBelow
  <2>2. n = 0 /\ Item = g.items[1] /\ job'.addrs[1] = addr
    BY <1>2, <2>1
  <2>3. job.rest = freelist
    BY <1>0, <1>4, <2>1, <2>2 DEF AInv, FirstFit
  <2>4. SUFFICES ASSUME NEW a \in 0 .. addr - 1, a % Item.align = Item.offset,
                        \A b \in a .. a + Item.size - 1 : Has(freelist, b)
                 PROVE  FALSE
    BY <1>4, <2>2
  <2> DEFINE z == Item.size
             e == a + z - 1
  <2>5. a \in Nat /\ e \in Nat /\ a <= e /\ a < addr /\ z \in Nat \ {0} /\ e = a + z - 1
    <3>1. z \in Nat \ {0} /\ addr \in Nat /\ a \in 0 .. addr - 1
      BY <1>2, <2>4
    <3> HIDE DEF z
    <3> QED BY <3>1
  <2>6. Sound(freelist)
    <3>1. freelist \in SUBSET free /\ Sound(free)
      BY DEF AInv, ListsSound, free
    <3> QED BY <3>1, SubsetSound
  <2>7. PICK q \in freelist : q.first <= a /\ e <= q.last
    <3>1. \A b \in a .. e : Has(freelist, b)
      BY <2>4
    <3> HIDE DEF e
    <3> QED BY <2>5, <2>6, <3>1, OneRegion
  <2>8. q \in Region /\ q.first \in Nat /\ q.last \in Nat /\ q \in S /\ q \in job.rest
    BY <1>1, <2>3 DEF S, pieces
  <2>9. Start(q, Item) \in Nat /\ Start(q, Item) <= a
    <3>1. Item.align \in Nat \ {0} /\ Item.offset \in Nat
      BY <1>2
    <3>2. a \in Nat /\ q.first <= a /\ a % Item.align = Item.offset /\ q \in Region
      BY <2>4, <2>5, <2>7, <2>8
    <3> QED BY <3>1, <3>2, StartInRegion
  <2>10. Fits(q, Item)
    <3> DEFINE st == Start(q, Item)
    <3>1. st \in Nat /\ st <= a
      BY <2>9
    <3> HIDE DEF st
    <3>2. st + z - 1 <= q.last
      BY <2>5, <2>7, <2>8, <3>1
    <3> QED BY <3>2 DEF Fits, st
  <2>11. r.first <= q.first
    BY <1>4, <2>8, <2>10
  <2>12. CASE q = r
    BY <1>2, <1>4, <2>5, <2>9, <2>12
  <2>13. CASE q # r
    <3>1. q.last < r.first \/ r.last < q.first
      BY <1>1, <2>8, <2>13
    <3>2. q.first <= q.last /\ r.first <= r.last /\ q.first <= a
      BY <1>1, <2>7, <2>8
    <3>3. addr <= r.last
      BY <1>1, <1>2, <1>6a
    <3> HIDE DEF e
    <3>4. /\ q.first \in Nat /\ q.last \in Nat /\ r.first \in Nat /\ r.last \in Nat
          /\ a \in Nat /\ addr \in Nat
      BY <1>2, <2>4, <2>8
    <3>5. addr <= a
      BY <2>11, <3>1, <3>2, <3>3, <3>4
    <3> QED BY <2>5, <3>4, <3>5
  <2> QED BY <2>12, <2>13
<1> QED BY <1>7, <1>8, <1>9, <1>10, <1>11, <1>13, <1>14, <1>15, <1>16 DEF AInv

\* Too far from the last item: alloc gives up, or starts over.
LEMMA TooFarStep ==
  ASSUME AInv, pc = "placing", Len(job.addrs) < Len(job.group.items),
         NEW addr, TooFar(addr),
         IF Cardinality(freelist) <= 1 THEN Fail ELSE Pop(freelist) /\ UNCHANGED pc,
         UNCHANGED <<fulllist, windows, marked, placed>>
  PROVE  AInv'
<1>1. CASE Cardinality(freelist) <= 1
  BY <1>1, FailStep
<1>2. CASE ~(Cardinality(freelist) <= 1)
  <2> DEFINE n == Len(job.addrs)
             k == Len(job.group.items)
  <2>1. n > 0 /\ job.group.distance # None
    BY DEF TooFar
  <2>2. k > 1
    <3>1. n \in Nat /\ k \in Nat /\ n < k
      BY GroupItems DEF AInv, JobInStep
    <3> HIDE DEF n, k
    <3> QED BY <2>1, <3>1
  <2> QED BY <1>2, <2>1, <2>2, PopStep
<1> QED BY <1>1, <1>2

LEMMA PlaceItemStep ==
  ASSUME AInv, PlaceItem
  PROVE  AInv'
<1> DEFINE fit  == {x \in job.rest : Fits(x, Item)}
           r    == Lowest(fit)
           addr == Start(r, Item)
           rest == Above(r, addr, Item.size) \cup {x \in job.rest : x.first > r.first}
           kept == job.kept \cup Below(r, addr) \cup {x \in job.rest : x.first < r.first}
<1>1. /\ pc = "placing" /\ Len(job.addrs) < Len(job.group.items) /\ Item.addr = None
      /\ UNCHANGED <<fulllist, windows, marked, placed>>
  BY DEF PlaceItem
<1>2. IF fit = {} \/ (fit # {} /\ Item.policy \notin r.rights)
      THEN Fail ELSE Settle(addr, rest, kept)
  BY DEF PlaceItem
<1>3. CASE fit = {} \/ (fit # {} /\ Item.policy \notin r.rights)
  BY <1>1, <1>2, <1>3, FailStep
<1>4. CASE fit # {} /\ Settle(addr, rest, kept)
  <2>1. r \in fit /\ \A x \in fit : r.first <= x.first
    <3>1. fit \in SUBSET Region
      BY DEF AInv, PiecesSound, Sound, Bounded, pieces
    <3> HIDE DEF fit
    <3> QED BY <1>4, <3>1, LowestRegion
  <2>2. CASE TooFar(addr)
    <3>1. IF Cardinality(freelist) <= 1 THEN Fail ELSE Pop(freelist) /\ UNCHANGED pc
      BY <1>4, <2>2 DEF Settle
    <3> HIDE DEF addr
    <3> QED BY <1>1, <2>2, <3>1, TooFarStep
  <2>3. CASE ~TooFar(addr)
    <3>1. /\ job' = [job EXCEPT !.addrs = Append(@, addr), !.rest = rest, !.kept = kept]
          /\ UNCHANGED <<freelist, pc>>
      BY <1>4, <2>3 DEF Settle
    <3>2. /\ r \in job.rest /\ Fits(r, Item)
          /\ \A x \in job.rest : Fits(x, Item) => r.first <= x.first
      BY <2>1
    <3>3. addr = Start(r, Item)
      OBVIOUS
    <3>4. job' = [job EXCEPT !.addrs = Append(@, addr),
                        !.rest = Above(r, addr, Item.size)
                                   \cup {x \in job.rest : x.first > r.first},
                        !.kept = job.kept \cup Below(r, addr)
                                   \cup {x \in job.rest : x.first < r.first}]
      BY <3>1
    <3> HIDE DEF fit, r, addr
    <3>5. Settled(r, addr)
      BY <1>1, <2>3, <3>1, <3>2, <3>3, <3>4 DEF Settled
    <3> QED BY <3>5, SettledStep
  <2> QED BY <2>2, <2>3
<1> QED BY <1>2, <1>3, <1>4

\* An item with an address of its own: what lies below it is put by.
LEMMA FixedPlaced ==
  ASSUME AInv, NEW passed, passed \subseteq job.rest,
         pc = "placing", Len(job.addrs) < Len(job.group.items), Item.addr # None,
         job' = [job EXCEPT !.addrs = Append(@, Item.addr),
                            !.rest = job.rest \ passed, !.kept = job.kept \cup passed],
         UNCHANGED <<freelist, fulllist, windows, pc, marked, placed>>
  PROVE  AInv'
<1>0. PICK n : n = Len(job.addrs)
  OBVIOUS
<1> DEFINE g == job.group
           a == Item.addr
<1>1. /\ g \in Groups /\ job.addrs \in Seq(Nat) /\ job = Shape(job) /\ n < Len(g.items)
  BY <1>0 DEF AInv, JobInStep
<1>2. n \in Nat /\ Len(g.items) \in Nat /\ n + 1 \in 1 .. Len(g.items) /\ n + 1 <= Len(g.items)
  BY <1>0, <1>1, GroupItems
<1>3. Item = g.items[n + 1] /\ a \in Nat /\ g.items[n + 1].addr # None
  <2>1. Item = g.items[n + 1]
    BY <1>0 DEF Item
  <2> QED BY <1>1, <1>2, <2>1, GroupItems
<1>4. /\ job'.group = g /\ job'.popped = job.popped /\ job' = Shape(job')
      /\ job'.rest = job.rest \ passed /\ job'.kept = job.kept \cup passed
      /\ job'.addrs = Append(job.addrs, a)
  <2> DEFINE s == Append(job.addrs, a)
             R == job.rest \ passed
             K == job.kept \cup passed
  <2>1. job' = [job EXCEPT !.addrs = s, !.rest = R, !.kept = K]
    OBVIOUS
  <2> HIDE DEF s, R, K
  <2>2. /\ job'.group = job.group /\ job'.addrs = s /\ job'.rest = R
        /\ job'.kept = K /\ job'.popped = job.popped /\ job' = Shape(job')
    BY <1>1, <2>1 DEF Shape
  <2> QED BY <2>2 DEF s, R, K
<1> HIDE DEF a
<1>5. /\ job'.addrs \in Seq(Nat) /\ Len(job'.addrs) = n + 1
      /\ DOMAIN job.addrs = 1 .. n /\ DOMAIN job'.addrs = 1 .. n + 1
      /\ \A i \in 1 .. n : job'.addrs[i] = job.addrs[i]
  <2> DEFINE s == job.addrs
             t == Append(s, a)
  <2>1. s \in Seq(Nat) /\ a \in Nat /\ Len(s) = n
    BY <1>0, <1>1, <1>3
  <2> HIDE DEF s
  <2>2. /\ t \in Seq(Nat) /\ Len(t) = n + 1 /\ DOMAIN s = 1 .. n /\ DOMAIN t = 1 .. n + 1
        /\ \A i \in 1 .. n : t[i] = s[i]
    BY <2>1
  <2> QED BY <1>4, <2>2 DEF s
<1>6. pieces' = pieces /\ free' = free
  BY <1>4 DEF pieces, free
<1>7. /\ PlacedItems' = PlacedItems /\ Taken' = Taken /\ Guarded' = Guarded
  BY DEF PlacedItems, Taken, Guarded, MarkedRanges
<1>8. Chosen' = Chosen /\ \A i \in Chosen : Span(i)' = Span(i)
  <2>1. \A i \in 1 .. n + 1 : i \in 1 .. n \/ i = n + 1
    BY <1>2
  <2>2. 1 .. n \subseteq 1 .. n + 1
    BY <1>2
  <2>3. Chosen' = Chosen
    BY <1>3, <1>4, <1>5, <2>1, <2>2 DEF Chosen
  <2>4. \A i \in Chosen : Span(i)' = Span(i)
    BY <1>4, <1>5 DEF Chosen, Span
  <2> QED BY <2>3, <2>4
<1>9. ListsSound'
  BY <1>4, <1>6 DEF AInv, ListsSound
<1>10. PiecesSound'
  BY <1>4, <1>6 DEF AInv, PiecesSound
<1>11. JobInStep'
  BY <1>1, <1>2, <1>4, <1>5 DEF AInv, JobInStep
<1>12. PlacedTyped' /\ PlacedRises'
  BY DEF AInv, PlacedTyped, PlacedRises
<1>13. SpansTaken'
  BY <1>4, <1>6, <1>8 DEF AInv, SpansTaken
<1>14. PagesLeft'
  BY <1>6, <1>8 DEF AInv, PagesLeft
<1>15. TakenKept' /\ FreeKept'
  BY <1>6, <1>7 DEF AInv, TakenKept, ItemsApart, FreeKept
<1>16. JobRises'
  <2>1. ~AllOpen(g)
    BY <1>1, <1>2, <1>3, GroupItems DEF AllOpen
  <2> QED BY <1>4, <2>1 DEF JobRises
<1>17. FirstFit'
  <2>1. Len(g.items) = 1 => g.items[1].addr # None
    <3>1. Len(g.items) = 1 => n + 1 = 1
      BY <1>2
    <3> QED BY <1>3, <3>1
  <2> QED BY <1>4, <2>1 DEF FirstFit
<1> QED BY <1>9, <1>10, <1>11, <1>12, <1>13, <1>14, <1>15, <1>16, <1>17 DEF AInv

LEMMA FixedStep ==
  ASSUME AInv, FixedItem
  PROVE  AInv'
<1> DEFINE ahead  == {x \in job.rest : x.last >= Item.addr}
           passed == IF ahead = {} THEN {} ELSE job.rest \ ahead
<1>1. /\ pc = "placing" /\ Len(job.addrs) < Len(job.group.items) /\ Item.addr # None
      /\ UNCHANGED <<fulllist, windows, marked, placed>>
  BY DEF FixedItem
<1>2. IF \E x \in ahead : x.first <= Item.addr
      THEN pc' = "stopped" /\ UNCHANGED <<freelist, job>>
      ELSE Settle(Item.addr, job.rest \ passed, job.kept \cup passed)
  BY DEF FixedItem
<1>3. passed \subseteq job.rest
  OBVIOUS
<1> HIDE DEF ahead, passed
<1>4. CASE pc' = "stopped" /\ UNCHANGED <<freelist, job>>
  BY <1>1, <1>4, StopStep
<1>5. CASE Settle(Item.addr, job.rest \ passed, job.kept \cup passed)
  <2>1. CASE TooFar(Item.addr)
    <3>1. IF Cardinality(freelist) <= 1 THEN Fail ELSE Pop(freelist) /\ UNCHANGED pc
      BY <1>5, <2>1 DEF Settle
    <3> QED BY <1>1, <2>1, <3>1, TooFarStep
  <2>2. CASE ~TooFar(Item.addr)
    <3>1. /\ job' = [job EXCEPT !.addrs = Append(@, Item.addr),
                       !.rest = job.rest \ passed, !.kept = job.kept \cup passed]
          /\ UNCHANGED <<freelist, pc>>
      BY <1>5, <2>2 DEF Settle
    <3> QED BY <1>1, <1>3, <3>1, FixedPlaced
  <2> QED BY <2>1, <2>2
<1> QED BY <1>2, <1>4, <1>5
-----------------------------------------------------------------------------
(* The group is placed, and the free list put together again.              *)

\* An item of the group in progress as it is remembered.
Now(i) ==
  [first |-> job.addrs[i], last |-> job.addrs[i] + job.group.items[i].size - 1,
   group |-> job.group, item |-> i, policy |-> job.group.items[i].policy]
Done == [group |-> job.group, addrs |-> job.addrs]

LEMMA FinishItems ==
  ASSUME placed' = placed \cup {Done}
  PROVE  PlacedItems' = PlacedItems \cup {Now(i) : i \in Chosen}
<1> DEFINE Of(p) == {[first |-> p.addrs[i], last |-> p.addrs[i] + p.group.items[i].size - 1,
                      group |-> p.group, item |-> i, policy |-> p.group.items[i].policy] :
                       i \in {j \in DOMAIN p.addrs : p.group.items[j].addr = None}}
<1>1. PlacedItems = UNION {Of(p) : p \in placed}
  BY DEF PlacedItems
<1>2. PlacedItems' = UNION {Of(p) : p \in placed'}
  BY DEF PlacedItems
<1>3. Of(Done) = {Now(i) : i \in Chosen}
  BY DEF Done, Now, Chosen
<1> HIDE DEF Of
<1>4. UNION {Of(p) : p \in placed \cup {Done}} = (UNION {Of(p) : p \in placed}) \cup Of(Done)
  OBVIOUS
<1> QED BY <1>1, <1>2, <1>3, <1>4

\* What the new items cover was free until now and is on no list after.
LEMMA NowTaken ==
  ASSUME AInv, pc = "placing", NEW i \in Chosen
  PROVE  /\ Now(i).first = Span(i).first /\ Now(i).last = Span(i).last
         /\ Now(i).group = job.group /\ Now(i).item = i
         /\ Now(i).first \in Nat /\ Now(i).last \in Nat /\ Now(i).first <= Now(i).last
         /\ \A b \in Nat : Now(i).first <= b /\ b <= Now(i).last =>
              /\ Has(free, b) /\ Has(fulllist, b) /\ ~Has(pieces \cup job.popped, b)
              /\ \A t \in PlacedItems : ~Touch(t, b)
<1>1. Now(i).first = Span(i).first /\ Now(i).last = Span(i).last
  BY DEF Now, Span
<1>2. Span(i).first \in Nat /\ Span(i).last \in Nat /\ Span(i).first <= Span(i).last
  BY SpanTyped
<1>3. Now(i).group = job.group /\ Now(i).item = i
  BY DEF Now
<1>4. ASSUME NEW b \in Nat, Span(i).first <= b, b <= Span(i).last
      PROVE  /\ Has(free, b) /\ Has(fulllist, b) /\ ~Has(pieces \cup job.popped, b)
             /\ \A t \in PlacedItems : ~Touch(t, b)
  <2>1. Has(freelist, b) /\ ~Has(pieces \cup job.popped, b)
    BY <1>4 DEF AInv, SpansTaken
  <2>2. Has(free, b)
    BY <2>1 DEF Has, free
  <2>3. Has(fulllist, b)
    BY <2>2 DEF AInv, ListsSound
  <2>4. \A t \in PlacedItems : ~Touch(t, b)
    BY <2>2 DEF AInv, TakenKept, Guarded
  <2> QED BY <2>1, <2>2, <2>3, <2>4
<1> QED BY <1>1, <1>2, <1>3, <1>4

\* The list that alloc leaves: whole pages of what it had, and every page of
\* free memory that no new item touches.
LEMMA FinishList ==
  ASSUME AInv, Finish
  PROVE  /\ Sound(freelist') /\ \A r \in freelist' : Whole(r)
         /\ \A b \in Nat : Has(freelist', b) => Has(pieces \cup job.popped, b)
         /\ \A b \in Nat : Has(freelist', b) => Has(free, b)
         /\ \A b \in Nat : Has(free, b) =>
              Has(freelist', b) \/ \E i \in Chosen : Touch(Span(i), b)
<1> DEFINE S == pieces \cup job.popped
           W == WholePages(S)
<1>1. pc = "placing" /\ freelist' = W
  <2>1. job.popped \cup job.kept \cup job.rest = S
    BY DEF pieces
  <2>2. pc = "placing" /\ freelist' = WholePages(job.popped \cup job.kept \cup job.rest)
    BY DEF Finish
  <2> QED BY <2>1, <2>2
<1>2. Sound(S)
  BY DEF AInv, PiecesSound
<1> HIDE DEF S
<1>3. /\ Sound(W) /\ \A r \in W : Whole(r)
      /\ \A b \in Nat : Has(W, b) => Has(S, b)
      /\ \A b \in Nat : (\E r \in S : Covers(r, b)) => Has(W, b)
  BY <1>2, WholePagesList
<1> HIDE DEF W
<1>4. ASSUME NEW b \in Nat, Has(S, b) PROVE Has(free, b)
  <2>1. CASE Has(pieces, b)
    <3>1. Has(freelist, b)
      BY <2>1 DEF AInv, PiecesSound
    <3> QED BY <3>1 DEF Has, free
  <2>2. CASE Has(job.popped, b)
    BY <2>2 DEF Has, free
  <2> QED BY <1>4, <2>1, <2>2 DEF Has, S
<1>5. ASSUME NEW b \in Nat, Has(free, b)
      PROVE  Has(W, b) \/ \E i \in Chosen : Touch(Span(i), b)
  <2>1. CASE Has(freelist, b)
    <3>1. (\E i \in Chosen : Touch(Span(i), b)) \/ \E r \in pieces : Covers(r, b)
      BY <1>1, <2>1 DEF AInv, PagesLeft
    <3>2. CASE \E r \in pieces : Covers(r, b)
      BY <1>3, <3>2 DEF S
    <3> QED BY <3>1, <3>2
  <2>2. CASE Has(job.popped, b)
    <3>1. PICK r \in job.popped : r.first <= b /\ b <= r.last
      BY <2>2 DEF Has
    <3>2. r \in Region /\ Whole(r)
      BY DEF AInv, ListsSound, Sound, Bounded, free
    <3>3. Covers(r, b)
      BY <3>1, <3>2, WholeCovers
    <3> QED BY <1>3, <3>3 DEF S
  <2> QED BY <1>5, <2>1, <2>2 DEF Has, free
<1>6. \A b \in Nat : Has(W, b) => Has(S, b) /\ Has(free, b)
  BY <1>3, <1>4
<1> QED BY <1>1, <1>3, <1>5, <1>6 DEF S

LEMMA FinishTaken ==
  ASSUME AInv, Finish
  PROVE  TakenKept'
<1> DEFINE New == {Now(i) : i \in Chosen}
<1>1. /\ pc = "placing" /\ UNCHANGED <<fulllist, marked>> /\ placed' = placed \cup {Done}
      /\ job' = NoJob /\ \A p \in placed : p.group # job.group
  BY DEF Finish, Done, AInv, JobInStep
<1>2. PlacedItems' = PlacedItems \cup New
  BY <1>1, FinishItems
<1>3. MarkedRanges' = MarkedRanges
  BY <1>1 DEF MarkedRanges
<1>4. Guarded' = Guarded \cup New
  BY <1>2, <1>3 DEF Guarded
<1>5. free' = freelist'
  BY <1>1 DEF free, NoJob
<1>6. /\ Sound(freelist') /\ \A r \in freelist' : Whole(r)
      /\ \A b \in Nat : Has(freelist', b) => Has(pieces \cup job.popped, b)
      /\ \A b \in Nat : Has(freelist', b) => Has(free, b)
  BY FinishList
<1>7. ASSUME NEW t \in New, NEW b \in Nat, Has(freelist', b), Touch(t, b) PROVE FALSE
  <2>1. PICK i \in Chosen : t = Now(i)
    OBVIOUS
  <2>2. t.first \in Nat /\ t.last \in Nat /\ t.first <= t.last
    BY <1>1, <2>1, NowTaken
  <2>3. PICK c \in Nat : t.first <= c /\ c <= t.last /\ PageOf(c) = PageOf(b)
    BY <1>7, <2>2, TouchedByte DEF Touch
  <2>4. Has(freelist', c)
    BY <1>6, <1>7, <2>3, PageTogether
  <2>5. ~Has(pieces \cup job.popped, c)
    BY <1>1, <2>1, <2>3, NowTaken
  <2> QED BY <1>6, <2>4, <2>5
<1>8. ASSUME NEW t \in Guarded', NEW b \in Nat, Has(free', b) PROVE ~Touch(t, b)
  <2>1. CASE t \in Guarded
    <3>1. Has(free, b)
      BY <1>5, <1>6, <1>8
    <3> QED BY <2>1, <3>1 DEF AInv, TakenKept
  <2> QED BY <1>4, <1>5, <1>7, <1>8, <2>1
<1>9. ASSUME NEW t \in PlacedItems', NEW b \in Nat, t.first <= b, b <= t.last
      PROVE  Has(fulllist', b)
  <2>1. CASE t \in PlacedItems
    BY <1>1, <1>9, <2>1 DEF AInv, TakenKept
  <2>2. CASE t \in New
    <3>1. PICK i \in Chosen : t = Now(i)
      BY <2>2
    <3>2. Has(fulllist, b)
      BY <1>1, <1>9, <3>1, NowTaken
    <3> QED BY <1>1, <3>2
  <2> QED BY <1>2, <2>1, <2>2
<1>10. ASSUME NEW s \in PlacedItems, NEW t \in New
       PROVE  /\ s.last < t.first \/ t.last < s.first
              /\ PagesOf(s) \cap PagesOf(t) = {} /\ PagesOf(t) \cap PagesOf(s) = {}
  <2>1. PICK i \in Chosen : t = Now(i)
    OBVIOUS
  <2>2. /\ t.first \in Nat /\ t.last \in Nat /\ t.first <= t.last
        /\ \A b \in Nat : t.first <= b /\ b <= t.last => ~Touch(s, b)
    BY <1>1, <2>1, NowTaken
  <2>3. s.first \in Nat /\ s.last \in Nat /\ s.first <= s.last
    BY ItemRange DEF AInv
  <2>4. PagesOf(s) \cap PagesOf(t) = {} /\ (s.last < t.first \/ t.last < s.first)
    BY <2>2, <2>3, ApartByPages
  <2> QED BY <2>4
<1>11. ASSUME NEW s \in New, NEW t \in New, s # t
       PROVE  s.group = t.group /\ (s.last < t.first \/ t.last < s.first)
  <2>1. PICK i \in Chosen : s = Now(i)
    OBVIOUS
  <2>2. PICK j \in Chosen : t = Now(j)
    OBVIOUS
  <2>3. i # j
    BY <1>11, <2>1, <2>2
  <2>4. Span(i).last < Span(j).first \/ Span(j).last < Span(i).first
    BY <1>1, <2>3 DEF AInv, SpansTaken
  <2>5. /\ s.first = Span(i).first /\ s.last = Span(i).last /\ s.group = job.group
        /\ t.first = Span(j).first /\ t.last = Span(j).last /\ t.group = job.group
    BY <1>1, <2>1, <2>2, NowTaken
  <2> QED BY <2>4, <2>5
<1> HIDE DEF New
<1>12. ItemsApart'
  <2>1. ASSUME NEW a \in PlacedItems', NEW b \in PlacedItems', a # b
        PROVE  /\ a.last < b.first \/ b.last < a.first
               /\ a.group # b.group => PagesOf(a) \cap PagesOf(b) = {}
    <3>1. CASE a \in PlacedItems /\ b \in PlacedItems
      BY <2>1, <3>1 DEF AInv, TakenKept, ItemsApart
    <3>2. CASE a \in PlacedItems /\ b \in New
      BY <1>10, <3>2
    <3>3. CASE a \in New /\ b \in PlacedItems
      BY <1>10, <3>3
    <3>4. CASE a \in New /\ b \in New
      BY <1>11, <2>1, <3>4
    <3> QED BY <1>2, <2>1, <3>1, <3>2, <3>3, <3>4
  <2> QED BY <2>1 DEF ItemsApart
<1> QED BY <1>8, <1>9, <1>12 DEF TakenKept

LEMMA FinishStep ==
  ASSUME AInv, Finish
  PROVE  AInv'
<1>1. /\ pc = "placing" /\ pc' = "idle" /\ UNCHANGED <<fulllist, windows, marked>>
      /\ placed' = placed \cup {Done} /\ job' = NoJob
      /\ Len(job.addrs) = Len(job.group.items)
  BY DEF Finish, Done
<1>2. /\ job.group \in Groups /\ \A p \in placed : p.group # job.group
      /\ job.addrs \in Seq(Nat)
  BY <1>1 DEF AInv, JobInStep
<1>3. /\ free' = freelist' /\ job'.popped = {} /\ pieces' = {} /\ job'.rest = {}
      /\ job'.kept = {}
  BY <1>1 DEF free, pieces, NoJob
<1>4. /\ Sound(freelist') /\ \A r \in freelist' : Whole(r)
      /\ \A b \in Nat : Has(freelist', b) => Has(free, b)
      /\ \A b \in Nat : Has(free, b) =>
           Has(freelist', b) \/ \E i \in Chosen : Touch(Span(i), b)
  BY FinishList
<1>5. ListsSound'
  BY <1>1, <1>3, <1>4 DEF AInv, ListsSound
<1>6. PiecesSound'
  <2>1. pieces' \cup job'.popped = {}
    BY <1>3
  <2> QED BY <1>3, <2>1, EmptyList DEF PiecesSound
<1>7. JobInStep'
  <2>1. job' = Shape(job')
    BY <1>1, Shapes
  <2> QED BY <1>1, <2>1 DEF AInv, JobInStep
<1>8. Done.group = job.group /\ Done.addrs = job.addrs
  BY DEF Done
<1>9. PlacedTyped'
  BY <1>1, <1>2, <1>8 DEF AInv, PlacedTyped
<1>10. SpansTaken' /\ PagesLeft' /\ JobRises' /\ FirstFit'
  BY <1>1 DEF SpansTaken, PagesLeft, JobRises, FirstFit
<1>11. TakenKept'
  BY FinishTaken
<1>12. FreeKept'
  <2>1. PlacedItems' = PlacedItems \cup {Now(i) : i \in Chosen}
    BY <1>1, FinishItems
  <2>2. MarkedRanges' = MarkedRanges
    BY <1>1 DEF MarkedRanges
  <2>3. ASSUME NEW b \in Nat, Has(fulllist', b)
        PROVE  Has(free', b) \/ \E t \in Taken' : Touch(t, b)
    <3>1. Has(free, b) \/ \E t \in Taken : Touch(t, b)
      BY <1>1, <2>3 DEF AInv, FreeKept
    <3>2. Taken \subseteq Taken'
      BY <2>1, <2>2 DEF Taken
    <3>3. CASE \E i \in Chosen : Touch(Span(i), b)
      <4>1. PICK i \in Chosen : Touch(Span(i), b)
        BY <3>3
      <4>2. Touch(Now(i), b)
        BY <1>1, <4>1, NowTaken DEF Touch
      <4>3. Now(i) \in Taken'
        BY <2>1 DEF Taken
      <4> QED BY <4>2, <4>3
    <3> QED BY <1>3, <1>4, <3>1, <3>2, <3>3
  <2> QED BY <2>3 DEF FreeKept
<1>13. PlacedRises'
  <2>1. AllOpen(job.group) => Rising(job.group, job.addrs)
    BY <1>1 DEF AInv, JobRises
  <2> QED BY <1>1, <1>8, <2>1 DEF AInv, PlacedRises
<1> QED BY <1>5, <1>6, <1>7, <1>9, <1>10, <1>11, <1>12, <1>13 DEF AInv
-----------------------------------------------------------------------------
(* The theorems.                                                           *)

LEMMA StutterStep ==
  ASSUME AInv, UNCHANGED vars
  PROVE  AInv'
<1>1. UNCHANGED <<freelist, fulllist, windows, pc, job, marked, placed>>
  BY DEF vars
<1>2. ListsSound' /\ PiecesSound' /\ PlacedTyped' /\ TakenKept' /\ PlacedRises'
  BY <1>1, SameLists DEF AInv
<1>3. free' = free /\ pieces' = pieces /\ Taken' = Taken
  BY <1>1 DEF free, pieces, Taken, PlacedItems, MarkedRanges
<1>4. Chosen' = Chosen /\ \A i : Span(i)' = Span(i)
  BY <1>1 DEF Chosen, Span
<1>5. JobInStep'
  BY <1>1 DEF AInv, JobInStep, InZone
<1>6. SpansTaken'
  BY <1>1, <1>3, <1>4 DEF AInv, SpansTaken
<1>7. PagesLeft'
  BY <1>1, <1>3, <1>4 DEF AInv, PagesLeft
<1>8. FreeKept'
  BY <1>1, <1>3 DEF AInv, FreeKept
<1>9. JobRises'
  BY <1>1 DEF AInv, JobRises
<1>10. FirstFit'
  BY <1>1 DEF AInv, FirstFit, NoneBelow
<1> QED BY <1>2, <1>5, <1>6, <1>7, <1>8, <1>9, <1>10 DEF AInv

LEMMA StepsAInv ==
  ASSUME NoneAround, AInv, [Next]_vars
  PROVE  AInv'
<1>1. CASE \E n \in Offers : AddMemory(n)
  BY <1>1, AddMemoryStep
<1>2. CASE \E n \in Offers : AddMemoryRefused(n)
  BY <1>2, StopStep DEF AddMemoryRefused
<1>3. CASE \E m \in Marks : Mark(m)
  BY <1>3, MarkStep
<1>4. CASE \E m \in Marks : MarkRefused(m)
  BY <1>4, StopStep DEF MarkRefused
<1>5. CASE \E g \in Groups : Alloc(g)
  BY <1>5, AllocStep
<1>6. CASE PlaceItem
  BY <1>6, PlaceItemStep
<1>7. CASE FixedItem
  BY <1>7, FixedStep
<1>8. CASE Finish
  BY <1>8, FinishStep
<1>9. CASE Grow
  BY <1>9, GrowStep
<1>10. CASE GrowRefused
  BY <1>10, StopStep DEF GrowRefused
<1>11. CASE UNCHANGED vars
  BY <1>11, StutterStep
<1> QED BY <1>1, <1>2, <1>3, <1>4, <1>5, <1>6, <1>7, <1>8, <1>9, <1>10, <1>11
     DEF Next, Step

\* The books are kept in every reachable state.
THEOREM AllocatorBooks ==
  ASSUME NoneAround
  PROVE  Spec => []AInv
<1>1. Init => AInv
  BY InitAInv
<1>2. AInv /\ [Next]_vars => AInv'
  BY StepsAInv
<1> QED BY <1>1, <1>2, PTL DEF Spec

\* No byte is free twice, on the free list or among the pieces alloc has cut
\* it into, as long as no region is added around one that is there.
THEOREM AllocatorFreeApart ==
  ASSUME NoneAround
  PROVE  Spec => []FreeApart
<1>1. AInv => FreeApart
  <2> SUFFICES ASSUME AInv PROVE FreeApart
    OBVIOUS
  <2>1. NoneMeet(free) /\ NoneMeet(pieces \cup job.popped)
    BY SoundIsDisjoint DEF AInv, ListsSound, PiecesSound
  <2>2. pieces = job.kept \cup job.rest
    BY DEF pieces
  <2>3. job.kept \cap job.rest = {}
    BY DEF AInv, PiecesSound
  <2> QED BY <2>1, <2>2, <2>3 DEF FreeApart, NoneMeet, free
<1>2. Spec => []AInv
  BY AllocatorBooks
<1> QED BY <1>1, <1>2, PTL

\* No page of an item or of a marked range is free again, items share no
\* byte, and items of different groups no page: if the callers mark whole
\* pages' worth, and no memory that a zone may yet be given.
THEOREM AllocatorTakenApart ==
  ASSUME NoneAround, MarksWhole, WindowsUnmarked
  PROVE  Spec => []TakenApart
<1>1. AInv => TakenApart
  <2> SUFFICES ASSUME AInv PROVE TakenApart
    OBVIOUS
  <2>1. ASSUME NEW t \in PlacedItems \cup MarkedRanges, NEW r \in freelist \cup job.popped
        PROVE  PagesOf(t) \cap PagesOf(r) = {}
    <3>1. t \in Guarded
      BY DEF Guarded
    <3>2. \A b \in Nat : r.first <= b /\ b <= r.last => ~Touch(t, b)
      <4>1. \A b \in Nat : r.first <= b /\ b <= r.last => Has(free, b)
        BY DEF Has, free
      <4> QED BY <3>1, <4>1 DEF AInv, TakenKept
    <3>3. r.first \in Nat /\ r.last \in Nat /\ r.first <= r.last
      BY RegionFields DEF AInv, ListsSound, Sound, Bounded, free
    <3>4. t.first \in Nat /\ t.last \in Nat /\ t.first <= t.last
      <4>1. CASE t \in PlacedItems
        BY <4>1, ItemRange DEF AInv
      <4>2. CASE t \in MarkedRanges
        <5>1. PICK m \in marked : t = [first |-> m.base, last |-> m.base + m.size - 1]
          BY <4>2 DEF MarkedRanges
        <5>2. m.base \in Nat /\ m.size \in Nat \ {0}
          BY AllocatorAssumption DEF AInv, JobInStep
        <5> QED BY <5>1, <5>2
      <4> QED BY <4>1, <4>2
    <3> QED BY <3>2, <3>3, <3>4, ApartByPages
  <2> QED BY <2>1 DEF AInv, TakenKept, TakenApart, TakenNotFree
<1>2. Spec => []AInv
  BY AllocatorBooks
<1> QED BY <1>1, <1>2, PTL

\* Between calls every page that was added is free, or an item or a mark
\* touches it: splitting, putting by and rounding lose none.
THEOREM AllocatorNothingLost ==
  ASSUME NoneAround
  PROVE  Spec => []NothingLost
<1>1. AInv => NothingLost
  <2> SUFFICES ASSUME AInv, pc = "idle", NEW r \in fulllist, NEW k \in PagesOf(r)
               PROVE  \E t \in freelist \cup PlacedItems \cup MarkedRanges : k \in PagesOf(t)
    BY DEF NothingLost
  <2>1. r.first \in Nat /\ r.last \in Nat /\ r.first <= r.last
    BY RegionFields DEF AInv, ListsSound, Sound, Bounded
  <2>2. k \in Int /\ PageOf(r.first) <= k /\ k <= PageOf(r.last)
    BY <2>1, PageMono DEF PagesOf, PageOf
  <2>3. PICK b \in Nat : r.first <= b /\ b <= r.last /\ PageOf(b) = k
    BY <2>1, <2>2, PageByte
  <2>4. Has(fulllist, b)
    BY <2>3 DEF Has
  <2>5. free = freelist
    BY DEF AInv, JobInStep, NoJob, free
  <2>6. ASSUME NEW t, t.first \in Nat, t.last \in Nat, Touch(t, b) PROVE k \in PagesOf(t)
    <3>1. PageOf(t.first) \in Int /\ PageOf(t.last) \in Int
      BY <2>6, PageMono
    <3> QED BY <2>2, <2>3, <2>6, <3>1 DEF Touch, PagesOf, PageOf
  <2>7. CASE Has(free, b)
    <3>1. PICK t \in freelist : t.first <= b /\ b <= t.last
      BY <2>5, <2>7 DEF Has
    <3>2. t.first \in Nat /\ t.last \in Nat
      BY RegionFields DEF AInv, ListsSound, Sound, Bounded, free
    <3>3. Touch(t, b)
      BY <3>1, <3>2, PageMono DEF Touch
    <3> QED BY <2>6, <3>2, <3>3
  <2>8. CASE \E t \in Taken : Touch(t, b)
    <3>1. PICK t \in Taken : Touch(t, b)
      BY <2>8
    <3>2. t.first \in Nat /\ t.last \in Nat
      <4>1. CASE t \in PlacedItems
        BY <4>1, ItemRange DEF AInv
      <4>2. CASE t \in MarkedRanges
        <5>1. PICK m \in marked : t = [first |-> m.base, last |-> m.base + m.size - 1]
          BY <4>2 DEF MarkedRanges
        <5>2. m.base \in Nat /\ m.size \in Nat \ {0}
          BY AllocatorAssumption DEF AInv, JobInStep
        <5> QED BY <5>1, <5>2
      <4> QED BY <3>1, <4>1, <4>2 DEF Taken
    <3> QED BY <2>6, <3>1, <3>2 DEF Taken
  <2> QED BY <2>4, <2>7, <2>8 DEF AInv, FreeKept
<1>2. Spec => []AInv
  BY AllocatorBooks
<1> QED BY <1>1, <1>2, PTL

\* The items of a group none of which has an address lie in increasing order
\* and no further apart than the group's distance.
THEOREM AllocatorTogether ==
  ASSUME NoneAround
  PROVE  Spec => []Together
<1>1. AInv => Together
  <2> SUFFICES ASSUME AInv, NEW p \in placed,
                      \A i \in DOMAIN p.addrs : p.group.items[i].addr = None
               PROVE  Near(p) /\ \A i \in 2 .. Len(p.addrs) : p.addrs[i] > p.addrs[i-1]
    BY DEF Together
  <2>1. /\ p.group \in Groups /\ p.addrs \in Seq(Nat) /\ Len(p.addrs) = Len(p.group.items)
    BY DEF AInv, PlacedTyped
  <2>2. Rising(p.group, p.addrs)
    <3>1. AllOpen(p.group)
      BY <2>1, GroupItems DEF AllOpen
    <3> QED BY <3>1 DEF AInv, PlacedRises
  <2>3. ASSUME NEW i \in 2 .. Len(p.addrs)
        PROVE  /\ p.addrs[i] > p.addrs[i-1]
               /\ p.group.distance # None => Gap(p, i) <= p.group.distance
    <3> DEFINE a == p.addrs[i-1]
               b == p.addrs[i]
               z == p.group.items[i-1].size
               d == p.group.distance
    <3>1. i - 1 \in 1 .. Len(p.addrs) /\ i \in 1 .. Len(p.addrs)
      BY <2>1
    <3>2. a \in Nat /\ b \in Nat /\ z \in Nat \ {0} /\ d \in Nat \cup {None}
      <4>1. \A j \in 1 .. Len(p.addrs) : p.addrs[j] \in Nat
        BY <2>1
      <4>2. i - 1 \in 1 .. Len(p.group.items)
        BY <2>1, <3>1
      <4>3. z \in Nat \ {0} /\ d \in Nat \cup {None}
        BY <2>1, <4>2, GroupItems
      <4> QED BY <3>1, <4>1, <4>3
    <3>3. b >= a + z /\ (d # None => b - (a + z) <= d)
      BY <2>2 DEF Rising
    <3>4. b > a => Gap(p, i) = b - (a + z)
      BY DEF Gap
    <3> HIDE DEF a, b, z, d
    <3>5. b > a
      BY <3>2, <3>3
    <3> QED BY <3>3, <3>4, <3>5 DEF a, b, d
  <2> QED BY <2>3 DEF Near
<1>2. Spec => []AInv
  BY AllocatorBooks
<1> QED BY <1>1, <1>2, PTL

\* A lone item goes to the lowest address that suits it: below it, every
\* address of the right alignment has a byte that is not free.
THEOREM AllocatorLowestFit ==
  ASSUME NoneAround
  PROVE  Spec => LowestFit
<1>1. AInv /\ [Next]_vars => [LowestPlace]_vars
  <2> SUFFICES ASSUME AInv, Next PROVE LowestPlace
    BY DEF vars
  <2>1. CASE Finish
    <3> SUFFICES ASSUME NEW p \in placed' \ placed, Single(p),
                        NEW a \in 0 .. p.addrs[1] - 1,
                        a % p.group.items[1].align = p.group.items[1].offset
                 PROVE  \E b \in a .. a + p.group.items[1].size - 1 :
                          \A r \in freelist : b \notin r.first .. r.last
      BY DEF LowestPlace
    <3>1. p = Done /\ pc = "placing" /\ Len(job.addrs) = Len(job.group.items)
      BY <2>1 DEF Finish, Done
    <3>2. p.group = job.group /\ p.addrs = job.addrs
      BY <3>1 DEF Done
    <3>3. Len(job.addrs) = 1 /\ Len(job.group.items) = 1 /\ job.group.items[1].addr = None
      BY <3>1, <3>2 DEF Single
    <3>4. NoneBelow(job.group.items[1], job.addrs[1])
      BY <3>1, <3>3 DEF AInv, FirstFit
    <3>5. PICK b \in a .. a + job.group.items[1].size - 1 : ~Has(freelist, b)
      BY <3>2, <3>4 DEF NoneBelow
    <3>6. \A r \in freelist : b \notin r.first .. r.last
      BY <3>5 DEF Has
    <3> QED BY <3>2, <3>5, <3>6
  <2>2. CASE placed' = placed
    BY <2>2 DEF LowestPlace
  <2>3. Finish \/ placed' = placed
    BY DEF Next, AddMemory, AddMemoryRefused, Mark, MarkRefused, Alloc, Step,
           PlaceItem, FixedItem, Grow, GrowRefused
  <2> QED BY <2>1, <2>2, <2>3
<1>2. Spec => []AInv
  BY AllocatorBooks
<1>3. Spec => [][LowestPlace]_vars
  BY <1>1, <1>2, PTL DEF Spec
<1> QED BY <1>3 DEF LowestFit
=============================================================================
