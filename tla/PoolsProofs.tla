----------------------------- MODULE PoolsProofs -----------------------------
(***************************************************************************)
(* No byte is in the hands of two pools, two segments or two zones, for any *)
(* pools, zones, regions and segments.  The invariant speaks of bytes: what *)
(* is free, given and marked, of every pool together.                      *)
(***************************************************************************)
EXTENDS Pools, RegionLemmas

HasAny(F, b) == \E p \in AllPools : Has(F[p], b)

\* What the specification file owes.  The test for overlaps looks at the ends
\* of the new region only: none may lie around another one.  Segments end in
\* their last page (see Allocator), the pages of one are not around those of
\* another, and no segment is the very pages that another one lies in, which
\* would pass for the same segment once more.
NoneAround ==
  \A o, x \in Memory : ~(o.first < x.first /\ x.last < o.last)
MarksWhole ==
  \A m \in Segments : m.size = 1 \/ (m.base + m.size - 1) % Page # 0
SegmentsNested ==
  \A m, n \in Segments :
    /\ Pages(m).first < Pages(n).first => Pages(m).last <= Pages(n).last
    /\ Bytes(m) = Pages(n) => Bytes(m) = Bytes(n)
Orderly == Within /\ NoneAround /\ MarksWhole /\ SegmentsNested
-----------------------------------------------------------------------------
\* Lists of whole pages, free what was given, and to one pool only.
ListsOk(F, G) ==
  /\ F = [p \in AllPools |-> F[p]] /\ G = [p \in AllPools |-> G[p]]
  /\ \A p \in AllPools :
       /\ Sound(F[p]) /\ \A r \in F[p] : Whole(r)
       /\ Sound(G[p]) /\ \A r \in G[p] : Whole(r)
       /\ \A b \in Nat : Has(F[p], b) => Has(G[p], b)
FreeApart(F) ==
  \A p, q \in AllPools, b \in Nat : Has(F[p], b) /\ Has(F[q], b) => p = q

\* What a segment touches is not free, is touched by no other one, and is known
\* to the tracker.
Same(s, t) == s.first = t.first /\ s.last = t.last
SegsOk(F, G, S, M) ==
  /\ \A s \in S :
       /\ s = Segment(s, s.zone)
       /\ s.first \in Nat /\ s.last \in Nat /\ s.first <= s.last
       /\ \A b \in Nat : HasAny(F, b) => ~Touch(s, b)
       /\ (\E b \in Nat : HasAny(G, b) /\ Touch(s, b))
            => \E t \in M : t.first <= s.first /\ s.last <= t.last
  /\ \A s, t \in S : ~Same(s, t) =>
       \A b \in Nat : HasAny(G, b) => ~(Touch(s, b) /\ Touch(t, b))

\* The windows of a zone: whole pages, free in no other pool, and all of them
\* free in the zone or taken by a segment of the zone.
WindowOk(z, w, F, S) ==
  /\ w.first \in Nat /\ w.last \in Nat /\ w.first <= w.last
  /\ w.first % Page = 0 /\ (w.last + 1) % Page = 0
  /\ \A b \in Nat : w.first <= b /\ b <= w.last =>
       /\ \A p \in AllPools \ {z} : ~Has(F[p], b)
       /\ \A s \in S : Touch(s, b) => Segment(s, z) \in S
       /\ Has(F[z], b) \/ \E s \in S : s.zone = z /\ Touch(s, b)
WindowsOk(F, G, W, S) ==
  /\ W = [z \in Zones |-> W[z]]
  /\ \A z \in Zones :
       /\ \A w \in W[z] : WindowOk(z, w, F, S)
       /\ \A b \in Nat : Has(G[z], b) => \E w \in W[z] : w.first <= b /\ b <= w.last

\* Between the steps of merge: the tests of each stage rest on what the stages
\* before have left.
PoolsStage ==
  phase = "pools" =>
    /\ poolmem \subseteq {Extent(x.first, x.last) : x \in Memory}
    /\ \A b \in Nat : HasAny(full, b) => \E e \in poolmem : e.first <= b /\ b <= e.last
DirectStage ==
  phase \in {"pools", "direct"} =>
    /\ segs = {} /\ mem = {} /\ memsections = [z \in Zones |-> <<>>]
    /\ \A b \in Nat : Has(full[Direct], b) <=> Has(free[Direct], b)
MarksStage ==
  phase \in {"pools", "direct", "marks"} =>
    /\ primed = {}
    /\ \A b \in Nat : HasAny(full, b) =>
         HasAny(free, b) \/ \E t \in mem : t.first <= b /\ b <= t.last
    /\ \A t \in mem :
         /\ \E n \in Segments : t = Pages(n) /\ \E s \in segs : Same(s, Bytes(n))
         /\ \A b \in Nat : t.first <= b /\ b <= t.last => ~HasAny(free, b)
    /\ \A s \in segs : \E n \in Segments :
         /\ Same(s, Bytes(n))
         /\ (\E b \in Nat : HasAny(full, b) /\ Touch(s, b)) => Pages(n) \in mem
ZonesStage ==
  /\ \A z \in Zones :
       /\ memsections[z] \in Seq(Segments)
       /\ \A i \in DOMAIN memsections[z] : Segment(Bytes(memsections[z][i]), z) \in segs
       /\ z \notin primed => free[z] = {} /\ full[z] = {} /\ windows[z] = {}
  /\ memsections = [z \in Zones |-> memsections[z]]

Flags ==
  /\ phase \in {"pools", "direct", "marks", "prime", "layout", "stopped"}
  /\ marking_direct = FALSE /\ primed \subseteq Zones

PInv ==
  /\ Flags /\ ListsOk(free, full) /\ FreeApart(free) /\ SegsOk(free, full, segs, mem)
  /\ WindowsOk(free, full, windows, segs)
  /\ PoolsStage /\ DirectStage /\ MarksStage /\ ZonesStage
-----------------------------------------------------------------------------
LEMMA PoolConstants ==
  /\ Virtual \subseteq AllPools /\ Zones \subseteq AllPools /\ Direct \in AllPools
  /\ IsFiniteSet(AllPools)
  /\ Direct \notin Virtual /\ Direct \notin Zones /\ \A z \in Zones : z \notin Virtual
  /\ \A z \in Zones : Under[z] \in Virtual /\ Under[z] \in AllPools /\ Under[z] # z
<1>1. IsFiniteSet(AllPools)
  <2>1. AllPools = (Virtual \cup Zones) \cup {Direct}
    BY DEF AllPools
  <2> QED BY <2>1, PoolsAssumption, FS_AddElement
<1>2. \A z \in Zones : Under[z] \in Virtual
  BY PoolsAssumption
<1>3. \A z \in Zones : z \notin Virtual
  BY PoolsAssumption
<1> QED BY <1>1, <1>2, <1>3, PoolsAssumption DEF AllPools

LEMMA GivenRegions ==
  ASSUME NEW r \in Memory \cup Directs
  PROVE  /\ r \in Region /\ Whole(r) /\ r.first \in Nat /\ r.last \in Nat
         /\ r.first <= r.last /\ r.first < r.last
         /\ r.first % Page = 0 /\ (r.last + 1) % Page = 0
<1>1. r \in Region /\ Whole(r)
  BY PoolsAssumption
<1>2. r.first \in Nat /\ r.last \in Nat
  BY <1>1, RegionFields
<1> QED BY <1>1, <1>2 DEF Whole

LEMMA SegmentFields ==
  ASSUME NEW m \in Segments
  PROVE  /\ m.base \in Nat /\ m.size \in Nat \ {0}
         /\ Bytes(m).first = m.base /\ Bytes(m).last = m.base + m.size - 1
         /\ Bytes(m).first \in Nat /\ Bytes(m).last \in Nat /\ Bytes(m).first <= Bytes(m).last
         /\ Pages(m).first = AlignDown(m.base, Page) /\ Pages(m).last = MarkEnd(m)
<1>1. m.base \in Nat /\ m.size \in Nat \ {0}
  BY PoolsAssumption
<1> QED BY <1>1 DEF Bytes, Pages, Extent

\* The pages of a segment are those that its bytes touch.
LEMMA SegmentPages ==
  ASSUME NEW m \in Segments
  PROVE  /\ IsWindow(Pages(m))
         /\ \A b \in Nat : Pages(m).first <= b /\ b <= Pages(m).last => Touch(Bytes(m), b)
         /\ MarksWhole => \A b \in Nat : Touch(Bytes(m), b) =>
              Pages(m).first <= b /\ b <= Pages(m).last
<1> DEFINE t == [first |-> m.base, last |-> m.base + m.size - 1]
<1>1. m.base \in Nat /\ m.size \in Nat \ {0} /\ Bytes(m) = t
      /\ Pages(m).first = AlignDown(m.base, Page) /\ Pages(m).last = MarkEnd(m)
  BY SegmentFields DEF Bytes, Extent
<1> DEFINE lo == AlignDown(m.base, Page)
           hi == MarkEnd(m)
<1>2. /\ lo \in Nat /\ hi \in Nat /\ lo <= hi
      /\ lo % Page = 0 /\ (hi + 1) % Page = 0
      /\ \A b \in Nat : lo <= b /\ b <= hi => Touch(t, b)
      /\ m.size = 1 \/ (m.base + m.size - 1) % Page # 0 =>
           \A b \in Nat : Touch(t, b) => lo <= b /\ b <= hi
  BY <1>1, MarkBounds
<1> HIDE DEF t, lo, hi
<1>3. IsWindow(Pages(m))
  BY <1>1, <1>2 DEF IsWindow, lo, hi
<1>4. MarksWhole => (m.size = 1 \/ (m.base + m.size - 1) % Page # 0)
  BY DEF MarksWhole
<1> QED BY <1>1, <1>2, <1>3, <1>4 DEF lo, hi

\* A range lies in its pages.
LEMMA SegmentInPages ==
  ASSUME MarksWhole, NEW m \in Segments
  PROVE  Pages(m).first <= Bytes(m).first /\ Bytes(m).last <= Pages(m).last
<1>1. Bytes(m).first \in Nat /\ Bytes(m).last \in Nat /\ Bytes(m).first <= Bytes(m).last
  BY SegmentFields
<1> DEFINE f == Bytes(m).first
           l == Bytes(m).last
<1>2. Touch(Bytes(m), f) /\ Touch(Bytes(m), l)
  <2>1. PageOf(f) <= PageOf(l) /\ PageOf(f) \in Int /\ PageOf(l) \in Int
    BY <1>1, PageMono
  <2> QED BY <2>1 DEF Touch
<1> QED BY <1>1, <1>2, SegmentPages

\* A region of whole pages, given by base and size, is its own pages.
LEMMA ClaimPages ==
  ASSUME NEW r \in Memory \cup Directs
  PROVE  /\ Claim(r).base \in Nat /\ Claim(r).size \in Nat \ {0}
         /\ AlignDown(Claim(r).base, Page) = r.first /\ MarkEnd(Claim(r)) = r.last
<1>1. /\ r.first \in Nat /\ r.last \in Nat /\ r.first < r.last
      /\ r.first % Page = 0 /\ (r.last + 1) % Page = 0
  BY GivenRegions
<1> DEFINE f == r.first
           l == r.last
<1>2. Claim(r).base = f /\ Claim(r).size = l - f + 1
  BY DEF Claim
<1> HIDE DEF f, l
<1>3. f \in Nat /\ l \in Nat /\ f < l /\ f % Page = 0 /\ (l + 1) % Page = 0
  BY <1>1 DEF f, l
<1>4. Page \in Nat \ {0} /\ Page \in Nat \ {0, 1}
  BY PageAssumption
<1>5. l - f + 1 \in Nat \ {0} /\ f + (l - f + 1) - 1 = l /\ l # f
  BY <1>3
<1>6. AlignDown(f, Page) = f
  BY <1>3 DEF AlignDown
<1>7. MarkEnd(Claim(r)) = AlignUp(l, Page) - 1
  BY <1>2, <1>5 DEF MarkEnd
<1>8. AlignUp(l, Page) = l + 1
  <2> DEFINE e == l + 1
             s == AlignDown(l, Page)
  <2>1. e \in Int /\ l \in Int /\ l <= e /\ e % Page = 0
    BY <1>3
  <2>2. AlignUp(l, Page) <= e /\ AlignUp(l, Page) \in Int
    BY <1>4, <2>1, MultipleBounds, UpMultiple
  <2>3. s \in Int /\ s % Page = 0 /\ s <= l /\ l < s + Page
    BY <1>4, <2>1, DownMultiple
  <2>4. (s + Page) % Page = 0 /\ s + Page \in Int
    BY <1>4, <2>3, NextMultiple
  <2> HIDE DEF s
  <2>5. s # l
    <3>1. CASE s = l
      <4>1. l < e /\ e <= e
        BY <2>1
      <4>2. l + Page <= AlignUp(e, Page) /\ AlignUp(e, Page) <= e /\ AlignUp(e, Page) \in Int
        BY <1>4, <2>1, <2>3, <3>1, <4>1, MultipleBounds, UpMultiple
      <4> QED BY <1>4, <2>1, <4>2
    <3> QED BY <3>1
  <2>6. s + Page <= AlignUp(l, Page)
    <3>1. s < l
      BY <2>1, <2>3, <2>5
    <3> QED BY <1>4, <2>1, <2>3, <3>1, MultipleBounds
  <2> QED BY <1>4, <2>1, <2>2, <2>3, <2>6
<1>9. AlignUp(l, Page) - 1 = l
  BY <1>3, <1>8
<1> QED BY <1>2, <1>3, <1>5, <1>6, <1>7, <1>9 DEF f, l

LEMMA ListFacts ==
  ASSUME NEW F, NEW G, ListsOk(F, G), NEW p \in AllPools
  PROVE  /\ Sound(F[p]) /\ Sound(G[p])
         /\ F[p] \subseteq Region /\ G[p] \subseteq Region
         /\ \A r \in F[p] \cup G[p] :
              r \in Region /\ Whole(r) /\ r.first \in Nat /\ r.last \in Nat /\ r.first <= r.last
         /\ \A b \in Nat : Has(F[p], b) => Has(G[p], b)
<1>1. /\ Sound(F[p]) /\ \A r \in F[p] : Whole(r)
      /\ Sound(G[p]) /\ \A r \in G[p] : Whole(r)
      /\ \A b \in Nat : Has(F[p], b) => Has(G[p], b)
  BY DEF ListsOk
<1>2. F[p] \subseteq Region /\ G[p] \subseteq Region
  BY <1>1 DEF Sound, Bounded
<1>3. \A r \in F[p] \cup G[p] : r.first <= r.last
  BY <1>1 DEF Sound, Bounded
<1> QED BY <1>1, <1>2, <1>3, RegionFields

LEMMA InitStep == Init => PInv
<1> SUFFICES ASSUME Init PROVE PInv
  OBVIOUS
<1>1. /\ phase = "pools" /\ poolmem = {} /\ mem = {} /\ marking_direct = FALSE
      /\ free = [p \in AllPools |-> {}] /\ full = [p \in AllPools |-> {}]
      /\ memsections = [z \in Zones |-> <<>>] /\ primed = {}
      /\ windows = [z \in Zones |-> {}] /\ segs = {}
  BY DEF Init
<1>2. \A p \in AllPools : free[p] = {} /\ full[p] = {}
  BY <1>1
<1>3. \A p \in AllPools, b \in Nat : ~Has(free[p], b) /\ ~Has(full[p], b)
  BY <1>2, EmptyList
<1>4. \A b \in Nat : ~HasAny(free, b) /\ ~HasAny(full, b)
  BY <1>3 DEF HasAny
<1>5. Flags
  BY <1>1 DEF Flags
<1>6. ListsOk(free, full)
  BY <1>1, <1>2, EmptyList DEF ListsOk
<1>7. FreeApart(free)
  BY <1>3 DEF FreeApart
<1>8. SegsOk(free, full, segs, mem)
  BY <1>1 DEF SegsOk
<1>9. WindowsOk(free, full, windows, segs)
  BY <1>1, <1>3, PoolConstants DEF WindowsOk
<1>10. PoolsStage
  BY <1>1, <1>4 DEF PoolsStage
<1>11. DirectStage
  BY <1>1, <1>3, PoolConstants DEF DirectStage
<1>12. MarksStage
  BY <1>1, <1>4 DEF MarksStage
<1>13. ZonesStage
  <2>1. ASSUME NEW z \in Zones
        PROVE  /\ memsections[z] \in Seq(Segments) /\ DOMAIN memsections[z] = {}
               /\ free[z] = {} /\ full[z] = {} /\ windows[z] = {}
    BY <1>1, <1>2, PoolConstants
  <2> QED BY <1>1, <2>1 DEF ZonesStage
<1> QED BY <1>5, <1>6, <1>7, <1>8, <1>9, <1>10, <1>11, <1>12, <1>13 DEF PInv

\* An error stops the program with everything as it is.
LEMMA RefuseStep ==
  ASSUME PInv, Refuse
  PROVE  PInv'
<1>1. /\ phase' = "stopped"
      /\ free' = free /\ full' = full /\ poolmem' = poolmem /\ mem' = mem /\ segs' = segs
      /\ marking_direct' = marking_direct
      /\ memsections' = memsections /\ primed' = primed /\ windows' = windows
  BY DEF Refuse, zones
<1>2. Flags' /\ ListsOk(free', full') /\ FreeApart(free')
  BY <1>1 DEF PInv, Flags
<1>3. SegsOk(free', full', segs', mem') /\ WindowsOk(free', full', windows', segs')
  BY <1>1 DEF PInv
<1>4. PoolsStage' /\ DirectStage' /\ MarksStage'
  BY <1>1 DEF PoolsStage, DirectStage, MarksStage
<1>5. ZonesStage'
  BY <1>1 DEF PInv, ZonesStage
<1> QED BY <1>2, <1>3, <1>4, <1>5 DEF PInv

LEMMA StutterStep ==
  ASSUME PInv, UNCHANGED vars
  PROVE  PInv'
<1>1. /\ phase' = phase
      /\ free' = free /\ full' = full /\ poolmem' = poolmem /\ mem' = mem /\ segs' = segs
      /\ marking_direct' = marking_direct
      /\ memsections' = memsections /\ primed' = primed /\ windows' = windows
  BY DEF vars, zones
<1>2. Flags' /\ ListsOk(free', full') /\ FreeApart(free')
  BY <1>1 DEF PInv, Flags
<1>3. SegsOk(free', full', segs', mem') /\ WindowsOk(free', full', windows', segs')
  BY <1>1 DEF PInv
<1>4. PoolsStage' /\ DirectStage' /\ MarksStage' /\ ZonesStage'
  BY <1>1 DEF PInv, PoolsStage, DirectStage, MarksStage, ZonesStage
<1> QED BY <1>2, <1>3, <1>4 DEF PInv

\* add_memory gives a pool a region that meets nothing the pool has.
GivenTo(F, p, new) ==
  [q \in AllPools |-> IF q = p THEN Merged(F[p] \cup {new}) ELSE F[q]]

LEMMA GivenLists ==
  ASSUME NEW F, NEW G, ListsOk(F, G), NEW p \in AllPools, NEW new \in Region,
         Whole(new), new.first <= new.last,
         \A r \in F[p] \cup G[p] : r.last < new.first \/ new.last < r.first,
         NEW H, H = GivenTo(F, p, new), NEW K, K = GivenTo(G, p, new)
  PROVE  /\ ListsOk(H, K)
         /\ \A q \in AllPools, b \in Nat :
              /\ Has(H[q], b) <=> Has(F[q], b) \/ (q = p /\ new.first <= b /\ b <= new.last)
              /\ Has(K[q], b) <=> Has(G[q], b) \/ (q = p /\ new.first <= b /\ b <= new.last)
         /\ \A q \in AllPools : q # p => H[q] = F[q] /\ K[q] = G[q]
<1>2. /\ H = [q \in AllPools |-> H[q]] /\ K = [q \in AllPools |-> K[q]]
      /\ H[p] = Merged(F[p] \cup {new}) /\ K[p] = Merged(G[p] \cup {new})
      /\ \A q \in AllPools : q # p => H[q] = F[q] /\ K[q] = G[q]
  BY DEF GivenTo
<1>3. Sound(F[p]) /\ Sound(G[p]) /\ \A r \in F[p] \cup G[p] : Whole(r)
  BY ListFacts
<1>4. /\ Bounded(F[p] \cup {new}) /\ NoneMeet(F[p] \cup {new})
      /\ \A b \in Nat : Has(F[p] \cup {new}, b) <=> Has(F[p], b) \/ (new.first <= b /\ b <= new.last)
  BY <1>3, OneMore
<1>5. /\ Bounded(G[p] \cup {new}) /\ NoneMeet(G[p] \cup {new})
      /\ \A b \in Nat : Has(G[p] \cup {new}, b) <=> Has(G[p], b) \/ (new.first <= b /\ b <= new.last)
  BY <1>3, OneMore
<1>6. /\ Sound(H[p]) /\ \A m \in H[p] : Whole(m)
      /\ \A b \in Nat : Has(H[p], b) <=> Has(F[p], b) \/ (new.first <= b /\ b <= new.last)
  BY <1>2, <1>3, <1>4, MergedList
<1>7. /\ Sound(K[p]) /\ \A m \in K[p] : Whole(m)
      /\ \A b \in Nat : Has(K[p], b) <=> Has(G[p], b) \/ (new.first <= b /\ b <= new.last)
  BY <1>2, <1>3, <1>5, MergedList
<1>8. ASSUME NEW q \in AllPools
      PROVE  /\ Sound(H[q]) /\ \A m \in H[q] : Whole(m)
             /\ Sound(K[q]) /\ \A m \in K[q] : Whole(m)
             /\ \A b \in Nat :
                  /\ Has(H[q], b) <=> Has(F[q], b) \/ (q = p /\ new.first <= b /\ b <= new.last)
                  /\ Has(K[q], b) <=> Has(G[q], b) \/ (q = p /\ new.first <= b /\ b <= new.last)
                  /\ Has(F[q], b) => Has(G[q], b)
  <2>1. CASE q = p
    BY <1>6, <1>7, <2>1, ListFacts
  <2>2. CASE q # p
    <3>1. H[q] = F[q] /\ K[q] = G[q]
      BY <1>2, <2>2
    <3> QED BY <2>2, <3>1, ListFacts
  <2> QED BY <2>1, <2>2
<1>9. ListsOk(H, K)
  BY <1>2, <1>8 DEF ListsOk
<1> QED BY <1>2, <1>8, <1>9

\* The order of merge.
LEMMA Stages ==
  ASSUME Flags
  PROVE  /\ Before(phase, "direct") => phase \in {"pools", "direct"}
         /\ Before(phase, "marks") => phase \in {"pools", "direct", "marks"}
         /\ Before(phase, "prime") => phase \in {"pools", "direct", "marks", "prime"}
<1> DEFINE order == [pools |-> 1, direct |-> 2, marks |-> 3, prime |-> 4, layout |-> 5,
                     stopped |-> 6]
<1>1. /\ order["pools"] = 1 /\ order["direct"] = 2 /\ order["marks"] = 3
      /\ order["prime"] = 4 /\ order["layout"] = 5 /\ order["stopped"] = 6
  OBVIOUS
<1>2. \A s : Before(phase, s) <=> order[phase] <= order[s]
  BY DEF Before
<1> HIDE DEF order
<1>3. phase \in {"pools", "direct", "marks", "prime", "layout", "stopped"}
  BY DEF Flags
<1> QED BY <1>1, <1>2, <1>3

\* Ranges without a common byte do not meet.
LEMMA NoCommonByte ==
  ASSUME NEW r, r.first \in Nat, r.last \in Nat, r.first <= r.last,
         NEW n, n.first \in Nat, n.last \in Nat, n.first <= n.last,
         \A b \in Nat : ~(r.first <= b /\ b <= r.last /\ n.first <= b /\ b <= n.last)
  PROVE  r.last < n.first \/ n.last < r.first
<1>1. CASE r.first <= n.first
  <2>1. ~(r.first <= n.first /\ n.first <= r.last /\ n.first <= n.first /\ n.first <= n.last)
    OBVIOUS
  <2> QED BY <1>1, <2>1
<1>2. CASE n.first < r.first
  <2>1. ~(r.first <= r.first /\ r.first <= r.last /\ n.first <= r.first /\ r.first <= n.last)
    OBVIOUS
  <2> QED BY <1>2, <2>1
<1> QED BY <1>1, <1>2

\* As long as no zone is primed there are no windows.
LEMMA NoWindows ==
  ASSUME PInv, primed = {}
  PROVE  \A z \in Zones : windows[z] = {} /\ free[z] = {} /\ full[z] = {}
BY DEF PInv, ZonesStage

LEMMA NoWindowsYet ==
  ASSUME PInv, primed = {}, NEW F, NEW G, NEW S, \A z \in Zones : G[z] = {}
  PROVE  WindowsOk(F, G, windows, S)
<1>1. windows = [z \in Zones |-> windows[z]]
  BY DEF PInv, WindowsOk
<1>2. \A z \in Zones, b \in Nat : ~Has(G[z], b)
  BY EmptyList
<1> QED BY <1>1, <1>2, NoWindows DEF WindowsOk

LEMMA AddVirtualStep ==
  ASSUME PInv, Orderly, NEW p \in Virtual, NEW new \in Memory, AddVirtual(p, new)
  PROVE  PInv'
<1>1. CASE Clash(Extent(new.first, new.last), poolmem, FALSE)
  BY <1>1, RefuseStep DEF AddVirtual
<1>2. CASE ~Clash(Extent(new.first, new.last), poolmem, FALSE)
  <2>1. /\ phase = "pools" /\ poolmem' = poolmem \cup {Extent(new.first, new.last)}
        /\ free' = [free EXCEPT ![p] = Merged(@ \cup {new})]
        /\ full' = [full EXCEPT ![p] = Merged(@ \cup {new})]
        /\ phase' = phase /\ mem' = mem /\ marking_direct' = marking_direct /\ segs' = segs
        /\ memsections' = memsections /\ primed' = primed /\ windows' = windows
    BY <1>2 DEF AddVirtual, Given, zones
  <2>2. /\ Flags /\ ListsOk(free, full) /\ FreeApart(free)
        /\ PoolsStage /\ DirectStage /\ MarksStage /\ ZonesStage
    BY DEF PInv
  <2>3. /\ segs = {} /\ mem = {} /\ primed = {}
        /\ \A b \in Nat : Has(full[Direct], b) <=> Has(free[Direct], b)
        /\ \A b \in Nat : HasAny(full, b) => HasAny(free, b)
    BY <2>1, <2>2 DEF DirectStage, MarksStage
  <2>4. /\ new \in Region /\ Whole(new) /\ new.first \in Nat /\ new.last \in Nat
        /\ new.first <= new.last
    BY GivenRegions
  <2>5. p \in AllPools /\ p # Direct /\ p \notin Zones
    BY PoolConstants
  <2>6. ASSUME NEW b \in Nat, new.first <= b, b <= new.last PROVE ~HasAny(full, b)
    <3>1. SUFFICES ASSUME HasAny(full, b) PROVE FALSE
      OBVIOUS
    <3>2. PICK e \in poolmem : e.first <= b /\ b <= e.last
      BY <2>1, <2>2, <3>1 DEF PoolsStage
    <3>3. PICK x \in Memory : e = Extent(x.first, x.last)
      BY <2>1, <2>2 DEF PoolsStage
    <3>4. e.first = x.first /\ e.last = x.last /\ x.first \in Nat /\ x.last \in Nat
      BY <3>3, GivenRegions DEF Extent
    <3>5. ~(new.first \in e.first .. e.last \/ new.last \in e.first .. e.last)
      BY <1>2 DEF Clash, Overlaps, Extent
    <3>6. ~(new.first < x.first /\ x.last < new.last)
      BY DEF Orderly, NoneAround
    <3> QED BY <2>4, <2>6, <3>2, <3>4, <3>5, <3>6
  <2>7. ASSUME NEW r \in free[p] \cup full[p]
        PROVE  r.last < new.first \/ new.last < r.first
    <3>1. r.first \in Nat /\ r.last \in Nat /\ r.first <= r.last
      BY <2>2, <2>5, ListFacts
    <3>2. ASSUME NEW b \in Nat, r.first <= b, b <= r.last PROVE HasAny(full, b)
      <4>1. Has(free[p], b) \/ Has(full[p], b)
        BY <2>7, <3>2 DEF Has
      <4> QED BY <2>2, <2>5, <4>1, ListFacts DEF HasAny
    <3>3. \A b \in Nat : ~(r.first <= b /\ b <= r.last /\ new.first <= b /\ b <= new.last)
      BY <2>6, <3>2
    <3> QED BY <2>4, <3>1, <3>3, NoCommonByte
  <2>8. /\ ListsOk(free', full')
        /\ \A q \in AllPools, b \in Nat :
             /\ Has(free'[q], b) <=> Has(free[q], b) \/ (q = p /\ new.first <= b /\ b <= new.last)
             /\ Has(full'[q], b) <=> Has(full[q], b) \/ (q = p /\ new.first <= b /\ b <= new.last)
        /\ \A q \in AllPools : q # p => free'[q] = free[q] /\ full'[q] = full[q]
    <3>1. PICK F, G, H, K : F = free /\ G = full /\ H = free' /\ K = full'
      OBVIOUS
    <3>2. ListsOk(F, G) /\ \A r \in F[p] \cup G[p] : r.last < new.first \/ new.last < r.first
      BY <2>2, <2>7, <3>1
    <3>3. H = GivenTo(F, p, new) /\ K = GivenTo(G, p, new)
      BY <2>1, <3>1, <3>2 DEF GivenTo, ListsOk
    <3>4. /\ ListsOk(H, K)
          /\ \A q \in AllPools, b \in Nat :
               /\ Has(H[q], b) <=> Has(F[q], b) \/ (q = p /\ new.first <= b /\ b <= new.last)
               /\ Has(K[q], b) <=> Has(G[q], b) \/ (q = p /\ new.first <= b /\ b <= new.last)
          /\ \A q \in AllPools : q # p => H[q] = F[q] /\ K[q] = G[q]
      BY <2>4, <2>5, <3>2, <3>3, GivenLists
    <3> QED BY <3>1, <3>4
  <2>9. \A b \in Nat :
          /\ HasAny(free', b) <=> HasAny(free, b) \/ (new.first <= b /\ b <= new.last)
          /\ HasAny(full', b) <=> HasAny(full, b) \/ (new.first <= b /\ b <= new.last)
    BY <2>5, <2>8 DEF HasAny
  <2>10. FreeApart(free')
    <3> SUFFICES ASSUME NEW q \in AllPools, NEW r \in AllPools, NEW b \in Nat,
                        Has(free'[q], b), Has(free'[r], b), q # r
                 PROVE  FALSE
      BY DEF FreeApart
    <3>1. ASSUME NEW x \in AllPools, Has(free[x], b) PROVE HasAny(full, b)
      BY <2>2, <3>1, ListFacts DEF HasAny
    <3>2. CASE new.first <= b /\ b <= new.last
      BY <2>6, <2>8, <3>1, <3>2
    <3>3. CASE ~(new.first <= b /\ b <= new.last)
      BY <2>2, <2>8, <3>3 DEF FreeApart
    <3> QED BY <3>2, <3>3
  <2>11. SegsOk(free', full', segs', mem')
    BY <2>1, <2>3 DEF SegsOk
  <2>12. \A z \in Zones : z \in AllPools /\ z # p
    BY <2>5, PoolConstants
  <2>13. WindowsOk(free', full', windows', segs')
    <3>1. \A z \in Zones : full'[z] = {}
      BY <2>3, <2>8, <2>12, NoWindows
    <3> QED BY <2>1, <2>3, <3>1, NoWindowsYet
  <2>14. PoolsStage'
    <3>1. poolmem' \subseteq {Extent(x.first, x.last) : x \in Memory}
      BY <2>1, <2>2 DEF PoolsStage
    <3>2. ASSUME NEW b \in Nat, HasAny(full', b)
          PROVE  \E e \in poolmem' : e.first <= b /\ b <= e.last
      <4>1. CASE HasAny(full, b)
        BY <2>1, <2>2, <4>1 DEF PoolsStage
      <4>2. CASE new.first <= b /\ b <= new.last
        <5>1. Extent(new.first, new.last) \in poolmem'
          BY <2>1
        <5> QED BY <4>2, <5>1 DEF Extent
      <4> QED BY <2>9, <3>2, <4>1, <4>2
    <3> QED BY <3>1, <3>2 DEF PoolsStage
  <2>15. DirectStage'
    <3>1. free'[Direct] = free[Direct] /\ full'[Direct] = full[Direct]
      BY <2>5, <2>8, PoolConstants
    <3> QED BY <2>1, <2>2, <2>3, <3>1 DEF DirectStage
  <2>16. MarksStage'
    BY <2>1, <2>3, <2>9 DEF MarksStage
  <2>17. ZonesStage'
    <3>1. \A z \in Zones : free'[z] = free[z] /\ full'[z] = full[z]
      BY <2>8, <2>12
    <3> QED BY <2>1, <2>2, <3>1 DEF ZonesStage
  <2>18. Flags'
    BY <2>1, <2>2 DEF Flags
  <2> QED BY <2>8, <2>10, <2>11, <2>13, <2>14, <2>15, <2>16, <2>17, <2>18 DEF PInv
<1> QED BY <1>1, <1>2

\* A direct region is taken from the one pool that has it, in one piece.
LEMMA TakenFromOne ==
  ASSUME PInv, Within, NEW new \in Directs,
         Within => \E p \in Virtual : \E r \in free[p] : r.first <= new.first /\ new.last <= r.last,
         NEW list, NEW tracked, NEW flag, RemoveVirtual(new, list, tracked, flag)
  PROVE  /\ tracked = {} /\ flag = FALSE
         /\ \E p \in Virtual :
              /\ list = Taken(p, new)
              /\ \A b \in Nat : new.first <= b /\ b <= new.last => Has(free[p], b)
<1>1. PICK p \in Virtual : \E r \in free[p] : r.first <= new.first /\ new.last <= r.last
  OBVIOUS
<1>2. PICK r \in free[p] : r.first <= new.first /\ new.last <= r.last
  BY <1>1
<1>3. /\ new \in Region /\ new.first \in Nat /\ new.last \in Nat /\ new.first <= new.last
      /\ Claim(new).base \in Nat /\ Claim(new).size \in Nat \ {0}
      /\ AlignDown(Claim(new).base, Page) = new.first /\ MarkEnd(Claim(new)) = new.last
  BY GivenRegions, ClaimPages
<1>4. ListsOk(free, full) /\ FreeApart(free) /\ p \in AllPools
  BY PoolConstants DEF PInv
<1>5. ASSUME NEW q \in AllPools
      PROVE  /\ \A x : x \in Hit(free[q], Claim(new)) <=>
                  x \in free[q] /\ new.first <= x.last /\ x.first <= new.last
             /\ \A x \in free[q] : x.first \in Nat /\ x.last \in Nat /\ x.first <= x.last
  <2>1. /\ free[q] \in SUBSET Region
        /\ \A x \in free[q] : x.first \in Nat /\ x.last \in Nat /\ x.first <= x.last
    BY <1>4, ListFacts
  <2> QED BY <1>3, <2>1, HitRegions
<1>6. ASSUME NEW b \in Nat, new.first <= b, b <= new.last PROVE Has(free[p], b)
  BY <1>2, <1>3, <1>4, <1>5, <1>6 DEF Has
<1>7. ASSUME NEW q \in AllPools, NEW x \in Hit(free[q], Claim(new)) PROVE q = p /\ x = r
  <2>1. x \in free[q] /\ new.first <= x.last /\ x.first <= new.last
    BY <1>5
  <2>2. x.first \in Nat /\ x.last \in Nat /\ x.first <= x.last
    BY <1>5, <2>1
  <2>3. SUFFICES ASSUME ~(q = p /\ x = r) PROVE FALSE
    OBVIOUS
  <2>4. ASSUME NEW b \in Nat, x.first <= b, b <= x.last, new.first <= b, b <= new.last
        PROVE  FALSE
    <3>1. Has(free[q], b) /\ Has(free[p], b)
      BY <1>6, <2>1, <2>4 DEF Has
    <3>2. q = p
      BY <1>4, <3>1 DEF FreeApart
    <3>3. x # r /\ x \in free[p] /\ Sound(free[p])
      BY <1>4, <2>1, <2>3, <3>2, ListFacts
    <3>4. x.last < r.first \/ r.last < x.first
      BY <3>3, SoundIsDisjoint DEF NoneMeet
    <3>5. r.first \in Nat /\ r.last \in Nat
      BY <1>4, <1>5
    <3> QED BY <1>2, <1>3, <2>2, <2>4, <3>4, <3>5
  <2>5. x.last < new.first \/ new.last < x.first
    BY <1>3, <2>2, <2>4, NoCommonByte
  <2> QED BY <1>3, <2>1, <2>2, <2>5
<1>8. r \in Hit(free[p], Claim(new))
  BY <1>2, <1>3, <1>4, <1>5
<1>9. Hit(free[p], Claim(new)) = {r} /\ \A q \in AllPools : Hit(free[q], Claim(new)) # {} <=> q = p
  BY <1>4, <1>7, <1>8
<1>10. {q \in AllPools : Hit(free[q], Claim(new)) # {}} = {p}
  BY <1>4, <1>9
<1>11. Cardinality(Hit(free[p], Claim(new))) = 1
  BY <1>9, FS_Singleton
<1>12. list = Taken(p, new) /\ flag = FALSE /\ tracked = {}
  BY <1>10, <1>11 DEF RemoveVirtual
<1> QED BY <1>6, <1>12

\* The lists without some pages of a pool.
LEMMA TakenLists ==
  ASSUME PInv, NEW new \in Directs, NEW p \in AllPools
  PROVE  LET L == Taken(p, new) IN
         /\ ListsOk(L, full)
         /\ \A q \in AllPools, b \in Nat :
              Has(L[q], b) <=> Has(free[q], b) /\ ~(q = p /\ new.first <= b /\ b <= new.last)
         /\ \A q \in AllPools : q # p => L[q] = free[q]
<1> DEFINE L == Taken(p, new)
<1>1. ListsOk(free, full)
  BY DEF PInv
<1>2. free = [q \in AllPools |-> free[q]]
  BY <1>1 DEF ListsOk
<1>3. L = [q \in AllPools |-> IF q = p THEN Unmarked(free[p], Claim(new)) ELSE free[q]]
  BY <1>2 DEF Taken
<1> HIDE DEF L
<1>4. /\ L = [q \in AllPools |-> L[q]] /\ L[p] = Unmarked(free[p], Claim(new))
      /\ \A q \in AllPools : q # p => L[q] = free[q]
  BY <1>3
<1>5. /\ Claim(new).base \in Nat /\ Claim(new).size \in Nat \ {0}
      /\ AlignDown(Claim(new).base, Page) = new.first /\ MarkEnd(Claim(new)) = new.last
  BY ClaimPages
<1>6. /\ Sound(L[p]) /\ \A r \in L[p] : Whole(r)
      /\ \A b \in Nat : Has(L[p], b) <=> Has(free[p], b) /\ ~(new.first <= b /\ b <= new.last)
  <2>1. Sound(free[p]) /\ \A r \in free[p] : Whole(r)
    BY <1>1, ListFacts
  <2> QED BY <1>4, <1>5, <2>1, UnmarkedList
<1>7. ASSUME NEW q \in AllPools
      PROVE  /\ Sound(L[q]) /\ \A r \in L[q] : Whole(r)
             /\ Sound(full[q]) /\ \A r \in full[q] : Whole(r)
             /\ \A b \in Nat :
                  /\ Has(L[q], b) <=> Has(free[q], b) /\ ~(q = p /\ new.first <= b /\ b <= new.last)
                  /\ Has(L[q], b) => Has(full[q], b)
  <2>0. /\ Sound(full[q]) /\ \A r \in full[q] : Whole(r)
        /\ Sound(free[q]) /\ \A r \in free[q] : Whole(r)
        /\ \A b \in Nat : Has(free[q], b) => Has(full[q], b)
    BY <1>1, ListFacts
  <2>1. CASE q = p
    BY <1>6, <2>0, <2>1
  <2>2. CASE q # p
    <3>1. L[q] = free[q]
      BY <1>4, <2>2
    <3> QED BY <2>0, <2>2, <3>1
  <2> QED BY <2>1, <2>2
<1>8. full = [q \in AllPools |-> full[q]]
  BY <1>1 DEF ListsOk
<1>9. ListsOk(L, full)
  BY <1>4, <1>7, <1>8 DEF ListsOk
<1> QED BY <1>4, <1>7, <1>9 DEF L

LEMMA AddDirectStep ==
  ASSUME PInv, Orderly, NEW new \in Directs, AddDirect(new)
  PROVE  PInv'
<1>1. PICK list \in {free} \cup {Taken(p, new) : p \in AllPools},
           tracked \in {{}, {Pages(Claim(new))}}, flag \in BOOLEAN :
        /\ RemoveVirtual(new, list, tracked, flag)
        /\ IF Overlaps(new, full[Direct]) \/ \E t \in tracked : Clash(t, mem, TRUE)
           THEN Refuse
           ELSE /\ Given(Direct, new, list)
                /\ mem' = mem \cup tracked /\ marking_direct' = flag
                /\ phase' = "direct"
                /\ UNCHANGED <<poolmem, zones, segs>>
  BY DEF AddDirect
<1>2. CASE Refuse
  BY <1>2, RefuseStep
<1>3. CASE /\ Given(Direct, new, list)
           /\ mem' = mem \cup tracked /\ marking_direct' = flag
           /\ phase' = "direct"
           /\ UNCHANGED <<poolmem, zones, segs>>
  <2>1. /\ tracked = {} /\ flag = FALSE
        /\ \E p \in Virtual :
             /\ list = Taken(p, new)
             /\ \A b \in Nat : new.first <= b /\ b <= new.last => Has(free[p], b)
    BY <1>1, TakenFromOne DEF AddDirect, Orderly
  <2>2. PICK p \in Virtual :
             /\ list = Taken(p, new)
             /\ \A b \in Nat : new.first <= b /\ b <= new.last => Has(free[p], b)
    BY <2>1
  <2>3. /\ Before(phase, "direct") /\ phase' = "direct" /\ mem' = mem /\ marking_direct' = FALSE
        /\ free' = [list EXCEPT ![Direct] = Merged(@ \cup {new})]
        /\ full' = [full EXCEPT ![Direct] = Merged(@ \cup {new})]
        /\ memsections' = memsections /\ primed' = primed /\ windows' = windows /\ segs' = segs
    BY <1>3, <2>1 DEF AddDirect, Given, zones
  <2>4. /\ Flags /\ ListsOk(free, full) /\ FreeApart(free)
        /\ DirectStage /\ MarksStage /\ ZonesStage
    BY DEF PInv
  <2>5. phase \in {"pools", "direct"}
    BY <2>3, <2>4, Stages
  <2>6. /\ segs = {} /\ mem = {} /\ primed = {} /\ memsections = [z \in Zones |-> <<>>]
        /\ \A b \in Nat : Has(full[Direct], b) <=> Has(free[Direct], b)
        /\ \A b \in Nat : HasAny(full, b) => HasAny(free, b)
    BY <2>4, <2>5 DEF DirectStage, MarksStage
  <2>7. /\ p \in AllPools /\ Direct \in AllPools /\ p # Direct
        /\ \A z \in Zones : z \in AllPools /\ z # Direct /\ z # p
    BY PoolConstants
  <2>8. /\ new \in Region /\ Whole(new) /\ new.first \in Nat /\ new.last \in Nat
        /\ new.first <= new.last
    BY GivenRegions
  <2>9. /\ ListsOk(list, full)
        /\ \A q \in AllPools, b \in Nat :
             Has(list[q], b) <=> Has(free[q], b) /\ ~(q = p /\ new.first <= b /\ b <= new.last)
        /\ \A q \in AllPools : q # p => list[q] = free[q]
    BY <2>2, <2>7, TakenLists
  <2>10. ASSUME NEW r \in list[Direct] \cup full[Direct]
         PROVE  r.last < new.first \/ new.last < r.first
    <3>1. r.first \in Nat /\ r.last \in Nat /\ r.first <= r.last
      BY <2>7, <2>9, ListFacts
    <3>2. ASSUME NEW b \in Nat, r.first <= b, b <= r.last, new.first <= b, b <= new.last
          PROVE  FALSE
      <4>1. Has(list[Direct], b) \/ Has(full[Direct], b)
        BY <2>10, <3>2 DEF Has
      <4>2. Has(free[Direct], b)
        BY <2>6, <2>7, <2>9, <4>1
      <4>3. Has(free[p], b)
        BY <2>2, <3>2
      <4> QED BY <2>4, <2>7, <4>2, <4>3 DEF FreeApart
    <3> QED BY <2>8, <3>1, <3>2, NoCommonByte
  <2>11. /\ ListsOk(free', full')
         /\ \A q \in AllPools, b \in Nat :
              /\ Has(free'[q], b) <=> Has(list[q], b) \/ (q = Direct /\ new.first <= b /\ b <= new.last)
              /\ Has(full'[q], b) <=> Has(full[q], b) \/ (q = Direct /\ new.first <= b /\ b <= new.last)
         /\ \A q \in AllPools : q # Direct => free'[q] = list[q] /\ full'[q] = full[q]
    <3>1. PICK F, G, H, K : F = list /\ G = full /\ H = free' /\ K = full'
      OBVIOUS
    <3>2. ListsOk(F, G) /\ \A r \in F[Direct] \cup G[Direct] : r.last < new.first \/ new.last < r.first
      BY <2>9, <2>10, <3>1
    <3>3. H = GivenTo(F, Direct, new) /\ K = GivenTo(G, Direct, new)
      BY <2>3, <3>1, <3>2 DEF GivenTo, ListsOk
    <3>4. /\ ListsOk(H, K)
          /\ \A q \in AllPools, b \in Nat :
               /\ Has(H[q], b) <=> Has(F[q], b) \/ (q = Direct /\ new.first <= b /\ b <= new.last)
               /\ Has(K[q], b) <=> Has(G[q], b) \/ (q = Direct /\ new.first <= b /\ b <= new.last)
          /\ \A q \in AllPools : q # Direct => H[q] = F[q] /\ K[q] = G[q]
      BY <2>7, <2>8, <3>2, <3>3, GivenLists
    <3> QED BY <3>1, <3>4
  <2>12. ASSUME NEW b \in Nat
         PROVE  /\ HasAny(free', b) <=> HasAny(free, b)
                /\ HasAny(full', b) <=> HasAny(full, b)
    <3>1. new.first <= b /\ b <= new.last => Has(free[p], b) /\ Has(full[p], b)
      BY <2>2, <2>4, <2>7, ListFacts
    <3>2. CASE new.first <= b /\ b <= new.last
      <4>1. HasAny(free, b) /\ HasAny(full, b)
        BY <2>7, <3>1, <3>2 DEF HasAny
      <4>2. Has(free'[Direct], b) /\ Has(full'[Direct], b)
        BY <2>7, <2>11, <3>2
      <4>3. HasAny(free', b) /\ HasAny(full', b)
        BY <2>7, <4>2 DEF HasAny
      <4> QED BY <4>1, <4>3
    <3>3. CASE ~(new.first <= b /\ b <= new.last)
      <4>1. \A q \in AllPools : /\ Has(free'[q], b) <=> Has(free[q], b)
                                /\ Has(full'[q], b) <=> Has(full[q], b)
        BY <2>9, <2>11, <3>3
      <4> QED BY <4>1 DEF HasAny
    <3> QED BY <3>2, <3>3
  <2>13. FreeApart(free')
    <3> SUFFICES ASSUME NEW q \in AllPools, NEW r \in AllPools, NEW b \in Nat,
                        Has(free'[q], b), Has(free'[r], b)
                 PROVE  q = r
      BY DEF FreeApart
    <3>1. CASE new.first <= b /\ b <= new.last
      <4>1. ASSUME NEW x \in AllPools, Has(free'[x], b) PROVE x = Direct
        <5>1. CASE Has(list[x], b)
          <6>1. Has(free[x], b) /\ x # p /\ Has(free[p], b)
            BY <2>2, <2>9, <3>1, <5>1
          <6> QED BY <2>4, <2>7, <6>1 DEF FreeApart
        <5> QED BY <2>11, <4>1, <5>1
      <4> QED BY <4>1
    <3>2. CASE ~(new.first <= b /\ b <= new.last)
      <4>1. Has(free[q], b) /\ Has(free[r], b)
        BY <2>9, <2>11, <3>2
      <4> QED BY <2>4, <4>1 DEF FreeApart
    <3> QED BY <3>1, <3>2
  <2>14. SegsOk(free', full', segs', mem')
    BY <2>3, <2>6 DEF SegsOk
  <2>15. WindowsOk(free', full', windows', segs')
    <3>1. \A z \in Zones : full'[z] = {}
      BY <2>6, <2>7, <2>11, NoWindows
    <3> QED BY <2>3, <2>6, <3>1, NoWindowsYet
  <2>16. PoolsStage'
    BY <2>3 DEF PoolsStage
  <2>17. DirectStage'
    <3>1. list[Direct] = free[Direct]
      BY <2>7, <2>9
    <3>2. \A b \in Nat : Has(full'[Direct], b) <=> Has(free'[Direct], b)
      BY <2>6, <2>7, <2>11, <3>1
    <3> QED BY <2>3, <2>6, <3>2 DEF DirectStage
  <2>18. MarksStage'
    BY <2>3, <2>6, <2>12 DEF MarksStage
  <2>19. ZonesStage'
    <3>1. \A z \in Zones : free'[z] = free[z] /\ full'[z] = full[z]
      BY <2>7, <2>9, <2>11
    <3> QED BY <2>3, <2>4, <3>1 DEF ZonesStage
  <2>20. Flags'
    BY <2>3, <2>4 DEF Flags
  <2> QED BY <2>11, <2>13, <2>14, <2>15, <2>16, <2>17, <2>18, <2>19, <2>20 DEF PInv
<1> QED BY <1>1, <1>2, <1>3

\* The free lists without the pages of a segment.
LEMMA MarkedLists ==
  ASSUME NEW F, NEW G, ListsOk(F, G), NEW m \in Segments,
         NEW H, H = [p \in AllPools |-> Unmarked(F[p], m)]
  PROVE  /\ ListsOk(H, G)
         /\ \A q \in AllPools, b \in Nat :
              Has(H[q], b) <=> Has(F[q], b) /\ ~(Pages(m).first <= b /\ b <= Pages(m).last)
<1>1. /\ m.base \in Nat /\ m.size \in Nat \ {0}
      /\ Pages(m).first = AlignDown(m.base, Page) /\ Pages(m).last = MarkEnd(m)
  BY SegmentFields
<1>2. H = [p \in AllPools |-> H[p]] /\ \A p \in AllPools : H[p] = Unmarked(F[p], m)
  OBVIOUS
<1>3. ASSUME NEW q \in AllPools
      PROVE  /\ Sound(H[q]) /\ \A r \in H[q] : Whole(r)
             /\ Sound(G[q]) /\ \A r \in G[q] : Whole(r)
             /\ \A b \in Nat :
                  /\ Has(H[q], b) <=> Has(F[q], b) /\ ~(Pages(m).first <= b /\ b <= Pages(m).last)
                  /\ Has(H[q], b) => Has(G[q], b)
  <2>1. /\ Sound(F[q]) /\ \A r \in F[q] : Whole(r)
        /\ Sound(G[q]) /\ \A r \in G[q] : Whole(r)
        /\ \A b \in Nat : Has(F[q], b) => Has(G[q], b)
    BY ListFacts
  <2>2. /\ Sound(H[q]) /\ \A r \in H[q] : Whole(r)
        /\ \A b \in Nat :
             Has(H[q], b) <=> Has(F[q], b) /\ ~(Pages(m).first <= b /\ b <= Pages(m).last)
    BY <1>1, <1>2, <2>1, UnmarkedList
  <2> QED BY <2>1, <2>2
<1>4. G = [p \in AllPools |-> G[p]]
  BY DEF ListsOk
<1> QED BY <1>2, <1>3, <1>4 DEF ListsOk

\* The regions that a segment hits are finitely many; there are some if and
\* only if one of its pages is free.
Hits(F, m) == UNION {{p} \X Hit(F[p], m) : p \in AllPools}

LEMMA HitsFacts ==
  ASSUME NEW F, NEW G, ListsOk(F, G), NEW m \in Segments
  PROVE  /\ Cardinality(Hits(F, m)) \in Nat
         /\ Cardinality(Hits(F, m)) = 0 <=> Hits(F, m) = {}
         /\ Hits(F, m) # {} <=>
              \E b \in Nat : HasAny(F, b) /\ Pages(m).first <= b /\ b <= Pages(m).last
<1>1. /\ m.base \in Nat /\ m.size \in Nat \ {0} /\ IsWindow(Pages(m))
      /\ Pages(m).first = AlignDown(m.base, Page) /\ Pages(m).last = MarkEnd(m)
  BY SegmentFields, SegmentPages
<1> DEFINE lo == Pages(m).first
           hi == Pages(m).last
<1>2. lo \in Nat /\ hi \in Nat /\ lo <= hi
  BY <1>1 DEF IsWindow
<1>3. ASSUME NEW p \in AllPools
      PROVE  /\ \A r : r \in Hit(F[p], m) <=> r \in F[p] /\ lo <= r.last /\ r.first <= hi
             /\ \A r \in F[p] : r.first \in Nat /\ r.last \in Nat /\ r.first <= r.last
             /\ IsFiniteSet(F[p])
  <2>1. /\ F[p] \in SUBSET Region /\ Sound(F[p])
        /\ \A r \in F[p] : r.first \in Nat /\ r.last \in Nat /\ r.first <= r.last
    BY ListFacts
  <2> QED BY <1>1, <2>1, HitRegions, FiniteList
<1>4. IsFiniteSet(Hits(F, m))
  <2> DEFINE L == {F[p] : p \in AllPools}
             f == [p \in AllPools |-> F[p]]
  <2>1. f \in Surjection(AllPools, L)
    BY DEF Surjection
  <2>2. IsFiniteSet(L)
    BY <2>1, PoolConstants, FS_Surjection
  <2>3. \A T \in L : IsFiniteSet(T)
    BY <1>3
  <2>4. IsFiniteSet(AllPools \X UNION L)
    BY <2>2, <2>3, FS_UNION, FS_Product, PoolConstants
  <2>5. Hits(F, m) \in SUBSET (AllPools \X UNION L)
    <3> SUFFICES ASSUME NEW p \in AllPools, NEW r \in Hit(F[p], m)
                 PROVE  <<p, r>> \in AllPools \X UNION L
      BY DEF Hits
    <3>1. r \in F[p] /\ F[p] \in L
      BY <1>3
    <3> QED BY <3>1
  <2> QED BY <2>4, <2>5, FS_Subset
<1>5. ASSUME Hits(F, m) # {}
      PROVE  \E b \in Nat : HasAny(F, b) /\ lo <= b /\ b <= hi
  <2>1. PICK p \in AllPools : \E r : r \in Hit(F[p], m)
    BY <1>5 DEF Hits
  <2>2. PICK r \in F[p] : lo <= r.last /\ r.first <= hi
    BY <1>3, <2>1
  <2>3. r.first \in Nat /\ r.last \in Nat /\ r.first <= r.last
    BY <1>3
  <2>4. CASE lo <= r.first
    BY <2>2, <2>3, <2>4 DEF HasAny, Has
  <2>5. CASE r.first < lo
    BY <1>2, <2>2, <2>3, <2>5 DEF HasAny, Has
  <2> QED BY <1>2, <2>3, <2>4, <2>5
<1>6. ASSUME NEW b \in Nat, HasAny(F, b), lo <= b, b <= hi
      PROVE  Hits(F, m) # {}
  <2>1. PICK p \in AllPools : Has(F[p], b)
    BY <1>6 DEF HasAny
  <2>2. PICK r \in F[p] : r.first <= b /\ b <= r.last
    BY <2>1 DEF Has
  <2>3. r \in Hit(F[p], m)
    BY <1>2, <1>3, <1>6, <2>2
  <2>4. <<p, r>> \in Hits(F, m)
    BY <2>3 DEF Hits
  <2> QED BY <2>4
<1>7. Cardinality(Hits(F, m)) \in Nat /\ (Cardinality(Hits(F, m)) = 0 <=> Hits(F, m) = {})
  BY <1>4, FS_CardinalityType, FS_EmptySet
<1> QED BY <1>5, <1>6, <1>7

\* Where bytes or pages of a segment meet the pages of another, one of their
\* ends does, for they are not around them.
LEMMA EndsMeet ==
  ASSUME Orderly, NEW m \in Segments, NEW n \in Segments, NEW e \in {Bytes(m), Pages(m)},
         NEW b \in Nat, e.first <= b, b <= e.last, Pages(n).first <= b, b <= Pages(n).last
  PROVE  e.first \in Pages(n).first .. Pages(n).last \/ e.last \in Pages(n).first .. Pages(n).last
<1>1. IsWindow(Pages(m)) /\ IsWindow(Pages(n))
  BY SegmentPages
<1>2. Bytes(m).first \in Nat /\ Bytes(m).last \in Nat
  BY SegmentFields
<1>3. Pages(m).first <= Bytes(m).first /\ Bytes(m).last <= Pages(m).last
  BY SegmentInPages DEF Orderly
<1>4. Pages(m).first <= e.first /\ e.last <= Pages(m).last /\ e.first \in Nat /\ e.last \in Nat
  BY <1>1, <1>2, <1>3 DEF IsWindow
<1>5. Pages(m).first < Pages(n).first => Pages(m).last <= Pages(n).last
  BY DEF Orderly, SegmentsNested
<1> QED BY <1>1, <1>4, <1>5 DEF IsWindow

\* A segment that hits no free page and is let through, but touches memory of
\* a pool, is one that is there already.
LEMMA KnownSegment ==
  ASSUME Orderly, ListsOk(free, full), MarksStage, phase \in {"pools", "direct", "marks"},
         NEW m \in Segments, Hits(free, m) = {}, ~Clash(Bytes(m), mem, TRUE),
         NEW b \in Nat, HasAny(full, b), Touch(Bytes(m), b)
  PROVE  \E n \in Segments :
           /\ Bytes(n) = Bytes(m) /\ Pages(n) = Bytes(m) /\ Pages(n) \in mem
           /\ \E s \in segs : Same(s, Bytes(n))
<1>1. Pages(m).first <= b /\ b <= Pages(m).last
  BY SegmentPages DEF Orderly
<1>2. ~HasAny(free, b)
  BY <1>1, HitsFacts
<1>3. PICK t \in mem : t.first <= b /\ b <= t.last
  BY <1>2 DEF MarksStage
<1>4. PICK n \in Segments : t = Pages(n) /\ \E s \in segs : Same(s, Bytes(n))
  BY DEF MarksStage
<1>5. Bytes(m).first \in Nat /\ Bytes(m).last \in Nat /\ Bytes(m).first <= Bytes(m).last
  BY SegmentFields
<1>6. PICK c \in Nat : Bytes(m).first <= c /\ c <= Bytes(m).last /\ PageOf(c) = PageOf(b)
  BY <1>5, TouchedByte DEF Touch
<1>7. Pages(n).first <= c /\ c <= Pages(n).last
  <2>1. Touch(Bytes(n), b)
    BY <1>3, <1>4, SegmentPages
  <2>2. Touch(Bytes(n), c)
    BY <1>6, <2>1 DEF Touch
  <2> QED BY <2>2, SegmentPages DEF Orderly
<1>8. t = Bytes(m)
  <2>1. SUFFICES ASSUME t # Bytes(m) PROVE FALSE
    OBVIOUS
  <2>2. ~(Bytes(m).first \in t.first .. t.last \/ Bytes(m).last \in t.first .. t.last)
    BY <2>1 DEF Clash, Overlaps
  <2> QED BY <1>4, <1>6, <1>7, <2>2, EndsMeet
<1>9. Bytes(n) = Bytes(m)
  BY <1>4, <1>8 DEF Orderly, SegmentsNested
<1> QED BY <1>4, <1>8, <1>9

LEMMA MarkVirtualStep ==
  ASSUME PInv, Orderly, NEW m \in Segments, NEW z \in Zones \cup {NoZone}, MarkVirtual(m, z)
  PROVE  PInv'
<1> DEFINE hits == Hits(free, m)
           sg == Segment(Bytes(m), z)
           lo == Pages(m).first
           hi == Pages(m).last
           refused == IF hits = {} THEN Clash(Bytes(m), mem, TRUE)
                      ELSE Reports(hits) > 0 /\ Clash(Pages(m), mem, TRUE)
<1>1. /\ Before(phase, "marks")
      /\ IF refused THEN Refuse
         ELSE /\ free' = [p \in AllPools |-> Unmarked(free[p], m)]
              /\ mem' = IF hits # {} /\ Reports(hits) > 0 THEN mem \cup {Pages(m)} ELSE mem
              /\ marking_direct' = (marking_direct /\ hits = {})
              /\ memsections' = [x \in Zones |-> IF x = z THEN Append(memsections[x], m)
                                                 ELSE memsections[x]]
              /\ segs' = segs \cup {sg}
              /\ phase' = "marks"
              /\ UNCHANGED <<full, poolmem, primed, windows>>
  BY DEF MarkVirtual, Hits
<1>2. CASE refused
  BY <1>1, <1>2, RefuseStep
<1>3. CASE ~refused
  <2>1. /\ free' = [p \in AllPools |-> Unmarked(free[p], m)]
        /\ mem' = IF hits # {} /\ Reports(hits) > 0 THEN mem \cup {Pages(m)} ELSE mem
        /\ marking_direct' = (marking_direct /\ hits = {})
        /\ memsections' = [x \in Zones |-> IF x = z THEN Append(memsections[x], m)
                                           ELSE memsections[x]]
        /\ segs' = segs \cup {sg} /\ phase' = "marks"
        /\ full' = full /\ primed' = primed /\ windows' = windows
    BY <1>1, <1>3
  <2>2. /\ Flags /\ ListsOk(free, full) /\ FreeApart(free) /\ SegsOk(free, full, segs, mem)
        /\ MarksStage /\ ZonesStage /\ marking_direct = FALSE
    BY DEF PInv, Flags
  <2>3. phase \in {"pools", "direct", "marks"}
    BY <1>1, <2>2, Stages
  <2>4. primed = {}
    BY <2>2, <2>3 DEF MarksStage
  <2>5. /\ ~(hits = {}) => Reports(hits) > 0 /\ ~Clash(Pages(m), mem, TRUE)
        /\ hits = {} => ~Clash(Bytes(m), mem, TRUE)
    <3>1. /\ Cardinality(hits) \in Nat /\ (Cardinality(hits) = 0 <=> hits = {})
      BY <2>2, HitsFacts
    <3>2. Reports(hits) = Cardinality(hits)
      BY <2>2, <3>1 DEF Reports
    <3>3. ~(hits = {}) => Reports(hits) > 0
      <4> DEFINE c == Cardinality(hits)
      <4>1. c \in Nat /\ (c = 0 <=> hits = {}) /\ Reports(hits) = c
        BY <3>1, <3>2
      <4> HIDE DEF c, hits
      <4> QED BY <4>1
    <3>4. IF hits = {} THEN ~Clash(Bytes(m), mem, TRUE)
          ELSE ~(Reports(hits) > 0 /\ Clash(Pages(m), mem, TRUE))
      BY <1>3
    <3> HIDE DEF hits, refused
    <3> QED BY <3>3, <3>4
  <2>6. /\ hits # {} => mem' = mem \cup {Pages(m)}
        /\ hits = {} => mem' = mem
        /\ mem \subseteq mem' /\ segs \subseteq segs' /\ sg \in segs'
    BY <2>1, <2>5
  <2>7. /\ hits # {} => \E b \in Nat : HasAny(free, b) /\ lo <= b /\ b <= hi
        /\ hits = {} => \A b \in Nat : lo <= b /\ b <= hi => ~HasAny(free, b)
    BY <2>2, HitsFacts
  <2> HIDE DEF hits, refused
  <2>8. /\ lo \in Nat /\ hi \in Nat /\ lo <= hi
        /\ lo <= Bytes(m).first /\ Bytes(m).last <= hi
        /\ \A b \in Nat : Touch(Bytes(m), b) <=> lo <= b /\ b <= hi
    BY SegmentPages, SegmentInPages DEF Orderly, IsWindow
  <2>9. /\ sg = Segment(sg, sg.zone) /\ sg.zone = z
        /\ sg.first = Bytes(m).first /\ sg.last = Bytes(m).last
        /\ sg.first \in Nat /\ sg.last \in Nat /\ sg.first <= sg.last
        /\ Same(sg, Bytes(m))
        /\ \A b : Touch(sg, b) <=> Touch(Bytes(m), b)
    BY SegmentFields DEF Segment, Same, Touch
  <2> HIDE DEF lo, hi, sg
  <2>10. /\ ListsOk(free', full)
         /\ \A q \in AllPools, b \in Nat :
              Has(free'[q], b) <=> Has(free[q], b) /\ ~(lo <= b /\ b <= hi)
    <3>1. PICK F, G, H : F = free /\ G = full /\ H = free'
      OBVIOUS
    <3>2. ListsOk(F, G) /\ H = [p \in AllPools |-> Unmarked(F[p], m)]
      BY <2>1, <2>2, <3>1
    <3>3. /\ ListsOk(H, G)
          /\ \A q \in AllPools, b \in Nat :
               Has(H[q], b) <=> Has(F[q], b) /\ ~(Pages(m).first <= b /\ b <= Pages(m).last)
      BY <3>2, MarkedLists
    <3> QED BY <3>1, <3>3 DEF lo, hi
  <2>11. \A b \in Nat : HasAny(free', b) <=> HasAny(free, b) /\ ~(lo <= b /\ b <= hi)
    BY <2>10 DEF HasAny
  <2>12. ASSUME hits = {}, NEW b \in Nat, HasAny(full, b), lo <= b, b <= hi
         PROVE  \E n \in Segments :
                  /\ Bytes(n) = Bytes(m) /\ Pages(n) = Bytes(m) /\ Pages(n) \in mem
                  /\ \E s \in segs : Same(s, Bytes(n))
    <3>1. Hits(free, m) = {} /\ ~Clash(Bytes(m), mem, TRUE) /\ Touch(Bytes(m), b)
      BY <2>5, <2>8, <2>12 DEF hits
    <3> QED BY <2>2, <2>3, <2>12, <3>1, KnownSegment
  <2>13. ASSUME NEW s \in segs, NEW b \in Nat, HasAny(full, b), Touch(s, b), Touch(sg, b)
         PROVE  Same(s, sg)
    <3>1. lo <= b /\ b <= hi
      BY <2>8, <2>9, <2>13
    <3>2. CASE hits = {}
      <4>1. PICK n \in Segments : Bytes(n) = Bytes(m) /\ \E x \in segs : Same(x, Bytes(n))
        BY <2>12, <2>13, <3>1, <3>2
      <4>2. PICK x \in segs : Same(x, Bytes(n))
        BY <4>1
      <4>3. Same(x, sg) /\ Touch(x, b)
        BY <2>9, <2>13, <4>1, <4>2 DEF Same, Touch
      <4>4. Same(x, s)
        BY <2>2, <2>13, <4>3 DEF SegsOk
      <4> QED BY <4>3, <4>4 DEF Same
    <3>3. CASE hits # {}
      <4>1. PICK n \in Segments :
              /\ Same(s, Bytes(n))
              /\ (\E c \in Nat : HasAny(full, c) /\ Touch(s, c)) => Pages(n) \in mem
        BY <2>2, <2>3 DEF MarksStage
      <4>2. Pages(n) \in mem /\ Touch(Bytes(n), b)
        BY <2>13, <4>1 DEF Same, Touch
      <4>3. Pages(n).first <= b /\ b <= Pages(n).last
        BY <4>2, SegmentPages DEF Orderly
      <4>4. Pages(m) \notin mem
        <5>1. PICK c \in Nat : HasAny(free, c) /\ lo <= c /\ c <= hi
          BY <2>7, <3>3
        <5> QED BY <2>2, <2>3, <5>1 DEF MarksStage, lo, hi
      <4>5. ~(\/ Pages(m).first \in Pages(n).first .. Pages(n).last
              \/ Pages(m).last \in Pages(n).first .. Pages(n).last)
        BY <2>5, <3>3, <4>2, <4>4 DEF Clash, Overlaps
      <4> QED BY <3>1, <4>3, <4>5, EndsMeet DEF lo, hi
    <3> QED BY <3>2, <3>3
  <2>14. FreeApart(free')
    BY <2>2, <2>10 DEF FreeApart
  <2>15. ASSUME NEW b \in Nat, HasAny(full, b), Touch(sg, b)
         PROVE  \E n \in Segments : Same(sg, Bytes(n)) /\ Pages(n) \in mem'
                  /\ Pages(n).first <= sg.first /\ sg.last <= Pages(n).last
    <3>1. CASE hits = {}
      <4>1. PICK n \in Segments : Bytes(n) = Bytes(m) /\ Pages(n) = Bytes(m) /\ Pages(n) \in mem
        BY <2>8, <2>9, <2>12, <2>15, <3>1
      <4> QED BY <2>6, <2>9, <4>1, SegmentFields
    <3>2. CASE hits # {}
      BY <2>6, <2>8, <2>9, <3>2 DEF lo, hi
    <3> QED BY <3>1, <3>2
  <2>16. SegsOk(free', full, segs', mem')
    <3>1. ASSUME NEW s \in segs'
          PROVE  /\ s = Segment(s, s.zone)
                 /\ s.first \in Nat /\ s.last \in Nat /\ s.first <= s.last
                 /\ \A b \in Nat : HasAny(free', b) => ~Touch(s, b)
                 /\ (\E b \in Nat : HasAny(full, b) /\ Touch(s, b))
                      => \E t \in mem' : t.first <= s.first /\ s.last <= t.last
      <4>1. CASE s \in segs
        BY <2>2, <2>6, <2>11, <4>1 DEF SegsOk
      <4>2. CASE s = sg
        <5>1. \A b \in Nat : HasAny(free', b) => ~Touch(s, b)
          BY <2>8, <2>9, <2>11, <4>2
        <5>2. ASSUME NEW b \in Nat, HasAny(full, b), Touch(s, b)
              PROVE  \E t \in mem' : t.first <= s.first /\ s.last <= t.last
          BY <2>15, <4>2, <5>2
        <5> QED BY <2>9, <4>2, <5>1, <5>2
      <4> QED BY <2>1, <4>1, <4>2
    <3>2. ASSUME NEW s \in segs', NEW t \in segs', NEW b \in Nat,
                 HasAny(full, b), Touch(s, b), Touch(t, b)
          PROVE  Same(s, t)
      <4>1. CASE s \in segs /\ t \in segs
        BY <2>2, <3>2, <4>1 DEF SegsOk
      <4>2. CASE s = sg /\ t = sg
        BY <4>2 DEF Same
      <4>3. CASE s \in segs /\ t = sg
        BY <2>13, <3>2, <4>3
      <4>4. CASE s = sg /\ t \in segs
        <5>1. Same(t, s)
          BY <2>13, <3>2, <4>4
        <5> QED BY <5>1 DEF Same
      <4> QED BY <2>1, <4>1, <4>2, <4>3, <4>4
    <3> QED BY <3>1, <3>2 DEF SegsOk
  <2>17. MarksStage'
    <3>1. ASSUME NEW b \in Nat, HasAny(full, b)
          PROVE  HasAny(free', b) \/ \E t \in mem' : t.first <= b /\ b <= t.last
      <4>1. CASE HasAny(free, b)
        <5>1. CASE lo <= b /\ b <= hi
          BY <2>6, <2>7, <4>1, <5>1 DEF lo, hi
        <5>2. CASE ~(lo <= b /\ b <= hi)
          BY <2>11, <4>1, <5>2
        <5> QED BY <5>1, <5>2
      <4>2. CASE ~HasAny(free, b)
        BY <2>2, <2>3, <2>6, <3>1, <4>2 DEF MarksStage
      <4> QED BY <4>1, <4>2
    <3>2. ASSUME NEW t \in mem'
          PROVE  /\ \E n \in Segments : t = Pages(n) /\ \E s \in segs' : Same(s, Bytes(n))
                 /\ \A b \in Nat : t.first <= b /\ b <= t.last => ~HasAny(free', b)
      <4>1. CASE t \in mem
        BY <2>2, <2>3, <2>6, <2>11, <4>1 DEF MarksStage
      <4>2. CASE t = Pages(m)
        BY <2>6, <2>9, <2>11, <4>2 DEF lo, hi
      <4> QED BY <2>6, <4>1, <4>2
    <3>3. ASSUME NEW s \in segs'
          PROVE  \E n \in Segments :
                   /\ Same(s, Bytes(n))
                   /\ (\E b \in Nat : HasAny(full, b) /\ Touch(s, b)) => Pages(n) \in mem'
      <4>1. CASE s \in segs
        BY <2>2, <2>3, <2>6, <4>1 DEF MarksStage
      <4>2. CASE s = sg
        <5>1. CASE \E b \in Nat : HasAny(full, b) /\ Touch(sg, b)
          BY <2>15, <4>2, <5>1
        <5>2. CASE ~\E b \in Nat : HasAny(full, b) /\ Touch(sg, b)
          BY <2>9, <4>2, <5>2
        <5> QED BY <5>1, <5>2
      <4> QED BY <2>1, <4>1, <4>2
    <3> QED BY <2>1, <2>4, <3>1, <3>2, <3>3 DEF MarksStage
  <2>18. ZonesStage'
    <3>1. ASSUME NEW x \in Zones
          PROVE  /\ memsections'[x] \in Seq(Segments)
                 /\ \A i \in DOMAIN memsections'[x] :
                      Segment(Bytes(memsections'[x][i]), x) \in segs'
                 /\ free'[x] = {} /\ full[x] = {} /\ windows[x] = {}
      <4>1. /\ memsections[x] \in Seq(Segments)
            /\ \A i \in DOMAIN memsections[x] : Segment(Bytes(memsections[x][i]), x) \in segs
        BY <2>2 DEF ZonesStage
      <4>2. free[x] = {} /\ full[x] = {} /\ windows[x] = {}
        BY <2>4, NoWindows
      <4>3. free'[x] = {}
        BY <2>1, <4>2, PoolConstants DEF Unmarked, Hit
      <4>4. CASE x = z
        <5>1. memsections'[x] = Append(memsections[x], m)
          BY <2>1, <4>4
        <5>2. ASSUME NEW i \in DOMAIN memsections'[x]
              PROVE  Segment(Bytes(memsections'[x][i]), x) \in segs'
          <6>1. \/ i \in DOMAIN memsections[x] /\ memsections'[x][i] = memsections[x][i]
                \/ memsections'[x][i] = m
            BY <4>1, <5>1, <5>2
          <6> QED BY <2>6, <4>1, <4>4, <6>1 DEF sg
        <5>3. memsections'[x] \in Seq(Segments)
          BY <4>1, <5>1
        <5> QED BY <4>2, <4>3, <5>2, <5>3
      <4>5. CASE x # z
        <5>1. memsections'[x] = memsections[x]
          BY <2>1, <4>5
        <5> QED BY <2>6, <4>1, <4>2, <4>3, <5>1
      <4> QED BY <4>4, <4>5
    <3>2. memsections' = [x \in Zones |-> memsections'[x]]
      BY <2>1
    <3> QED BY <2>1, <3>1, <3>2 DEF ZonesStage
  <2>19. WindowsOk(free', full', windows', segs')
    <3>1. \A x \in Zones : full[x] = {}
      BY <2>4, NoWindows
    <3> QED BY <2>1, <2>4, <3>1, NoWindowsYet
  <2>20. Flags' /\ PoolsStage' /\ DirectStage'
    <3>1. Flags'
      BY <2>1, <2>2 DEF Flags
    <3> QED BY <2>1, <3>1 DEF PoolsStage, DirectStage
  <2> QED BY <2>1, <2>10, <2>14, <2>16, <2>17, <2>18, <2>19, <2>20 DEF PInv
<1> QED BY <1>2, <1>3

\* Sorting by rank: one place for every number up to that of the elements.
Ahead(H, key, i) == {j \in H : key[j] < key[i] \/ (key[j] = key[i] /\ j <= i)}

LEMMA EveryRank ==
  ASSUME NEW H \in SUBSET Nat, IsFiniteSet(H), NEW key, \A i \in H : key[i] \in Int,
         NEW k \in 1 .. Cardinality(H)
  PROVE  \E i \in H : Cardinality(Ahead(H, key, i)) = k
<1> DEFINE n == Cardinality(H)
           place == [i \in H |-> Cardinality(Ahead(H, key, i))]
<1>1. n \in Nat
  BY FS_CardinalityType
<1>2. ASSUME NEW i \in H
      PROVE  /\ IsFiniteSet(Ahead(H, key, i)) /\ i \in Ahead(H, key, i)
             /\ Cardinality(Ahead(H, key, i)) \in 1 .. n
  <2>1. Ahead(H, key, i) \in SUBSET H /\ i \in Ahead(H, key, i)
    BY DEF Ahead
  <2>2. IsFiniteSet(Ahead(H, key, i)) /\ Cardinality(Ahead(H, key, i)) <= n
    BY <2>1, FS_Subset
  <2>3. Cardinality(Ahead(H, key, i)) \in Nat /\ Cardinality(Ahead(H, key, i)) # 0
    BY <2>1, <2>2, FS_CardinalityType, FS_EmptySet
  <2> QED BY <1>1, <2>1, <2>2, <2>3
<1>3. place \in [H -> 1 .. n]
  BY <1>2
<1>4. ASSUME NEW i \in H, NEW j \in H, place[i] = place[j] PROVE i = j
  <2>1. i \in Nat /\ j \in Nat /\ key[i] \in Int /\ key[j] \in Int
    OBVIOUS
  <2>2. ASSUME NEW x \in H, NEW y \in H, x \in Nat, y \in Nat, key[x] \in Int, key[y] \in Int,
               key[x] < key[y] \/ (key[x] = key[y] /\ x <= y),
               Cardinality(Ahead(H, key, x)) = Cardinality(Ahead(H, key, y))
        PROVE  x = y
    <3>1. ASSUME NEW u \in Ahead(H, key, x) PROVE u \in Ahead(H, key, y)
      <4>1. /\ u \in H /\ key[u] \in Int /\ u \in Nat
            /\ key[u] < key[x] \/ (key[u] = key[x] /\ u <= x)
        BY DEF Ahead
      <4>2. key[u] < key[y] \/ (key[u] = key[y] /\ u <= y)
        BY <2>2, <4>1
      <4> QED BY <4>1, <4>2 DEF Ahead
    <3>2. Ahead(H, key, x) = Ahead(H, key, y)
      BY <1>2, <2>2, <3>1, FS_Subset
    <3>3. y \in Ahead(H, key, x)
      BY <1>2, <3>2
    <3>4. key[y] < key[x] \/ (key[y] = key[x] /\ y <= x)
      BY <3>3 DEF Ahead
    <3> QED BY <2>2, <3>4
  <2>3. Cardinality(Ahead(H, key, i)) = Cardinality(Ahead(H, key, j))
    BY <1>4
  <2>4. \/ key[i] < key[j] \/ (key[i] = key[j] /\ i <= j)
        \/ key[j] < key[i] \/ (key[j] = key[i] /\ j <= i)
    BY <2>1
  <2> QED BY <2>1, <2>2, <2>3, <2>4
<1>5. place \in Injection(H, 1 .. n)
  BY <1>3, <1>4 DEF Injection, IsInjective
<1>6. IsFiniteSet(1 .. n) /\ Cardinality(1 .. n) = n
  BY <1>1, FS_Interval
<1>7. place \in Surjection(H, 1 .. n)
  BY <1>5, <1>6, FS_Injection
<1>8. PICK i \in H : place[i] = k
  BY <1>7 DEF Surjection
<1> QED BY <1>8

\* The holes in a window are those of the segments that begin in it.
LEMMA HolesAre ==
  ASSUME NEW z \in Zones, memsections[z] \in Seq(Segments), NEW w
  PROVE  \E n \in Nat :
           /\ DOMAIN Holes(z, w) = 1 .. n
           /\ \A k \in 1 .. n : \E i \in DOMAIN memsections[z] :
                /\ WindowAt(memsections[z][i].base) = w
                /\ Holes(z, w)[k] = HoleOf(memsections[z][i])
<1> DEFINE ms  == memsections[z]
           H   == {i \in DOMAIN ms : WindowAt(ms[i].base) = w}
           key == [i \in H |-> ms[i].base]
           n   == Cardinality(H)
           Place(i) == Cardinality({j \in H : \/ ms[j].base < ms[i].base
                                              \/ ms[j].base = ms[i].base /\ j <= i})
<1>1. /\ Len(ms) \in Nat /\ DOMAIN ms = 1 .. Len(ms)
      /\ \A i \in DOMAIN ms : ms[i] \in Segments /\ ms[i].base \in Int
  <2>1. Len(ms) \in Nat /\ DOMAIN ms = 1 .. Len(ms) /\ \A i \in DOMAIN ms : ms[i] \in Segments
    OBVIOUS
  <2> QED BY <2>1, SegmentFields
<1>2. IsFiniteSet(H) /\ H \in SUBSET Nat
  <2>1. H \in SUBSET (1 .. Len(ms)) /\ H \in SUBSET Nat
    BY <1>1
  <2>2. IsFiniteSet(1 .. Len(ms))
    BY <1>1, FS_Interval
  <2> HIDE DEF H, ms
  <2> QED BY <2>1, <2>2, FS_Subset
<1>3. n \in Nat
  BY <1>2, FS_CardinalityType
<1>4. \A i \in H : key[i] \in Int
  BY <1>1
<1>5. \A i \in H : Place(i) = Cardinality(Ahead(H, key, i))
  <2> SUFFICES ASSUME NEW i \in H
               PROVE  {j \in H : \/ ms[j].base < ms[i].base
                                 \/ ms[j].base = ms[i].base /\ j <= i} = Ahead(H, key, i)
    OBVIOUS
  <2> QED BY DEF Ahead
<1>6. Holes(z, w) = [k \in 1 .. n |-> HoleOf(ms[CHOOSE i \in H : Place(i) = k])]
  BY DEF Holes
<1>7. ASSUME NEW k \in 1 .. n
      PROVE  \E i \in DOMAIN ms : WindowAt(ms[i].base) = w /\ Holes(z, w)[k] = HoleOf(ms[i])
  <2>1. \E i \in H : Cardinality(Ahead(H, key, i)) = k
    <3> HIDE DEF H, key
    <3> QED BY <1>2, <1>4, EveryRank
  <2>2. \E i \in H : Place(i) = k
    <3> HIDE DEF H, key, Place
    <3> QED BY <1>5, <2>1
  <2> DEFINE j == CHOOSE i \in H : Place(i) = k
  <2>3. j \in H
    <3> HIDE DEF H, Place
    <3> QED BY <2>2
  <2>4. Holes(z, w)[k] = HoleOf(ms[j])
    BY <1>6
  <2> HIDE DEF j
  <2> QED BY <2>3, <2>4
<1>8. DOMAIN Holes(z, w) = 1 .. n
  BY <1>6
<1> QED BY <1>3, <1>7, <1>8

\* The bytes of a hole are in pages of its segment.
LEMMA HoleBytes ==
  ASSUME NEW m \in Segments
  PROVE  /\ HoleOf(m).first \in Int /\ HoleOf(m).last \in Int
         /\ \A b \in Nat : HoleOf(m).first <= b /\ b <= HoleOf(m).last => Touch(Bytes(m), b)
<1> Page \in Nat \ {0} /\ Page \in Int
  BY PageAssumption
<1> DEFINE e == m.base + m.size - 1
           k == IF e = m.base THEN e + 1 ELSE e
<1>1. /\ m.base \in Nat /\ m.size \in Nat \ {0}
      /\ Pages(m).first = AlignDown(m.base, Page) /\ Pages(m).last = MarkEnd(m)
  BY SegmentFields
<1>2. HoleOf(m).first = AlignDown(m.base, Page) /\ HoleOf(m).last = AlignUp(e, Page) - 1
  BY DEF HoleOf
<1>3. MarkEnd(m) = AlignUp(k, Page) - 1
  BY DEF MarkEnd
<1>4. e \in Int /\ k \in Int /\ e <= k
  BY <1>1
<1> HIDE DEF e, k
<1>5. /\ AlignUp(e, Page) \in Int /\ AlignUp(k, Page) \in Int
      /\ AlignUp(k, Page) % Page = 0 /\ k <= AlignUp(k, Page)
  BY <1>4, UpMultiple
<1>6. e <= AlignUp(k, Page)
  BY <1>4, <1>5
<1>7. AlignUp(e, Page) <= AlignUp(k, Page)
  BY <1>4, <1>5, <1>6, MultipleBounds
<1>8. AlignDown(m.base, Page) \in Int
  <2>1. m.base \in Int
    BY <1>1
  <2> QED BY <2>1, DownMultiple
<1>9. \A b \in Nat : HoleOf(m).first <= b /\ b <= HoleOf(m).last =>
        Pages(m).first <= b /\ b <= Pages(m).last
  BY <1>1, <1>2, <1>3, <1>5, <1>7, <1>8
<1> QED BY <1>2, <1>5, <1>8, <1>9, SegmentPages

\* A window of the zones is made of whole pages; two of them are the same or
\* have no byte in common.
LEMMA WindowFacts ==
  ASSUME NEW a \in Nat
  PROVE  LET w == WindowAt(a) IN
         /\ IsWindow(w) /\ w.first <= a /\ a <= w.last
         /\ \A c \in Nat, b \in Nat :
              w.first <= b /\ b <= w.last
              /\ WindowAt(c).first <= b /\ b <= WindowAt(c).last => WindowAt(c) = w
<1> Page \in Nat \ {0} /\ Page \in Int /\ Window \in Nat \ {0} /\ Window % Page = 0
  BY PageAssumption, PoolsAssumption
<1>1. ASSUME NEW c \in Nat
      PROVE  LET d == AlignDown(c, Window) IN
             /\ WindowAt(c) = Extent(d, d + Window - 1)
             /\ WindowAt(c).first = d /\ WindowAt(c).last = d + Window - 1
             /\ d \in Int /\ d % Window = 0 /\ d <= c /\ c < d + Window
  <2>1. c \in Int
    OBVIOUS
  <2> QED BY <2>1, DownMultiple DEF WindowAt, Extent
<1> DEFINE d == AlignDown(a, Window)
           q == a \div Window
           p == Window \div Page
<1>2. WindowAt(a).first = d /\ WindowAt(a).last = d + Window - 1
      /\ d \in Int /\ d % Window = 0 /\ d <= a /\ a < d + Window
  BY <1>1
<1>3. d >= 0
  <2>1. 0 % Window = 0
    OBVIOUS
  <2>2. 0 <= AlignDown(a, Window)
    BY <2>1, MultipleBounds
  <2> QED BY <2>2
<1>4. d % Page = 0 /\ (d + Window) % Page = 0
  <2>1. a \in Int /\ q \in Int /\ d = Window * q
    <3>1. a \in Int
      OBVIOUS
    <3> QED BY <3>1, DivBound, DownMultiple
  <2>2. p \in Int /\ Window = Page * p
    <3>1. Window \in Int
      OBVIOUS
    <3> QED BY <3>1, DivBound
  <2> HIDE DEF d, q, p
  <2>3. d = Page * (p * q) /\ d + Window = Page * (p * q + p)
    BY <2>1, <2>2
  <2>4. \A k \in Int : (Page * k) % Page = 0
    OBVIOUS
  <2>5. p * q \in Int /\ p * q + p \in Int
    BY <2>1, <2>2
  <2> QED BY <2>3, <2>4, <2>5
<1>5. ASSUME NEW c \in Nat, NEW b \in Nat, WindowAt(a).first <= b, b <= WindowAt(a).last,
             WindowAt(c).first <= b, b <= WindowAt(c).last
      PROVE  WindowAt(c) = WindowAt(a)
  <2> DEFINE e == AlignDown(c, Window)
  <2>1. /\ WindowAt(c) = Extent(e, e + Window - 1) /\ WindowAt(a) = Extent(d, d + Window - 1)
        /\ WindowAt(c).first = e /\ WindowAt(c).last = e + Window - 1
        /\ e \in Int /\ e % Window = 0
    BY <1>1
  <2>2. b \in Int /\ b < e + Window /\ b < d + Window /\ d <= b /\ e <= b
    BY <1>2, <1>5, <2>1
  <2> HIDE DEF d, e
  <2>3. AlignDown(b, Window) \in Int
    BY <2>2, DownMultiple
  <2>4. AlignDown(b, Window) = e
    <3>1. e <= AlignDown(b, Window) /\ AlignDown(b, Window) <= e
      BY <2>1, <2>2, MultipleBounds
    <3> QED BY <2>1, <2>3, <3>1
  <2>5. AlignDown(b, Window) = d
    <3>1. d <= AlignDown(b, Window) /\ AlignDown(b, Window) <= d
      BY <1>2, <2>2, MultipleBounds
    <3> QED BY <1>2, <2>3, <3>1
  <2> QED BY <2>1, <2>4, <2>5
<1>6. IsWindow(WindowAt(a))
  <2>1. d \in Nat /\ d + Window - 1 \in Nat /\ d <= d + Window - 1
        /\ (d + Window - 1) + 1 = d + Window
    BY <1>2, <1>3
  <2> QED BY <1>2, <1>4, <2>1 DEF IsWindow
<1>7. WindowAt(a).first <= a /\ a <= WindowAt(a).last
  BY <1>2
<1> HIDE DEF d, q, p
<1> QED BY <1>5, <1>6, <1>7

\* What a zone gets from a list in some windows, and what they leave of it.
Got(S, W)     == Merged(UNION {Removed(S, w) : w \in W})
Cleared(S, W) == FoldSet(LAMBDA w, l : WithoutWindow(l, w), S, W)
InW(w, b)     == w.first <= b /\ b <= w.last
InAny(W, b)   == \E w \in W : InW(w, b)
Windows(W) ==
  /\ IsFiniteSet(W) /\ \A w \in W : IsWindow(w)
  /\ \A w, v \in W, b \in Nat : InW(w, b) /\ InW(v, b) => w = v

LEMMA GotList ==
  ASSUME NEW S, Sound(S), \A r \in S : Whole(r), NEW W, Windows(W)
  PROVE  /\ Sound(Got(S, W)) /\ \A r \in Got(S, W) : Whole(r)
         /\ \A b \in Nat : Has(Got(S, W), b) <=> Has(S, b) /\ InAny(W, b)
<1> DEFINE T == UNION {Removed(S, w) : w \in W}
<1>1. ASSUME NEW w \in W
      PROVE  /\ w.first \in Nat /\ w.last \in Nat
             /\ \A x \in Removed(S, w) :
                  /\ x \in Region /\ Whole(x) /\ x.first <= x.last
                  /\ w.first <= x.first /\ x.last <= w.last
                  /\ \E r \in S : r.first <= x.first /\ x.last <= r.last
             /\ NoneMeet(Removed(S, w))
             /\ \A b \in Nat : Has(Removed(S, w), b) <=> Has(S, b) /\ InW(w, b)
  <2>1. IsWindow(w)
    BY DEF Windows
  <2> QED BY <2>1, RemovedParts DEF IsWindow, InW
<1>2. \A x : x \in T <=> \E w \in W : x \in Removed(S, w)
  OBVIOUS
<1> HIDE DEF T
<1>3. \A x \in T : x \in Region /\ Whole(x) /\ x.first <= x.last
  BY <1>1, <1>2
<1>4. \E top \in Nat : \A x \in T : x.last <= top
  <2>1. PICK top \in Nat : \A r \in S : r.last <= top
    BY DEF Sound, Bounded
  <2>2. ASSUME NEW x \in T PROVE x.last <= top
    <3>1. PICK r \in S : x.last <= r.last
      BY <1>1, <1>2
    <3>2. r.last \in Nat /\ x.last \in Nat
      BY <1>3, RegionFields DEF Sound, Bounded
    <3> QED BY <2>1, <3>1, <3>2
  <2> QED BY <2>2
<1>5. Bounded(T)
  BY <1>3, <1>4 DEF Bounded
<1>6. NoneMeet(T)
  <2> SUFFICES ASSUME NEW r \in T, NEW x \in T, r # x
               PROVE  r.last < x.first \/ x.last < r.first
    BY DEF NoneMeet
  <2>1. PICK w \in W : r \in Removed(S, w)
    BY <1>2
  <2>2. PICK v \in W : x \in Removed(S, v)
    BY <1>2
  <2>3. CASE w = v
    BY <1>1, <2>1, <2>2, <2>3 DEF NoneMeet
  <2>4. CASE w # v
    <3>1. /\ r.first \in Nat /\ r.last \in Nat /\ r.first <= r.last
          /\ x.first \in Nat /\ x.last \in Nat /\ x.first <= x.last
      BY <1>3, RegionFields
    <3>2. /\ w.first <= r.first /\ r.last <= w.last /\ v.first <= x.first /\ x.last <= v.last
          /\ w.first \in Nat /\ w.last \in Nat /\ v.first \in Nat /\ v.last \in Nat
      BY <1>1, <2>1, <2>2
    <3>3. ASSUME NEW b \in Nat, r.first <= b, b <= r.last, x.first <= b, b <= x.last
          PROVE  FALSE
      <4>1. InW(w, b) /\ InW(v, b)
        BY <3>1, <3>2, <3>3 DEF InW
      <4> QED BY <2>4, <4>1 DEF Windows
    <3> QED BY <3>1, <3>3, NoCommonByte
  <2> QED BY <2>3, <2>4
<1>7. ASSUME NEW b \in Nat PROVE Has(T, b) <=> Has(S, b) /\ InAny(W, b)
  <2>1. Has(T, b) <=> \E w \in W : Has(Removed(S, w), b)
    BY <1>2 DEF Has
  <2> QED BY <1>1, <2>1 DEF InAny
<1>8. Got(S, W) = Merged(T)
  BY DEF Got, T
<1> QED BY <1>3, <1>5, <1>6, <1>7, <1>8, MergedList

LEMMA ClearedList ==
  ASSUME NEW S, Sound(S), \A r \in S : Whole(r), NEW W, Windows(W)
  PROVE  /\ Sound(Cleared(S, W)) /\ \A r \in Cleared(S, W) : Whole(r)
         /\ \A b \in Nat : Has(Cleared(S, W), b) <=> Has(S, b) /\ ~InAny(W, b)
<1>1. IsFiniteSet(W) /\ \A w \in W : IsWindow(w)
  BY DEF Windows
<1>2. /\ Sound(Cleared(S, W)) /\ \A r \in Cleared(S, W) : Whole(r)
      /\ \A b \in Nat : Has(Cleared(S, W), b) <=>
           Has(S, b) /\ \A w \in W : ~(w.first <= b /\ b <= w.last)
  BY <1>1, WindowsFold DEF Cleared
<1> QED BY <1>2 DEF InAny, InW

\* The lists when a zone has got its windows.
PrimedTo(F, z, pool, W) ==
  [F EXCEPT ![z] = Got(F[pool], W), ![pool] = Cleared(@, W)]

LEMMA PrimedLists ==
  ASSUME NEW F, NEW G, ListsOk(F, G), NEW z \in AllPools, NEW pool \in AllPools, pool # z,
         NEW W, Windows(W),
         NEW H, H = PrimedTo(F, z, pool, W),
         NEW K, K = [p \in AllPools |-> IF p = z THEN Got(F[pool], W) ELSE G[p]]
  PROVE  /\ ListsOk(H, K)
         /\ \A b \in Nat :
              /\ Has(H[z], b) <=> Has(F[pool], b) /\ InAny(W, b)
              /\ Has(K[z], b) <=> Has(F[pool], b) /\ InAny(W, b)
              /\ Has(H[pool], b) <=> Has(F[pool], b) /\ ~InAny(W, b)
         /\ \A p \in AllPools : /\ p # z => K[p] = G[p]
                                /\ p # z /\ p # pool => H[p] = F[p]
<1>1. F = [p \in AllPools |-> F[p]] /\ G = [p \in AllPools |-> G[p]]
  BY DEF ListsOk
<1> DEFINE got == Got(F[pool], W)
           rem == Cleared(F[pool], W)
<1>2. H = [p \in AllPools |-> IF p = pool THEN rem ELSE IF p = z THEN got ELSE F[p]]
  BY <1>1 DEF PrimedTo
<1>3. K = [p \in AllPools |-> IF p = z THEN got ELSE G[p]]
  OBVIOUS
<1> HIDE DEF got, rem
<1>4. /\ H = [p \in AllPools |-> H[p]] /\ K = [p \in AllPools |-> K[p]]
      /\ H[pool] = rem /\ H[z] = got /\ K[z] = got
      /\ \A p \in AllPools : /\ p # z => K[p] = G[p]
                             /\ p # z /\ p # pool => H[p] = F[p]
  BY <1>2, <1>3
<1>5. Sound(F[pool]) /\ \A r \in F[pool] : Whole(r)
  BY ListFacts
<1>6. /\ Sound(got) /\ \A r \in got : Whole(r)
      /\ \A b \in Nat : Has(got, b) <=> Has(F[pool], b) /\ InAny(W, b)
  BY <1>5, GotList DEF got
<1>7. /\ Sound(rem) /\ \A r \in rem : Whole(r)
      /\ \A b \in Nat : Has(rem, b) <=> Has(F[pool], b) /\ ~InAny(W, b)
  BY <1>5, ClearedList DEF rem
<1>8. ASSUME NEW p \in AllPools
      PROVE  /\ Sound(H[p]) /\ \A r \in H[p] : Whole(r)
             /\ Sound(K[p]) /\ \A r \in K[p] : Whole(r)
             /\ \A b \in Nat : Has(H[p], b) => Has(K[p], b)
  <2>1. /\ Sound(F[p]) /\ \A r \in F[p] : Whole(r)
        /\ Sound(G[p]) /\ \A r \in G[p] : Whole(r)
        /\ \A b \in Nat : Has(F[p], b) => Has(G[p], b)
    BY ListFacts
  <2>2. CASE p = z
    BY <1>4, <1>6, <2>2
  <2>3. CASE p = pool
    <3>1. K[p] = G[p] /\ H[p] = rem /\ F[p] = F[pool]
      BY <1>4, <2>3
    <3> QED BY <1>7, <2>1, <3>1
  <2>4. CASE p # z /\ p # pool
    <3>1. K[p] = G[p] /\ H[p] = F[p]
      BY <1>4, <2>4
    <3> QED BY <2>1, <3>1
  <2> QED BY <2>2, <2>3, <2>4
<1>9. ListsOk(H, K)
  BY <1>4, <1>8 DEF ListsOk
<1> QED BY <1>4, <1>6, <1>7, <1>9

\* What is said of segments depends on what is free and given anywhere.
LEMMA SegmentsStay ==
  ASSUME NEW F, NEW G, NEW H, NEW K, NEW S, NEW M, SegsOk(F, G, S, M),
         \A b \in Nat : HasAny(H, b) => HasAny(F, b),
         \A b \in Nat : HasAny(K, b) => HasAny(G, b)
  PROVE  SegsOk(H, K, S, M)
BY DEF SegsOk

\* A window that can be marked: every byte is given to the pool, and free there
\* or touched by a segment of the zone.
LEMMA MarkedWindow ==
  ASSUME ListsOk(free, full), ZonesStage, NEW z \in Zones, NEW a \in Nat,
         CanMark(Under[z], WindowAt(a), Holes(z, WindowAt(a)))
  PROVE  \A b \in Nat : InW(WindowAt(a), b) =>
           /\ Has(full[Under[z]], b)
           /\ Has(free[Under[z]], b) \/ \E s \in segs : s.zone = z /\ Touch(s, b)
<1> DEFINE w == WindowAt(a)
           pool == Under[z]
           holes == Holes(z, w)
           ms == memsections[z]
<1>1. pool \in AllPools /\ ms \in Seq(Segments)
  BY PoolConstants DEF ZonesStage
<1>2. /\ w.first \in Nat /\ w.last \in Nat /\ w.first <= w.last
  BY WindowFacts DEF IsWindow
<1>3. /\ \E r \in full[pool] : r.first <= w.first /\ w.last <= r.last
      /\ Filled(free[pool], w, holes)
  BY DEF CanMark
<1>4. PICK n \in Nat :
        /\ DOMAIN holes = 1 .. n
        /\ \A k \in 1 .. n : \E i \in DOMAIN ms : holes[k] = HoleOf(ms[i])
  BY <1>1, HolesAre
<1>5. \A i \in DOMAIN ms : ms[i] \in Segments /\ Segment(Bytes(ms[i]), z) \in segs
  BY <1>1 DEF ZonesStage
<1>6. \A k \in 1 .. n : holes[k].first \in Int /\ holes[k].last \in Int
  BY <1>4, <1>5, HoleBytes
<1>7. Sound(free[pool])
  BY <1>1, ListFacts
<1> HIDE DEF w, pool, holes
<1>8. \A b \in Nat : w.first <= b /\ b <= w.last =>
        Has(free[pool], b) \/ \E k \in 1 .. n : holes[k].first <= b /\ b <= holes[k].last
  BY <1>2, <1>3, <1>4, <1>6, <1>7, FilledWindow
<1>9. ASSUME NEW b \in Nat, InW(w, b)
      PROVE  /\ Has(full[pool], b)
             /\ Has(free[pool], b) \/ \E s \in segs : s.zone = z /\ Touch(s, b)
  <2>1. Has(full[pool], b)
    <3>1. PICK r \in full[pool] : r.first <= w.first /\ w.last <= r.last
      BY <1>3
    <3>2. r.first \in Nat /\ r.last \in Nat
      BY <1>1, ListFacts DEF pool
    <3> QED BY <1>2, <1>9, <3>1, <3>2 DEF Has, InW
  <2>2. ASSUME NEW k \in 1 .. n, holes[k].first <= b, b <= holes[k].last
        PROVE  \E s \in segs : s.zone = z /\ Touch(s, b)
    <3>1. PICK i \in DOMAIN ms : holes[k] = HoleOf(ms[i])
      BY <1>4
    <3>2. Touch(Bytes(ms[i]), b)
      BY <1>5, <2>2, <3>1, HoleBytes
    <3>3. Touch(Segment(Bytes(ms[i]), z), b) /\ Segment(Bytes(ms[i]), z).zone = z
      BY <3>2 DEF Touch, Segment
    <3> QED BY <1>5, <3>3
  <2> QED BY <1>8, <1>9, <2>1, <2>2 DEF InW
<1> QED BY <1>9 DEF w, pool

\* Whoever touches a window that was filled belongs to the zone.
LEMMA OwnSegment ==
  ASSUME NEW F, NEW G, NEW S, NEW M, SegsOk(F, G, S, M), NEW z, NEW b \in Nat, HasAny(G, b),
         NEW s \in S, Touch(s, b), NEW t \in S, Touch(t, b), t.zone = z
  PROVE  Segment(s, z) \in S
<1>1. Same(s, t)
  BY DEF SegsOk
<1>2. t = Segment(t, z)
  BY DEF SegsOk
<1>3. Segment(s, z) = Segment(t, z)
  BY <1>1 DEF Same, Segment
<1> QED BY <1>2, <1>3

LEMMA PrimeStep ==
  ASSUME PInv, NEW z \in Zones, Prime(z)
  PROVE  PInv'
<1> DEFINE pool == Under[z]
           new  == {WindowAt(m.base) : m \in Range(memsections[z])}
<1>1. /\ Before(phase, "prime") /\ z \notin primed
      /\ IF \E w \in new : ~CanMark(pool, w, Holes(z, w)) THEN Refuse
         ELSE /\ free' = [free EXCEPT ![z] = Got(free[pool], new), ![pool] = Cleared(@, new)]
              /\ full' = [full EXCEPT ![z] = Got(free[pool], new)]
              /\ windows' = [windows EXCEPT ![z] = new]
              /\ primed' = primed \cup {z} /\ phase' = "prime"
              /\ UNCHANGED <<poolmem, mem, marking_direct, memsections, segs>>
  BY DEF Prime, Got, Cleared
<1>2. CASE Refuse
  BY <1>2, RefuseStep
<1>3. CASE /\ \A w \in new : CanMark(pool, w, Holes(z, w))
           /\ free' = [free EXCEPT ![z] = Got(free[pool], new), ![pool] = Cleared(@, new)]
           /\ full' = [full EXCEPT ![z] = Got(free[pool], new)]
           /\ windows' = [windows EXCEPT ![z] = new]
           /\ primed' = primed \cup {z} /\ phase' = "prime"
           /\ UNCHANGED <<poolmem, mem, marking_direct, memsections, segs>>
  <2>1. /\ Flags /\ ListsOk(free, full) /\ FreeApart(free) /\ SegsOk(free, full, segs, mem)
        /\ WindowsOk(free, full, windows, segs) /\ ZonesStage
    BY DEF PInv
  <2>2. /\ pool \in AllPools /\ z \in AllPools /\ pool # z /\ pool \in Virtual
        /\ \A y \in Zones : y \in AllPools /\ y # pool
    BY PoolConstants
  <2>3. /\ \A w \in new : CanMark(pool, w, Holes(z, w))
        /\ free' = PrimedTo(free, z, pool, new)
        /\ full' = [p \in AllPools |-> IF p = z THEN Got(free[pool], new) ELSE full[p]]
        /\ windows' = [y \in Zones |-> IF y = z THEN new ELSE windows[y]]
        /\ primed' = primed \cup {z} /\ phase' = "prime"
        /\ mem' = mem /\ marking_direct' = marking_direct
        /\ memsections' = memsections /\ segs' = segs
    <3>1. full = [p \in AllPools |-> full[p]] /\ windows = [y \in Zones |-> windows[y]]
      BY <2>1 DEF ListsOk, WindowsOk
    <3> QED BY <1>3, <3>1 DEF PrimedTo
  <2>4. /\ free[z] = {} /\ full[z] = {} /\ memsections[z] \in Seq(Segments)
    BY <1>1, <2>1 DEF ZonesStage
  <2>5. \A w \in new : \E a \in Nat : w = WindowAt(a)
    <3>1. \A m \in Range(memsections[z]) : m \in Segments
      BY <2>4 DEF Range
    <3> QED BY <3>1, SegmentFields
  <2>6. Windows(new)
    <3>1. IsFiniteSet(new)
      <4> DEFINE ms == memsections[z]
                 f == [i \in DOMAIN ms |-> WindowAt(ms[i].base)]
      <4>1. DOMAIN ms = 1 .. Len(ms) /\ Len(ms) \in Nat
        BY <2>4
      <4>2. f \in Surjection(DOMAIN ms, new)
        BY DEF Surjection, Range
      <4>3. IsFiniteSet(DOMAIN ms)
        BY <4>1, FS_Interval
      <4> QED BY <4>2, <4>3, FS_Surjection
    <3>2. \A w \in new : IsWindow(w)
      BY <2>5, WindowFacts
    <3>3. ASSUME NEW w \in new, NEW v \in new, NEW b \in Nat, InW(w, b), InW(v, b) PROVE w = v
      <4>1. PICK a, c \in Nat : w = WindowAt(a) /\ v = WindowAt(c)
        BY <2>5
      <4> QED BY <3>3, <4>1, WindowFacts DEF InW
    <3> QED BY <3>1, <3>2, <3>3 DEF Windows
  <2> HIDE DEF new, pool
  <2>7. /\ ListsOk(free', full')
        /\ \A b \in Nat :
             /\ Has(free'[z], b) <=> Has(free[pool], b) /\ InAny(new, b)
             /\ Has(full'[z], b) <=> Has(free[pool], b) /\ InAny(new, b)
             /\ Has(free'[pool], b) <=> Has(free[pool], b) /\ ~InAny(new, b)
        /\ \A p \in AllPools : /\ p # z => full'[p] = full[p]
                               /\ p # z /\ p # pool => free'[p] = free[p]
    <3>1. PICK F, G, H, K, W : F = free /\ G = full /\ H = free' /\ K = full' /\ W = new
      OBVIOUS
    <3>2. /\ ListsOk(F, G) /\ Windows(W) /\ H = PrimedTo(F, z, pool, W)
          /\ K = [p \in AllPools |-> IF p = z THEN Got(F[pool], W) ELSE G[p]]
      BY <2>1, <2>3, <2>6, <3>1
    <3>3. /\ ListsOk(H, K)
          /\ \A b \in Nat :
               /\ Has(H[z], b) <=> Has(F[pool], b) /\ InAny(W, b)
               /\ Has(K[z], b) <=> Has(F[pool], b) /\ InAny(W, b)
               /\ Has(H[pool], b) <=> Has(F[pool], b) /\ ~InAny(W, b)
          /\ \A p \in AllPools : /\ p # z => K[p] = G[p]
                                 /\ p # z /\ p # pool => H[p] = F[p]
      BY <2>2, <3>2, PrimedLists
    <3> QED BY <3>1, <3>3
  <2>8. \A b : ~Has(free[z], b) /\ ~Has(full[z], b)
    BY <2>4, EmptyList
  \* Whose a free byte was before.
  <2>9. ASSUME NEW p \in AllPools, NEW b \in Nat, Has(free'[p], b)
        PROVE  IF p = z THEN Has(free[pool], b) /\ InAny(new, b)
               ELSE Has(free[p], b) /\ (p = pool => ~InAny(new, b))
    BY <2>7, <2>9
  <2>10. FreeApart(free')
    <3> SUFFICES ASSUME NEW p \in AllPools, NEW q \in AllPools, NEW b \in Nat,
                        Has(free'[p], b), Has(free'[q], b)
                 PROVE  p = q
      BY DEF FreeApart
    <3>1. CASE p = z /\ q # z
      BY <2>1, <2>2, <2>9, <3>1 DEF FreeApart
    <3>2. CASE q = z /\ p # z
      BY <2>1, <2>2, <2>9, <3>2 DEF FreeApart
    <3>3. CASE p # z /\ q # z
      BY <2>1, <2>9, <3>3 DEF FreeApart
    <3> QED BY <3>1, <3>2, <3>3
  <2>11. ASSUME NEW b \in Nat
         PROVE  /\ HasAny(free', b) => HasAny(free, b)
                /\ HasAny(full', b) => HasAny(full, b)
    <3>1. HasAny(free', b) => HasAny(free, b)
      BY <2>2, <2>9 DEF HasAny
    <3>2. ASSUME NEW p \in AllPools, Has(full'[p], b) PROVE HasAny(full, b)
      <4>1. CASE p = z
        <5>1. Has(free[pool], b)
          BY <2>7, <3>2, <4>1
        <5>2. Has(full[pool], b)
          BY <2>1, <2>2, <5>1, ListFacts
        <5> QED BY <2>2, <5>2 DEF HasAny
      <4>2. CASE p # z
        BY <2>7, <3>2, <4>2 DEF HasAny
      <4> QED BY <4>1, <4>2
    <3> QED BY <3>1, <3>2 DEF HasAny
  <2>12. SegsOk(free', full', segs, mem)
    <3>1. PICK F, G, H, K : F = free /\ G = full /\ H = free' /\ K = full'
      OBVIOUS
    <3>2. /\ SegsOk(F, G, segs, mem)
          /\ \A b \in Nat : HasAny(H, b) => HasAny(F, b)
          /\ \A b \in Nat : HasAny(K, b) => HasAny(G, b)
      BY <2>1, <2>11, <3>1
    <3>3. SegsOk(H, K, segs, mem)
      BY <3>2, SegmentsStay
    <3> QED BY <3>1, <3>3
  <2>13. ASSUME NEW w \in new, NEW b \in Nat, InW(w, b)
         PROVE  /\ Has(full[pool], b)
                /\ Has(free[pool], b) \/ \E s \in segs : s.zone = z /\ Touch(s, b)
    <3>1. PICK a \in Nat : w = WindowAt(a)
      BY <2>5
    <3>2. CanMark(Under[z], WindowAt(a), Holes(z, WindowAt(a)))
      BY <2>3, <3>1 DEF pool
    <3> QED BY <2>1, <2>13, <3>1, <3>2, MarkedWindow DEF pool
  <2>14. ASSUME NEW w \in new PROVE WindowOk(z, w, free', segs)
    <3>1. IsWindow(w)
      BY <2>6 DEF Windows
    <3>2. ASSUME NEW b \in Nat, w.first <= b, b <= w.last
          PROVE  /\ \A p \in AllPools \ {z} : ~Has(free'[p], b)
                 /\ \A s \in segs : Touch(s, b) => Segment(s, z) \in segs
                 /\ Has(free'[z], b) \/ \E s \in segs : s.zone = z /\ Touch(s, b)
      <4>1. InW(w, b) /\ InAny(new, b)
        BY <3>2 DEF InW, InAny
      <4>2. HasAny(full, b)
        BY <2>2, <2>13, <4>1 DEF HasAny
      <4>3. CASE Has(free[pool], b)
        <5>1. \A s \in segs : ~Touch(s, b)
          BY <2>1, <2>2, <4>3 DEF SegsOk, HasAny
        <5>2. ASSUME NEW p \in AllPools \ {z}, Has(free'[p], b) PROVE FALSE
          <6>1. Has(free[p], b) /\ p # pool
            BY <2>9, <4>1, <5>2
          <6> QED BY <2>1, <2>2, <4>3, <6>1 DEF FreeApart
        <5>3. Has(free'[z], b)
          BY <2>7, <4>1, <4>3
        <5> QED BY <5>1, <5>2, <5>3
      <4>4. CASE \E s \in segs : s.zone = z /\ Touch(s, b)
        <5>1. PICK t \in segs : t.zone = z /\ Touch(t, b)
          BY <4>4
        <5>2. ~HasAny(free', b)
          BY <2>12, <5>1 DEF SegsOk
        <5>3. ASSUME NEW s \in segs, Touch(s, b) PROVE Segment(s, z) \in segs
          <6>1. PICK F, G : F = free /\ G = full
            OBVIOUS
          <6>2. SegsOk(F, G, segs, mem) /\ HasAny(G, b)
            BY <2>1, <4>2, <6>1
          <6> QED BY <5>1, <5>3, <6>2, OwnSegment
        <5> QED BY <4>4, <5>2, <5>3 DEF HasAny
      <4> QED BY <2>13, <4>1, <4>3, <4>4
    <3> QED BY <3>1, <3>2 DEF WindowOk, IsWindow
  <2>15. ASSUME NEW y \in Zones, y # z, NEW w \in windows[y] PROVE WindowOk(y, w, free', segs)
    <3>1. WindowOk(y, w, free, segs)
      BY <2>1 DEF WindowsOk
    <3>2. ASSUME NEW b \in Nat, w.first <= b, b <= w.last, NEW p \in AllPools \ {y}
          PROVE  ~Has(free'[p], b)
      <4>1. ~Has(free[p], b) /\ ~Has(free[pool], b)
        BY <2>2, <3>1, <3>2 DEF WindowOk
      <4> QED BY <2>9, <4>1
    <3>3. free'[y] = free[y]
      BY <2>2, <2>7, <2>15
    <3> QED BY <3>1, <3>2, <3>3 DEF WindowOk
  <2>16. WindowsOk(free', full', windows', segs)
    <3>1. ASSUME NEW y \in Zones
          PROVE  /\ \A w \in windows'[y] : WindowOk(y, w, free', segs)
                 /\ \A b \in Nat : Has(full'[y], b) =>
                      \E w \in windows'[y] : w.first <= b /\ b <= w.last
      <4>1. CASE y = z
        <5>1. windows'[y] = new
          BY <2>3, <4>1
        <5> QED BY <2>7, <2>14, <4>1, <5>1 DEF InAny, InW
      <4>2. CASE y # z
        <5>1. windows'[y] = windows[y] /\ full'[y] = full[y]
          BY <2>2, <2>3, <2>7, <4>2
        <5> QED BY <2>1, <2>15, <4>2, <5>1 DEF WindowsOk
      <4> QED BY <4>1, <4>2
    <3>2. windows' = [y \in Zones |-> windows'[y]]
      BY <2>3
    <3> QED BY <3>1, <3>2 DEF WindowsOk
  <2>17. Flags' /\ PoolsStage' /\ DirectStage' /\ MarksStage'
    <3>1. Flags'
      BY <2>1, <2>3 DEF Flags
    <3> QED BY <2>3, <3>1 DEF PoolsStage, DirectStage, MarksStage
  <2>18. ZonesStage'
    <3>1. ASSUME NEW y \in Zones, y \notin primed'
          PROVE  free'[y] = {} /\ full'[y] = {} /\ windows'[y] = {}
      <4>1. y \notin primed /\ y # z
        BY <2>3, <3>1
      <4>2. free'[y] = free[y] /\ full'[y] = full[y] /\ windows'[y] = windows[y]
        BY <2>2, <2>3, <2>7, <4>1
      <4> QED BY <2>1, <4>1, <4>2 DEF ZonesStage
    <3> QED BY <2>1, <2>3, <3>1 DEF ZonesStage
  <2> QED BY <2>3, <2>7, <2>10, <2>12, <2>16, <2>17, <2>18 DEF PInv
<1> QED BY <1>1, <1>2, <1>3

\* The list without the lowest region that holds an item, but for the whole
\* pages above the item: just the pages that the item touches are gone.
Remains(S, size) ==
  LET r     == Lowest(Fit(S, size))
      above == AlignUp(r.first + size, Page)
  IN (S \ {r}) \cup (IF above < r.last THEN {[r EXCEPT !.first = above]} ELSE {})

LEMMA ItemTaken ==
  ASSUME NEW S, Sound(S), \A r \in S : Whole(r), NEW size \in Nat \ {0}, Fit(S, size) # {}
  PROVE  LET m == Bytes(Item(S, size)) IN
         /\ m.first \in Nat /\ m.last \in Nat /\ m.first <= m.last
         /\ Sound(Remains(S, size)) /\ \A r \in Remains(S, size) : Whole(r)
         /\ \A b \in Nat : /\ Touch(m, b) => Has(S, b)
                           /\ Has(Remains(S, size), b) <=> Has(S, b) /\ ~Touch(m, b)
<1> Page \in Nat \ {0} /\ Page \in Nat \ {0, 1} /\ Page \in Int
  BY PageAssumption
<1> DEFINE r == Lowest(Fit(S, size))
           m == Bytes(Item(S, size))
           U == Remains(S, size)
           lo == r.first
           top == r.last
           e == lo + size - 1
           k == AlignUp(e + 1, Page)
           hi == k - 1
<1>1. /\ S \subseteq Region
      /\ \A x \in S : x.first \in Nat /\ x.last \in Nat /\ x.first <= x.last
  BY RegionFields DEF Sound, Bounded
<1>2. r \in S /\ r \in Region /\ e <= top
  <2>1. Fit(S, size) \in SUBSET Region
    BY <1>1 DEF Fit
  <2>2. r \in Fit(S, size)
    BY <2>1, LowestRegion
  <2> QED BY <1>1, <2>2 DEF Fit
<1>3. /\ lo \in Nat /\ top \in Nat /\ lo <= top /\ e \in Nat /\ lo <= e
      /\ lo % Page = 0 /\ (top + 1) % Page = 0
  <2>1. lo \in Nat /\ top \in Nat /\ lo <= top /\ lo % Page = 0 /\ (top + 1) % Page = 0
    BY <1>1, <1>2 DEF Whole
  <2> HIDE DEF r
  <2> QED BY <2>1
<1>4. m.first = lo /\ m.last = e
  BY DEF Bytes, Item, Extent
<1>5. U = (S \ {r}) \cup (IF k < top THEN {[r EXCEPT !.first = k]} ELSE {})
  <2>1. e + 1 = lo + size
    BY <1>3
  <2> QED BY <2>1 DEF Remains
<1> HIDE DEF r, m, U, lo, top, e, k
<1>6. /\ k \in Int /\ k % Page = 0 /\ e + 1 <= k /\ k < e + 1 + Page /\ k <= top + 1
  <2>1. e + 1 \in Int /\ top + 1 \in Int /\ e + 1 <= top + 1
    BY <1>2, <1>3
  <2>2. k \in Int /\ k % Page = 0 /\ e + 1 <= k /\ k < e + 1 + Page
    BY <2>1, UpMultiple DEF k
  <2>3. k <= top + 1
    BY <1>3, <2>1, MultipleBounds DEF k
  <2> QED BY <2>2, <2>3
<1>7. hi \in Nat /\ lo <= hi /\ (hi + 1) % Page = 0 /\ e <= hi /\ hi <= top
  BY <1>3, <1>6
<1>8. k # top
  <2>1. SUFFICES ASSUME k = top PROVE FALSE
    OBVIOUS
  <2>2. k \in Nat /\ k <= k /\ (k + 1) % Page = 0
    BY <1>3, <2>1
  <2> QED BY <1>6, <2>2, WholePagesEnd
<1>9. ASSUME NEW b \in Nat PROVE Touch(m, b) <=> lo <= b /\ b <= hi
  <2>1. ASSUME lo <= b, b <= hi PROVE Touch(m, b)
    <3>1. PageOf(lo) <= PageOf(b)
      BY <1>3, <2>1, PageMono
    <3>2. CASE b <= e
      BY <1>3, <1>4, <3>1, <3>2, PageMono DEF Touch
    <3>3. CASE e < b
      <4> DEFINE s == AlignDown(e, Page)
      <4>1. /\ s \in Nat /\ s % Page = 0 /\ s <= e /\ e < s + Page
            /\ \A c \in Nat : PageOf(c) = PageOf(e) <=> s <= c /\ c < s + Page
        BY <1>3, PageBytes
      <4> HIDE DEF s
      <4>2. s + Page \in Int /\ (s + Page) % Page = 0 /\ e + 1 <= s + Page /\ e + 1 \in Int
        <5>1. s \in Int
          BY <4>1
        <5>2. (s + Page) % Page = 0
          BY <4>1, <5>1, NextMultiple
        <5> QED BY <1>3, <4>1, <5>1, <5>2
      <4>3. k <= s + Page
        BY <4>2, MultipleBounds DEF k
      <4>4. PageOf(b) = PageOf(e)
        BY <1>3, <1>6, <2>1, <3>3, <4>1, <4>3
      <4>5. PageOf(e) \in Int /\ PageOf(e) <= PageOf(e)
        BY <1>3, PageMono
      <4> QED BY <1>4, <3>1, <4>4, <4>5 DEF Touch
    <3> QED BY <1>3, <3>2, <3>3
  <2>2. ASSUME Touch(m, b) PROVE lo <= b /\ b <= hi
    <3>1. PICK c \in Nat : lo <= c /\ c <= e /\ PageOf(c) = PageOf(b)
      BY <1>3, <1>4, <2>2, TouchedByte DEF Touch
    <3> DEFINE q == [r EXCEPT !.last = hi]
    <3>2. q \in Region /\ q.first = lo /\ q.last = hi
      BY <1>2, <1>7, CutLast DEF lo
    <3>3. Whole(q)
      BY <1>3, <1>7, <3>2, WholePagesEnd DEF Whole
    <3>4. q.first <= c /\ c <= q.last
      BY <1>3, <1>7, <3>1, <3>2
    <3> HIDE DEF q
    <3>5. Covers(q, c)
      BY <3>2, <3>3, <3>4, WholeCovers
    <3> QED BY <3>1, <3>2, <3>5 DEF Covers
  <2> QED BY <2>1, <2>2
<1>10. ASSUME NEW x
       PROVE  x \in U <=> \/ x \in S /\ ~(lo <= x.last /\ x.first <= hi)
                          \/ \E q \in S : lo <= q.last /\ q.first <= hi /\ x \in Rest(q, lo, hi)
  <2>1. ASSUME NEW q \in S PROVE lo <= q.last /\ q.first <= hi <=> q = r
    <3>1. q.first \in Nat /\ q.last \in Nat /\ q.first <= q.last
      BY <1>1
    <3>2. CASE q = r
      BY <1>3, <1>7, <3>2 DEF lo, top
    <3>3. CASE q # r
      <4>1. q.last < lo \/ top < q.first
        BY <1>2, <3>3, SoundIsDisjoint DEF NoneMeet, lo, top
      <4> QED BY <1>3, <1>7, <3>1, <3>3, <4>1
    <3> QED BY <3>2, <3>3
  <2>2. x \in Rest(r, lo, hi) <=> k < top /\ x = [r EXCEPT !.first = k]
    <3>1. hi < top <=> k < top
      BY <1>3, <1>6, <1>7, <1>8
    <3>2. ~(r.first < lo) /\ r.last = top
      BY <1>3 DEF lo, top
    <3>3. hi + 1 = k
      BY <1>6
    <3> HIDE DEF hi
    <3>4. Rest(r, lo, hi) = IF k < top THEN {[r EXCEPT !.first = k]} ELSE {}
      BY <3>1, <3>2, <3>3 DEF Rest
    <3> QED BY <3>4
  <2>3. x \in U <=> (x \in S /\ x # r) \/ (k < top /\ x = [r EXCEPT !.first = k])
    BY <1>5
  <2> HIDE DEF hi
  <2> QED BY <1>2, <2>1, <2>2, <2>3
<1>11. /\ Sound(U) /\ \A x \in U : Whole(x)
       /\ \A b \in Nat : Has(U, b) <=> Has(S, b) /\ ~(lo <= b /\ b <= hi)
  <2> HIDE DEF hi
  <2> QED BY <1>3, <1>7, <1>10, CutList
<1>12. ASSUME NEW b \in Nat, lo <= b, b <= hi PROVE Has(S, b)
  <2>1. r.first <= b /\ b <= r.last
    BY <1>3, <1>7, <1>12 DEF lo, top
  <2> QED BY <1>2, <2>1 DEF Has
<1>13. /\ m.first \in Nat /\ m.last \in Nat /\ m.first <= m.last
  BY <1>3, <1>4
<1> HIDE DEF hi
<1> QED BY <1>9, <1>11, <1>12, <1>13 DEF m, U

\* The books when an item was allocated from a pool or a zone.
TakeItem(F, p, size) == [F EXCEPT ![p] = Remains(@, size)]
ItemOf(F, p, size) ==
  Segment(Bytes(Item(F[p], size)), IF p \in Zones THEN p ELSE NoZone)

LEMMA AllocateBooks ==
  ASSUME NEW F, NEW G, NEW S, NEW M, NEW W, ListsOk(F, G), FreeApart(F), SegsOk(F, G, S, M),
         WindowsOk(F, G, W, S), NEW p \in AllPools, NEW size \in Nat \ {0},
         Fit(F[p], size) # {}, NEW H, H = TakeItem(F, p, size),
         NEW t, t = ItemOf(F, p, size), NEW T, T = S \cup {t},
         NEW L, L = M \cup {Bytes(Item(F[p], size))}
  PROVE  ListsOk(H, G) /\ FreeApart(H) /\ SegsOk(H, G, T, L) /\ WindowsOk(H, G, W, T)
<1> DEFINE m == Bytes(Item(F[p], size))
<1>1. /\ F = [q \in AllPools |-> F[q]] /\ G = [q \in AllPools |-> G[q]]
  BY DEF ListsOk
<1>2. /\ H = [q \in AllPools |-> H[q]] /\ H[p] = Remains(F[p], size)
      /\ \A q \in AllPools : q # p => H[q] = F[q]
  BY <1>1 DEF TakeItem
<1>3. Sound(F[p]) /\ \A r \in F[p] : Whole(r)
  BY ListFacts
<1>4. /\ m.first \in Nat /\ m.last \in Nat /\ m.first <= m.last
      /\ Sound(H[p]) /\ \A r \in H[p] : Whole(r)
      /\ \A b \in Nat : /\ Touch(m, b) => Has(F[p], b)
                        /\ Has(H[p], b) <=> Has(F[p], b) /\ ~Touch(m, b)
  BY <1>2, <1>3, ItemTaken
<1>5. /\ t = Segment(t, t.zone) /\ t.first = m.first /\ t.last = m.last
      /\ t.zone = IF p \in Zones THEN p ELSE NoZone
      /\ \A b : Touch(t, b) <=> Touch(m, b)
  BY DEF ItemOf, Segment, Touch
<1> HIDE DEF m
<1>6. ASSUME NEW q \in AllPools
      PROVE  /\ Sound(H[q]) /\ \A r \in H[q] : Whole(r)
             /\ Sound(G[q]) /\ \A r \in G[q] : Whole(r)
             /\ \A b \in Nat : /\ Has(H[q], b) => Has(G[q], b)
                               /\ Has(H[q], b) <=> Has(F[q], b) /\ ~(q = p /\ Touch(t, b))
  <2>1. /\ Sound(F[q]) /\ \A r \in F[q] : Whole(r)
        /\ Sound(G[q]) /\ \A r \in G[q] : Whole(r)
        /\ \A b \in Nat : Has(F[q], b) => Has(G[q], b)
    BY ListFacts
  <2>2. CASE q = p
    BY <1>4, <1>5, <2>1, <2>2
  <2>3. CASE q # p
    <3>1. H[q] = F[q]
      BY <1>2, <2>3
    <3> QED BY <2>1, <2>3, <3>1
  <2> QED BY <2>2, <2>3
<1>7. ListsOk(H, G)
  BY <1>1, <1>2, <1>6 DEF ListsOk
<1>8. FreeApart(H)
  BY <1>6 DEF FreeApart
<1>9. ASSUME NEW b \in Nat, Touch(t, b) PROVE Has(F[p], b) /\ HasAny(F, b) /\ ~HasAny(H, b)
  <2>1. Has(F[p], b) /\ HasAny(F, b)
    BY <1>4, <1>5, <1>9 DEF HasAny
  <2>2. ASSUME NEW q \in AllPools, Has(H[q], b) PROVE FALSE
    <3>1. Has(F[q], b)
      BY <1>6, <2>2
    <3>2. q = p
      BY <2>1, <3>1 DEF FreeApart
    <3> QED BY <1>6, <1>9, <2>2, <3>2
  <2> QED BY <2>1, <2>2 DEF HasAny
<1>10. \A b \in Nat : HasAny(H, b) => HasAny(F, b)
  BY <1>6 DEF HasAny
<1>11. SegsOk(H, G, T, L)
  <2>1. ASSUME NEW s \in T
        PROVE  /\ s = Segment(s, s.zone)
               /\ s.first \in Nat /\ s.last \in Nat /\ s.first <= s.last
               /\ \A b \in Nat : HasAny(H, b) => ~Touch(s, b)
               /\ (\E b \in Nat : HasAny(G, b) /\ Touch(s, b))
                    => \E x \in L : x.first <= s.first /\ s.last <= x.last
    <3>1. CASE s \in S
      BY <1>10, <3>1 DEF SegsOk
    <3>2. CASE s = t
      <4>1. m \in L /\ m.first <= s.first /\ s.last <= m.last
        BY <1>4, <1>5, <3>2 DEF m
      <4> QED BY <1>4, <1>5, <1>9, <3>2, <4>1
    <3> QED BY <3>1, <3>2
  <2>2. ASSUME NEW s \in T, NEW u \in T, NEW b \in Nat, HasAny(G, b), Touch(s, b), Touch(u, b)
        PROVE  Same(s, u)
    <3>1. CASE s \in S /\ u \in S
      BY <2>2, <3>1 DEF SegsOk
    <3>2. CASE s = t /\ u = t
      BY <3>2 DEF Same
    <3>3. CASE s \in S /\ u = t
      BY <1>9, <2>2, <3>3 DEF SegsOk
    <3>4. CASE s = t /\ u \in S
      BY <1>9, <2>2, <3>4 DEF SegsOk
    <3> QED BY <3>1, <3>2, <3>3, <3>4
  <2> QED BY <2>1, <2>2 DEF SegsOk
<1>12. ASSUME NEW z \in Zones, NEW w \in W[z] PROVE WindowOk(z, w, H, T)
  <2>1. WindowOk(z, w, F, S)
    BY DEF WindowsOk
  <2>2. ASSUME NEW b \in Nat, w.first <= b, b <= w.last
        PROVE  /\ \A q \in AllPools \ {z} : ~Has(H[q], b)
               /\ \A s \in T : Touch(s, b) => Segment(s, z) \in T
               /\ Has(H[z], b) \/ \E s \in T : s.zone = z /\ Touch(s, b)
    <3>1. /\ \A q \in AllPools \ {z} : ~Has(F[q], b)
          /\ \A s \in S : Touch(s, b) => Segment(s, z) \in S
          /\ Has(F[z], b) \/ \E s \in S : s.zone = z /\ Touch(s, b)
      BY <2>1, <2>2 DEF WindowOk
    <3>2. \A q \in AllPools \ {z} : ~Has(H[q], b)
      BY <1>6, <3>1
    <3>3. Touch(t, b) => p = z /\ t.zone = z /\ Segment(t, z) = t
      BY <1>5, <1>9, <3>1
    <3>4. \A s \in T : Touch(s, b) => Segment(s, z) \in T
      BY <3>1, <3>3
    <3>5. CASE Has(F[z], b)
      <4>1. z \in AllPools
        BY PoolConstants
      <4> QED BY <1>6, <3>2, <3>3, <3>4, <3>5, <4>1
    <3>6. CASE \E s \in S : s.zone = z /\ Touch(s, b)
      BY <3>2, <3>4, <3>6
    <3> QED BY <3>1, <3>5, <3>6
  <2> QED BY <2>1, <2>2 DEF WindowOk
<1>13. WindowsOk(H, G, W, T)
  BY <1>12 DEF WindowsOk
<1> QED BY <1>7, <1>8, <1>11, <1>13

\* An allocation after the books F, G and W leaves them in order.
LEMMA AllocateStep ==
  ASSUME PInv, Layout, NEW p \in AllPools, NEW size \in Sizes,
         NEW F, NEW G, NEW W, ListsOk(F, G), FreeApart(F), SegsOk(F, G, segs, mem),
         WindowsOk(F, G, W, segs), Fit(F[p], size) # {}, Allocate(p, size, F),
         full' = G, windows' = W
  PROVE  PInv'
<1>1. size \in Nat \ {0}
  BY PoolsAssumption
<1>2. /\ free' = TakeItem(F, p, size)
      /\ mem' = mem \cup {Bytes(Item(F[p], size))}
      /\ segs' = segs \cup {ItemOf(F, p, size)}
      /\ phase' = "layout" /\ marking_direct' = marking_direct
      /\ memsections' = memsections /\ primed' = primed
  BY DEF Allocate, TakeItem, Remains, ItemOf
<1>3. PICK H, t, T, L, S, M :
        H = free' /\ t = ItemOf(F, p, size) /\ T = segs' /\ L = mem' /\ S = segs /\ M = mem
  OBVIOUS
<1>4. /\ SegsOk(F, G, S, M) /\ WindowsOk(F, G, W, S) /\ H = TakeItem(F, p, size)
      /\ T = S \cup {t} /\ L = M \cup {Bytes(Item(F[p], size))}
  BY <1>2, <1>3
<1>5. ListsOk(H, G) /\ FreeApart(H) /\ SegsOk(H, G, T, L) /\ WindowsOk(H, G, W, T)
  BY <1>1, <1>3, <1>4, AllocateBooks
<1>6. /\ ListsOk(free', full') /\ FreeApart(free') /\ SegsOk(free', full', segs', mem')
      /\ WindowsOk(free', full', windows', segs')
  BY <1>3, <1>5
<1>7. Flags' /\ PoolsStage' /\ DirectStage' /\ MarksStage'
  <2>1. Flags'
    BY <1>2 DEF PInv, Flags
  <2> QED BY <1>2, <2>1 DEF PoolsStage, DirectStage, MarksStage
<1>8. ZonesStage'
  <2>1. primed' = Zones /\ ZonesStage
    BY <1>2 DEF Layout, PInv
  <2> QED BY <1>2, <2>1 DEF ZonesStage
<1> QED BY <1>6, <1>7, <1>8 DEF PInv

LEMMA AllocVirtualStep ==
  ASSUME PInv, NEW p \in AllPools, NEW size \in Sizes, AllocVirtual(p, size)
  PROVE  PInv'
<1>1. CASE ~Possible(free[p], size)
  BY <1>1, RefuseStep DEF AllocVirtual
<1>2. CASE Possible(free[p], size)
  <2>1. /\ Layout /\ Allocate(p, size, free) /\ full' = full /\ windows' = windows
        /\ Fit(free[p], size) # {}
    BY <1>2 DEF AllocVirtual, Possible
  <2>2. PICK F, G, W : F = free /\ G = full /\ W = windows
    OBVIOUS
  <2>3. /\ ListsOk(F, G) /\ FreeApart(F) /\ SegsOk(F, G, segs, mem) /\ WindowsOk(F, G, W, segs)
        /\ Fit(F[p], size) # {} /\ Allocate(p, size, F) /\ full' = G /\ windows' = W
    BY <2>1, <2>2 DEF PInv
  <2> QED BY <2>1, <2>3, AllocateStep
<1> QED BY <1>1, <1>2

\* The books when a window has moved from a pool to a zone.
MovedFree(F, z, pool, new, w) ==
  [F EXCEPT ![pool] = WithoutWindow(@, w), ![z] = Merged(F[z] \cup {new})]
MovedFull(G, z, new) == [G EXCEPT ![z] = Merged(@ \cup {new})]
MovedWindow(W, z, w) == [W EXCEPT ![z] = @ \cup {w}]

LEMMA MoveBooks ==
  ASSUME NEW F, NEW G, NEW S, NEW M, NEW W, ListsOk(F, G), FreeApart(F), SegsOk(F, G, S, M),
         WindowsOk(F, G, W, S), NEW z \in Zones, NEW pool \in Virtual,
         NEW new \in Region, NEW w, IsWindow(w), new.first = w.first, new.last = w.last,
         \A b \in Nat : InW(w, b) => Has(F[pool], b),
         NEW H, H = MovedFree(F, z, pool, new, w), NEW K, K = MovedFull(G, z, new),
         NEW V, V = MovedWindow(W, z, w)
  PROVE  ListsOk(H, K) /\ FreeApart(H) /\ SegsOk(H, K, S, M) /\ WindowsOk(H, K, V, S)
<1>1. /\ F = [p \in AllPools |-> F[p]] /\ G = [p \in AllPools |-> G[p]]
      /\ W = [y \in Zones |-> W[y]]
  BY DEF ListsOk, WindowsOk
<1>2. /\ z \in AllPools /\ pool \in AllPools /\ pool # z
      /\ \A y \in Zones : y \in AllPools /\ y # pool
  BY PoolConstants
<1>3. /\ H = [p \in AllPools |-> H[p]] /\ K = [p \in AllPools |-> K[p]]
      /\ V = [y \in Zones |-> V[y]]
      /\ H[pool] = WithoutWindow(F[pool], w) /\ H[z] = Merged(F[z] \cup {new})
      /\ K[z] = Merged(G[z] \cup {new}) /\ V[z] = W[z] \cup {w}
      /\ \A p \in AllPools : /\ p # z => K[p] = G[p]
                             /\ p # z /\ p # pool => H[p] = F[p]
      /\ \A y \in Zones : y # z => V[y] = W[y]
  <2>1. H = [p \in AllPools |-> IF p = z THEN Merged(F[z] \cup {new})
                                ELSE IF p = pool THEN WithoutWindow(F[pool], w) ELSE F[p]]
    BY <1>1, <1>2 DEF MovedFree
  <2>2. K = [p \in AllPools |-> IF p = z THEN Merged(G[z] \cup {new}) ELSE G[p]]
    BY <1>1 DEF MovedFull
  <2>3. V = [y \in Zones |-> IF y = z THEN W[z] \cup {w} ELSE W[y]]
    BY <1>1 DEF MovedWindow
  <2> QED BY <1>2, <2>1, <2>2, <2>3
<1>4. /\ w.first \in Nat /\ w.last \in Nat /\ w.first <= w.last
      /\ w.first % Page = 0 /\ (w.last + 1) % Page = 0
  BY DEF IsWindow
<1>5. Whole(new) /\ new.first <= new.last
  BY <1>4, WholePagesEnd DEF Whole
<1>6. ASSUME NEW b \in Nat, InW(w, b)
      PROVE  Has(F[pool], b) /\ HasAny(F, b) /\ ~Has(F[z], b) /\ ~Has(G[z], b)
  <2>1. Has(F[pool], b) /\ HasAny(F, b)
    BY <1>2, <1>6 DEF HasAny
  <2>2. ~Has(F[z], b)
    BY <1>2, <2>1 DEF FreeApart
  <2>3. ASSUME Has(G[z], b) PROVE FALSE
    <3>1. PICK v \in W[z] : v.first <= b /\ b <= v.last
      BY <2>3 DEF WindowsOk
    <3>2. WindowOk(z, v, F, S)
      BY DEF WindowsOk
    <3> QED BY <1>2, <2>1, <3>1, <3>2 DEF WindowOk
  <2> QED BY <2>1, <2>2, <2>3
<1>7. ASSUME NEW r \in F[z] \cup G[z] PROVE r.last < new.first \/ new.last < r.first
  <2>1. r.first \in Nat /\ r.last \in Nat /\ r.first <= r.last
    BY <1>2, ListFacts
  <2>2. ASSUME NEW b \in Nat, r.first <= b, b <= r.last, new.first <= b, b <= new.last
        PROVE  FALSE
    <3>1. Has(F[z], b) \/ Has(G[z], b)
      BY <1>7, <2>2 DEF Has
    <3> QED BY <1>6, <2>2, <3>1 DEF InW
  <2> QED BY <1>4, <2>1, <2>2, NoCommonByte
<1>8. ASSUME NEW A, Sound(A), \A r \in A : Whole(r), NEW B, B = Merged(A \cup {new}),
             \A r \in A : r.last < new.first \/ new.last < r.first
      PROVE  /\ Sound(B) /\ \A r \in B : Whole(r)
             /\ \A b \in Nat : Has(B, b) <=> Has(A, b) \/ InW(w, b)
  <2>1. /\ Bounded(A \cup {new}) /\ NoneMeet(A \cup {new})
        /\ \A b \in Nat : Has(A \cup {new}, b) <=> Has(A, b) \/ InW(w, b)
    BY <1>5, <1>8, OneMore DEF InW
  <2>2. \A r \in A \cup {new} : Whole(r)
    BY <1>5, <1>8
  <2> QED BY <1>8, <2>1, <2>2, MergedList
<1>9. /\ Sound(F[z]) /\ \A r \in F[z] : Whole(r)
      /\ Sound(G[z]) /\ \A r \in G[z] : Whole(r)
      /\ Sound(F[pool]) /\ \A r \in F[pool] : Whole(r)
  BY <1>2, ListFacts
<1>10. /\ Sound(H[z]) /\ \A r \in H[z] : Whole(r)
       /\ \A b \in Nat : Has(H[z], b) <=> Has(F[z], b) \/ InW(w, b)
  BY <1>3, <1>7, <1>8, <1>9
<1>11. /\ Sound(K[z]) /\ \A r \in K[z] : Whole(r)
       /\ \A b \in Nat : Has(K[z], b) <=> Has(G[z], b) \/ InW(w, b)
  BY <1>3, <1>7, <1>8, <1>9
<1>12. /\ Sound(H[pool]) /\ \A r \in H[pool] : Whole(r)
       /\ \A b \in Nat : Has(H[pool], b) <=> Has(F[pool], b) /\ ~InW(w, b)
  BY <1>3, <1>9, WithoutWindowList DEF InW
<1>13. ASSUME NEW p \in AllPools
       PROVE  /\ Sound(H[p]) /\ \A r \in H[p] : Whole(r)
              /\ Sound(K[p]) /\ \A r \in K[p] : Whole(r)
              /\ \A b \in Nat : Has(H[p], b) => Has(K[p], b)
  <2>1. /\ Sound(F[p]) /\ \A r \in F[p] : Whole(r)
        /\ Sound(G[p]) /\ \A r \in G[p] : Whole(r)
        /\ \A b \in Nat : Has(F[p], b) => Has(G[p], b)
    BY ListFacts
  <2>2. CASE p = z
    BY <1>10, <1>11, <2>1, <2>2
  <2>3. CASE p = pool
    <3>1. K[p] = G[p] /\ H[p] = H[pool] /\ F[p] = F[pool]
      BY <1>2, <1>3, <2>3
    <3> QED BY <1>12, <2>1, <3>1
  <2>4. CASE p # z /\ p # pool
    <3>1. K[p] = G[p] /\ H[p] = F[p]
      BY <1>3, <2>4
    <3> QED BY <2>1, <3>1
  <2> QED BY <2>2, <2>3, <2>4
<1>14. ListsOk(H, K)
  BY <1>3, <1>13 DEF ListsOk
\* Whose a free byte was before.
<1>15. ASSUME NEW p \in AllPools, NEW b \in Nat, Has(H[p], b)
       PROVE  IF InW(w, b) THEN p = z ELSE Has(F[p], b)
  <2>1. CASE p = z
    BY <1>10, <1>15, <2>1
  <2>2. CASE p = pool
    BY <1>12, <1>15, <2>2
  <2>3. CASE p # z /\ p # pool
    <3>1. Has(F[p], b)
      BY <1>3, <1>15, <2>3
    <3>2. ~InW(w, b)
      BY <1>2, <1>6, <2>3, <3>1 DEF FreeApart
    <3> QED BY <3>1, <3>2
  <2> QED BY <2>1, <2>2, <2>3
<1>16. FreeApart(H)
  BY <1>15 DEF FreeApart
<1>17. SegsOk(H, K, S, M)
  <2>1. \A b \in Nat : HasAny(H, b) => HasAny(F, b)
    BY <1>6, <1>15 DEF HasAny
  <2>2. ASSUME NEW b \in Nat, NEW p \in AllPools, Has(K[p], b) PROVE HasAny(G, b)
    <3>1. CASE p = z
      <4>1. CASE Has(G[z], b)
        BY <1>2, <4>1 DEF HasAny
      <4>2. CASE InW(w, b)
        <5>1. Has(G[pool], b)
          BY <1>2, <1>6, <4>2, ListFacts
        <5> QED BY <1>2, <5>1 DEF HasAny
      <4> QED BY <1>11, <2>2, <3>1, <4>1, <4>2
    <3>2. CASE p # z
      BY <1>3, <2>2, <3>2 DEF HasAny
    <3> QED BY <3>1, <3>2
  <2>3. \A b \in Nat : HasAny(K, b) => HasAny(G, b)
    BY <2>2 DEF HasAny
  <2> QED BY <2>1, <2>3, SegmentsStay
<1>18. ASSUME NEW y \in Zones, NEW v \in W[y] PROVE WindowOk(y, v, H, S)
  <2>1. WindowOk(y, v, F, S)
    BY DEF WindowsOk
  <2>2. ASSUME NEW b \in Nat, v.first <= b, b <= v.last
        PROVE  /\ \A p \in AllPools \ {y} : ~Has(H[p], b)
               /\ Has(F[y], b) => Has(H[y], b)
    <3>1. \A p \in AllPools \ {y} : ~Has(F[p], b)
      BY <2>1, <2>2 DEF WindowOk
    <3>2. ~InW(w, b)
      BY <1>2, <1>6, <3>1
    <3>3. Has(F[y], b) => Has(H[y], b)
      <4>1. CASE y = z
        BY <1>10, <4>1
      <4>2. CASE y # z
        BY <1>2, <1>3, <4>2
      <4> QED BY <4>1, <4>2
    <3> QED BY <1>15, <3>1, <3>2, <3>3
  <2> QED BY <2>1, <2>2 DEF WindowOk
<1>19. WindowOk(z, w, H, S)
  <2>1. ASSUME NEW b \in Nat, w.first <= b, b <= w.last
        PROVE  /\ \A p \in AllPools \ {z} : ~Has(H[p], b)
               /\ \A s \in S : ~Touch(s, b)
               /\ Has(H[z], b)
    <3>1. InW(w, b)
      BY <2>1 DEF InW
    <3>2. \A s \in S : ~Touch(s, b)
      BY <1>6, <3>1 DEF SegsOk
    <3> QED BY <1>10, <1>15, <3>1, <3>2
  <2> QED BY <1>4, <2>1 DEF WindowOk
<1>20. ASSUME NEW y \in Zones
       PROVE  /\ \A v \in V[y] : WindowOk(y, v, H, S)
              /\ \A b \in Nat : Has(K[y], b) => \E v \in V[y] : v.first <= b /\ b <= v.last
  <2>1. \A b \in Nat : Has(G[y], b) => \E v \in W[y] : v.first <= b /\ b <= v.last
    BY DEF WindowsOk
  <2>2. CASE y = z
    <3>1. \A v \in V[y] : WindowOk(y, v, H, S)
      BY <1>3, <1>18, <1>19, <2>2
    <3>2. W[y] \subseteq V[y] /\ w \in V[y]
      BY <1>3, <2>2
    <3> QED BY <1>11, <2>1, <2>2, <3>1, <3>2 DEF InW
  <2>3. CASE y # z
    <3>1. V[y] = W[y] /\ K[y] = G[y]
      BY <1>2, <1>3, <2>3
    <3> QED BY <1>18, <2>1, <3>1
  <2> QED BY <2>2, <2>3
<1>21. WindowsOk(H, K, V, S)
  BY <1>3, <1>20 DEF WindowsOk
<1> QED BY <1>14, <1>16, <1>17, <1>21

\* A window that lies in a free region.
LEMMA WindowInside ==
  ASSUME NEW r \in Region, HoldsWindow(r)
  PROVE  LET w == WindowAt(AlignUp(r.first, Window)) IN
         IsWindow(w) /\ r.first <= w.first /\ w.last <= r.last
<1> DEFINE f == r.first
           a == AlignUp(f, Window)
<1>1. Window \in Nat \ {0} /\ f \in Nat /\ f \in Int
  BY PoolsAssumption, RegionFields
<1> HIDE DEF f
<1>2. a \in Int /\ a % Window = 0 /\ f <= a /\ a < f + Window
  BY <1>1, UpMultiple
<1> HIDE DEF a
<1>3. a \in Nat
  BY <1>1, <1>2
<1>4. AlignDown(a, Window) = a
  BY <1>1, <1>2 DEF AlignDown
<1>5. WindowAt(a).first = a /\ WindowAt(a).last = a + Window - 1
  BY <1>4 DEF WindowAt, Extent
<1>6. IsWindow(WindowAt(a))
  BY <1>3, WindowFacts
<1>7. a + Window - 1 <= r.last
  BY DEF HoldsWindow, a, f
<1> QED BY <1>2, <1>5, <1>6, <1>7 DEF a, f

LEMMA ZoneAllocStep ==
  ASSUME PInv, NEW z \in Zones, NEW size \in Sizes, ZoneAlloc(z, size)
  PROVE  PInv'
<1> DEFINE pool == Under[z]
           from == Lowest({r \in free[pool] : HoldsWindow(r)})
           w    == WindowAt(AlignUp(from.first, Window))
           new  == [from EXCEPT !.first = w.first, !.last = w.last]
           list == Merged(free[z] \cup {new})
           able == (\E r \in free[pool] : HoldsWindow(r)) /\ Possible(list, size)
<1>1. /\ Layout
      /\ IF able
         THEN /\ Allocate(z, size, [free EXCEPT ![pool] = WithoutWindow(@, w), ![z] = list])
              /\ full' = [full EXCEPT ![z] = Merged(@ \cup {new})]
              /\ windows' = [windows EXCEPT ![z] = @ \cup {w}]
         ELSE Refuse
  BY DEF ZoneAlloc
<1>2. CASE ~able
  BY <1>1, <1>2, RefuseStep
<1>3. CASE able
  <2>1. /\ ListsOk(free, full) /\ FreeApart(free) /\ SegsOk(free, full, segs, mem)
        /\ WindowsOk(free, full, windows, segs)
    BY DEF PInv
  <2>2. /\ z \in AllPools /\ pool \in AllPools /\ pool \in Virtual /\ pool # z
    BY PoolConstants
  <2>3. from \in free[pool] /\ HoldsWindow(from) /\ from \in Region
    <3> DEFINE P == {r \in free[pool] : HoldsWindow(r)}
    <3>1. free[pool] \subseteq Region
      BY <2>1, <2>2, ListFacts
    <3>2. P \in SUBSET Region /\ P # {}
      BY <1>3, <3>1
    <3>3. Lowest(P) \in P
      BY <3>2, LowestRegion
    <3> QED BY <3>1, <3>3
  <2> HIDE DEF from
  <2>4. IsWindow(w) /\ from.first <= w.first /\ w.last <= from.last
    BY <2>3, WindowInside
  <2> HIDE DEF w
  <2>5. /\ w.first \in Nat /\ w.last \in Nat /\ from.first \in Nat /\ from.last \in Nat
    BY <2>3, <2>4, RegionFields DEF IsWindow
  <2>6. new \in Region /\ new.first = w.first /\ new.last = w.last
    <3>1. PICK r, a, c : r = from /\ a = w.first /\ c = w.last
      OBVIOUS
    <3>2. r \in Region /\ a \in Nat /\ c \in Nat
      BY <2>3, <2>5, <3>1
    <3>3. /\ [r EXCEPT !.first = a, !.last = c] \in Region
          /\ [r EXCEPT !.first = a, !.last = c].first = a
          /\ [r EXCEPT !.first = a, !.last = c].last = c
      BY <3>2 DEF Region
    <3> QED BY <3>1, <3>3
  <2>7. \A b \in Nat : InW(w, b) => Has(free[pool], b)
    BY <2>3, <2>4, <2>5 DEF InW, Has
  <2> HIDE DEF new, pool
  <2>8. PICK F, G, W, S, M, H, K, V :
          /\ F = free /\ G = full /\ W = windows /\ S = segs /\ M = mem
          /\ H = MovedFree(free, z, pool, new, w) /\ K = MovedFull(full, z, new)
          /\ V = MovedWindow(windows, z, w)
    OBVIOUS
  <2>9. /\ ListsOk(F, G) /\ FreeApart(F) /\ SegsOk(F, G, S, M) /\ WindowsOk(F, G, W, S)
        /\ \A b \in Nat : InW(w, b) => Has(F[pool], b)
        /\ H = MovedFree(F, z, pool, new, w) /\ K = MovedFull(G, z, new)
        /\ V = MovedWindow(W, z, w)
    BY <2>1, <2>7, <2>8
  <2>10. ListsOk(H, K) /\ FreeApart(H) /\ SegsOk(H, K, S, M) /\ WindowsOk(H, K, V, S)
    BY <2>2, <2>4, <2>6, <2>9, MoveBooks
  <2>11. /\ Allocate(z, size, H) /\ full' = K /\ windows' = V
         /\ H[z] = list /\ Fit(list, size) # {}
    <3>1. H = [free EXCEPT ![pool] = WithoutWindow(@, w), ![z] = list]
      BY <2>8 DEF MovedFree
    <3>2. free = [p \in AllPools |-> free[p]]
      BY <2>1 DEF ListsOk
    <3>3. H[z] = list
      <4> HIDE DEF list
      <4> QED BY <2>2, <3>1, <3>2
    <3>4. full' = K /\ windows' = V
      BY <1>1, <1>3, <2>8 DEF MovedFull, MovedWindow
    <3>5. Allocate(z, size, H)
      BY <1>1, <1>3, <3>1
    <3>6. Fit(list, size) # {}
      BY <1>3 DEF Possible
    <3> QED BY <3>3, <3>4, <3>5, <3>6
  <2>12. SegsOk(H, K, segs, mem) /\ WindowsOk(H, K, V, segs) /\ Fit(H[z], size) # {} /\ Layout
    BY <1>1, <2>8, <2>10, <2>11
  <2> QED BY <2>2, <2>10, <2>11, <2>12, AllocateStep
<1> QED BY <1>2, <1>3

LEMMA NextStep ==
  ASSUME PInv, Orderly, [Next]_vars
  PROVE  PInv'
<1>1. CASE UNCHANGED vars
  BY <1>1, StutterStep
<1>2. CASE \E p \in Virtual, new \in Memory : AddVirtual(p, new)
  BY <1>2, AddVirtualStep
<1>3. CASE \E new \in Directs : AddDirect(new)
  BY <1>3, AddDirectStep
<1>4. CASE \E m \in Segments, z \in Zones \cup {NoZone} : MarkVirtual(m, z)
  BY <1>4, MarkVirtualStep
<1>5. CASE \E z \in Zones : Prime(z)
  BY <1>5, PrimeStep
<1>6. CASE \E p \in AllPools, size \in Sizes : AllocVirtual(p, size)
  BY <1>6, AllocVirtualStep
<1>7. CASE \E z \in Zones, size \in Sizes : ZoneAlloc(z, size)
  BY <1>7, ZoneAllocStep
<1> QED BY <1>1, <1>2, <1>3, <1>4, <1>5, <1>6, <1>7 DEF Next
-----------------------------------------------------------------------------
\* What the bookkeeping of Pools and of the tracker keeps in every reachable
\* state: of all pools, the free and the given bytes, the segments and windows.
THEOREM PoolsBooks ==
  ASSUME Orderly
  PROVE  Spec => []PInv
<1>1. Init => PInv
  BY InitStep
<1>2. PInv /\ [Next]_vars => PInv'
  BY NextStep
<1> QED BY <1>1, <1>2, PTL DEF Spec

\* The lists hold whole pages, and nothing is free in a pool that was not given
\* to it: allocator.py's lists in each pool, through marks, windows and layout.
THEOREM PoolsTypes ==
  ASSUME Orderly
  PROVE  Spec => []TypeOK
<1>1. PInv => TypeOK
  <2> SUFFICES ASSUME PInv PROVE TypeOK
    OBVIOUS
  <2>1. ListsOk(free, full) /\ Flags
    BY DEF PInv
  <2>2. ASSUME NEW p \in AllPools, NEW r \in free[p]
        PROVE  /\ r \in Region /\ Whole(r)
               /\ \E x \in full[p] : x.first <= r.first /\ r.last <= x.last
    <3>1. /\ r \in Region /\ Whole(r) /\ r.first \in Nat /\ r.last \in Nat /\ r.first <= r.last
          /\ Sound(full[p])
      BY <2>1, ListFacts
    <3>2. ASSUME NEW b \in r.first .. r.last PROVE Has(full[p], b)
      <4>1. b \in Nat /\ r.first <= b /\ b <= r.last
        BY <3>1
      <4>2. Has(free[p], b)
        BY <4>1 DEF Has
      <4> QED BY <2>1, <4>1, <4>2, ListFacts
    <3> QED BY <3>1, <3>2, OneRegion
  <2> QED BY <2>1, <2>2 DEF TypeOK, Flags
<1>2. Spec => []PInv
  BY PoolsBooks
<1> QED BY <1>1, <1>2, PTL

\* No byte is free in two pools, however regions move between them: to the
\* direct pool (remove_virtual) and, in windows, to the zones.
THEOREM PoolsStayApart ==
  ASSUME Orderly
  PROVE  Spec => []PoolsApart
<1>1. PInv => PoolsApart
  <2> SUFFICES ASSUME PInv, NEW p \in AllPools, NEW q \in AllPools, p # q,
                      NEW r \in free[p], NEW x \in free[q]
               PROVE  Disjoint(r, x)
    BY DEF PoolsApart
  <2>1. /\ r.first \in Nat /\ r.last \in Nat /\ r.first <= r.last
        /\ x.first \in Nat /\ x.last \in Nat /\ x.first <= x.last
    BY ListFacts DEF PInv
  <2>2. ASSUME NEW b \in Nat, r.first <= b, b <= r.last, x.first <= b, b <= x.last PROVE FALSE
    <3>1. Has(free[p], b) /\ Has(free[q], b)
      BY <2>2 DEF Has
    <3> QED BY <3>1 DEF PInv, FreeApart
  <2> QED BY <2>1, <2>2, NoCommonByte DEF Disjoint
<1>2. Spec => []PInv
  BY PoolsBooks
<1> QED BY <1>1, <1>2, PTL

\* A byte that lies in a segment is touched by it.
LEMMA ByteTouched ==
  ASSUME NEW s, s.first \in Nat, s.last \in Nat, NEW b \in Nat, s.first <= b, b <= s.last
  PROVE  Touch(s, b)
BY PageMono DEF Touch

\* No byte of a pool is in two segments, unless they are the same range: the
\* tracker compares each new segment with all it knows, in and out of the pools.
THEOREM SegmentsStayApart ==
  ASSUME Orderly
  PROVE  Spec => []SegmentsApart
<1>1. PInv => SegmentsApart
  <2> SUFFICES ASSUME PInv, NEW s \in segs, NEW t \in segs, [s EXCEPT !.zone = t.zone] # t,
                      NEW b \in (s.first .. s.last) \cap (t.first .. t.last) \cap PoolBytes
               PROVE  FALSE
    BY DEF SegmentsApart
  <2>1. SegsOk(free, full, segs, mem) /\ ListsOk(free, full)
    BY DEF PInv
  <2>2. /\ s = Segment(s, s.zone) /\ s.first \in Nat /\ s.last \in Nat
        /\ t = Segment(t, t.zone) /\ t.first \in Nat /\ t.last \in Nat
    BY <2>1 DEF SegsOk
  <2>3. b \in Nat /\ s.first <= b /\ b <= s.last /\ t.first <= b /\ b <= t.last
    BY <2>2
  <2>4. Touch(s, b) /\ Touch(t, b)
    BY <2>2, <2>3, ByteTouched
  <2>5. HasAny(full, b)
    <3>1. PICK p \in AllPools : \E x \in full[p] : b \in x.first .. x.last
      BY DEF PoolBytes
    <3>2. PICK x \in full[p] : b \in x.first .. x.last
      BY <3>1
    <3>3. x.first \in Nat /\ x.last \in Nat
      BY <2>1, ListFacts
    <3> QED BY <3>2, <3>3 DEF HasAny, Has
  <2>6. Same(s, t)
    BY <2>1, <2>3, <2>4, <2>5 DEF SegsOk
  <2>7. [s EXCEPT !.zone = t.zone] = Segment(s, t.zone)
    BY <2>2 DEF Segment
  <2>8. Segment(s, t.zone) = Segment(t, t.zone)
    BY <2>6 DEF Same, Segment
  <2> QED BY <2>2, <2>7, <2>8
<1>2. Spec => []PInv
  BY PoolsBooks
<1> QED BY <1>1, <1>2, PTL

\* The pages of a segment are free nowhere, and the tracker knows all of a
\* segment that touches memory of a pool, which later checks rely on.
THEOREM TrackerStaysInformed ==
  ASSUME Orderly
  PROVE  Spec => []TrackerKnows
<1>1. PInv => TrackerKnows
  <2> SUFFICES ASSUME PInv, NEW s \in segs
               PROVE  /\ \A p \in AllPools : \A r \in free[p] : PagesOf(r) \cap PagesOf(s) = {}
                      /\ (\E p \in AllPools : \E x \in full[p] : PagesOf(x) \cap PagesOf(s) # {})
                           => \E t \in mem : t.first <= s.first /\ s.last <= t.last
    BY DEF TrackerKnows
  <2>1. SegsOk(free, full, segs, mem) /\ ListsOk(free, full)
    BY DEF PInv
  <2>2. /\ s.first \in Nat /\ s.last \in Nat /\ s.first <= s.last
        /\ \A b \in Nat : HasAny(free, b) => ~Touch(s, b)
        /\ (\E b \in Nat : HasAny(full, b) /\ Touch(s, b))
             => \E t \in mem : t.first <= s.first /\ s.last <= t.last
    BY <2>1 DEF SegsOk
  <2>3. ASSUME NEW x, x.first \in Nat, x.last \in Nat, x.first <= x.last,
               PagesOf(x) \cap PagesOf(s) # {}
        PROVE  \E b \in Nat : x.first <= b /\ b <= x.last /\ Touch(s, b)
    <3>1. PagesOf(s) \cap PagesOf(x) # {}
      BY <2>3
    <3>2. SUFFICES ASSUME \A b \in Nat : x.first <= b /\ b <= x.last => ~Touch(s, b)
                   PROVE  FALSE
      OBVIOUS
    <3> QED BY <2>2, <2>3, <3>1, <3>2, ApartByPages
  <2>4. ASSUME NEW p \in AllPools, NEW r \in free[p], PagesOf(r) \cap PagesOf(s) # {} PROVE FALSE
    <3>1. r.first \in Nat /\ r.last \in Nat /\ r.first <= r.last
      BY <2>1, ListFacts
    <3>2. PICK b \in Nat : r.first <= b /\ b <= r.last /\ Touch(s, b)
      BY <2>3, <2>4, <3>1
    <3> QED BY <2>2, <3>2 DEF HasAny, Has
  <2>5. ASSUME NEW p \in AllPools, NEW x \in full[p], PagesOf(x) \cap PagesOf(s) # {}
        PROVE  \E t \in mem : t.first <= s.first /\ s.last <= t.last
    <3>1. x.first \in Nat /\ x.last \in Nat /\ x.first <= x.last
      BY <2>1, ListFacts
    <3>2. PICK b \in Nat : x.first <= b /\ b <= x.last /\ Touch(s, b)
      BY <2>3, <2>5, <3>1
    <3>3. HasAny(full, b)
      BY <3>2 DEF HasAny, Has
    <3> QED BY <2>2, <3>2, <3>3
  <2> QED BY <2>4, <2>5
<1>2. Spec => []PInv
  BY PoolsBooks
<1> QED BY <1>1, <1>2, PTL

\* A window is one zone's: free in no other pool, with no stranger's segment in
\* it, and each byte free in the zone or on a page of a segment of the zone.
\* mark_window and Zone.alloc take windows that the tracker is not asked about.
THEOREM WindowsStayKept ==
  ASSUME Orderly
  PROVE  Spec => []WindowsKept
<1>1. PInv => WindowsKept
  <2> SUFFICES ASSUME PInv, NEW z \in Zones, NEW w \in windows[z]
               PROVE  LET own == {s \in segs : s.zone = z} IN
                      /\ \A p \in AllPools \ {z} : \A r \in free[p] : Disjoint(r, w)
                      /\ \A s \in segs : Disjoint(s, w) \/ [s EXCEPT !.zone = z] \in own
                      /\ \A b \in w.first .. w.last :
                           \/ \E r \in free[z] : b \in r.first .. r.last
                           \/ \E s \in own : b \div Page \in PagesOf(s)
    BY DEF WindowsKept
  <2>1. /\ SegsOk(free, full, segs, mem) /\ ListsOk(free, full) /\ WindowOk(z, w, free, segs)
        /\ z \in AllPools
    BY PoolConstants DEF PInv, WindowsOk
  <2>2. w.first \in Nat /\ w.last \in Nat /\ w.first <= w.last
    BY <2>1 DEF WindowOk
  <2>3. ASSUME NEW p \in AllPools \ {z}, NEW r \in free[p] PROVE Disjoint(r, w)
    <3>1. r.first \in Nat /\ r.last \in Nat /\ r.first <= r.last
      BY <2>1, ListFacts
    <3>2. \A b \in Nat : ~(r.first <= b /\ b <= r.last /\ w.first <= b /\ b <= w.last)
      BY <2>1 DEF WindowOk, Has
    <3> QED BY <2>2, <3>1, <3>2, NoCommonByte DEF Disjoint
  <2>4. ASSUME NEW s \in segs, ~Disjoint(s, w)
        PROVE  [s EXCEPT !.zone = z] \in segs /\ [s EXCEPT !.zone = z].zone = z
    <3>1. /\ s = Segment(s, s.zone)
          /\ s.first \in Nat /\ s.last \in Nat /\ s.first <= s.last
      BY <2>1 DEF SegsOk
    <3>2. PICK b \in Nat : s.first <= b /\ b <= s.last /\ w.first <= b /\ b <= w.last
      BY <2>2, <2>4, <3>1, NoCommonByte DEF Disjoint
    <3>3. Touch(s, b)
      BY <3>1, <3>2, ByteTouched
    <3>4. Segment(s, z) \in segs
      BY <2>1, <3>2, <3>3 DEF WindowOk
    <3>5. [s EXCEPT !.zone = z] = Segment(s, z) /\ Segment(s, z).zone = z
      BY <3>1 DEF Segment
    <3> QED BY <3>4, <3>5
  <2>5. ASSUME NEW b \in w.first .. w.last
        PROVE  \/ \E r \in free[z] : b \in r.first .. r.last
               \/ \E s \in segs : s.zone = z /\ b \div Page \in PagesOf(s)
    <3>1. b \in Nat /\ w.first <= b /\ b <= w.last
      BY <2>2
    <3>2. CASE Has(free[z], b)
      <4>1. PICK r \in free[z] : r.first <= b /\ b <= r.last
        BY <3>2 DEF Has
      <4>2. r.first \in Nat /\ r.last \in Nat
        BY <2>1, ListFacts
      <4> QED BY <3>1, <4>1, <4>2
    <3>3. CASE \E s \in segs : s.zone = z /\ Touch(s, b)
      <4>1. PICK s \in segs : s.zone = z /\ Touch(s, b)
        BY <3>3
      <4>2. s.first \in Nat /\ s.last \in Nat
        BY <2>1 DEF SegsOk
      <4>3. PageOf(s.first) \in Int /\ PageOf(s.last) \in Int /\ PageOf(b) \in Int
        <5>1. s.first <= s.first /\ s.last <= s.last /\ b <= b
          BY <3>1, <4>2
        <5> QED BY <3>1, <4>2, <5>1, PageMono
      <4>4. b \div Page \in PagesOf(s)
        BY <4>1, <4>3 DEF Touch, PageOf, PagesOf
      <4> QED BY <4>1, <4>4
    <3> QED BY <2>1, <3>1, <3>2, <3>3 DEF WindowOk
  <2> QED BY <2>3, <2>4, <2>5
<1>2. Spec => []PInv
  BY PoolsBooks
<1> QED BY <1>1, <1>2, PTL
=============================================================================
