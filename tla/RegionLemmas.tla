---------------------------- MODULE RegionLemmas ----------------------------
(***************************************************************************)
(* Lists of regions: what merging and cutting make of the bytes on them.   *)
(* The weaver's allocator and the pools built from it rest on these facts. *)
(***************************************************************************)
EXTENDS Regions, ListLemmas

\* A byte is on a list.  Bytes of the same page have the same quotient.
Has(S, b)  == \E r \in S : r.first <= b /\ b <= r.last
PageOf(b)  == b \div Page
Touch(t, b) == PageOf(t.first) <= PageOf(b) /\ PageOf(b) <= PageOf(t.last)
Covers(r, b) == \A c \in Nat : PageOf(c) = PageOf(b) => r.first <= c /\ c <= r.last

\* Regions with an upper bound, and such that no two of them meet.
Bounded(S) ==
  /\ S \subseteq Region /\ \A r \in S : r.first <= r.last
  /\ \E top \in Nat : \A r \in S : r.last <= top
NoneMeet(S) == \A r, x \in S : r # x => r.last < x.first \/ x.last < r.first
Separate(S) ==
  \A r, x \in S : r # x => r.last + 1 < x.first \/ x.last + 1 < r.first
Sound(S) == Bounded(S) /\ Separate(S)
-----------------------------------------------------------------------------
\* The page of a byte begins at the greatest multiple of Page that is not
\* above it.
LEMMA DivBound ==
  ASSUME NEW n \in Nat \ {0}, NEW a \in Int
  PROVE  /\ a \div n \in Int /\ a % n \in 0 .. n - 1
         /\ a = n * (a \div n) + (a % n)
  OBVIOUS

LEMMA Multiples ==
  ASSUME NEW n \in Nat \ {0}, NEW p \in Int, NEW q \in Int, p < q
  PROVE  n * p + n <= n * q
<1>1. n * (q - p - 1) >= 0
  OBVIOUS
<1>2. n * (q - p - 1) = n * q - n * p - n
  OBVIOUS
<1> QED BY <1>1, <1>2

LEMMA DownMultiple ==
  ASSUME NEW n \in Nat \ {0}, NEW a \in Int
  PROVE  /\ AlignDown(a, n) \in Int
         /\ AlignDown(a, n) <= a /\ a < AlignDown(a, n) + n
         /\ AlignDown(a, n) = n * (a \div n)
         /\ AlignDown(a, n) % n = 0
<1>1. /\ a \div n \in Int /\ a % n \in 0 .. n - 1
      /\ a = n * (a \div n) + (a % n)
  BY DivBound
<1>2. AlignDown(a, n) = a - (a % n)
  BY DEF AlignDown
<1>3. AlignDown(a, n) = n * (a \div n)
  BY <1>1, <1>2
<1>4. (n * (a \div n)) % n = 0
  BY <1>1
<1> QED BY <1>1, <1>2, <1>3, <1>4

LEMMA NextMultiple ==
  ASSUME NEW n \in Nat \ {0}, NEW s \in Int, s % n = 0
  PROVE  (s + n) % n = 0
<1> DEFINE q == s \div n
<1>1. q \in Int /\ s = n * q
  BY DivBound
<1> HIDE DEF q
<1>2. s + n = n * (q + 1)
  BY <1>1
<1>3. \A k \in Int : (n * k) % n = 0
  OBVIOUS
<1>4. q + 1 \in Int
  BY <1>1
<1> QED BY <1>2, <1>3, <1>4

LEMMA Quotient ==
  ASSUME NEW n \in Nat \ {0}, NEW a \in Nat
  PROVE  LET s == AlignDown(a, n)
             p == a \div n
         IN p \in Int /\ s \in Int /\ s = n * p /\ s <= a /\ a < s + n /\ s % n = 0
<1> a \in Int
  OBVIOUS
<1>1. a \div n \in Int
  BY DivBound
<1> QED BY <1>1, DownMultiple

LEMMA MultipleBounds ==
  ASSUME NEW n \in Nat \ {0}, NEW s \in Int, s % n = 0, NEW a \in Int
  PROVE  /\ s <= a => s <= AlignDown(a, n)
         /\ a < s + n => AlignDown(a, n) <= s
         /\ a <= s => AlignUp(a, n) <= s
         /\ s < a => s + n <= AlignUp(a, n)
<1> DEFINE p == s \div n
<1>1. p \in Int /\ s = n * p
  BY DivBound
<1>2. ASSUME NEW c \in Int
      PROVE  /\ s <= c => s <= AlignDown(c, n)
             /\ c < s + n => AlignDown(c, n) <= s
  <2> DEFINE q == c \div n
  <2>1. /\ q \in Int /\ AlignDown(c, n) = n * q
        /\ AlignDown(c, n) <= c /\ c < AlignDown(c, n) + n
    BY DownMultiple, DivBound
  <2>2. CASE p = q
    BY <1>1, <2>1, <2>2
  <2>3. CASE p < q
    BY <1>1, <2>1, <2>3, Multiples
  <2>4. CASE q < p
    BY <1>1, <2>1, <2>4, Multiples
  <2> QED BY <1>1, <2>1, <2>2, <2>3, <2>4
<1>3. AlignUp(a, n) = AlignDown(a + n - 1, n) /\ a + n - 1 \in Int
  BY DEF AlignUp
<1>4. a <= s => AlignUp(a, n) <= s
  BY <1>2, <1>3
<1>5. ASSUME s < a PROVE s + n <= AlignUp(a, n)
  <2> DEFINE q == (a + n - 1) \div n
  <2>1. /\ q \in Int /\ AlignUp(a, n) = n * q
        /\ a + n - 1 < AlignUp(a, n) + n
    BY <1>3, DownMultiple, DivBound
  <2>2. s < n * q
    BY <1>5, <2>1
  <2>3. p < q
    <3>1. CASE q < p
      BY <1>1, <2>1, <2>2, <3>1, Multiples
    <3> QED BY <1>1, <2>1, <2>2, <3>1
  <2> QED BY <1>1, <2>1, <2>3, Multiples
<1> QED BY <1>2, <1>4, <1>5

LEMMA UpMultiple ==
  ASSUME NEW n \in Nat \ {0}, NEW a \in Int
  PROVE  /\ AlignUp(a, n) \in Int /\ AlignUp(a, n) % n = 0
         /\ a <= AlignUp(a, n) /\ AlignUp(a, n) < a + n
<1> a + n - 1 \in Int
  OBVIOUS
<1> QED BY DownMultiple DEF AlignUp

\* A page is Page bytes from a multiple of Page on; its bytes have the same
\* quotient, and later bytes no smaller one.
LEMMA PageBytes ==
  ASSUME NEW b \in Nat
  PROVE  LET s == AlignDown(b, Page) IN
         /\ s \in Nat /\ s % Page = 0 /\ s <= b /\ b < s + Page
         /\ PageOf(b) \in Int
         /\ \A c \in Nat : PageOf(c) = PageOf(b) <=> s <= c /\ c < s + Page
<1> Page \in Nat \ {0} /\ Page \in Int
  BY PageAssumption
<1> DEFINE s == AlignDown(b, Page)
           p == b \div Page
<1>1. /\ s \in Int /\ s = Page * p /\ s <= b /\ b < s + Page /\ s % Page = 0
      /\ p \in Int
  BY Quotient
<1>2. s >= 0
  <2>1. 0 % Page = 0
    OBVIOUS
  <2> QED BY <2>1, MultipleBounds
<1>3. ASSUME NEW c \in Nat PROVE PageOf(c) = PageOf(b) <=> s <= c /\ c < s + Page
  <2> DEFINE u == AlignDown(c, Page)
             q == c \div Page
  <2>1. /\ u \in Int /\ u = Page * q /\ u <= c /\ c < u + Page /\ q \in Int
    BY Quotient
  <2>2. CASE p = q
    BY <1>1, <2>1, <2>2 DEF PageOf
  <2>3. CASE p < q
    BY <1>1, <2>1, <2>3, Multiples DEF PageOf
  <2>4. CASE q < p
    BY <1>1, <2>1, <2>4, Multiples DEF PageOf
  <2> QED BY <1>1, <2>1, <2>2, <2>3, <2>4
<1> QED BY <1>1, <1>2, <1>3 DEF PageOf

LEMMA PageMono ==
  ASSUME NEW a \in Nat, NEW b \in Nat, a <= b
  PROVE  PageOf(a) \in Int /\ PageOf(b) \in Int /\ PageOf(a) <= PageOf(b)
<1> Page \in Nat \ {0} /\ Page \in Int
  BY PageAssumption
<1> DEFINE s == AlignDown(a, Page)
           u == AlignDown(b, Page)
           p == a \div Page
           q == b \div Page
<1>1. /\ s \in Int /\ s = Page * p /\ s <= a /\ a < s + Page /\ p \in Int
      /\ u \in Int /\ u = Page * q /\ u <= b /\ b < u + Page /\ q \in Int
  BY Quotient
<1>2. CASE q < p
  BY <1>1, <1>2, Multiples
<1> QED BY <1>1, <1>2 DEF PageOf

\* Whole pages hold all of the page of each of their bytes.
LEMMA WholeCovers ==
  ASSUME NEW r \in Region, Whole(r), NEW b \in Nat, r.first <= b, b <= r.last
  PROVE  Covers(r, b)
<1> Page \in Nat \ {0} /\ Page \in Int
  BY PageAssumption
<1> DEFINE s == AlignDown(b, Page)
<1>1. /\ s \in Nat /\ s <= b /\ b < s + Page
      /\ \A c \in Nat : PageOf(c) = PageOf(b) <=> s <= c /\ c < s + Page
  BY PageBytes
<1>2. r.first \in Nat /\ r.last \in Nat /\ r.first % Page = 0 /\ (r.last + 1) % Page = 0
  BY DEF Region, Whole
<1>3. r.first <= s
  BY <1>2, MultipleBounds
<1>4. s + Page <= r.last + 1
  <2> DEFINE e == r.last + 1
  <2>1. e \in Int /\ e % Page = 0 /\ b < e
    BY <1>2
  <2>2. AlignUp(b + 1, Page) <= e
    BY <2>1, MultipleBounds
  <2>3. s % Page = 0 /\ s < b + 1
    BY <1>1, PageBytes
  <2>4. s + Page <= AlignUp(b + 1, Page)
    BY <1>1, <2>3, MultipleBounds
  <2>5. AlignUp(b + 1, Page) \in Int
    BY UpMultiple
  <2> QED BY <1>1, <2>1, <2>2, <2>4, <2>5
<1> QED BY <1>1, <1>2, <1>3, <1>4 DEF Covers
-----------------------------------------------------------------------------
(* Lists of regions: the lowest, the highest, and what merging does.       *)

LEMMA RegionFields ==
  ASSUME NEW r \in Region
  PROVE  r.first \in Nat /\ r.last \in Nat
BY DEF Region

LEMMA CutLast ==
  ASSUME NEW r \in Region, NEW a \in Nat
  PROVE  /\ [r EXCEPT !.last = a] \in Region
         /\ [r EXCEPT !.last = a].first = r.first /\ [r EXCEPT !.last = a].last = a
BY DEF Region

LEMMA CutFirst ==
  ASSUME NEW r \in Region, NEW a \in Nat
  PROVE  /\ [r EXCEPT !.first = a] \in Region
         /\ [r EXCEPT !.first = a].first = a /\ [r EXCEPT !.first = a].last = r.last
BY DEF Region

LEMMA CutBoth ==
  ASSUME NEW r \in Region, NEW a \in Nat, NEW c \in Nat
  PROVE  /\ [r EXCEPT !.first = a, !.last = c] \in Region
         /\ [r EXCEPT !.first = a, !.last = c].first = a
         /\ [r EXCEPT !.first = a, !.last = c].last = c
BY DEF Region

LEMMA LowestRegion ==
  ASSUME NEW S \in SUBSET Region, S # {}
  PROVE  Lowest(S) \in S /\ \A x \in S : Lowest(S).first <= x.first
<1> DEFINE F == {r.first : r \in S}
<1>0. \A r \in S : r.first \in Nat
  BY RegionFields
<1>1. F \in SUBSET Nat /\ F # {}
  BY <1>0
<1>2. PICK m \in F : \A k \in F : m <= k
  BY <1>1, LeastNat
<1>3. \E r \in S : \A x \in S : r.first <= x.first
  BY <1>2
<1> QED BY <1>3 DEF Lowest

LEMMA HighestRegion ==
  ASSUME NEW S, Bounded(S), NEW T \in SUBSET S, T # {}
  PROVE  \E x \in T : \A y \in T : y.first <= x.first
<1>1. PICK top \in Nat : \A r \in S : r.last <= top
  BY DEF Bounded
<1>2. \A r \in S : r.first \in Nat /\ r.last \in Nat /\ r.first <= r.last
  BY RegionFields DEF Bounded
<1>3. \A r \in S : top - r.first \in Nat
  <2> SUFFICES ASSUME NEW r \in S PROVE top - r.first \in Nat
    OBVIOUS
  <2>1. r.first \in Nat /\ r.last \in Nat /\ r.first <= r.last /\ r.last <= top
    BY <1>1, <1>2
  <2> DEFINE a == r.first
             c == r.last
  <2>2. a \in Nat /\ c \in Nat /\ a <= c /\ c <= top
    BY <2>1
  <2> HIDE DEF a, c
  <2>3. top - a \in Nat
    BY <2>2
  <2> QED BY <2>3 DEF a
<1> DEFINE F == {k \in Nat : \E r \in T : k = top - r.first}
<1>4. F \in SUBSET Nat /\ F # {}
  BY <1>3
<1>5. PICK m \in F : \A k \in F : m <= k
  BY <1>4, LeastNat
<1>6. PICK x \in T : m = top - x.first
  BY <1>5
<1>7. ASSUME NEW y \in T PROVE y.first <= x.first
  <2> DEFINE k == top - y.first
  <2>0. k \in F
    BY <1>3
  <2> HIDE DEF F
  <2>1. top - x.first <= k
    BY <1>5, <1>6, <2>0
  <2>2. x.first \in Nat /\ y.first \in Nat
    BY <1>2
  <2> QED BY <2>1, <2>2
<1> QED BY <1>7

\* The ends of the chains that a region can be the head of.
EndsOf(S, r) ==
  {x \in S : x.first >= r.first /\ \A y \in S : y.first # x.last + 1}
Heads(S) == {r \in S : \A x \in S : x.last + 1 # r.first}

LEMMA ChainEnd ==
  ASSUME NEW S, Bounded(S), NoneMeet(S), NEW r \in S
  PROVE  LET e == Lowest(EndsOf(S, r)) IN
         /\ e \in S /\ r.first <= e.first /\ r.last <= e.last
         /\ \A y \in S : y.first # e.last + 1
         /\ \A x \in S : r.first <= x.first /\ x.first < e.first =>
              \E y \in S : y.first = x.last + 1
<1> DEFINE e == Lowest(EndsOf(S, r))
<1>1. /\ S \subseteq Region
      /\ \A x \in S : x.first \in Nat /\ x.last \in Nat /\ x.first <= x.last
  BY RegionFields DEF Bounded
<1>2. EndsOf(S, r) # {} /\ EndsOf(S, r) \in SUBSET Region
  <2> DEFINE T == {x \in S : x.first >= r.first}
  <2>1. T \in SUBSET S /\ r \in T
    BY <1>1
  <2>2. PICK x \in T : \A y \in T : y.first <= x.first
    BY <2>1, HighestRegion
  <2>3. ASSUME NEW y \in S, y.first = x.last + 1 PROVE FALSE
    <3>1. x \in S /\ x.first >= r.first /\ x.last >= x.first
      BY <1>1, <2>2
    <3>2. y.first > x.first /\ y.first >= r.first
      BY <1>1, <2>3, <3>1
    <3>3. y \in T
      BY <3>2
    <3> QED BY <1>1, <2>2, <3>1, <3>2, <3>3
  <2>4. x \in EndsOf(S, r)
    BY <2>2, <2>3 DEF EndsOf
  <2> QED BY <1>1, <2>4 DEF EndsOf
<1>3. e \in EndsOf(S, r) /\ \A x \in EndsOf(S, r) : e.first <= x.first
  BY <1>2, LowestRegion
<1>4. /\ e \in S /\ r.first <= e.first /\ \A y \in S : y.first # e.last + 1
  BY <1>1, <1>3 DEF EndsOf
<1>5. ASSUME NEW x \in S, r.first <= x.first, x.first < e.first
      PROVE  \E y \in S : y.first = x.last + 1
  <2>1. x \notin EndsOf(S, r)
    BY <1>1, <1>3, <1>4, <1>5
  <2> QED BY <1>1, <1>5, <2>1 DEF EndsOf
<1>6. r.last <= e.last
  <2>1. CASE e = r
    BY <1>1, <2>1
  <2>2. CASE e # r
    <3>1. r.last < e.first \/ e.last < r.first
      BY <1>4, <2>2 DEF NoneMeet
    <3> QED BY <1>1, <1>4, <3>1
  <2> QED BY <2>1, <2>2
<1> QED BY <1>4, <1>5, <1>6

LEMMA MergedForm ==
  ASSUME NEW S
  PROVE  Merged(S) = {[r EXCEPT !.last = Lowest(EndsOf(S, r)).last] : r \in Heads(S)}
BY DEF Merged, EndsOf, Heads

LEMMA MergedList ==
  ASSUME NEW S, Bounded(S), NoneMeet(S)
  PROVE  /\ Sound(Merged(S))
         /\ \A b \in Nat : Has(Merged(S), b) <=> Has(S, b)
         /\ (\A r \in S : Whole(r)) => \A m \in Merged(S) : Whole(m)
         /\ \A m \in Merged(S) : \E r \in S : m.first <= r.first /\ r.last <= m.last
<1> DEFINE M == Merged(S)
           End(r) == Lowest(EndsOf(S, r))
<1>1. /\ S \subseteq Region
      /\ \A x \in S : x.first \in Nat /\ x.last \in Nat /\ x.first <= x.last
  BY RegionFields DEF Bounded
<1>2. Heads(S) \subseteq S
  BY DEF Heads
<1>3. ASSUME NEW r \in S
      PROVE  /\ End(r) \in S /\ r.first <= End(r).first /\ r.last <= End(r).last
             /\ \A y \in S : y.first # End(r).last + 1
             /\ \A x \in S : r.first <= x.first /\ x.first < End(r).first =>
                  \E y \in S : y.first = x.last + 1
  BY ChainEnd
<1> HIDE DEF End
<1>4. ASSUME NEW m \in M
      PROVE  \E r \in Heads(S) : /\ m = [r EXCEPT !.last = End(r).last]
                                 /\ m \in Region
                                 /\ m.first = r.first /\ m.last = End(r).last
  <2>1. PICK r \in Heads(S) : m = [r EXCEPT !.last = End(r).last]
    BY MergedForm DEF End
  <2>2. r \in Region /\ End(r).last \in Nat
    BY <1>1, <1>2, <1>3
  <2> QED BY <2>1, <2>2, CutLast
<1>5. ASSUME NEW r \in Heads(S)
      PROVE  \E m \in M : m.first = r.first /\ m.last = End(r).last
  <2> DEFINE m == [r EXCEPT !.last = End(r).last]
  <2>1. m \in M
    BY MergedForm DEF End
  <2>2. r \in Region /\ End(r).last \in Nat
    BY <1>1, <1>2, <1>3
  <2>3. m.first = r.first /\ m.last = End(r).last
    BY <2>2, CutLast
  <2> HIDE DEF m, M
  <2> QED BY <2>1, <2>3
<1> HIDE DEF M
\* Between a head and the end of its chain there is no other head.
<1>6. ASSUME NEW r \in Heads(S), NEW h \in Heads(S), r.first < h.first
      PROVE  End(r).last + 1 < h.first
  <2> DEFINE e == End(r)
             T == {x \in S : x.first < h.first}
  <2>0. r \in S /\ h \in S /\ e \in S
    BY <1>2, <1>3
  <2>1. r \in T /\ T \in SUBSET S
    BY <1>6, <2>0
  <2>2. PICK x \in T : \A y \in T : y.first <= x.first
    BY <2>1, HighestRegion
  <2>3. x \in S /\ x.first < h.first /\ r.first <= x.first
    BY <2>1, <2>2
  <2>4. x.last < h.first
    <3>1. x # h
      BY <1>1, <2>0, <2>3
    <3>2. x.last < h.first \/ h.last < x.first
      BY <2>0, <2>3, <3>1 DEF NoneMeet
    <3> QED BY <1>1, <2>0, <2>3, <3>2
  <2>5. ~ \E y \in S : y.first = x.last + 1
    <3>1. SUFFICES ASSUME NEW y \in S, y.first = x.last + 1 PROVE FALSE
      OBVIOUS
    <3>2. y.first > x.first /\ y.first <= h.first
      BY <1>1, <2>0, <2>3, <2>4, <3>1
    <3>3. y.first = h.first
      <4>1. y \notin T
        BY <1>1, <2>2, <2>3, <3>2
      <4> QED BY <1>1, <2>0, <3>2, <4>1
    <3> QED BY <2>3, <3>1, <3>3 DEF Heads
  <2>6. ~ x.first < e.first
    BY <1>3, <2>0, <2>3, <2>5
  <2>7. e.first < h.first
    BY <1>1, <2>0, <2>3, <2>6
  <2>8. e.last < h.first
    <3>1. e # h
      BY <1>1, <2>0, <2>7
    <3>2. e.last < h.first \/ h.last < e.first
      BY <2>0, <3>1 DEF NoneMeet
    <3> QED BY <1>1, <2>0, <2>7, <3>2
  <2>9. e.last + 1 # h.first
    BY <2>0 DEF Heads
  <2> QED BY <1>1, <2>0, <2>8, <2>9
<1>7. Sound(M)
  <2>1. M \subseteq Region /\ \A m \in M : m.first <= m.last
    <3> SUFFICES ASSUME NEW m \in M PROVE m \in Region /\ m.first <= m.last
      OBVIOUS
    <3>1. PICK r \in Heads(S) : m \in Region /\ m.first = r.first /\ m.last = End(r).last
      BY <1>4
    <3>2. r \in S /\ End(r) \in S /\ r.last <= End(r).last
      BY <1>2, <1>3
    <3> QED BY <1>1, <3>1, <3>2
  <2>2. PICK top \in Nat : \A r \in S : r.last <= top
    BY DEF Bounded
  <2>3. \A m \in M : m.last <= top
    BY <1>2, <1>3, <1>4, <2>2
  <2>4. ASSUME NEW m \in M, NEW n \in M, m # n
        PROVE  m.last + 1 < n.first \/ n.last + 1 < m.first
    <3>1. PICK r \in Heads(S) : m = [r EXCEPT !.last = End(r).last]
                                /\ m.first = r.first /\ m.last = End(r).last
      BY <1>4
    <3>2. PICK h \in Heads(S) : n = [h EXCEPT !.last = End(h).last]
                                /\ n.first = h.first /\ n.last = End(h).last
      BY <1>4
    <3>3. r # h /\ r \in S /\ h \in S
      BY <1>2, <2>4, <3>1, <3>2
    <3>4. r.first # h.first
      <4>1. r.last < h.first \/ h.last < r.first
        BY <3>3 DEF NoneMeet
      <4> QED BY <1>1, <3>3, <4>1
    <3>5. r.first < h.first \/ h.first < r.first
      BY <1>1, <3>3, <3>4
    <3> QED BY <1>6, <3>1, <3>2, <3>5
  <2> QED BY <2>1, <2>2, <2>3, <2>4 DEF Sound, Bounded, Separate
<1>8. ASSUME NEW b \in Nat, Has(M, b) PROVE Has(S, b)
  <2>1. PICK m \in M : m.first <= b /\ b <= m.last
    BY <1>8 DEF Has
  <2>2. PICK r \in Heads(S) : m.first = r.first /\ m.last = End(r).last
    BY <1>4
  <2> DEFINE e == End(r)
             T == {x \in S : x.first <= b}
  <2>3. /\ r \in S /\ e \in S /\ r.first <= b /\ b <= e.last
        /\ \A x \in S : r.first <= x.first /\ x.first < e.first =>
             \E y \in S : y.first = x.last + 1
    BY <1>2, <1>3, <2>1, <2>2
  <2>4. r \in T /\ T \in SUBSET S
    BY <2>3
  <2>5. PICK x \in T : \A y \in T : y.first <= x.first
    BY <2>4, HighestRegion
  <2>6. x \in S /\ x.first <= b /\ r.first <= x.first
    BY <2>4, <2>5
  <2>7. CASE b <= x.last
    BY <2>6, <2>7 DEF Has
  <2>8. CASE x.last < b
    <3>1. x.first < e.first
      <4>1. SUFFICES ASSUME e.first <= x.first PROVE FALSE
        BY <1>1, <2>3, <2>6
      <4>2. x # e
        BY <1>1, <2>3, <2>6, <2>8
      <4>3. x.last < e.first \/ e.last < x.first
        BY <2>3, <2>6, <4>2 DEF NoneMeet
      <4> QED BY <1>1, <2>3, <2>6, <2>8, <4>1, <4>3
    <3>2. PICK y \in S : y.first = x.last + 1
      BY <2>3, <2>6, <3>1
    <3>3. y.first <= b /\ y.first > x.first
      BY <1>1, <2>6, <2>8, <3>2
    <3>4. y \in T
      BY <3>3
    <3> QED BY <1>1, <2>5, <2>6, <3>3, <3>4
  <2> QED BY <1>1, <2>6, <2>7, <2>8
<1>9. ASSUME NEW b \in Nat, Has(S, b) PROVE Has(M, b)
  <2>1. PICK x \in S : x.first <= b /\ b <= x.last
    BY <1>9 DEF Has
  <2> DEFINE T == {h \in Heads(S) : h.first <= x.first}
  <2>2. T # {} /\ T \in SUBSET S
    <3>1. S \in SUBSET Region /\ S # {}
      BY <1>1
    <3> DEFINE l == Lowest(S)
    <3>2. l \in S /\ \A y \in S : l.first <= y.first
      BY <3>1, LowestRegion
    <3> HIDE DEF l
    <3>3. ASSUME NEW y \in S, y.last + 1 = l.first PROVE FALSE
      BY <1>1, <3>2, <3>3
    <3>4. l \in Heads(S)
      BY <3>2, <3>3 DEF Heads
    <3> QED BY <1>2, <3>2, <3>4
  <2>3. PICK h \in T : \A y \in T : y.first <= h.first
    BY <2>2, HighestRegion
  <2> DEFINE e == End(h)
  <2>4. /\ h \in S /\ h \in Heads(S) /\ h.first <= x.first /\ e \in S
        /\ h.first <= e.first /\ \A y \in S : y.first # e.last + 1
    BY <1>2, <1>3, <2>3
  <2> HIDE DEF e
  <2>5. x.last <= e.last
    <3>1. SUFFICES ASSUME e.last < x.last PROVE FALSE
      BY <1>1, <2>4
    <3>2. e.last < x.first
      <4>1. e # x
        BY <1>1, <2>4, <3>1
      <4>2. e.last < x.first \/ x.last < e.first
        BY <2>4, <4>1 DEF NoneMeet
      <4> QED BY <1>1, <2>4, <3>1, <4>2
    <3> DEFINE U == {y \in S : y.first > e.last}
    <3>3. x \in U /\ U \in SUBSET Region
      BY <1>1, <2>4, <3>2
    <3> DEFINE y == Lowest(U)
    <3>4. y \in U /\ \A z \in U : y.first <= z.first
      BY <3>3, LowestRegion
    <3> HIDE DEF y
    <3>5. y \in S /\ y.first > e.last /\ y.first <= x.first
      BY <3>3, <3>4
    <3>6. ASSUME NEW z \in S, z.last + 1 = y.first PROVE FALSE
      <4>1. z.first < y.first
        BY <1>1, <3>5, <3>6
      <4>2. z.first <= e.last
        <5>1. z \notin U
          BY <1>1, <3>4, <3>5, <4>1
        <5> QED BY <1>1, <2>4, <5>1
      <4>3. z # e
        BY <2>4, <3>5, <3>6
      <4>4. z.last < e.first \/ e.last < z.first
        BY <2>4, <4>3 DEF NoneMeet
      <4> QED BY <1>1, <2>4, <3>5, <3>6, <4>2, <4>4
    <3>7. y \in Heads(S)
      BY <3>5, <3>6 DEF Heads
    <3>8. y \in T
      BY <3>5, <3>7
    <3> QED BY <1>1, <2>3, <2>4, <3>5, <3>8
  <2>6. PICK m \in M : m.first = h.first /\ m.last = e.last
    BY <1>5, <2>4 DEF e
  <2>7. m.first <= b /\ b <= m.last
    BY <1>1, <2>1, <2>4, <2>5, <2>6
  <2> QED BY <2>7 DEF Has
<1>10. ASSUME \A r \in S : Whole(r), NEW m \in M PROVE Whole(m)
  <2>1. PICK r \in Heads(S) : m.first = r.first /\ m.last = End(r).last
    BY <1>4
  <2>2. r \in S /\ End(r) \in S /\ r.last <= End(r).last
    BY <1>2, <1>3
  <2>3. Whole(r) /\ Whole(End(r))
    BY <1>10, <2>2
  <2> QED BY <1>1, <2>1, <2>2, <2>3 DEF Whole
<1>11. \A m \in M : \E r \in S : m.first <= r.first /\ r.last <= m.last
  BY <1>1, <1>2, <1>3, <1>4
<1> QED BY <1>7, <1>8, <1>9, <1>10, <1>11 DEF M
-----------------------------------------------------------------------------
(* Cutting regions up: what mark and the end of alloc do to a list.        *)

\* Parts of the regions of a list, separate within each region.
LEMMA PartsSound ==
  ASSUME NEW S, Sound(S), NEW T \in SUBSET Region,
         \A x \in T : x.first <= x.last,
         \A x \in T : \E r \in S : r.first <= x.first /\ x.last <= r.last,
         \A r \in S, x, y \in T :
           x # y /\ r.first <= x.first /\ x.last <= r.last
                 /\ r.first <= y.first /\ y.last <= r.last =>
             x.last + 1 < y.first \/ y.last + 1 < x.first
  PROVE  Sound(T)
<1>1. /\ S \subseteq Region
      /\ \A r \in S : r.first \in Nat /\ r.last \in Nat
  BY RegionFields DEF Sound, Bounded
<1>2. \A x \in T : x.first \in Nat /\ x.last \in Nat
  BY RegionFields
<1>3. PICK top \in Nat : \A r \in S : r.last <= top
  BY DEF Sound, Bounded
<1>4. \A x \in T : x.last <= top
  <2> SUFFICES ASSUME NEW x \in T PROVE x.last <= top
    OBVIOUS
  <2>1. PICK r \in S : x.last <= r.last
    OBVIOUS
  <2> QED BY <1>1, <1>2, <1>3, <2>1
<1>5. ASSUME NEW x \in T, NEW y \in T, x # y
      PROVE  x.last + 1 < y.first \/ y.last + 1 < x.first
  <2>1. PICK r \in S : r.first <= x.first /\ x.last <= r.last
    OBVIOUS
  <2>2. PICK q \in S : q.first <= y.first /\ y.last <= q.last
    OBVIOUS
  <2>3. CASE r = q
    BY <1>5, <2>1, <2>2, <2>3
  <2>4. CASE r # q
    <3>1. r.last + 1 < q.first \/ q.last + 1 < r.first
      BY <2>4 DEF Sound, Separate
    <3> QED BY <1>1, <1>2, <2>1, <2>2, <3>1
  <2> QED BY <2>3, <2>4
<1> QED BY <1>3, <1>4, <1>5 DEF Sound, Bounded, Separate

LEMMA SoundIsDisjoint ==
  ASSUME NEW S, Sound(S)
  PROVE  Bounded(S) /\ NoneMeet(S)
<1>1. \A r \in S : r.first \in Nat /\ r.last \in Nat
  BY RegionFields DEF Sound, Bounded
<1>2. NoneMeet(S)
  BY <1>1 DEF Sound, Separate, NoneMeet
<1> QED BY <1>2 DEF Sound

\* A part of a list is as sound as the list.
LEMMA SubsetSound ==
  ASSUME NEW S, Sound(S), NEW T \in SUBSET S
  PROVE  Sound(T)
BY DEF Sound, Bounded, Separate

LEMMA RestParts ==
  ASSUME NEW r \in Region, NEW lo \in Nat, NEW hi \in Nat, lo <= hi,
         lo <= r.last, r.first <= hi
  PROVE  /\ \A x \in Rest(r, lo, hi) :
              /\ x \in Region /\ x.first <= x.last
              /\ r.first <= x.first /\ x.last <= r.last
              /\ \/ x.first = r.first /\ x.last = lo - 1
                 \/ x.first = hi + 1 /\ x.last = r.last
              /\ x.last < lo \/ hi < x.first
         /\ \A x, y \in Rest(r, lo, hi) :
              x # y => x.last + 1 < y.first \/ y.last + 1 < x.first
         /\ \A b \in Nat :
              Has(Rest(r, lo, hi), b) <=> r.first <= b /\ b <= r.last /\ ~(lo <= b /\ b <= hi)
<1> DEFINE below == [r EXCEPT !.last = lo - 1]
           above == [r EXCEPT !.first = hi + 1]
<1>0. r.first \in Nat /\ r.last \in Nat
  BY RegionFields
<1>1. r.first < lo => below \in Region /\ below.first = r.first /\ below.last = lo - 1
  <2> SUFFICES ASSUME r.first < lo
               PROVE  below \in Region /\ below.first = r.first /\ below.last = lo - 1
    OBVIOUS
  <2> DEFINE k == lo - 1
  <2>1. k \in Nat
    BY <1>0
  <2> HIDE DEF k
  <2>2. /\ [r EXCEPT !.last = k] \in Region
        /\ [r EXCEPT !.last = k].first = r.first /\ [r EXCEPT !.last = k].last = k
    BY <2>1, CutLast
  <2> QED BY <2>2 DEF k
<1>2. above \in Region /\ above.first = hi + 1 /\ above.last = r.last
  <2>1. hi + 1 \in Nat
    OBVIOUS
  <2> QED BY <2>1, CutFirst
<1>3. \A x : x \in Rest(r, lo, hi) <=>
        \/ r.first < lo /\ x = below
        \/ hi < r.last /\ x = above
  BY DEF Rest
<1> HIDE DEF below, above
<1>4. ASSUME NEW x, x = below, r.first < lo
      PROVE  /\ x \in Region /\ x.first <= x.last
             /\ r.first <= x.first /\ x.last <= r.last
             /\ x.first = r.first /\ x.last = lo - 1 /\ x.last < lo
  BY <1>0, <1>1, <1>4
<1>5. ASSUME NEW x, x = above, hi < r.last
      PROVE  /\ x \in Region /\ x.first <= x.last
             /\ r.first <= x.first /\ x.last <= r.last
             /\ x.first = hi + 1 /\ x.last = r.last /\ hi < x.first
  BY <1>0, <1>2, <1>5
<1>6. ASSUME NEW x \in Rest(r, lo, hi)
      PROVE  /\ x \in Region /\ x.first <= x.last
             /\ r.first <= x.first /\ x.last <= r.last
             /\ \/ x.first = r.first /\ x.last = lo - 1
                \/ x.first = hi + 1 /\ x.last = r.last
             /\ x.last < lo \/ hi < x.first
  <2>1. CASE r.first < lo /\ x = below
    BY <1>4, <2>1
  <2>2. CASE hi < r.last /\ x = above
    BY <1>5, <2>2
  <2> QED BY <1>3, <2>1, <2>2
<1>7. ASSUME NEW x \in Rest(r, lo, hi), NEW y \in Rest(r, lo, hi), x # y
      PROVE  x.last + 1 < y.first \/ y.last + 1 < x.first
  <2>1. CASE r.first < lo /\ x = below
    <3>1. hi < r.last /\ y = above
      BY <1>3, <1>7, <2>1
    <3> QED BY <1>4, <1>5, <2>1, <3>1
  <2>2. CASE hi < r.last /\ x = above
    <3>1. r.first < lo /\ y = below
      BY <1>3, <1>7, <2>2
    <3> QED BY <1>4, <1>5, <2>2, <3>1
  <2> QED BY <1>3, <2>1, <2>2
<1>8. ASSUME NEW b \in Nat
      PROVE  Has(Rest(r, lo, hi), b)
               <=> r.first <= b /\ b <= r.last /\ ~(lo <= b /\ b <= hi)
  <2>1. ASSUME Has(Rest(r, lo, hi), b)
        PROVE  r.first <= b /\ b <= r.last /\ ~(lo <= b /\ b <= hi)
    <3>1. PICK x \in Rest(r, lo, hi) : x.first <= b /\ b <= x.last
      BY <2>1 DEF Has
    <3>2. x.first \in Nat /\ x.last \in Nat
      BY <1>6, RegionFields
    <3> QED BY <1>0, <1>6, <3>1, <3>2
  <2>2. ASSUME r.first <= b, b <= r.last, b < lo PROVE Has(Rest(r, lo, hi), b)
    <3>1. r.first < lo /\ below \in Rest(r, lo, hi)
      BY <1>0, <1>3, <2>2
    <3>2. below.first <= b /\ b <= below.last
      BY <1>0, <1>1, <2>2, <3>1
    <3> QED BY <3>1, <3>2 DEF Has
  <2>3. ASSUME r.first <= b, b <= r.last, hi < b PROVE Has(Rest(r, lo, hi), b)
    <3>1. hi < r.last /\ above \in Rest(r, lo, hi)
      BY <1>0, <1>3, <2>3
    <3>2. above.first <= b /\ b <= above.last
      BY <1>0, <1>2, <2>3, <3>1
    <3> QED BY <3>1, <3>2 DEF Has
  <2> QED BY <2>1, <2>2, <2>3
<1> QED BY <1>6, <1>7, <1>8

\* The range mark takes out: whole pages, those that the marked bytes touch.
LEMMA MarkBounds ==
  ASSUME NEW m, m.base \in Nat, m.size \in Nat \ {0}
  PROVE  LET lo == AlignDown(m.base, Page)
             hi == MarkEnd(m)
             t  == [first |-> m.base, last |-> m.base + m.size - 1]
         IN /\ lo \in Nat /\ hi \in Nat /\ lo <= hi
            /\ lo % Page = 0 /\ (hi + 1) % Page = 0
            /\ \A b \in Nat : lo <= b /\ b <= hi => Touch(t, b)
            /\ m.size = 1 \/ (m.base + m.size - 1) % Page # 0 =>
                 \A b \in Nat : Touch(t, b) => lo <= b /\ b <= hi
<1> Page \in Nat \ {0} /\ Page \in Int
  BY PageAssumption
<1> DEFINE f == m.base
           e == m.base + m.size - 1
           k == IF e = f THEN e + 1 ELSE e
           lo == AlignDown(f, Page)
           u  == AlignDown(e, Page)
           up == AlignUp(k, Page)
           t  == [first |-> f, last |-> e]
<1>1. f \in Nat /\ e \in Nat /\ f <= e /\ k \in Nat /\ k > f /\ (k = e \/ k = e + 1)
  OBVIOUS
<1>1a. m.size = 1 => k = e + 1
  OBVIOUS
<1>2. MarkEnd(m) = up - 1
  BY DEF MarkEnd
<1>3. t.first = f /\ t.last = e
  OBVIOUS
<1>4. ((m.base + m.size - 1) % Page # 0) <=> (e % Page # 0)
  OBVIOUS
<1> HIDE DEF f, e, k, t
<1>5. /\ lo \in Nat /\ lo % Page = 0 /\ lo <= f /\ f < lo + Page
      /\ \A c \in Nat : PageOf(c) = PageOf(f) <=> lo <= c /\ c < lo + Page
  BY <1>1, PageBytes
<1>6. /\ u \in Nat /\ u % Page = 0 /\ u <= e /\ e < u + Page
      /\ \A c \in Nat : PageOf(c) = PageOf(e) <=> u <= c /\ c < u + Page
  BY <1>1, PageBytes
<1>7. up \in Int /\ up % Page = 0 /\ k <= up /\ up < k + Page
  BY <1>1, UpMultiple
<1> HIDE DEF lo, u, up
<1>8. up <= u + Page
  <2> DEFINE v == u + Page
  <2>1. v \in Int /\ k <= v
    BY <1>1, <1>6
  <2>2. v % Page = 0
    BY <1>6
  <2> HIDE DEF v
  <2>3. AlignUp(k, Page) <= v
    BY <1>1, <2>1, <2>2, MultipleBounds
  <2> QED BY <2>3 DEF v, up
<1>9. m.size = 1 \/ e % Page # 0 => u + Page <= up
  <2>1. CASE u < k
    <3>0. u \in Int /\ k \in Int /\ u % Page = 0
      BY <1>1, <1>6
    <3>1. u + Page <= AlignUp(k, Page)
      BY <2>1, <3>0, MultipleBounds
    <3> QED BY <3>1 DEF up
  <2>2. CASE ~(u < k)
    <3>1. k = e /\ u = e
      BY <1>1, <1>6, <2>2
    <3>2. e % Page = 0 /\ m.size # 1
      BY <1>1, <1>1a, <1>6, <3>1
    <3> QED BY <3>2
  <2> QED BY <2>1, <2>2
<1>10. ASSUME NEW b \in Nat
       PROVE  Touch(t, b) <=> lo <= b /\ b < u + Page
  <2>1. /\ PageOf(f) \in Int /\ PageOf(b) \in Int /\ PageOf(e) \in Int
        /\ f <= b => PageOf(f) <= PageOf(b)
        /\ b <= f => PageOf(b) <= PageOf(f)
        /\ e <= b => PageOf(e) <= PageOf(b)
        /\ b <= e => PageOf(b) <= PageOf(e)
    BY <1>1, PageMono
  <2>2. PageOf(f) <= PageOf(b) <=> lo <= b
    BY <1>1, <1>5, <2>1
  <2>3. PageOf(b) <= PageOf(e) <=> b < u + Page
    BY <1>1, <1>6, <2>1
  <2> QED BY <1>3, <2>2, <2>3 DEF Touch
<1>11. /\ up - 1 \in Nat /\ lo <= up - 1
       /\ \A b \in Nat : b <= up - 1 <=> b < up
  BY <1>1, <1>5, <1>7
<1>12. ((up - 1) + 1) % Page = 0
  BY <1>7
<1>13. \A b \in Nat : lo <= b /\ b <= up - 1 => Touch(t, b)
  BY <1>6, <1>7, <1>8, <1>10, <1>11
<1>14. m.size = 1 \/ e % Page # 0 => \A b \in Nat : Touch(t, b) => lo <= b /\ b <= up - 1
  BY <1>6, <1>7, <1>9, <1>10, <1>11
<1> QED BY <1>2, <1>4, <1>5, <1>11, <1>12, <1>13, <1>14 DEF lo, up, t, f, e

\* What is left of a list of whole pages without the pages lo .. hi.
LEMMA CutList ==
  ASSUME NEW S, Sound(S), \A r \in S : Whole(r),
         NEW lo \in Nat, NEW hi \in Nat, lo <= hi, lo % Page = 0, (hi + 1) % Page = 0,
         NEW U,
         \A x : x \in U <=> \/ x \in S /\ ~(lo <= x.last /\ x.first <= hi)
                           \/ \E r \in S : lo <= r.last /\ r.first <= hi /\ x \in Rest(r, lo, hi)
  PROVE  /\ Sound(U) /\ \A r \in U : Whole(r)
         /\ \A b \in Nat : Has(U, b) <=> Has(S, b) /\ ~(lo <= b /\ b <= hi)
<1> DEFINE Met == {r \in S : lo <= r.last /\ r.first <= hi}
<1>1. /\ lo \in Nat /\ hi \in Nat /\ lo <= hi
      /\ lo % Page = 0 /\ (hi + 1) % Page = 0
  OBVIOUS
<1>2. /\ S \subseteq Region
      /\ \A r \in S : r.first \in Nat /\ r.last \in Nat /\ r.first <= r.last
  BY RegionFields DEF Sound, Bounded
<1>3. ASSUME NEW r \in S
      PROVE  r \in Met <=> lo <= r.last /\ r.first <= hi
  OBVIOUS
<1>4. \A x : x \in U <=> \/ x \in S /\ x \notin Met
                         \/ \E r \in Met : x \in Rest(r, lo, hi)
  OBVIOUS
<1>5. Met \subseteq S
  OBVIOUS
<1> HIDE DEF Met
<1>6. ASSUME NEW r \in Met
      PROVE  /\ \A x \in Rest(r, lo, hi) :
                  /\ x \in Region /\ x.first <= x.last
                  /\ r.first <= x.first /\ x.last <= r.last
                  /\ \/ x.first = r.first /\ x.last = lo - 1
                     \/ x.first = hi + 1 /\ x.last = r.last
                  /\ x.last < lo \/ hi < x.first
             /\ \A x, y \in Rest(r, lo, hi) :
                  x # y => x.last + 1 < y.first \/ y.last + 1 < x.first
             /\ \A b \in Nat : Has(Rest(r, lo, hi), b) <=>
                  r.first <= b /\ b <= r.last /\ ~(lo <= b /\ b <= hi)
  <2>1. r \in Region /\ lo <= r.last /\ r.first <= hi
    BY <1>2, <1>3, <1>5
  <2> QED BY <1>1, <2>1, RestParts
\* Every region left is a region of the list or part of one.
<1>7. ASSUME NEW x \in U
      PROVE  /\ x \in Region /\ x.first <= x.last
             /\ \E r \in S : /\ r.first <= x.first /\ x.last <= r.last
                             /\ \/ r \notin Met /\ x = r
                                \/ r \in Met /\ x \in Rest(r, lo, hi)
  <2>1. CASE x \in S /\ x \notin Met
    BY <1>2, <2>1
  <2>2. CASE \E r \in Met : x \in Rest(r, lo, hi)
    <3>1. PICK r \in Met : x \in Rest(r, lo, hi)
      BY <2>2
    <3> QED BY <1>5, <1>6, <3>1
  <2> QED BY <1>4, <2>1, <2>2
<1>8. ASSUME NEW r \in S, NEW x \in U, r.first <= x.first, x.last <= r.last
      PROVE  \/ r \notin Met /\ x = r
             \/ r \in Met /\ x \in Rest(r, lo, hi)
  <2>1. PICK q \in S : /\ q.first <= x.first /\ x.last <= q.last
                       /\ \/ q \notin Met /\ x = q
                          \/ q \in Met /\ x \in Rest(q, lo, hi)
    BY <1>7
  <2>2. x.first \in Nat /\ x.last \in Nat /\ x.first <= x.last
    BY <1>7, RegionFields
  <2>3. q = r
    <3>1. CASE q # r
      <4>1. q.last < r.first \/ r.last < q.first
        BY <3>1, SoundIsDisjoint DEF NoneMeet
      <4> QED BY <1>2, <1>8, <2>1, <2>2, <4>1
    <3> QED BY <3>1
  <2> QED BY <2>1, <2>3
<1>9. Sound(U)
  <2>1. U \in SUBSET Region /\ \A x \in U : x.first <= x.last
    BY <1>7
  <2>2. \A x \in U : \E r \in S : r.first <= x.first /\ x.last <= r.last
    BY <1>7
  <2>3. ASSUME NEW r \in S, NEW x \in U, NEW y \in U, x # y,
               r.first <= x.first, x.last <= r.last,
               r.first <= y.first, y.last <= r.last
        PROVE  x.last + 1 < y.first \/ y.last + 1 < x.first
    <3>1. \/ r \notin Met /\ x = r
          \/ r \in Met /\ x \in Rest(r, lo, hi)
      BY <1>8, <2>3
    <3>2. \/ r \notin Met /\ y = r
          \/ r \in Met /\ y \in Rest(r, lo, hi)
      BY <1>8, <2>3
    <3>3. r \in Met /\ x \in Rest(r, lo, hi) /\ y \in Rest(r, lo, hi)
      BY <2>3, <3>1, <3>2
    <3> QED BY <1>6, <2>3, <3>3
  <2> QED BY <2>1, <2>2, <2>3, PartsSound
<1>10. ASSUME NEW x \in U PROVE Whole(x)
  <2>0. Page \in Nat \ {0, 1}
    BY PageAssumption
  <2>1. CASE x \in S
    BY <2>1
  <2>2. CASE \E r \in Met : x \in Rest(r, lo, hi)
    <3>1. PICK r \in Met : x \in Rest(r, lo, hi)
      BY <2>2
    <3>2. /\ r \in S /\ Whole(r)
          /\ x.first \in Nat /\ x.last \in Nat /\ x.first <= x.last
          /\ \/ x.first = r.first /\ x.last = lo - 1
             \/ x.first = hi + 1 /\ x.last = r.last
      BY <1>5, <1>6, <3>1, RegionFields
    <3>3. x.first % Page = 0
      BY <1>1, <3>2 DEF Whole
    <3>4. (x.last + 1) % Page = 0
      <4>1. x.last = lo - 1 => x.last + 1 = lo
        BY <1>1, <3>2
      <4> QED BY <1>1, <3>2, <4>1 DEF Whole
    <3>5. x.first # x.last
      <4>1. SUFFICES ASSUME x.first = x.last PROVE FALSE
        OBVIOUS
      <4> DEFINE a == x.first
      <4>2. a \in Nat /\ a % Page = 0 /\ (a + 1) % Page = 0
        BY <3>2, <3>3, <3>4, <4>1
      <4> HIDE DEF a
      <4>3. a + Page <= AlignUp(a + 1, Page) /\ AlignUp(a + 1, Page) <= a + 1
        <5>1. a \in Int /\ a + 1 \in Int /\ a < a + 1 /\ a + 1 <= a + 1
          BY <4>2
        <5>2. Page \in Nat \ {0}
          BY <2>0
        <5> QED BY <4>2, <5>1, <5>2, MultipleBounds
      <4>4. AlignUp(a + 1, Page) \in Int
        BY <2>0, <4>2, UpMultiple
      <4> QED BY <2>0, <4>2, <4>3, <4>4
    <3> QED BY <3>2, <3>3, <3>4, <3>5 DEF Whole
  <2> QED BY <1>4, <2>1, <2>2
<1>11. ASSUME NEW b \in Nat
       PROVE  Has(U, b) <=> Has(S, b) /\ ~(lo <= b /\ b <= hi)
  <2>1. ASSUME Has(U, b) PROVE Has(S, b) /\ ~(lo <= b /\ b <= hi)
    <3>1. PICK x \in U : x.first <= b /\ b <= x.last
      BY <2>1 DEF Has
    <3>2. PICK r \in S : /\ r.first <= x.first /\ x.last <= r.last
                         /\ \/ r \notin Met /\ x = r
                            \/ r \in Met /\ x \in Rest(r, lo, hi)
      BY <1>7
    <3>3. x.first \in Nat /\ x.last \in Nat
      BY <1>7, RegionFields
    <3>4. r.first <= b /\ b <= r.last
      BY <1>2, <3>1, <3>2, <3>3
    <3>5. ~(lo <= b /\ b <= hi)
      <4>1. CASE r \notin Met
        BY <1>1, <1>2, <1>3, <3>4, <4>1
      <4>2. CASE r \in Met
        <5>1. x \in Rest(r, lo, hi)
          BY <3>2, <4>2
        <5>2. Has(Rest(r, lo, hi), b)
          BY <3>1, <5>1 DEF Has
        <5> QED BY <1>6, <4>2, <5>2
      <4> QED BY <4>1, <4>2
    <3> QED BY <3>4, <3>5 DEF Has
  <2>2. ASSUME Has(S, b), ~(lo <= b /\ b <= hi) PROVE Has(U, b)
    <3>1. PICK r \in S : r.first <= b /\ b <= r.last
      BY <2>2 DEF Has
    <3>2. CASE r \notin Met
      <4>1. r \in U
        BY <1>4, <3>2
      <4> QED BY <3>1, <4>1 DEF Has
    <3>3. CASE r \in Met
      <4>1. Has(Rest(r, lo, hi), b)
        BY <1>6, <2>2, <3>1, <3>3
      <4>2. PICK x \in Rest(r, lo, hi) : x.first <= b /\ b <= x.last
        BY <4>1 DEF Has
      <4>3. x \in U
        BY <1>4, <3>3
      <4> QED BY <4>2, <4>3 DEF Has
    <3> QED BY <3>2, <3>3
  <2> QED BY <2>1, <2>2
<1> QED BY <1>9, <1>10, <1>11

\* The regions that mark touches are those that meet the pages it takes.
LEMMA HitRegions ==
  ASSUME NEW S \in SUBSET Region, \A r \in S : r.first <= r.last,
         NEW m, m.base \in Nat, m.size \in Nat \ {0}
  PROVE  \A r : r \in Hit(S, m) <=>
           r \in S /\ AlignDown(m.base, Page) <= r.last /\ r.first <= MarkEnd(m)
<1> DEFINE lo == AlignDown(m.base, Page)
           hi == MarkEnd(m)
<1>1. lo \in Nat /\ hi \in Nat /\ lo <= hi
  BY MarkBounds
<1>2. \A r \in S : r.first \in Nat /\ r.last \in Nat
  BY RegionFields
<1>3. \A r : r \in Hit(S, m) <=> r \in S /\ (lo \in r.first .. r.last \/ r.first \in lo .. hi)
  BY DEF Hit
<1> HIDE DEF lo, hi
<1>4. ASSUME NEW r \in S
      PROVE  lo \in r.first .. r.last \/ r.first \in lo .. hi <=> lo <= r.last /\ r.first <= hi
  BY <1>1, <1>2
<1> QED BY <1>3, <1>4 DEF lo, hi

LEMMA UnmarkedList ==
  ASSUME NEW S, Sound(S), \A r \in S : Whole(r),
         NEW m, m.base \in Nat, m.size \in Nat \ {0}
  PROVE  LET U == Unmarked(S, m) IN
         /\ Sound(U) /\ \A r \in U : Whole(r)
         /\ \A b \in Nat : Has(U, b) <=>
              Has(S, b) /\ ~(AlignDown(m.base, Page) <= b /\ b <= MarkEnd(m))
<1> DEFINE lo == AlignDown(m.base, Page)
           hi == MarkEnd(m)
           U == Unmarked(S, m)
<1>1. /\ lo \in Nat /\ hi \in Nat /\ lo <= hi
      /\ lo % Page = 0 /\ (hi + 1) % Page = 0
  BY MarkBounds
<1>2. S \in SUBSET Region /\ \A r \in S : r.first <= r.last
  BY DEF Sound, Bounded
<1>3. \A r : r \in Hit(S, m) <=> r \in S /\ lo <= r.last /\ r.first <= hi
  BY <1>2, HitRegions
<1>4. \A x : x \in U <=> \/ x \in S /\ x \notin Hit(S, m)
                         \/ \E r \in Hit(S, m) : x \in Rest(r, lo, hi)
  BY DEF Unmarked
<1> HIDE DEF U, lo, hi
<1>5. \A x : x \in U <=> \/ x \in S /\ ~(lo <= x.last /\ x.first <= hi)
                         \/ \E r \in S : lo <= r.last /\ r.first <= hi /\ x \in Rest(r, lo, hi)
  BY <1>3, <1>4
<1>6. /\ Sound(U) /\ \A r \in U : Whole(r)
      /\ \A b \in Nat : Has(U, b) <=> Has(S, b) /\ ~(lo <= b /\ b <= hi)
  BY <1>1, <1>5, CutList
<1> QED BY <1>6 DEF U, lo, hi

LEMMA EmptyList ==
  /\ Sound({}) /\ \A b : ~Has({}, b)
<1>1. \E top \in Nat : \A r \in {} : r.last <= top
  OBVIOUS
<1> QED BY <1>1 DEF Sound, Bounded, Separate, Has

\* Every page from that of one byte to that of another has a byte between them.
LEMMA PageByte ==
  ASSUME NEW f \in Nat, NEW l \in Nat, f <= l, NEW k \in Int,
         PageOf(f) <= k, k <= PageOf(l)
  PROVE  \E c \in Nat : f <= c /\ c <= l /\ PageOf(c) = k
<1> Page \in Nat \ {0} /\ Page \in Int
  BY PageAssumption
<1> DEFINE c == Page * k
           p == f \div Page
           q == l \div Page
           s == AlignDown(f, Page)
           u == AlignDown(l, Page)
<1>1. /\ p \in Int /\ s \in Int /\ s = Page * p /\ s <= f /\ f < s + Page
  BY Quotient
<1>2. /\ q \in Int /\ u \in Int /\ u = Page * q /\ u <= l /\ l < u + Page
  BY Quotient
<1>3. p <= k /\ k <= q
  BY DEF PageOf
<1>4. CASE p = k
  BY <1>4 DEF PageOf
<1>5. CASE p < k
  <2>1. c \in Int /\ s + Page <= c
    BY <1>1, <1>5, Multiples
  <2>2. c <= u
    <3>1. CASE k = q
      BY <1>2, <3>1
    <3>2. CASE k < q
      <4>1. Page * k + Page <= Page * q
        BY <1>2, <3>2, Multiples
      <4> QED BY <1>2, <2>1, <4>1
    <3> QED BY <1>2, <1>3, <3>1, <3>2
  <2>3. f <= c /\ c <= l /\ c \in Nat
    BY <1>1, <1>2, <2>1, <2>2
  <2>4. c \div Page = k
    OBVIOUS
  <2> HIDE DEF c
  <2> QED BY <2>3, <2>4 DEF PageOf
<1> QED BY <1>1, <1>3, <1>4, <1>5

\* A page that a range touches has a byte of the range.
LEMMA TouchedByte ==
  ASSUME NEW f \in Nat, NEW l \in Nat, f <= l, NEW b \in Nat,
         PageOf(f) <= PageOf(b), PageOf(b) <= PageOf(l)
  PROVE  \E c \in Nat : f <= c /\ c <= l /\ PageOf(c) = PageOf(b)
<1>1. PageOf(b) \in Int
  BY PageMono
<1> QED BY <1>1, PageByte

\* The bytes of a page are on a list of whole pages together.
LEMMA PageTogether ==
  ASSUME NEW S, Sound(S), \A r \in S : Whole(r),
         NEW b \in Nat, NEW c \in Nat, PageOf(b) = PageOf(c), Has(S, b)
  PROVE  Has(S, c)
<1>1. PICK r \in S : r.first <= b /\ b <= r.last
  BY DEF Has
<1>2. Covers(r, b)
  BY <1>1, WholeCovers DEF Sound, Bounded
<1> QED BY <1>2 DEF Covers, Has

\* A list with one more region, which meets none of them.
LEMMA OneMore ==
  ASSUME NEW S, Sound(S), NEW n \in Region, n.first <= n.last,
         \A r \in S : r.last < n.first \/ n.last < r.first
  PROVE  /\ Bounded(S \cup {n}) /\ NoneMeet(S \cup {n})
         /\ \A b \in Nat : Has(S \cup {n}, b) <=> Has(S, b) \/ (n.first <= b /\ b <= n.last)
<1>1. /\ S \subseteq Region
      /\ \A r \in S : r.first \in Nat /\ r.last \in Nat /\ r.first <= r.last
  BY RegionFields DEF Sound, Bounded
<1>2. n.first \in Nat /\ n.last \in Nat
  BY RegionFields
<1>3. PICK top \in Nat : \A r \in S : r.last <= top
  BY DEF Sound, Bounded
<1>4. \E t \in Nat : \A r \in S \cup {n} : r.last <= t
  <2>1. CASE n.last <= top
    BY <1>2, <1>3, <2>1
  <2>2. CASE top < n.last
    BY <1>1, <1>2, <1>3, <2>2
  <2> QED BY <1>2, <2>1, <2>2
<1>5. Bounded(S \cup {n})
  BY <1>1, <1>4 DEF Bounded
<1>6. NoneMeet(S \cup {n})
  <2>1. NoneMeet(S)
    BY SoundIsDisjoint
  <2> QED BY <2>1 DEF NoneMeet
<1> QED BY <1>5, <1>6 DEF Has

\* A run of bytes that are all on a sound list lies in one of its regions.
LEMMA OneRegion ==
  ASSUME NEW S, Sound(S), NEW a \in Nat, NEW e \in Nat, a <= e,
         \A b \in a .. e : Has(S, b)
  PROVE  \E q \in S : q.first <= a /\ e <= q.last
<1>1. \A r \in S : r.first \in Nat /\ r.last \in Nat /\ r.first <= r.last
  BY RegionFields DEF Sound, Bounded
<1>2. PICK q \in S : q.first <= a /\ a <= q.last
  BY DEF Has
<1>3. CASE q.last < e
  <2> DEFINE b == q.last + 1
  <2>1. b \in a .. e /\ b \in Nat
    BY <1>1, <1>2, <1>3
  <2>2. PICK z \in S : z.first <= b /\ b <= z.last
    BY <2>1 DEF Has
  <2>3. z # q
    BY <1>1, <2>2
  <2>4. q.last + 1 < z.first \/ z.last + 1 < q.first
    BY <2>3 DEF Sound, Separate
  <2> QED BY <1>1, <2>2, <2>4
<1> QED BY <1>1, <1>2, <1>3

\* Items on pages apart from each other do not overlap either.
LEMMA ApartByPages ==
  ASSUME NEW s, NEW t, s.first \in Nat, s.last \in Nat, s.first <= s.last,
         t.first \in Nat, t.last \in Nat, t.first <= t.last,
         \A b \in Nat : t.first <= b /\ b <= t.last => ~Touch(s, b)
  PROVE  /\ PagesOf(s) \cap PagesOf(t) = {}
         /\ s.last < t.first \/ t.last < s.first
<1>1. /\ PageOf(s.first) \in Int /\ PageOf(s.last) \in Int
      /\ PageOf(t.first) \in Int /\ PageOf(t.last) \in Int
  BY PageMono
<1>2. ASSUME NEW k \in PagesOf(s), k \in PagesOf(t) PROVE FALSE
  <2>1. /\ k \in Int /\ PageOf(s.first) <= k /\ k <= PageOf(s.last)
        /\ PageOf(t.first) <= k /\ k <= PageOf(t.last)
    BY <1>1, <1>2 DEF PagesOf, PageOf
  <2>2. PICK b \in Nat : t.first <= b /\ b <= t.last /\ PageOf(b) = k
    BY <2>1, PageByte
  <2>3. Touch(s, b)
    BY <2>1, <2>2 DEF Touch
  <2> QED BY <2>2, <2>3
<1>3. s.last < t.first \/ t.last < s.first
  <2>1. SUFFICES ASSUME t.first <= s.last, s.first <= t.last PROVE FALSE
    OBVIOUS
  <2>2. \E b \in Nat : t.first <= b /\ b <= t.last /\ s.first <= b /\ b <= s.last
    <3>1. CASE s.first <= t.first
      BY <2>1, <3>1
    <3>2. CASE t.first < s.first
      BY <2>1, <3>2
    <3> QED BY <3>1, <3>2
  <2>3. PICK b \in Nat : t.first <= b /\ b <= t.last /\ s.first <= b /\ b <= s.last
    BY <2>2
  <2>4. Touch(s, b)
    BY <2>3, PageMono DEF Touch
  <2> QED BY <2>3, <2>4
<1> QED BY <1>2, <1>3
-----------------------------------------------------------------------------
\* A window of whole pages, and the parts of a list in it.
IsWindow(w) ==
  /\ w.first \in Nat /\ w.last \in Nat /\ w.first <= w.last
  /\ w.first % Page = 0 /\ (w.last + 1) % Page = 0

LEMMA WithoutWindowList ==
  ASSUME NEW S, Sound(S), \A r \in S : Whole(r), NEW w, IsWindow(w)
  PROVE  LET U == WithoutWindow(S, w) IN
         /\ Sound(U) /\ \A r \in U : Whole(r)
         /\ \A b \in Nat : Has(U, b) <=> Has(S, b) /\ ~(w.first <= b /\ b <= w.last)
<1> DEFINE lo == w.first
           hi == w.last
           U  == WithoutWindow(S, w)
<1>1. \A x : x \in U <=> \/ x \in S /\ x \notin In(S, w)
                         \/ \E r \in In(S, w) : x \in Rest(r, lo, hi)
  BY DEF WithoutWindow
<1>2. \A r : r \in In(S, w) <=> r \in S /\ lo <= r.last /\ r.first <= hi
  BY DEF In
<1> HIDE DEF U
<1>3. \A x : x \in U <=> \/ x \in S /\ ~(lo <= x.last /\ x.first <= hi)
                         \/ \E r \in S : lo <= r.last /\ r.first <= hi /\ x \in Rest(r, lo, hi)
  BY <1>1, <1>2
<1>4. lo \in Nat /\ hi \in Nat /\ lo <= hi /\ lo % Page = 0 /\ (hi + 1) % Page = 0
  BY DEF IsWindow
<1> HIDE DEF lo, hi
<1>5. /\ Sound(U) /\ \A r \in U : Whole(r)
      /\ \A b \in Nat : Has(U, b) <=> Has(S, b) /\ ~(lo <= b /\ b <= hi)
  BY <1>3, <1>4, CutList
<1> QED BY <1>5 DEF U, lo, hi

\* The end of whole pages lies above their beginning.
LEMMA WholePagesEnd ==
  ASSUME NEW f \in Nat, NEW l \in Nat, f <= l, f % Page = 0, (l + 1) % Page = 0
  PROVE  f < l
<1>0. Page \in Nat \ {0, 1} /\ Page \in Nat \ {0}
  BY PageAssumption
<1>1. CASE f = l
  <2>1. (f + 1) % Page = 0 /\ f \in Int /\ f + 1 \in Int /\ f < f + 1 /\ f + 1 <= f + 1
    BY <1>1
  <2>2. f + Page <= AlignUp(f + 1, Page) /\ AlignUp(f + 1, Page) <= f + 1
    BY <1>0, <2>1, MultipleBounds
  <2>3. AlignUp(f + 1, Page) \in Int
    BY <1>0, <2>1, UpMultiple
  <2> QED BY <1>0, <2>2, <2>3
<1> QED BY <1>1

LEMMA RemovedParts ==
  ASSUME NEW S, Sound(S), \A r \in S : Whole(r), NEW w, IsWindow(w)
  PROVE  /\ \A x \in Removed(S, w) :
              /\ x \in Region /\ Whole(x) /\ x.first <= x.last
              /\ w.first <= x.first /\ x.last <= w.last
              /\ \E r \in S : r.first <= x.first /\ x.last <= r.last
         /\ NoneMeet(Removed(S, w))
         /\ \A b \in Nat :
              Has(Removed(S, w), b) <=> Has(S, b) /\ w.first <= b /\ b <= w.last
<1> DEFINE lo == w.first
           hi == w.last
           F(r) == IF r.first < lo THEN lo ELSE r.first
           L(r) == IF r.last > hi THEN hi ELSE r.last
           Part(r) == [r EXCEPT !.first = F(r), !.last = L(r)]
           T == Removed(S, w)
<1>1. lo \in Nat /\ hi \in Nat /\ lo <= hi /\ lo % Page = 0 /\ (hi + 1) % Page = 0
  BY DEF IsWindow
<1>2. /\ S \subseteq Region
      /\ \A r \in S : /\ r \in Region /\ r.first \in Nat /\ r.last \in Nat /\ r.first <= r.last
                      /\ r.first % Page = 0 /\ (r.last + 1) % Page = 0
  BY RegionFields DEF Sound, Bounded, Whole
<1>3. \A x : x \in T <=> \E r \in S : r.first <= hi /\ lo <= r.last /\ x = Part(r)
  BY DEF Removed, In
<1>4. ASSUME NEW r \in S, r.first <= hi, lo <= r.last
      PROVE  /\ Part(r) \in Region /\ Whole(Part(r))
             /\ Part(r).first = F(r) /\ Part(r).last = L(r)
             /\ F(r) \in Nat /\ L(r) \in Nat /\ F(r) <= L(r)
             /\ lo <= F(r) /\ r.first <= F(r) /\ L(r) <= hi /\ L(r) <= r.last
             /\ F(r) % Page = 0 /\ (L(r) + 1) % Page = 0
  <2>1. r \in Region /\ r.first \in Nat /\ r.last \in Nat /\ r.first <= r.last
        /\ r.first % Page = 0 /\ (r.last + 1) % Page = 0
    BY <1>2
  <2>2. F(r) \in Nat /\ L(r) \in Nat /\ F(r) <= L(r)
             /\ lo <= F(r) /\ r.first <= F(r) /\ L(r) <= hi /\ L(r) <= r.last
    BY <1>1, <1>4, <2>1
  <2>3. F(r) % Page = 0 /\ (L(r) + 1) % Page = 0
    BY <1>1, <2>1
  <2> HIDE DEF F, L
  <2>4. /\ Part(r) \in Region /\ Part(r).first = F(r) /\ Part(r).last = L(r)
    <3> DEFINE a == F(r)
               c == L(r)
    <3>1. a \in Nat /\ c \in Nat
      BY <2>2
    <3> HIDE DEF a, c
    <3>2. /\ [r EXCEPT !.first = a, !.last = c] \in Region
          /\ [r EXCEPT !.first = a, !.last = c].first = a
          /\ [r EXCEPT !.first = a, !.last = c].last = c
      BY <2>1, <3>1 DEF Region
    <3> QED BY <3>2 DEF a, c
  <2>5. F(r) < L(r)
    BY <2>2, <2>3, WholePagesEnd
  <2>6. Whole(Part(r))
    BY <2>3, <2>4, <2>5 DEF Whole
  <2> QED BY <2>2, <2>3, <2>4, <2>6
<1> HIDE DEF T, lo, hi
<1>5. ASSUME NEW x \in T
      PROVE  /\ x \in Region /\ Whole(x) /\ x.first <= x.last
             /\ lo <= x.first /\ x.last <= hi
             /\ \E r \in S : r.first <= x.first /\ x.last <= r.last
  <2>1. PICK r \in S : r.first <= hi /\ lo <= r.last /\ x = Part(r)
    BY <1>3
  <2> HIDE DEF F, L, Part
  <2> QED BY <1>4, <2>1
<1>6. NoneMeet(T)
  <2> SUFFICES ASSUME NEW x \in T, NEW y \in T, x # y
               PROVE  x.last < y.first \/ y.last < x.first
    BY DEF NoneMeet
  <2>1. PICK r \in S : r.first <= hi /\ lo <= r.last /\ x = Part(r)
    BY <1>3
  <2>2. PICK q \in S : q.first <= hi /\ lo <= q.last /\ y = Part(q)
    BY <1>3
  <2> HIDE DEF F, L, Part
  <2>3. r # q
    BY <2>1, <2>2
  <2>4. r.last < q.first \/ q.last < r.first
    BY <2>3, SoundIsDisjoint DEF NoneMeet
  <2>5. /\ x.first \in Nat /\ x.last \in Nat /\ r.first <= x.first /\ x.last <= r.last
        /\ y.first \in Nat /\ y.last \in Nat /\ q.first <= y.first /\ y.last <= q.last
    BY <1>4, <2>1, <2>2
  <2> QED BY <1>2, <2>4, <2>5
<1>7. ASSUME NEW b \in Nat
      PROVE  Has(T, b) <=> Has(S, b) /\ lo <= b /\ b <= hi
  <2>1. ASSUME Has(T, b) PROVE Has(S, b) /\ lo <= b /\ b <= hi
    <3>1. PICK x \in T : x.first <= b /\ b <= x.last
      BY <2>1 DEF Has
    <3>2. PICK r \in S : r.first <= x.first /\ x.last <= r.last
      BY <1>5
    <3>3. x.first \in Nat /\ x.last \in Nat /\ lo <= x.first /\ x.last <= hi
      BY <1>5, RegionFields
    <3>4. r.first <= b /\ b <= r.last
      BY <1>2, <3>1, <3>2, <3>3
    <3> QED BY <1>1, <3>1, <3>3, <3>4 DEF Has
  <2>2. ASSUME Has(S, b), lo <= b, b <= hi PROVE Has(T, b)
    <3>1. PICK r \in S : r.first <= b /\ b <= r.last
      BY <2>2 DEF Has
    <3>2. r.first <= hi /\ lo <= r.last
      BY <1>1, <1>2, <2>2, <3>1
    <3>3. F(r) <= b /\ b <= L(r)
      BY <2>2, <3>1
    <3> HIDE DEF F, L, Part
    <3>4. Part(r) \in T /\ Part(r).first = F(r) /\ Part(r).last = L(r)
      BY <1>3, <1>4, <3>2
    <3>5. Part(r).first <= b /\ b <= Part(r).last
      BY <3>3, <3>4
    <3> QED BY <3>4, <3>5 DEF Has
  <2> QED BY <2>1, <2>2
<1> QED BY <1>5, <1>6, <1>7 DEF T, lo, hi

\* The lists of the allocator are finite: their regions begin at addresses of
\* their own, and none is above the top.
LEMMA FiniteList ==
  ASSUME NEW S, Sound(S)
  PROVE  IsFiniteSet(S)
<1>1. PICK top \in Nat : \A r \in S : r.last <= top
  BY DEF Sound, Bounded
<1>2. \A r \in S : r.first \in Nat /\ r.last \in Nat /\ r.first <= r.last
  BY RegionFields DEF Sound, Bounded
<1> DEFINE T == 0 .. top
           f == [r \in S |-> r.first]
<1>3. f \in [S -> T]
  <2> SUFFICES ASSUME NEW r \in S PROVE r.first \in T
    OBVIOUS
  <2>1. r.first \in Nat /\ r.last \in Nat /\ r.first <= r.last /\ r.last <= top
    BY <1>1, <1>2
  <2> QED BY <2>1
<1>4. \A r, q \in S : f[r] = f[q] => r = q
  <2> SUFFICES ASSUME NEW r \in S, NEW q \in S, r.first = q.first, r # q PROVE FALSE
    OBVIOUS
  <2>1. r.last < q.first \/ q.last < r.first
    BY SoundIsDisjoint DEF NoneMeet
  <2> QED BY <1>2, <2>1
<1>5. IsFiniteSet(T)
  BY FS_Interval
<1>6. f \in Injection(S, T)
  BY <1>3, <1>4 DEF Injection, IsInjective
<1> QED BY <1>5, <1>6, FS_Injection
-----------------------------------------------------------------------------
(* Folds over finite sets and what the loop over a window tells.           *)

\* f is the fold of the subsets of W: c chooses an element, g takes it in.
IsFold(f, W, base, g, c) ==
  \A s \in SUBSET W : f[s] = IF s = {} THEN base ELSE g[<<f[s \ {c[s]}], c[s]>>]

\* A fold over a finite set is the value, for the whole set, of a function on
\* its subsets that takes one chosen element after the other.  That there is
\* such a function is shown for the subsets of n elements at most, for every n.
LEMMA SubsetRecursion ==
  ASSUME NEW W, IsFiniteSet(W), NEW V, NEW base \in V, NEW g \in [V \X W -> V],
         NEW c, \A s \in SUBSET W : s # {} => c[s] \in s
  PROVE  \E f \in [SUBSET W -> V] : IsFold(f, W, base, g, c)
<1> DEFINE T(n) == {s \in SUBSET W : Cardinality(s) <= n}
           Value(f, s) == IF s = {} THEN base ELSE g[<<f[s \ {c[s]}], c[s]>>]
           Ok(f, n) == f \in [T(n) -> V] /\ \A s \in T(n) : f[s] = Value(f, s)
           Bad == {n \in Nat : ~\E f : Ok(f, n)}
<1>1. ASSUME NEW s \in SUBSET W
      PROVE  /\ Cardinality(s) \in Nat /\ Cardinality(s) <= Cardinality(W)
             /\ Cardinality(s) = 0 <=> s = {}
             /\ s # {} => /\ s \ {c[s]} \in SUBSET W /\ c[s] \in W
                          /\ Cardinality(s \ {c[s]}) = Cardinality(s) - 1
  <2>1. IsFiniteSet(s) /\ Cardinality(s) <= Cardinality(W)
    BY FS_Subset
  <2>2. Cardinality(s) \in Nat /\ (Cardinality(s) = 0 <=> s = {})
    BY <2>1, FS_CardinalityType, FS_EmptySet
  <2>3. ASSUME s # {}
        PROVE  /\ s \ {c[s]} \in SUBSET W /\ c[s] \in W
               /\ Cardinality(s \ {c[s]}) = Cardinality(s) - 1
    <3>1. c[s] \in s
      BY <2>3
    <3>2. Cardinality(s \ {c[s]}) = Cardinality(s) - 1
      BY <2>1, <3>1, FS_RemoveElement
    <3> QED BY <3>1, <3>2
  <2> QED BY <2>1, <2>2, <2>3
<1>1a. \A s \in SUBSET W : Cardinality(s) \in Nat /\ (Cardinality(s) = 0 <=> s = {})
  BY <1>1
<1>2. \E f : Ok(f, 0)
  <2>1. ASSUME NEW s \in SUBSET W, Cardinality(s) <= 0 PROVE s = {}
    <3> DEFINE n == Cardinality(s)
    <3>1. n \in Nat /\ n <= 0
      BY <1>1a, <2>1
    <3> HIDE DEF n
    <3>2. n = 0
      BY <3>1
    <3> QED BY <1>1a, <3>2 DEF n
  <2> WITNESS [s \in T(0) |-> base]
  <2> QED BY <2>1
<1>3. ASSUME NEW n \in Nat, NEW f, Ok(f, n) PROVE \E h : Ok(h, n + 1)
  <2> DEFINE h == [s \in T(n + 1) |-> Value(f, s)]
  <2>1. ASSUME NEW s \in T(n + 1), s # {}
        PROVE  s \ {c[s]} \in T(n) /\ c[s] \in W
    BY <1>1, <2>1
  <2>2. \A s \in T(n) : s \in T(n + 1) /\ h[s] = f[s]
    <3>1. ASSUME NEW s \in T(n) PROVE s \in T(n + 1)
      <4> DEFINE k == Cardinality(s)
      <4>1. k \in Nat /\ k <= n
        BY <1>1a
      <4> HIDE DEF k
      <4>2. k <= n + 1
        BY <4>1
      <4> QED BY <4>2 DEF k
    <3> QED BY <1>3, <3>1
  <2>3. \A s \in T(n + 1) : Value(f, s) \in V
    <3> SUFFICES ASSUME NEW s \in T(n + 1), s # {} PROVE Value(f, s) \in V
      OBVIOUS
    <3>1. s \ {c[s]} \in T(n) /\ c[s] \in W
      BY <2>1
    <3>2. f[s \ {c[s]}] \in V
      BY <1>3, <3>1
    <3> QED BY <3>1, <3>2
  <2>4. h \in [T(n + 1) -> V]
    BY <2>3
  <2>5. ASSUME NEW s \in T(n + 1) PROVE h[s] = Value(h, s)
    <3>1. h[s] = Value(f, s)
      OBVIOUS
    <3> HIDE DEF h
    <3>2. CASE s = {}
      BY <3>1, <3>2
    <3>3. CASE s # {}
      <4>1. h[s \ {c[s]}] = f[s \ {c[s]}]
        BY <2>1, <2>2, <3>3
      <4> QED BY <3>1, <3>3, <4>1
    <3> QED BY <3>2, <3>3
  <2> HIDE DEF h
  <2>6. Ok(h, n + 1)
    BY <2>4, <2>5
  <2> HIDE DEF Ok
  <2> QED BY <2>6
<1> HIDE DEF Ok
<1>4. \A n \in Nat : \E f : Ok(f, n)
  <2>1. SUFFICES ASSUME Bad # {} PROVE FALSE
    OBVIOUS
  <2>2. PICK m \in Bad : \A k \in Bad : m <= k
    BY <2>1, LeastNat
  <2>3. m # 0
    BY <1>2
  <2>4. m - 1 \in Nat /\ m - 1 \notin Bad
    BY <2>2, <2>3
  <2>5. PICK f : Ok(f, m - 1)
    BY <2>4
  <2>6. \E h : Ok(h, (m - 1) + 1)
    BY <1>3, <2>4, <2>5
  <2>7. (m - 1) + 1 = m
    OBVIOUS
  <2> QED BY <2>6, <2>7
<1>5. Cardinality(W) \in Nat
  BY FS_CardinalityType
<1>6. PICK f : Ok(f, Cardinality(W))
  BY <1>4, <1>5
<1>7. T(Cardinality(W)) = SUBSET W
  BY <1>1
<1> QED BY <1>6, <1>7 DEF Ok, IsFold

\* A list without a set of windows.
LEMMA WindowsFold ==
  ASSUME NEW S, Sound(S), \A r \in S : Whole(r),
         NEW W, IsFiniteSet(W), \A w \in W : IsWindow(w)
  PROVE  LET R == FoldSet(LAMBDA w, l : WithoutWindow(l, w), S, W) IN
         /\ Sound(R) /\ \A r \in R : Whole(r)
         /\ \A b \in Nat : Has(R, b) <=>
              Has(S, b) /\ \A w \in W : ~(w.first <= b /\ b <= w.last)
<1> DEFINE V == {T \in SUBSET Region : Sound(T) /\ \A r \in T : Whole(r)}
           g == [p \in V \X W |-> WithoutWindow(p[1], p[2])]
           AnyOf(s) == CHOOSE x \in s : TRUE
           c == [s \in SUBSET W |-> AnyOf(s)]
           Eq(f) == f = [s \in SUBSET W |->
                     IF s = {} THEN S ELSE WithoutWindow(f[s \ {AnyOf(s)}], AnyOf(s))]
           h == CHOOSE f : Eq(f)
           R == FoldSet(LAMBDA w, l : WithoutWindow(l, w), S, W)
<1>1. R = h[W]
  BY DEF FoldSet, MapThenFoldSet
<1> HIDE DEF R
<1>2. S \in V
  BY DEF Sound, Bounded
<1>3. ASSUME NEW T \in V, NEW w \in W
      PROVE  /\ WithoutWindow(T, w) \in V
             /\ \A b \in Nat : Has(WithoutWindow(T, w), b) <=>
                  Has(T, b) /\ ~(w.first <= b /\ b <= w.last)
  <2>1. /\ Sound(WithoutWindow(T, w)) /\ \A r \in WithoutWindow(T, w) : Whole(r)
        /\ \A b \in Nat : Has(WithoutWindow(T, w), b) <=>
             Has(T, b) /\ ~(w.first <= b /\ b <= w.last)
    BY WithoutWindowList
  <2>2. WithoutWindow(T, w) \in SUBSET Region
    BY <2>1 DEF Sound, Bounded
  <2> QED BY <2>1, <2>2
<1> HIDE DEF V
<1>4. g \in [V \X W -> V]
  BY <1>3
<1>5. \A s \in SUBSET W : s # {} => c[s] = AnyOf(s) /\ AnyOf(s) \in s
  OBVIOUS
<1>6. \A T \in V, w \in W : g[<<T, w>>] = WithoutWindow(T, w)
  OBVIOUS
<1> HIDE DEF g, c, AnyOf
<1>6a. \A s \in SUBSET W : s # {} => c[s] \in s
  BY <1>5
<1>7. PICK k \in [SUBSET W -> V] : IsFold(k, W, S, g, c)
  BY <1>2, <1>4, <1>6a, SubsetRecursion
<1>8. ASSUME NEW s \in SUBSET W, s # {}
      PROVE  k[s] = WithoutWindow(k[s \ {AnyOf(s)}], AnyOf(s))
  <2>1. AnyOf(s) \in W /\ s \ {AnyOf(s)} \in SUBSET W
    BY <1>5, <1>8
  <2>2. k[s \ {AnyOf(s)}] \in V
    BY <2>1
  <2> QED BY <1>5, <1>6, <1>7, <1>8, <2>1, <2>2 DEF IsFold
<1>9. Eq(k)
  <2>1. k[{}] = S
    BY <1>7 DEF IsFold
  <2> QED BY <1>7, <1>8, <2>1
<1>10. Eq(h)
  BY <1>9
<1> HIDE DEF h
<1>11. /\ h[{}] = S
       /\ \A s \in SUBSET W : s # {} => h[s] = WithoutWindow(h[s \ {AnyOf(s)}], AnyOf(s))
  BY <1>10
<1> HIDE DEF Eq
<1> DEFINE Good(s) == /\ h[s] \in V
                      /\ \A b \in Nat : Has(h[s], b) <=>
                           Has(S, b) /\ \A w \in s : ~(w.first <= b /\ b <= w.last)
           Bad == {n \in Nat : \E s \in SUBSET W : Cardinality(s) = n /\ ~Good(s)}
<1>12. \A s \in SUBSET W : IsFiniteSet(s) /\ Cardinality(s) \in Nat
  BY FS_Subset, FS_CardinalityType
<1>13. \A s \in SUBSET W : Good(s)
  <2>1. SUFFICES ASSUME Bad # {} PROVE FALSE
    BY <1>12
  <2>2. PICK m \in Bad : \A n \in Bad : m <= n
    BY <2>1, LeastNat
  <2>3. PICK s \in SUBSET W : Cardinality(s) = m /\ ~Good(s)
    BY <2>2
  <2>4. s # {}
    BY <1>2, <1>11, <2>3
  <2> DEFINE w == AnyOf(s)
             t == s \ {w}
  <2>5. w \in s /\ w \in W /\ t \in SUBSET W
    BY <1>5, <2>4
  <2>6. Cardinality(t) = m - 1 /\ Cardinality(t) \in Nat
    BY <1>12, <2>3, <2>5, FS_RemoveElement
  <2>7. Good(t)
    <3>0. m \in Nat /\ \A n \in Bad : m <= n
      BY <2>2
    <3> HIDE DEF Bad
    <3>1. Cardinality(t) \notin Bad
      BY <2>6, <3>0
    <3> USE DEF Bad
    <3> QED BY <2>5, <2>6, <3>1
  <2>8. h[s] = WithoutWindow(h[t], w)
    BY <1>11, <2>4
  <2>9. s = t \cup {w}
    BY <2>5
  <2> HIDE DEF w, t
  <2>10. Good(s)
    <3>1. /\ h[s] \in V
          /\ \A b \in Nat : Has(h[s], b) <=> Has(h[t], b) /\ ~(w.first <= b /\ b <= w.last)
      BY <1>3, <2>5, <2>7, <2>8
    <3> QED BY <2>7, <2>9, <3>1
  <2> QED BY <2>3, <2>10
<1>14. Good(W)
  BY <1>13
<1> QED BY <1>1, <1>14 DEF V, R

LEMMA GreatestElement ==
  ASSUME NEW n \in Nat, NEW s \in SUBSET (1 .. n), s # {}
  PROVE  Max(s) \in s /\ Max(s) \in 1 .. n
<1> DEFINE D == {k \in Nat : \E x \in s : k = n - x}
<1>1. PICK x \in s : TRUE
  OBVIOUS
<1>2. x \in 1 .. n
  OBVIOUS
<1>3. n - x \in Nat
  BY <1>2
<1>4. n - x \in D
  BY <1>3
<1>5. PICK m \in D : \A k \in D : m <= k
  BY <1>4, LeastNat
<1>6. PICK y \in s : m = n - y
  BY <1>5
<1>7. ASSUME NEW z \in s PROVE y >= z
  <2>1. z \in 1 .. n /\ y \in 1 .. n
    OBVIOUS
  <2>2. n - z \in Nat
    BY <2>1
  <2>3. n - z \in D
    BY <2>2
  <2>4. n - y <= n - z
    BY <1>5, <1>6, <2>3
  <2> QED BY <2>1, <2>4
<1> QED BY <1>7 DEF Max

\* mark_window gets through a window only if every byte of it is free or in a
\* hole.
LEMMA FilledWindow ==
  ASSUME NEW S, Sound(S), NEW w, w.first \in Nat, w.last \in Nat,
         NEW n \in Nat, NEW holes, DOMAIN holes = 1 .. n,
         \A k \in 1 .. n : holes[k].first \in Int /\ holes[k].last \in Int,
         Filled(S, w, holes)
  PROVE  \A b \in Nat : w.first <= b /\ b <= w.last =>
           Has(S, b) \/ \E k \in 1 .. n : holes[k].first <= b /\ b <= holes[k].last
<1> DEFINE Past(a) == IF \E r \in S : a \in r.first .. r.last
                      THEN (CHOOSE r \in S : a \in r.first .. r.last).last + 1 ELSE a
           Through(a, h) ==
             IF a > w.last THEN a
             ELSE IF h.first = Past(a) /\ \A r \in S : r.first \notin h.first .. h.last
             THEN h.last + 1 ELSE Stuck
           D == 1 .. n
           g == [p \in Int \X D |-> Through(p[1], holes[p[2]])]
           c == [s \in SUBSET D |-> Max(s)]
           Eq(f) == f = [s \in SUBSET D |->
                     IF s = {} THEN w.first ELSE Through(f[s \ {Max(s)}], holes[Max(s)])]
           f == CHOOSE f : Eq(f)
           Free(from, to, s) ==
             \A b \in Nat : from <= b /\ b < to =>
               Has(S, b) \/ \E k \in s : holes[k].first <= b /\ b <= holes[k].last
<1>1. Past(f[D]) > w.last
  BY DEF Filled, FoldLeft, MapThenFoldSet
<1>2. \A r \in S : r.first \in Nat /\ r.last \in Nat /\ r.first <= r.last
  BY RegionFields DEF Sound, Bounded
<1>3. ASSUME NEW a \in Int
      PROVE  /\ Past(a) \in Int /\ a <= Past(a)
             /\ \A b \in Nat : a <= b /\ b < Past(a) => Has(S, b)
  <2>1. CASE \E r \in S : a \in r.first .. r.last
    <3> DEFINE q == CHOOSE r \in S : a \in r.first .. r.last
    <3>1. q \in S /\ a \in q.first .. q.last
      BY <2>1
    <3>2. Past(a) = q.last + 1
      BY <2>1
    <3> HIDE DEF q, Past
    <3>3. q.first \in Nat /\ q.last \in Nat /\ q.first <= a /\ a <= q.last
      BY <1>2, <3>1
    <3>4. ASSUME NEW b \in Nat, a <= b, b < Past(a) PROVE Has(S, b)
      <4>1. q.first <= b /\ b <= q.last
        BY <3>2, <3>3, <3>4
      <4> QED BY <3>1, <4>1 DEF Has
    <3> QED BY <3>2, <3>3, <3>4
  <2>2. CASE ~\E r \in S : a \in r.first .. r.last
    <3>1. Past(a) = a
      BY <2>2
    <3> HIDE DEF Past
    <3>2. \A b \in Nat : ~(a <= b /\ b < Past(a))
      BY <3>1
    <3> QED BY <3>1, <3>2
  <2> QED BY <2>1, <2>2
<1> HIDE DEF Past
<1>4. ASSUME NEW a \in Int, NEW k \in D
      PROVE  /\ Through(a, holes[k]) \in Int
             /\ \/ Through(a, holes[k]) = a
                \/ Through(a, holes[k]) = -1
                \/ holes[k].first = Past(a) /\ Through(a, holes[k]) = holes[k].last + 1
  <2>1. Past(a) \in Int /\ holes[k].first \in Int /\ holes[k].last \in Int
    BY <1>3
  <2>2. CASE a > w.last
    BY <2>2
  <2>3. CASE ~(a > w.last)
    <3>1. CASE holes[k].first = Past(a) /\ \A r \in S : r.first \notin holes[k].first .. holes[k].last
      <4>1. Through(a, holes[k]) = holes[k].last + 1
        BY <2>3, <3>1
      <4> HIDE DEF Through
      <4> QED BY <2>1, <3>1, <4>1
    <3>2. CASE ~(holes[k].first = Past(a) /\ \A r \in S : r.first \notin holes[k].first .. holes[k].last)
      BY <2>3, <3>2 DEF Stuck
    <3> QED BY <3>1, <3>2
  <2> QED BY <2>2, <2>3
<1>5. ASSUME NEW s \in SUBSET D, s # {} PROVE c[s] = Max(s) /\ Max(s) \in s /\ Max(s) \in D
  BY <1>5, GreatestElement
<1> HIDE DEF Through
<1>6. Eq(f)
  <2>1. IsFiniteSet(D)
    BY FS_Interval
  <2>2. g \in [Int \X D -> Int]
    <3>1. \A p \in Int \X D : p[1] \in Int /\ p[2] \in D
      OBVIOUS
    <3> HIDE DEF D
    <3> QED BY <1>4, <3>1
  <2>3. \A s \in SUBSET D : s # {} => c[s] \in s
    BY <1>5
  <2>4. \A a \in Int, k \in D : g[<<a, k>>] = Through(a, holes[k])
    OBVIOUS
  <2>5. w.first \in Int
    OBVIOUS
  <2> HIDE DEF g, c, D
  <2>6. PICK h \in [SUBSET D -> Int] : IsFold(h, D, w.first, g, c)
    BY <2>1, <2>2, <2>3, <2>5, SubsetRecursion
  <2>7. ASSUME NEW s \in SUBSET D, s # {}
        PROVE  h[s] = Through(h[s \ {Max(s)}], holes[Max(s)])
    <3>1. Max(s) \in D /\ s \ {Max(s)} \in SUBSET D
      BY <1>5, <2>7
    <3>2. h[s \ {Max(s)}] \in Int
      BY <3>1
    <3>3. h[s] = g[<<h[s \ {c[s]}], c[s]>>]
      BY <2>6, <2>7 DEF IsFold
    <3>4. c[s] = Max(s)
      BY <1>5, <2>7
    <3>5. g[<<h[s \ {Max(s)}], Max(s)>>] = Through(h[s \ {Max(s)}], holes[Max(s)])
      BY <2>4, <3>1, <3>2
    <3> QED BY <3>3, <3>4, <3>5
  <2>8. h[{}] = w.first
    BY <2>6 DEF IsFold
  <2>9. Eq(h)
    BY <2>7, <2>8
  <2> QED BY <2>9
<1> HIDE DEF f
<1>7. /\ f[{}] = w.first
      /\ \A s \in SUBSET D : s # {} => f[s] = Through(f[s \ {Max(s)}], holes[Max(s)])
  BY <1>6
<1> HIDE DEF Eq, g, c
<1>8. ASSUME NEW s \in SUBSET D, NEW k \in s, NEW a \in Int, Free(w.first, a, s)
      PROVE  Free(w.first, Through(a, holes[k]), s)
  <2> DEFINE e == Through(a, holes[k])
  <2>0. k \in D
    OBVIOUS
  <2>1. /\ e \in Int
        /\ e = a \/ e = -1 \/ (holes[k].first = Past(a) /\ e = holes[k].last + 1)
    BY <1>4, <2>0
  <2> HIDE DEF e
  <2>2. CASE e = a
    BY <1>8, <2>2 DEF e
  <2>3. CASE e = -1
    <3>1. \A b \in Nat : ~(b < e)
      BY <2>3
    <3> QED BY <3>1 DEF e
  <2>4. CASE holes[k].first = Past(a) /\ e = holes[k].last + 1
    <3> SUFFICES ASSUME NEW b \in Nat, w.first <= b, b < e
                 PROVE  Has(S, b) \/ \E i \in s : holes[i].first <= b /\ b <= holes[i].last
      BY DEF e
    <3>1. Past(a) \in Int /\ (a <= b /\ b < Past(a) => Has(S, b))
      BY <1>3
    <3>2. CASE b < a
      BY <1>8, <3>2
    <3>3. CASE a <= b /\ b < Past(a)
      BY <3>1, <3>3
    <3>4. CASE ~(b < Past(a))
      <4>1. holes[k].last \in Int
        BY <2>0
      <4>2. holes[k].first <= b /\ b <= holes[k].last
        BY <2>4, <3>1, <3>4, <4>1
      <4> QED BY <4>2
    <3> QED BY <3>1, <3>2, <3>3, <3>4
  <2> QED BY <2>1, <2>2, <2>3, <2>4
<1> DEFINE Good(s) == f[s] \in Int /\ Free(w.first, f[s], s)
           Bad == {m \in Nat : \E s \in SUBSET D : Cardinality(s) = m /\ ~Good(s)}
<1>9. \A s \in SUBSET D : IsFiniteSet(s) /\ Cardinality(s) \in Nat
  <2>1. IsFiniteSet(D)
    BY FS_Interval
  <2> HIDE DEF D
  <2>2. \A s \in SUBSET D : IsFiniteSet(s)
    BY <2>1, FS_Subset
  <2> QED BY <2>2, FS_CardinalityType
<1> HIDE DEF D
<1>10. \A s \in SUBSET D : Good(s)
  <2>1. SUFFICES ASSUME Bad # {} PROVE FALSE
    BY <1>9
  <2>2. PICK m \in Bad : \A k \in Bad : m <= k
    BY <2>1, LeastNat
  <2>3. PICK s \in SUBSET D : Cardinality(s) = m /\ ~Good(s)
    BY <2>2
  <2>4. s # {}
    <3>1. Good({})
      <4>1. f[{}] = w.first /\ w.first \in Int
        BY <1>7
      <4>2. \A b \in Nat : ~(w.first <= b /\ b < w.first)
        BY <4>1
      <4> QED BY <4>1, <4>2
    <3> QED BY <2>3, <3>1
  <2> DEFINE k == Max(s)
             t == s \ {k}
  <2>5. k \in s /\ k \in D /\ t \in SUBSET D
    BY <1>5, <2>4
  <2>6. Cardinality(t) = m - 1 /\ Cardinality(t) \in Nat
    BY <1>9, <2>3, <2>5, FS_RemoveElement
  <2>7. Good(t)
    <3>1. m \in Nat /\ \A j \in Bad : m <= j
      BY <2>2
    <3> HIDE DEF Bad
    <3>2. Cardinality(t) \notin Bad
      BY <2>6, <3>1
    <3> USE DEF Bad
    <3> QED BY <2>5, <2>6, <3>2
  <2>8. f[s] = Through(f[t], holes[k])
    BY <1>7, <2>4
  <2>9. \A i \in t : i \in s
    OBVIOUS
  <2> HIDE DEF k, t
  <2>10. f[t] \in Int /\ Free(w.first, f[t], s)
    BY <2>7, <2>9
  <2>11. Free(w.first, Through(f[t], holes[k]), s)
    <3> HIDE DEF Free
    <3> QED BY <1>8, <2>5, <2>10
  <2>12. f[s] \in Int
    BY <1>4, <2>5, <2>8, <2>10
  <2> QED BY <2>3, <2>8, <2>11, <2>12
<1>11. f[D] \in Int /\ Free(w.first, f[D], D)
  BY <1>10
<1> SUFFICES ASSUME NEW b \in Nat, w.first <= b, b <= w.last
             PROVE  Has(S, b) \/ \E k \in D : holes[k].first <= b /\ b <= holes[k].last
  BY DEF D
<1>12. /\ Past(f[D]) \in Int
       /\ f[D] <= b /\ b < Past(f[D]) => Has(S, b)
  BY <1>3, <1>11
<1>13. b < Past(f[D])
  BY <1>1, <1>12 DEF D
<1>14. CASE b < f[D]
  BY <1>11, <1>14
<1>15. CASE ~(b < f[D])
  BY <1>11, <1>12, <1>13, <1>15
<1> QED BY <1>14, <1>15
=============================================================================
