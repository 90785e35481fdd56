----------------------------- MODULE BootProofs ------------------------------
(***************************************************************************)
(* What a boot makes, for every description, heap and geometry of the page *)
(* tables.  The ready queue is one ring of all the threads that were       *)
(* created (RInv).  Memory has one use, UTCBs are apart, the page tables   *)
(* are trees and the walk that fills them is where its locals say (BInv).  *)
(* What is mapped is what was asked, less what is left to do and what was  *)
(* given up, so the tables implement the abstract map (MapInv).            *)
(***************************************************************************)
EXTENDS Boot, ListLemmas, FiniteSetTheorems, TLAPS

\* The links of a queue of n threads, as ReadyRing has them.
Ring(r, n) ==
  /\ r.next \in Seq(Nat) /\ r.prev \in Seq(Nat)
  /\ Len(r.next) = n /\ Len(r.prev) = n
  /\ r.head = IF n = 0 THEN None ELSE 1
  /\ \A t \in 1 .. n : r.next[t] = (t % n) + 1 /\ r.prev[(t % n) + 1] = t

\* Between CreateThread and Enqueue there is one thread more than the queue
\* has, unless its object could not be had: then the boot stops there.
Creating == {"utcb", "utcb_map", "enqueue"}

Count(n) ==
  /\ \E S : threads \in Seq(S)
  /\ pc \notin Creating => Len(threads) = n
  /\ pc \in Creating =>
       \/ Len(threads) = n + 1
       \/ undefined /\ pc = "utcb" /\ Len(threads) = n

RInv == Ring(ready, Len(ready.next)) /\ Count(Len(ready.next))
-----------------------------------------------------------------------------
\* The thread after t in a ring of n.
LEMMA ModCases ==
  ASSUME NEW n \in Nat, NEW t \in 1 .. n
  PROVE  t % n = IF t = n THEN 0 ELSE t
OBVIOUS

\* An element at the end of a sequence.
LEMMA Appended ==
  ASSUME NEW S, NEW s \in Seq(S), NEW e \in S
  PROVE  /\ Append(s, e) \in Seq(S) /\ Len(Append(s, e)) = Len(s) + 1
         /\ \A i \in 1 .. Len(s) : Append(s, e)[i] = s[i]
         /\ Append(s, e)[Len(s) + 1] = e
OBVIOUS

\* An element of a sequence changed.
LEMMA Changed ==
  ASSUME NEW S, NEW s \in Seq(S), NEW i \in 1 .. Len(s), NEW e \in S
  PROVE  /\ [s EXCEPT ![i] = e] \in Seq(S) /\ Len([s EXCEPT ![i] = e]) = Len(s)
         /\ \A j \in 1 .. Len(s) :
              [s EXCEPT ![i] = e][j] = IF j = i THEN e ELSE s[j]
OBVIOUS

\* The links, field by field.
LEMMA Fields ==
  ASSUME NEW h, NEW n, NEW p
  PROVE  LET r == [head |-> h, next |-> n, prev |-> p] IN
         r.head = h /\ r.next = n /\ r.prev = p
OBVIOUS

\* Whatever is appended, a sequence stays one.
LEMMA AnyAppended ==
  ASSUME NEW s, NEW e, \E S : s \in Seq(S)
  PROVE  (\E S : Append(s, e) \in Seq(S)) /\ Len(Append(s, e)) = Len(s) + 1
<1>1. PICK S : s \in Seq(S)
  OBVIOUS
<1> DEFINE T == S \cup {e}
<1>2. s \in Seq(T) /\ e \in T
  BY <1>1
<1> HIDE DEF T
<1> QED BY <1>2, Appended

\* ENQUEUE_LIST_TAIL keeps the ring and puts the new thread last.
LEMMA EnqueuedRing ==
  ASSUME NEW n \in Nat, Ring(ready, n)
  PROVE  Ring(Enqueued(n + 1), n + 1)
<1>1. CASE n = 0
  <2>1. Enqueued(n + 1) = [head |-> 1, next |-> <<1>>, prev |-> <<1>>]
    BY <1>1 DEF Ring, Enqueued, None
  <2>2. <<1>> \in Seq(Nat) /\ Len(<<1>>) = 1 /\ <<1>>[1] = 1
    OBVIOUS
  <2>3. ASSUME NEW t \in 1 .. n + 1 PROVE t = 1 /\ (t % (n + 1)) + 1 = 1
    <3>1. t \in 1 .. 1 /\ t = 1 /\ n + 1 = 1 /\ 1 \in Nat /\ 1 \in 1 .. 1
      BY <1>1
    <3>2. 1 % 1 = 0
      BY <3>1, ModCases
    <3> QED BY <3>1, <3>2
  <2>4. n + 1 = 1 /\ \A t \in 1 .. 1 : t = 1 /\ (t % 1) + 1 = 1
    BY <1>1, <2>3
  <2> DEFINE new == Enqueued(n + 1)
  <2>5. new.head = 1 /\ new.next = <<1>> /\ new.prev = <<1>>
    BY <2>1, Fields
  <2> HIDE DEF new
  <2>6. Ring(new, 1)
    BY <2>2, <2>4, <2>5 DEF Ring
  <2> QED BY <2>4, <2>6 DEF new
<1>2. CASE n # 0
  <2> DEFINE next == Append(ready.next, 1)
             prev == Append(ready.prev, n)
             next_ == [next EXCEPT ![n] = n + 1]
             prev_ == [prev EXCEPT ![1] = n + 1]
             new   == Enqueued(n + 1)
  <2>1. n \in 1 .. n /\ n % n = 0 /\ ready.head = 1 /\ 1 \in Nat /\ n + 1 \in Nat
    BY <1>2, ModCases DEF Ring
  <2>2. ready.prev[1] = n
    BY <2>1 DEF Ring
  <2>3. new.head = 1 /\ new.next = next_ /\ new.prev = prev_
    <3>1. new = [head |-> 1, next |-> next_, prev |-> prev_]
      BY <2>1, <2>2 DEF Enqueued, None
    <3> HIDE DEF next_, prev_, new
    <3> QED BY <3>1, Fields
  <2>4. /\ next \in Seq(Nat) /\ Len(next) = n + 1
        /\ \A i \in 1 .. n : next[i] = ready.next[i]
        /\ next[n + 1] = 1
    BY <2>1, Appended DEF Ring
  <2>5. /\ prev \in Seq(Nat) /\ Len(prev) = n + 1
        /\ \A i \in 1 .. n : prev[i] = ready.prev[i]
        /\ prev[n + 1] = n
    BY <2>1, Appended DEF Ring
  <2> HIDE DEF next, prev
  <2>6. n \in 1 .. Len(next) /\ 1 \in 1 .. Len(prev)
    BY <2>1, <2>4, <2>5
  <2>7. /\ new.next \in Seq(Nat) /\ Len(new.next) = n + 1
        /\ \A i \in 1 .. n + 1 : new.next[i] = IF i = n THEN n + 1 ELSE next[i]
    <3>1. /\ next_ \in Seq(Nat) /\ Len(next_) = Len(next)
          /\ \A j \in 1 .. Len(next) : next_[j] = IF j = n THEN n + 1 ELSE next[j]
      BY <2>1, <2>4, <2>6, Changed
    <3> HIDE DEF next_, new
    <3> QED BY <2>3, <2>4, <3>1
  <2>8. /\ new.prev \in Seq(Nat) /\ Len(new.prev) = n + 1
        /\ \A i \in 1 .. n + 1 : new.prev[i] = IF i = 1 THEN n + 1 ELSE prev[i]
    <3>1. /\ prev_ \in Seq(Nat) /\ Len(prev_) = Len(prev)
          /\ \A j \in 1 .. Len(prev) : prev_[j] = IF j = 1 THEN n + 1 ELSE prev[j]
      BY <2>1, <2>5, <2>6, Changed
    <3> HIDE DEF prev_, new
    <3> QED BY <2>3, <2>5, <3>1
  <2>9. new.head = 1
    BY <2>3
  <2> HIDE DEF new
  <2>10. ASSUME NEW t \in 1 .. n + 1
         PROVE  new.next[t] = (t % (n + 1)) + 1 /\ new.prev[(t % (n + 1)) + 1] = t
    <3>1. t % (n + 1) = IF t = n + 1 THEN 0 ELSE t
      BY Zenon, <2>1, ModCases
    <3>2. CASE t < n
      <4>1. t \in 1 .. n /\ t + 1 \in 2 .. n /\ t % n = t /\ t % (n + 1) = t
        BY <3>1, <3>2, ModCases
      <4>2. ready.next[t] = t + 1 /\ ready.prev[t + 1] = t
        BY Zenon, <4>1 DEF Ring
      <4>2a. t + 1 \in 1 .. n
        BY <2>1, <4>1
      <4>3. next[t] = t + 1 /\ prev[t + 1] = t
        <5>1. next[t] = ready.next[t]
          BY Zenon, <2>4, <4>1
        <5>2. prev[t + 1] = ready.prev[t + 1]
          BY <2>5, <4>2a
        <5> QED BY <4>2, <5>1, <5>2
      <4>4. t # n /\ t + 1 # 1 /\ t + 1 \in 1 .. n + 1
        BY <2>1, <3>2
      <4>5. new.next[t] = next[t] /\ new.prev[t + 1] = prev[t + 1]
        BY Zenon, <2>7, <2>8, <4>1, <4>4
      <4> QED BY <4>1, <4>3, <4>5
    <3>3. CASE t = n
      <4>1. n % (n + 1) = n /\ n + 1 # 1 /\ n + 1 \in 1 .. n + 1
        BY <1>2, <3>1, <3>3
      <4> QED BY <2>1, <2>5, <2>7, <2>8, <3>3, <4>1
    <3>4. CASE t = n + 1
      <4>1. (n + 1) % (n + 1) = 0 /\ n + 1 # n /\ 1 \in 1 .. n + 1
        BY <3>1, <3>4
      <4>2. new.next[n + 1] = next[n + 1] /\ new.prev[1] = n + 1
        BY <2>7, <2>8, <3>4, <4>1
      <4> QED BY <2>4, <3>4, <4>1, <4>2
    <3> QED BY <3>2, <3>3, <3>4
  <2> QED BY <1>2, <2>7, <2>8, <2>9, <2>10 DEF Ring, new
<1> QED BY <1>1, <1>2
-----------------------------------------------------------------------------
\* The steps that neither create nor queue a thread.
LEMMA Elsewhere ==
  ASSUME RInv, UNCHANGED <<ready, threads>>, pc \notin Creating, pc' \notin Creating
  PROVE  RInv'
BY Zenon DEF RInv, Count, Ring

\* After an operation no thread is being created.
LEMMA BehindElsewhere ==
  ASSUME NEW op, Behind(op) PROVE pc' \notin Creating
BY DEF Behind, Creating

\* CreateThread makes the thread the queue does not have yet, or stops the boot.
LEMMA CreateInv ==
  ASSUME RInv, CreateThread
  PROVE  RInv'
<1> DEFINE n == Len(ready.next)
           new == Append(threads, [space |-> Current, tcb |-> Given, utcb |-> NoUtcb])
<1>1. /\ ready' = ready /\ pc \notin Creating /\ pc' = "utcb"
      /\ threads' = IF undefined' /\ objects' = objects THEN threads ELSE new
  BY DEF CreateThread, BeginOp, Creating
<1>2. Ring(ready, n) /\ Len(threads) = n /\ \E S : threads \in Seq(S)
  BY <1>1 DEF RInv, Count
<1>3. (\E S : new \in Seq(S)) /\ Len(new) = n + 1
  BY Zenon, <1>2, AnyAppended
<1> HIDE DEF new
<1>4. CASE undefined' /\ threads' = threads
  BY Zenon, <1>1, <1>2, <1>4 DEF RInv, Count, Ring
<1>5. CASE threads' = new
  <2>1. Ring(ready', Len(ready'.next)) /\ pc' \in Creating
    BY <1>1, <1>2 DEF Creating
  <2>2. (\E S : threads' \in Seq(S)) /\ Len(threads') = Len(ready'.next) + 1
    BY <1>1, <1>3, <1>5
  <2> QED BY <2>1, <2>2, Zenon DEF RInv, Count
<1> QED BY <1>1, <1>4, <1>5

\* A thread's UTCB changes no number of threads.
LEMMA SetUtcbCount ==
  ASSUME NEW pos, SetUtcb(pos), \E S : threads \in Seq(S), Len(threads) \in Nat \ {0}
  PROVE  (\E S : threads' \in Seq(S)) /\ Len(threads') = Len(threads)
<1> DEFINE e == [threads[Len(threads)] EXCEPT !.utcb = pos]
<1>1. PICK S : threads \in Seq(S)
  OBVIOUS
<1> DEFINE T == S \cup {e}
<1>2. threads \in Seq(T) /\ e \in T /\ Len(threads) \in 1 .. Len(threads)
  BY <1>1
<1>3. threads' = [threads EXCEPT ![Len(threads)] = e]
  BY DEF SetUtcb
<1> HIDE DEF T, e
<1>4. /\ [threads EXCEPT ![Len(threads)] = e] \in Seq(T)
      /\ Len([threads EXCEPT ![Len(threads)] = e]) = Len(threads)
  BY <1>2, Changed
<1> QED BY <1>3, <1>4

\* The steps that give a thread its UTCB leave the queue and the threads as many.
LEMMA UtcbInv ==
  ASSUME RInv, NoUtcbLeft \/ UtcbInPage \/ UtcbNoPage \/ MapUtcb
  PROVE  RInv'
<1> DEFINE n == Len(ready.next)
<1>1. /\ ready' = ready /\ pc \in Creating /\ pc' \in {"utcb_map", "enqueue"}
      /\ pc = "utcb" => ~undefined
      /\ threads' = threads \/ \E pos : SetUtcb(pos)
  BY DEF NoUtcbLeft, UtcbInPage, UtcbNoPage, MapUtcb, Creating, system
<1>2. Ring(ready, n) /\ Len(threads) = n + 1 /\ n \in Nat /\ \E S : threads \in Seq(S)
  <2>1. Ring(ready, n) /\ Count(n)
    BY DEF RInv
  <2>2. n \in Nat
    BY <2>1 DEF Ring
  <2> HIDE DEF n
  <2> QED BY <1>1, <2>1, <2>2, Zenon DEF Count
<1>3. Len(threads) \in Nat \ {0}
  BY <1>2
<1>4. (\E S : threads' \in Seq(S)) /\ Len(threads') = n + 1
  BY <1>1, <1>2, <1>3, SetUtcbCount
<1> QED BY Zenon, <1>1, <1>2, <1>4 DEF RInv, Count, Ring, Creating

\* Enqueue closes the ring again, one thread longer.
LEMMA EnqueueInv ==
  ASSUME RInv, Enqueue
  PROVE  RInv'
<1> DEFINE n == Len(ready.next)
<1>1. /\ ready' = Enqueued(Len(threads)) /\ threads' = threads
      /\ pc = "enqueue" /\ pc' \notin Creating
  BY BehindElsewhere DEF Enqueue
<1>2. Ring(ready, n) /\ Len(threads) = n + 1 /\ n \in Nat /\ \E S : threads \in Seq(S)
  <2>1. Ring(ready, n) /\ Count(n)
    BY DEF RInv
  <2>2. n \in Nat
    BY <2>1 DEF Ring
  <2>3. pc \in Creating /\ pc # "utcb"
    BY <1>1 DEF Creating
  <2> HIDE DEF n
  <2> QED BY <2>1, <2>2, <2>3, Zenon DEF Count
<1> HIDE DEF n
<1>3. Ring(ready', n + 1)
  BY <1>1, <1>2, EnqueuedRing
<1>4. Len(ready'.next) = n + 1
  BY <1>3 DEF Ring
<1> QED BY <1>1, <1>2, <1>3, <1>4 DEF RInv, Count

\* No step breaks the ring or the count.
LEMMA NextInv ==
  ASSUME RInv, [BootNext]_vars
  PROVE  RInv'
<1>1. CASE UNCHANGED vars \/ (W!Next /\ UNCHANGED bvars)
  BY Zenon, <1>1 DEF vars, bvars, system, replay, pools, RInv, Count, Ring
<1>2. CASE Load
  BY <1>2, Elsewhere DEF Load, system, Creating
<1>3. CASE CreateHeap \/ Skip \/ CreateSegment \/ Mapped
  <2>1. pc \notin Creating /\ UNCHANGED <<ready, threads>> /\ \E op : Behind(op)
    BY <1>3 DEF CreateHeap, Skip, CreateSegment, Mapped, BeginOp, system, Creating
  <2> QED BY <2>1, Elsewhere, BehindElsewhere
<1>4. CASE PageDirectory \/ SegmentList
  <2>1. /\ pc \notin Creating /\ UNCHANGED <<ready, threads>>
        /\ (\E op : Behind(op)) \/ pc' \in {"segments", pc}
    BY <1>4 DEF PageDirectory, SegmentList, Creating
  <2> QED BY <2>1, Elsewhere, BehindElsewhere DEF Creating
<1>5. CASE CreateSpace \/ MapMemory \/ IdleTcb \/ MapTurn \/ Schedule
  <2>1. /\ pc \notin Creating /\ pc' \notin Creating /\ UNCHANGED <<ready, threads>>
    BY <1>5 DEF CreateSpace, MapMemory, IdleTcb, MapTurn, Schedule, BeginOp,
                system, replay, Creating
  <2> QED BY <2>1, Elsewhere
<1>6. CASE KernelTable("utcb_page", "vectors") \/ KernelTable("vectors", "idle")
  BY <1>6, Elsewhere DEF KernelTable, Creating
<1> QED
  BY <1>1, <1>2, <1>3, <1>4, <1>5, <1>6, CreateInv, UtcbInv, EnqueueInv
  DEF BootNext, Boot

\* Before the boot there is no thread and no queue.
LEMMA InitInv == ASSUME BootInit PROVE RInv
<1>1. /\ threads = <<>> /\ pc = "off"
      /\ ready.head = 0 /\ ready.next = <<>> /\ ready.prev = <<>>
  BY DEF BootInit, Init, None
<1>2. <<>> \in Seq(Nat) /\ Len(<<>>) = 0 /\ \A t \in 1 .. 0 : FALSE
  OBVIOUS
<1>3. Ring(ready, 0)
  BY <1>1, <1>2 DEF Ring, None
<1>4. Count(0)
  BY <1>1, <1>2 DEF Count, Creating
<1> QED BY <1>1, <1>2, <1>3, <1>4 DEF RInv

\* The ready queue is one ring of all the threads created, whatever script
\* the boot replays and wherever memory runs out.
THEOREM BootReadyRing == BootSpec => []ReadyRing
<1>1. RInv => ReadyRing
  BY Zenon DEF RInv, Count, Ring, ReadyRing, Creating
<1> QED
  BY <1>1, InitInv, NextInv, PTL DEF BootSpec
-----------------------------------------------------------------------------
Pointer(x)      == [kind |-> "table", to |-> x]
PageEntry(t, f) == [kind |-> "page", size |-> t, frame |-> f]
Bases           == {b.base : b \in blocks}

\* The blocks of the heap, apart from each other and from what is available.
HeapInv ==
  /\ avail \subseteq 1 .. Chunks
  /\ \A b \in blocks : /\ b.base \in 1 .. Chunks /\ b.n \in Nat \ {0}
                       /\ b = [base |-> b.base, n |-> b.n]
                       /\ Heap!Run(b.base, b.n) \cap avail = {}
  /\ \A x, y \in blocks : x # y =>
       Heap!Run(x.base, x.n) \cap Heap!Run(y.base, y.n) = {}

\* The tables of each level: what they hold and how many entries they have.
RootShape(x) ==
  /\ \E s \in SpacesMade : x = Root(s)
  /\ DOMAIN tables[x] = 0 .. TableSize(3) - 1
  /\ \A i \in DOMAIN tables[x] :
       \/ tables[x][i] = Nil
       \/ \E y \in DOMAIN tables : y.level = 2 /\ tables[x][i] = Pointer(y)
MiddleShape(x) ==
  /\ x = [level |-> 2, at |-> x.at] /\ x.at \in Bases
  /\ DOMAIN tables[x] = 0 .. TableSize(2) - 1
  /\ \A i \in DOMAIN tables[x] :
       \/ tables[x][i] = Nil
       \/ \E y \in DOMAIN tables : y.level = 1 /\ tables[x][i] = Pointer(y)
       \/ \E f \in Nat : tables[x][i] = PageEntry(2, f)
LowShape(x) ==
  /\ x = [level |-> 1, at |-> x.at] /\ x.at \in Bases
  /\ DOMAIN tables[x] = 0 .. Size[2] - 1
  /\ \A i \in DOMAIN tables[x] :
       \/ tables[x][i] = Nil
       \/ \E f \in Nat : tables[x][i] = PageEntry(0, f)

SpaceRecord(a, b, c, d) == [utcb |-> a, free |-> b, list |-> c, segs |-> d]
SpaceShape(r) ==
  /\ r = SpaceRecord(r.utcb, r.free, r.list, r.segs)
  /\ r.free \subseteq 0 .. UtcbBitmap - 1
  /\ \/ r.utcb = Nil
     \/ \E x \in DOMAIN tables : x.level = 1 /\ r.utcb = Pointer(x)

ShapeInv ==
  /\ \A x \in DOMAIN tables : RootShape(x) \/ MiddleShape(x) \/ LowShape(x)
  /\ \E S : spaces \in Seq(S)
  /\ \A s \in SpacesMade : Root(s) \in DOMAIN tables /\ SpaceShape(spaces[s])

\* Every table but the roots hangs in one place: an entry of another table or
\* a space's entry for UTCBs.
Hangs(q, i, p) ==
  q \in DOMAIN tables /\ i \in DOMAIN tables[q] /\ tables[q][i] = Pointer(p)
HangsInSpace(s, p) == s \in SpacesMade /\ spaces[s].utcb = Pointer(p)
OneParent(p) ==
  /\ \/ \E q \in DOMAIN tables : \E i \in DOMAIN tables[q] : Hangs(q, i, p)
     \/ \E s \in SpacesMade : HangsInSpace(s, p)
  /\ \A q, r \in DOMAIN tables : \A i \in DOMAIN tables[q], j \in DOMAIN tables[r] :
       Hangs(q, i, p) /\ Hangs(r, j, p) => q = r /\ i = j
  /\ \A s, t \in SpacesMade : HangsInSpace(s, p) /\ HangsInSpace(t, p) => s = t
  /\ \A s \in SpacesMade, q \in DOMAIN tables : \A i \in DOMAIN tables[q] :
       ~(HangsInSpace(s, p) /\ Hangs(q, i, p))
TreeInv == \A p \in DOMAIN tables : p.level < 3 => OneParent(p)

\* Who uses a block: kind, which one, and the block.
UtcbTable(s) == tables[spaces[s].utcb.to]
TableOwners  == {<<"table", x, x.at>> : x \in {y \in DOMAIN tables : y.level < 3}}
UtcbPlaces   ==
  UNION {{<<s, i>> : i \in {j \in DOMAIN UtcbTable(s) : UtcbTable(s)[j] # Nil}} :
           s \in {t \in SpacesMade : spaces[t].utcb # Nil}}
UtcbOwners   == {<<"utcb", x, UtcbTable(x[1])[x[2]].frame>> : x \in UtcbPlaces}
ListOwners   == {<<"list", s, spaces[s].list>> : s \in {t \in SpacesMade : spaces[t].list # None}}
PoolOwners   == {<<"pool", o.pool, o.base>> : o \in objects}
KernelOwners == {<<"kernel", k, kernel[k]>> : k \in {j \in DOMAIN kernel : kernel[j] # None}}
PageOwners   == {<<"page", 0, x>> : x \in {page.base} \ {None}}
Owners == TableOwners \cup UtcbOwners \cup ListOwners \cup PoolOwners
          \cup KernelOwners \cup PageOwners
OwnersInv ==
  /\ \A o \in Owners : o[3] \in Bases
  /\ \A o, u \in Owners : o[3] = u[3] => o[1] = u[1] /\ o[2] = u[2]

\* The pools of small objects.
InPool(c) == {o.pos : o \in {x \in objects : x.base = c}}
PoolNames == {"space", "tcb", "l0"}
OnePool(p, c) ==
  /\ \E o \in objects : o.pool = p
  /\ bitmap[c] = (0 .. SA!ObjsPerBlock(ObjSize[p]) - 1) \ InPool(c)
  /\ undefined \/ bitmap[c] # {}
PoolInv ==
  /\ first_free \in [PoolNames -> 0 .. Chunks]
  /\ \A p, q \in PoolNames : first_free[p] # 0 /\ first_free[p] = first_free[q] => p = q
  /\ DOMAIN bitmap = 1 .. Chunks
  /\ \A o \in objects :
       /\ o = [pool |-> o.pool, base |-> o.base, pos |-> o.pos]
       /\ o.pool \in PoolNames
       /\ o.base = first_free[o.pool]
       /\ o.pos \in 0 .. SA!ObjsPerBlock(ObjSize[o.pool]) - 1
       /\ [base |-> o.base, n |-> Heap!ChunksNeeded(BlockSize)] \in blocks
  /\ \A p \in PoolNames : first_free[p] # 0 => OnePool(p, first_free[p])

\* A thread with a UTCB has a bit of its space and an entry in its table; the
\* thread being created and the page being mapped have neither yet.
Claims(n) == threads[n].utcb # NoUtcb
ThreadInv ==
  /\ \E S : threads \in Seq(S)
  /\ \A n \in DOMAIN threads :
       /\ threads[n] = [space |-> threads[n].space, tcb |-> threads[n].tcb,
                        utcb |-> threads[n].utcb]
       /\ threads[n].space \in SpacesMade
       /\ Claims(n) =>
            /\ threads[n].utcb \in 0 .. UtcbBitmap - 1
            /\ threads[n].utcb \notin spaces[threads[n].space].free
            /\ spaces[threads[n].space].utcb # Nil
            /\ UtcbTable(threads[n].space)[PageOf(threads[n].utcb)] # Nil
  /\ \A m, n \in DOMAIN threads :
       /\ m # n /\ Claims(m) /\ Claims(n) /\ threads[m].space = threads[n].space
       => threads[m].utcb # threads[n].utcb
  /\ pc \in Creating /\ ~(undefined /\ pc = "utcb") =>
       /\ threads # <<>> /\ spaces # <<>>
       /\ threads[Len(threads)].space = Current
       /\ pc # "enqueue" => ~Claims(Len(threads))

PageInv ==
  /\ pc # "utcb_map" => page = NoPage
  /\ pc = "utcb_map" =>
       /\ page = [base |-> page.base, pos |-> page.pos] /\ page.base \in Bases
       /\ page.base # None
       /\ page.pos \in (0 .. UtcbBitmap - 1) \ spaces[Current].free
       /\ UtcbEntry(spaces[Current].utcb, page.pos) = Nil
       /\ \A n \in DOMAIN threads : threads[n].space = Current => threads[n].utcb # page.pos

\* The section of the processor's directory is the current space's, if only
\* by its claim.
SectionInv ==
  /\ spaces # <<>> => \/ cpd = Claimed(Current)
                      \/ cpd = spaces[Current].utcb /\ cpd # Nil
  /\ \A z \in zeroed :
       /\ z.space \in SpacesMade /\ spaces[z.space].utcb # Nil /\ z.at # Nil
       /\ \E i \in DOMAIN UtcbTable(z.space) : UtcbTable(z.space)[i] = z.at

LostInv ==
  \A s \in SpacesMade : \A pos \in (0 .. UtcbBitmap - 1) \ spaces[s].free :
    \/ \E n \in DOMAIN threads : threads[n].space = s /\ threads[n].utcb = pos
    \/ pc = "utcb_map" /\ s = Current /\ page.pos = pos
    \/ Heap!Place(Heap!ChunksNeeded(UtcbBytes)) = {}

\* What a space still has to be given is a natural number of segments.
SavedInv ==
  /\ pc \in {"pdir", "segments"} =>
       cur_saved.args[2] \in Nat /\ ListBytes(cur_saved.args[2]) \in Nat
  /\ pc = "segments" => spaces # <<>>

-----------------------------------------------------------------------------
\* The walk.  The pages of one map_fpage lie in one section: they are reached
\* through one entry of each table above.
Section == region.v - (region.v % Size[2])
Upper   == tables[Root(region.space)][Index(3, region.v)]
Middle  == tables[Upper.to][Index(2, region.v)]
AtTop(pg) == pg = [table |-> Root(region.space), idx |-> Index(3, region.v)]
AtMiddle(pg) ==
  /\ Upper.kind = "table" /\ pg = [table |-> Upper.to, idx |-> Index(2, region.v)]
AtLow(pg, a) ==
  /\ Upper.kind = "table" /\ Middle.kind = "table"
  /\ pg = [table |-> Middle.to, idx |-> a - Section]

RegionInv ==
  /\ walk.on => pc = "map"
  /\ pc = "map" /\ region.n # 0 =>
       /\ DOMAIN region = {"space", "v", "p", "n"}
       /\ region.space = Current /\ spaces # <<>>
       /\ region.v \in Nat /\ region.p \in Nat /\ region.n \in Nat
       /\ region.v + region.n <= Size[4]

Locals == {"on", "pgsize", "size", "num", "addr", "phys", "pages", "at", "r_tpg", "r_tnum"}
PagesInv ==
  walk.on =>
    /\ DOMAIN walk = Locals
    /\ region.n # 0 /\ walk.pages \in 1 .. region.n /\ walk.num \in Nat
    /\ \E t \in 0 .. 2 : walk.pages = Size[t]
    /\ region.v % walk.pages = 0 /\ region.p % walk.pages = 0

RestBehind ==
  /\ walk.pgsize = 0 => walk.addr + walk.num = region.v + walk.pages
  /\ walk.pgsize # 0 =>
       /\ (walk.addr + walk.num) % Size[1] = 0
       /\ AtLow(walk.r_tpg[0], walk.addr + walk.num)
       /\ walk.addr + walk.num + walk.r_tnum[0] * Size[1] = region.v + walk.pages
WalkNumbers ==
  /\ walk.pgsize \in 0 .. 2 /\ walk.size \in 0 .. 3
  /\ DOMAIN walk.r_tpg = 0 .. 2 /\ walk.r_tnum \in [0 .. 2 -> Nat]
  /\ walk.pages % Size[walk.pgsize] = 0
  /\ walk.addr \in region.v .. region.v + walk.pages - 1
  /\ walk.phys = region.p + (walk.addr - region.v)
  /\ walk.size > walk.pgsize =>
       walk.addr = region.v /\ walk.num * Size[walk.pgsize] = walk.pages
WalkPlaces ==
  /\ walk.size = 3 => AtTop(walk.at)
  /\ walk.size = 2 =>
       /\ AtMiddle(walk.at)
       /\ walk.pgsize = 2 => walk.num = 1 /\ walk.addr = region.v
                             /\ walk.pages = Size[2]
  /\ walk.size = 1 =>
       /\ AtLow(walk.at, walk.addr - (walk.addr % Size[1]))
       /\ walk.pgsize # 0 =>
            /\ walk.addr % Size[1] = 0
            /\ walk.addr + walk.num * Size[1] = region.v + walk.pages
  /\ walk.size = 0 => AtLow(walk.at, walk.addr) /\ RestBehind
  /\ walk.size < 2 /\ walk.pgsize = 2 => walk.r_tnum[1] = 0
WalkInv == walk.on /\ walk.num # 0 => WalkNumbers /\ WalkPlaces
-----------------------------------------------------------------------------
Single(T) == Map!Single(T)
\* What is left to do of the region, from the page the walk is at.
LeftFrom == IF ~walk.on THEN 0 ELSE IF walk.num = 0 THEN walk.pages
            ELSE walk.addr - region.v
Left == IF pc = "map" /\ region.n # 0
        THEN Pairs(region.space, region.v + LeftFrom, region.p + LeftFrom, region.n - LeftFrom)
        ELSE {}

MapInv ==
  /\ Single(asked)
  /\ \A x \in asked : x = <<x[1], x[2], x[3]>> /\ x[1] \in SpacesMade
                      /\ x[2] \in 0 .. Size[4] - 1 /\ x[3] \in Nat
  /\ given_up \subseteq asked
  /\ Left \subseteq asked \ given_up
  /\ Translations(SpacesMade) = (asked \ given_up) \ Left
-----------------------------------------------------------------------------
(* Arithmetic: division by a size and by its multiples.                      *)

\* A natural number by its quotient and remainder.
LEMMA Division ==
  ASSUME NEW n \in Nat \ {0}, NEW a \in Nat
  PROVE  /\ a \div n \in Nat /\ a % n \in 0 .. n - 1
         /\ a = n * (a \div n) + (a % n)
OBVIOUS

\* Multiples of n are n apart.
LEMMA Between ==
  ASSUME NEW n \in Nat \ {0}, NEW p \in Int, NEW q \in Int, p < q
  PROVE  n * p + n <= n * q
<1>1. n * (q - p - 1) >= 0
  OBVIOUS
<1>2. n * (q - p - 1) = n * q - n * p - n
  OBVIOUS
<1> QED BY <1>1, <1>2

\* A quotient and a remainder are the only ones.
LEMMA DivisionOnly ==
  ASSUME NEW n \in Nat \ {0}, NEW a \in Nat, NEW q \in Nat, NEW r \in 0 .. n - 1,
         a = n * q + r
  PROVE  a \div n = q /\ a % n = r
<1> DEFINE p == a \div n
           s == a % n
<1>1. p \in Nat /\ s \in 0 .. n - 1 /\ a = n * p + s
  BY Zenon, Division
<1> HIDE DEF p, s
<1>2. CASE p < q
  <2>1. n * p + n <= n * q
    BY <1>1, <1>2, Between
  <2>2. n * p \in Int /\ n * q \in Int
    BY <1>1
  <2> QED BY <1>1, <2>1, <2>2
<1>3. CASE q < p
  <2>1. n * q + n <= n * p
    BY <1>1, <1>3, Between
  <2>2. n * p \in Int /\ n * q \in Int
    BY <1>1
  <2> QED BY <1>1, <2>1, <2>2
<1>4. p = q /\ s = r
  BY <1>1, <1>2, <1>3
<1> QED BY <1>4 DEF p, s

\* Dividing by a product is dividing twice: an address by the size of a table.
LEMMA DivDiv ==
  ASSUME NEW m \in Nat \ {0}, NEW n \in Nat \ {0}, NEW a \in Nat
  PROVE  /\ a \div (n * m) = (a \div m) \div n
         /\ a % (n * m) = m * ((a \div m) % n) + (a % m)
<1> DEFINE q == a \div m
           r == a % m
           k == q \div n
           j == q % n
<1>1. q \in Nat /\ r \in 0 .. m - 1 /\ a = m * q + r
  BY Zenon, Division
<1>2. k \in Nat /\ j \in 0 .. n - 1 /\ q = n * k + j
  BY Zenon, <1>1, Division
<1> HIDE DEF q, r, k, j
<1>3. n * m \in Nat \ {0}
  OBVIOUS
<1>4. m * j + m <= m * n /\ 0 <= m * j
  <2>1. j \in Int /\ n \in Int /\ j < n /\ m * j >= 0
    BY <1>2
  <2> QED BY <2>1, Between
<1>5. m * j + r \in 0 .. n * m - 1
  <2>1. m * j \in Int /\ m * n = n * m
    BY <1>2
  <2> QED BY <1>1, <1>3, <1>4, <2>1
<1>6. a = (n * m) * k + (m * j + r)
  <2>1. m * q = m * (n * k) + m * j
    BY <1>2
  <2>2. m * (n * k) = (n * m) * k
    BY <1>2
  <2>3. m * q \in Int /\ (n * m) * k \in Int /\ m * j \in Int
    BY <1>1, <1>2
  <2> QED BY <1>1, <2>1, <2>2, <2>3
<1>7. a \div (n * m) = k /\ a % (n * m) = m * j + r
  BY <1>2, <1>3, <1>5, <1>6, DivisionOnly
<1> QED BY <1>7 DEF q, r, k, j

\* What n divides, a divisor of n divides.
LEMMA DividesThrough ==
  ASSUME NEW a \in Nat, NEW m \in Nat \ {0}, NEW n \in Nat \ {0},
         a % n = 0, n % m = 0
  PROVE  a % m = 0
<1> DEFINE k == n \div m
           j == a \div n
<1>1. k \in Nat /\ n = m * k /\ j \in Nat /\ a = n * j
  BY Division
<1> HIDE DEF k, j
<1>2. k * j \in Nat /\ a = m * (k * j) + 0
  BY <1>1
<1> QED BY <1>2, DivisionOnly

\* A sum of multiples is one.
LEMMA SumDivides ==
  ASSUME NEW m \in Nat \ {0}, NEW a \in Nat, NEW b \in Nat, a % m = 0, b % m = 0
  PROVE  (a + b) % m = 0
<1> DEFINE k == a \div m
           j == b \div m
<1>1. k \in Nat /\ a = m * k /\ j \in Nat /\ b = m * j
  BY Division
<1> HIDE DEF k, j
<1>2. k + j \in Nat /\ a + b = m * (k + j) + 0 /\ a + b \in Nat
  BY <1>1
<1> QED BY <1>2, DivisionOnly

\* A multiple has no remainder.
LEMMA ProductDivides ==
  ASSUME NEW m \in Nat \ {0}, NEW k \in Nat
  PROVE  (k * m) % m = 0 /\ (k * m) \div m = k
<1>1. k * m = m * k + 0 /\ k * m \in Nat
  OBVIOUS
<1> QED BY <1>1, DivisionOnly

\* A run of n numbers that starts at a multiple of n, in a run of k * n.
LEMMA RunInRun ==
  ASSUME NEW m \in Nat \ {0}, NEW n \in Nat \ {0}, NEW a \in Nat,
         a % m = 0, n % m = 0
  PROVE  (a % n) + m <= n /\ (a % n) % m = 0
<1> DEFINE k == n \div m
<1>1. k \in Nat /\ n = m * k
  BY Division
<1> HIDE DEF k
<1>2. k \in Nat \ {0} /\ n = k * m
  BY <1>1
<1> DEFINE j == (a \div m) % k
<1>3. a \div m \in Nat
  BY Division
<1>4. j \in 0 .. k - 1
  BY <1>2, <1>3, Division
<1>5. a % (k * m) = m * j + (a % m)
  BY Zenon, <1>2, DivDiv
<1> HIDE DEF j
<1>6. a % n = m * j /\ j \in Nat
  BY <1>2, <1>4, <1>5
<1>7. m * j + m <= m * k
  BY <1>2, <1>4, Between
<1>8. (j * m) % m = 0
  BY Zenon, <1>6, ProductDivides
<1>9. j * m = m * j
  BY <1>6
<1> QED BY <1>1, <1>6, <1>7, <1>8, <1>9

\* The size of a table is its entries by the size of the table below.
LEMMA SizeFacts ==
  /\ Size[0] = 1 /\ \A t \in 0 .. 4 : Size[t] \in Nat \ {0}
  /\ \A t \in 0 .. 3 : TableSize(t) \in Nat \ {0} /\ Size[t + 1] = TableSize(t) * Size[t]
<1>1. Size[0] = 1 /\ \A t \in 0 .. 4 : Size[t] \in Nat \ {0}
  BY PageTableAssumption
<1>2. ASSUME NEW t \in 0 .. 3
      PROVE  TableSize(t) \in Nat \ {0} /\ Size[t + 1] = TableSize(t) * Size[t]
  <2> DEFINE n == Size[t]
             a == Size[t + 1]
             k == a \div n
  <2>1. n \in Nat \ {0} /\ a \in Nat \ {0} /\ a % n = 0
    <3>1. t \in 0 .. 4 /\ t + 1 \in 0 .. 4
      OBVIOUS
    <3> QED BY <1>1, <3>1, PageTableAssumption
  <2>2. k = TableSize(t)
    BY DEF TableSize
  <2> HIDE DEF n, a
  <2>3. k \in Nat /\ a = n * k + (a % n)
    BY <2>1, Division
  <2> HIDE DEF k
  <2>4. k \in Nat \ {0} /\ a = k * n
    BY <2>1, <2>3
  <2> QED BY <2>2, <2>4 DEF n, a
<1> QED BY <1>1, <1>2

\* An address has an index in a table of each level.
LEMMA IndexRange ==
  ASSUME NEW t \in 0 .. 3, NEW a \in Nat
  PROVE  Index(t, a) \in 0 .. TableSize(t) - 1
<1>1. Size[t] \in Nat \ {0} /\ TableSize(t) \in Nat \ {0}
  BY SizeFacts
<1>2. a \div Size[t] \in Nat
  BY Zenon, <1>1, Division
<1> QED BY <1>1, <1>2, Division DEF Index

\* The index in a low table, put together from its two parts.
LEMMA LowIndex ==
  ASSUME NEW a \in Nat
  PROVE  /\ a % Size[2] \in 0 .. Size[2] - 1 /\ a % Size[1] \in 0 .. Size[1] - 1
         /\ Index(1, a) * Size[1] = (a % Size[2]) - (a % Size[1])
         /\ Index(0, a) = a % Size[1]
<1>1. /\ Size[0] = 1 /\ Size[1] \in Nat \ {0} /\ Size[2] \in Nat \ {0}
      /\ TableSize(1) \in Nat \ {0} /\ Size[2] = TableSize(1) * Size[1]
      /\ TableSize(0) \in Nat \ {0} /\ Size[1] = TableSize(0) * Size[0]
  <2>1. 0 \in 0 .. 3 /\ 1 \in 0 .. 3 /\ 1 \in 0 .. 4 /\ 2 \in 0 .. 4
    OBVIOUS
  <2> QED BY <2>1, SizeFacts
<1>2. a % Size[2] = Size[1] * Index(1, a) + (a % Size[1])
  <2> DEFINE m == Size[1]
             n == TableSize(1)
  <2>1. m \in Nat \ {0} /\ n \in Nat \ {0} /\ Size[2] = n * m
    BY <1>1
  <2>2. Index(1, a) = (a \div m) % n
    BY DEF Index
  <2> HIDE DEF m, n
  <2>3. a % (n * m) = m * ((a \div m) % n) + (a % m)
    BY Zenon, <2>1, DivDiv
  <2>4. a % Size[2] = m * Index(1, a) + (a % m)
    BY <2>1, <2>2, <2>3
  <2> QED BY <2>4 DEF m
<1>3. a % Size[2] \in 0 .. Size[2] - 1 /\ a % Size[1] \in 0 .. Size[1] - 1
  BY Zenon, <1>1, Division
<1>4. Index(1, a) \in Nat
  BY IndexRange
<1>5. Size[1] = TableSize(0) /\ a \div Size[0] = a
  BY <1>1
<1>6. Index(0, a) = a % Size[1]
  BY <1>5 DEF Index
<1>7. Size[1] * Index(1, a) = Index(1, a) * Size[1] /\ Index(1, a) * Size[1] \in Int
  BY <1>1, <1>4
<1> QED BY <1>2, <1>3, <1>6, <1>7

\* Pages of one section are found through the same entries, those of different
\* sections through different ones.
LEMMA SectionIndex ==
  ASSUME NEW a \in Nat, NEW b \in Nat
  PROVE  /\ a \div Size[2] = b \div Size[2] =>
              Index(2, a) = Index(2, b) /\ Index(3, a) = Index(3, b)
         /\ a < Size[4] /\ b < Size[4] /\ Index(2, a) = Index(2, b) /\ Index(3, a) = Index(3, b)
              => a \div Size[2] = b \div Size[2]
<1>1. /\ Size[2] \in Nat \ {0} /\ Size[3] \in Nat \ {0} /\ Size[4] \in Nat \ {0}
      /\ TableSize(2) \in Nat \ {0} /\ Size[3] = TableSize(2) * Size[2]
      /\ TableSize(3) \in Nat \ {0} /\ Size[4] = TableSize(3) * Size[3]
  <2>1. 2 \in 0 .. 3 /\ 3 \in 0 .. 3 /\ 2 \in 0 .. 4 /\ 3 \in 0 .. 4 /\ 4 \in 0 .. 4
    OBVIOUS
  <2> QED BY <2>1, SizeFacts
<1>2. ASSUME NEW x \in Nat
      PROVE  /\ x \div Size[3] = (x \div Size[2]) \div TableSize(2)
             /\ x \div Size[2] = TableSize(2) * (x \div Size[3]) + Index(2, x)
             /\ x < Size[4] => Index(3, x) = x \div Size[3]
  <2>1. x \div Size[2] \in Nat /\ x \div Size[3] \in Nat
    BY Zenon, <1>1, Division
  <2>2. x \div Size[3] = (x \div Size[2]) \div TableSize(2)
    <3> DEFINE m == Size[2]
               n == TableSize(2)
    <3>1. m \in Nat \ {0} /\ n \in Nat \ {0} /\ Size[3] = n * m
      BY <1>1
    <3> HIDE DEF m, n
    <3>2. x \div (n * m) = (x \div m) \div n
      BY Zenon, <3>1, DivDiv
    <3>3. x \div Size[3] = (x \div m) \div n
      BY <3>1, <3>2
    <3> QED BY <3>3 DEF m, n
  <2>3. x \div Size[2] = TableSize(2) * (x \div Size[3]) + Index(2, x)
    BY Zenon, <1>1, <2>1, <2>2, Division DEF Index
  <2>4. ASSUME x < Size[4] PROVE Index(3, x) = x \div Size[3]
    <3> DEFINE q == x \div Size[3]
               n == TableSize(3)
               r == x % Size[3]
    <3>1. q \in Nat /\ r \in Nat /\ x = Size[3] * q + r
      <4> DEFINE m == Size[3]
      <4>1. m \in Nat \ {0}
        BY <1>1
      <4> HIDE DEF m
      <4>2. x \div m \in Nat /\ x % m \in 0 .. m - 1 /\ x = m * (x \div m) + (x % m)
        BY Zenon, <4>1, Division
      <4>3. x % m \in Nat
        BY <4>1, <4>2
      <4> QED BY <4>2, <4>3 DEF m
    <3>2. n \in Nat \ {0} /\ Size[4] = n * Size[3]
      BY <1>1
    <3> HIDE DEF q, n, r
    <3>3. CASE n <= q
      <4>1. Size[3] * n <= Size[3] * q
        <5>1. CASE n = q
          BY <5>1, <3>1, <1>1
        <5>2. CASE n < q
          <6>1. Size[3] * n + Size[3] <= Size[3] * q
            BY <1>1, <3>1, <3>2, <5>2, Between
          <6>2. Size[3] * n \in Int /\ Size[3] * q \in Int
            BY <1>1, <3>1, <3>2
          <6> QED BY <1>1, <6>1, <6>2
        <5> QED BY <3>1, <3>2, <3>3, <5>1, <5>2
      <4>2. Size[3] * n = Size[4] /\ Size[3] * q \in Int
        BY <1>1, <3>1, <3>2
      <4> QED BY <1>1, <2>4, <3>1, <4>1, <4>2
    <3>4. CASE q < n
      <4>1. q \in 0 .. n - 1 /\ q = n * 0 + q
        BY <3>1, <3>2, <3>4
      <4>2. q % n = q
        BY <3>1, <3>2, <4>1, DivisionOnly
      <4> QED BY <4>2 DEF q, n, Index
    <3> QED BY <3>1, <3>2, <3>3, <3>4
  <2> QED BY <2>2, <2>3, <2>4
<1>3. ASSUME a \div Size[2] = b \div Size[2]
      PROVE  Index(2, a) = Index(2, b) /\ Index(3, a) = Index(3, b)
  BY <1>2, <1>3 DEF Index
<1>4. ASSUME a < Size[4], b < Size[4], Index(2, a) = Index(2, b), Index(3, a) = Index(3, b)
      PROVE  a \div Size[2] = b \div Size[2]
  <2>1. a \div Size[3] = b \div Size[3]
    BY <1>2, <1>4
  <2> QED BY <1>2, <1>4, <2>1
<1> QED BY <1>3, <1>4

\* The pages of one map_fpage lie in one section.
LEMMA InSection ==
  ASSUME NEW v \in Nat, NEW n \in Nat \ {0}, v % n = 0, Size[2] % n = 0
  PROVE  /\ v - (v % Size[2]) \in Nat
         /\ v + n <= v - (v % Size[2]) + Size[2]
         /\ \A x \in v .. v + n - 1 :
              /\ x \div Size[2] = v \div Size[2]
              /\ x % Size[2] = x - (v - (v % Size[2]))
<1> DEFINE s == Size[2]
           r == v % s
           q == v \div s
<1>1. s \in Nat \ {0} /\ 2 \in 0 .. 4
  BY SizeFacts
<1>2. r \in 0 .. s - 1 /\ q \in Nat /\ v = s * q + r /\ r + n <= s
  BY Zenon, <1>1, Division, RunInRun
<1>3. ASSUME NEW x \in v .. v + n - 1 PROVE x \div s = q /\ x % s = x - (v - r)
  <2> HIDE DEF s, r, q
  <2>1. s * q \in Int /\ x \in Nat
    BY <1>1, <1>2
  <2> DEFINE i == x - (v - r)
  <2>2. i \in 0 .. s - 1 /\ x = s * q + i
    BY <1>1, <1>2, <2>1
  <2> HIDE DEF i
  <2>3. x \div s = q /\ x % s = i
    BY <1>1, <1>2, <2>1, <2>2, DivisionOnly
  <2> QED BY <2>3 DEF i
<1>4. s * q \in Nat
  <2>1. s \in Nat /\ q \in Nat
    BY <1>1, <1>2
  <2> HIDE DEF s, q
  <2> QED BY <2>1
<1> QED BY <1>1, <1>2, <1>3, <1>4
-----------------------------------------------------------------------------
(* The heap: an allocation gives out a block that nothing uses yet.          *)

Given1(c, n) ==
  /\ c \in 1 .. Chunks /\ c \notin Bases /\ [base |-> c, n |-> n] \notin blocks
  /\ blocks' = blocks \cup {[base |-> c, n |-> n]}
  /\ Bases' = Bases \cup {c} /\ avail' \subseteq avail

\* A size in bytes takes a natural number of chunks.
LEMMA NeededNat ==
  ASSUME NEW size \in Nat PROVE Heap!ChunksNeeded(size) \in Nat
<1>1. ChunkSize \in Nat \ {0}
  BY PageTableAssumption
<1>2. size + ChunkSize - 1 \in Nat
  BY <1>1
<1> QED BY <1>1, <1>2, Division DEF Heap!ChunksNeeded

\* A block, field by field.
LEMMA BlockFields ==
  ASSUME NEW c, NEW n
  PROVE  [base |-> c, n |-> n].base = c /\ [base |-> c, n |-> n].n = n
OBVIOUS

\* kmem_t gives a block that no other meets, the one new block.
LEMMA AllocGives ==
  ASSUME HeapInv, NEW size \in Nat, Heap!Alloc(size)
  PROVE  /\ HeapInv' /\ Given1(Base, Heap!ChunksNeeded(size))
         /\ \A b \in blocks' \ blocks : b.base = Base
<1> DEFINE n == Heap!ChunksNeeded(size)
<1>1. n \in Nat /\ Chunks \in Nat
  BY NeededNat, PageTableAssumption
<1>2. PICK c \in Heap!Place(n) :
        avail' = avail \ Heap!Run(c, n) /\ blocks' = blocks \cup {[base |-> c, n |-> n]}
  BY DEF Heap!Alloc
<1>3. c \in avail /\ n > 0 /\ Heap!Run(c, n) \subseteq avail
  BY <1>2 DEF Heap!Place
<1> DEFINE b == [base |-> c, n |-> n]
<1> HIDE DEF n
<1>4. b.base = c /\ b.n = n /\ c \in 1 .. Chunks /\ n \in Nat \ {0}
  BY <1>1, <1>3 DEF HeapInv
<1>5. c \in Heap!Run(c, n)
  BY <1>4 DEF Heap!Run
<1>6. \A x \in blocks : Heap!Run(x.base, x.n) \cap Heap!Run(c, n) = {}
  BY <1>3 DEF HeapInv
<1>7. \A x \in blocks : x.base \in Heap!Run(x.base, x.n)
  <2>1. \A x \in blocks : x.base \in 1 .. Chunks /\ x.n \in Nat \ {0}
    BY DEF HeapInv
  <2> QED BY <1>1, <2>1 DEF Heap!Run
<1>8. c \notin Bases
  <2> SUFFICES ASSUME NEW x \in blocks, x.base = c PROVE FALSE
    BY DEF Bases
  <2> QED BY <1>5, <1>6, <1>7
<1>9. b \notin blocks
  BY <1>4, <1>8 DEF Bases
<1> HIDE DEF b
<1>10. Base = c
  <2>1. (CHOOSE x \in blocks' : x \notin blocks) = b
    BY <1>2, <1>9 DEF b
  <2> QED BY Zenon, <1>4, <2>1 DEF Base
<1>11. Bases' = Bases \cup {c}
  BY Zenon, <1>2, <1>4 DEF Bases, b
<1>12. avail' \subseteq avail /\ avail' \cap Heap!Run(c, n) = {}
  BY <1>2
<1>13. HeapInv'
  <2>1. avail' \subseteq 1 .. Chunks
    BY <1>12 DEF HeapInv
  <2>2. ASSUME NEW x \in blocks'
        PROVE  /\ x.base \in 1 .. Chunks /\ x.n \in Nat \ {0}
               /\ x = [base |-> x.base, n |-> x.n]
               /\ Heap!Run(x.base, x.n) \cap avail' = {}
    <3>1. CASE x \in blocks
      BY <1>12, <3>1 DEF HeapInv
    <3>2. CASE x = b
      <4>1. b = [base |-> b.base, n |-> b.n]
        BY <1>4 DEF b
      <4> QED BY <1>4, <1>12, <3>2, <4>1
    <3> QED BY <1>2, <3>1, <3>2 DEF b
  <2>3. ASSUME NEW x \in blocks', NEW y \in blocks', x # y
        PROVE  Heap!Run(x.base, x.n) \cap Heap!Run(y.base, y.n) = {}
    <3>1. (x \in blocks \/ x = b) /\ (y \in blocks \/ y = b)
      BY <1>2 DEF b
    <3>2. CASE x \in blocks /\ y \in blocks
      BY <2>3, <3>2 DEF HeapInv
    <3>3. CASE x = b /\ y \in blocks
      BY <1>4, <1>6, <3>3
    <3>4. CASE y = b /\ x \in blocks
      BY <1>4, <1>6, <3>4
    <3> QED BY <2>3, <3>1, <3>2, <3>3, <3>4
  <2> QED BY <2>1, <2>2, <2>3 DEF HeapInv, Heap!Run
<1>14. Given1(c, n)
  BY <1>2, <1>4, <1>8, <1>9, <1>11, <1>12 DEF Given1, b
<1>15. \A x \in blocks' \ blocks : x.base = c
  BY <1>2, <1>4 DEF b
<1> QED BY <1>10, <1>13, <1>14, <1>15 DEF n

\* Nothing allocated, nothing changed.
LEMMA HeapKept ==
  ASSUME HeapInv, UNCHANGED heap
  PROVE  HeapInv' /\ Bases' = Bases
BY DEF heap, HeapInv, Bases, Heap!Run

\* What there is no place for, there is none for later.
LEMMA PlacesShrink ==
  ASSUME avail' \subseteq avail, NEW n, Heap!Place(n) = {}
  PROVE  Heap!Place(n)' = {}
BY DEF Heap!Place, Heap!Run

\* Where there is no place for a table there is none for a page of UTCBs.
LEMMA NoTableNoPage ==
  ASSUME avail \subseteq 1 .. Chunks, Heap!Place(Heap!ChunksNeeded(TableBytes[2])) = {}
  PROVE  Heap!Place(Heap!ChunksNeeded(UtcbBytes)) = {}
<1> DEFINE t == Heap!ChunksNeeded(TableBytes[2])
           n == Heap!ChunksNeeded(UtcbBytes)
<1>1. t \in Nat /\ n \in Nat /\ t <= n /\ t > 0
  <2>1. TableBytes[2] \in Nat \ {0} /\ UtcbBytes \in Nat /\ ChunkSize \in Nat \ {0}
    BY PageTableAssumption, BootAssumption
  <2>2. t \in Nat /\ n \in Nat
    BY <2>1, NeededNat
  <2>3. t <= n
    BY BootAssumption
  <2>4. t # 0
    <3> DEFINE a == TableBytes[2] + ChunkSize - 1
    <3>1. a \in Nat /\ a >= ChunkSize
      BY <2>1
    <3> HIDE DEF a
    <3>2. a = ChunkSize * (a \div ChunkSize) + (a % ChunkSize)
          /\ a % ChunkSize \in 0 .. ChunkSize - 1 /\ a \div ChunkSize \in Nat
      BY Zenon, <2>1, <3>1, Division
    <3>3. a \div ChunkSize # 0
      BY <2>1, <3>1, <3>2
    <3> QED BY <3>3 DEF a, Heap!ChunksNeeded
  <2> QED BY <2>2, <2>3, <2>4
<1>2. ASSUME NEW c \in Heap!Place(n) PROVE c \in Heap!Place(t)
  <2>1. /\ c \in avail /\ Heap!Aligned(c, n) /\ Heap!Run(c, n) \subseteq avail
        /\ \E d \in avail : d > c + n - 1
    BY DEF Heap!Place
  <2>2. c \in 1 .. Chunks /\ Heap!Aligned(c, t)
    BY <2>1, BootAssumption
  <2>3. \A d \in avail : d \in Nat
    BY PageTableAssumption
  <2>4. Heap!Run(c, t) \subseteq avail
    BY <1>1, <2>1, <2>2, <2>3 DEF Heap!Run
  <2>5. \E d \in avail : d > c + t - 1
    BY <1>1, <2>1, <2>2, <2>3
  <2> QED BY <1>1, <2>1, <2>2, <2>4, <2>5 DEF Heap!Place
<1> QED BY <1>2
-----------------------------------------------------------------------------
(* The pools of small objects.                                               *)

\* The pools allocate from the same heap.
LEMMA SameHeap ==
  /\ \A n : SA!Heap!ChunksNeeded(n) = Heap!ChunksNeeded(n)
  /\ \A n : SA!Heap!Place(n) = Heap!Place(n)
  /\ \A size : SA!Heap!Alloc(size) => Heap!Alloc(size)
  /\ \A size : SA!Heap!AllocNull(size) => Heap!AllocNull(size)
<1>1. \A n : SA!Heap!ChunksNeeded(n) = Heap!ChunksNeeded(n)
  BY DEF SA!Heap!ChunksNeeded, Heap!ChunksNeeded
<1>2. \A c, n : SA!Heap!Run(c, n) = Heap!Run(c, n)
  BY DEF SA!Heap!Run, Heap!Run
<1>3. \A c, n : SA!Heap!Aligned(c, n) <=> Heap!Aligned(c, n)
  BY DEF SA!Heap!Aligned, Heap!Aligned, SA!Heap!Bit, Heap!Bit
<1>4. \A n : SA!Heap!Place(n) = Heap!Place(n)
  BY <1>2, <1>3 DEF SA!Heap!Place, Heap!Place
<1>5. \A size : SA!Heap!Alloc(size) => Heap!Alloc(size)
  BY <1>1, <1>2, <1>4 DEF SA!Heap!Alloc, Heap!Alloc
<1>6. \A size : SA!Heap!AllocNull(size) => Heap!AllocNull(size)
  BY <1>1, <1>4 DEF SA!Heap!AllocNull, Heap!AllocNull, SA!Heap!hvars, Heap!hvars
<1> QED BY <1>1, <1>4, <1>5, <1>6

\* The lowest bit of a set is in it.
LEMMA LeastPosition ==
  ASSUME NEW S \in SUBSET Nat, S # {}
  PROVE  SA!Lowest(S) \in S
BY Zenon, LeastNat DEF SA!Lowest

\* Each pool has room for an object in a block.
LEMMA PoolConstants ==
  /\ BlockSize \in Nat \ {0} /\ WordBits \in Nat \ {0} /\ ChunkSize \in Nat \ {0}
  /\ \A p \in PoolNames : ObjSize[p] \in Nat \ {0} /\ ObjSize[p] <= BlockSize
                          /\ SA!ObjsPerBlock(ObjSize[p]) >= 1
<1>1. /\ BlockSize \in 1 .. MaxSize /\ WordBits \in Nat \ {0}
      /\ ObjSize \in [PoolNames -> 1 .. BlockSize]
  BY BootAssumption DEF SA!PoolAssumption, PoolNames
<1>2. BlockSize \in Nat \ {0}
  BY <1>1
<1>3. \A p \in PoolNames : ObjSize[p] \in 1 .. BlockSize
  BY <1>1
<1>4. \A p \in PoolNames : SA!ObjsPerBlock(ObjSize[p]) >= 1
  BY <1>1, BootAssumption
<1> QED BY <1>1, <1>2, <1>3, <1>4, PageTableAssumption

\* small_alloc_t::init leaves room for the header.
LEMMA RoomForHeader ==
  ASSUME NEW s \in Nat \ {0}, s <= BlockSize
  PROVE  /\ SA!HeaderSize(s) \in Nat /\ SA!ObjsPerBlock(s) \in Int
         /\ SA!ObjsPerBlock(s) * s + SA!HeaderSize(s) <= BlockSize
<1> DEFINE e == BlockSize % s
           q == BlockSize \div s
           h == SA!HeaderSize(s)
           n == SA!ObjsPerBlock(s)
<1>1. BlockSize \in Nat \ {0} /\ WordBits \in Nat \ {0}
  BY PoolConstants
<1>2. q \in Nat /\ e \in 0 .. s - 1 /\ BlockSize = s * q + e
  BY Zenon, <1>1, Division
<1>3. h \in Nat
  <2> HIDE DEF q
  <2>1. q + WordBits - 1 \in Nat
    BY <1>1, <1>2
  <2>2. (q + WordBits - 1) \div WordBits \in Nat
    BY <1>1, <2>1, Division
  <2>3. h = 2 + (q + WordBits - 1) \div WordBits
    BY DEF SA!HeaderSize, q
  <2> QED BY <2>2, <2>3
<1>4. n = IF e >= h THEN q ELSE q - (h - e) \div s - 1
  BY DEF SA!ObjsPerBlock
<1> HIDE DEF e, q, h, n
<1>5. CASE e >= h
  <2>1. n = q /\ q * s = s * q /\ s * q \in Nat
    BY <1>2, <1>4, <1>5
  <2> QED BY <1>2, <1>3, <1>5, <2>1, <1>1 DEF h, n
<1>6. CASE e < h
  <2> DEFINE d == h - e
             k == d \div s
  <2>1. d \in Nat
    BY <1>2, <1>3, <1>6
  <2>2. k \in Nat /\ d % s \in 0 .. s - 1 /\ d = s * k + (d % s)
    BY Zenon, <2>1, Division
  <2>3. n = q - k - 1
    BY <1>2, <1>3, <1>4, <1>6
  <2>4. h = d + e
    BY <1>2, <1>3
  <2> HIDE DEF d, k
  <2>5. n * s = s * q - s * k - s
    BY <1>2, <2>2, <2>3
  <2>6. s * q \in Nat /\ s * k \in Nat /\ n \in Int
    BY <1>2, <2>2, <2>3
  <2>7. n * s + h <= BlockSize
    BY <1>1, <1>2, <1>3, <2>1, <2>2, <2>4, <2>5, <2>6
  <2> QED BY <1>3, <2>6, <2>7 DEF h, n
<1> QED BY <1>2, <1>3, <1>5, <1>6

\* What a step of a pool does to the owners of blocks.
PoolOwnersStep ==
  \/ UNCHANGED heap /\ PoolOwners' = PoolOwners
  \/ \E c, n : \E p \in PoolNames :
       Given1(c, n) /\ PoolOwners' = PoolOwners \cup {<<"pool", p, c>>}

PoolOwnersInBases == \A o \in PoolOwners : o[3] \in Bases

\* Nothing but the end of a pool is new, or not even that.
LEMMA PoolKept ==
  ASSUME PoolInv, UNCHANGED <<first_free, bitmap, objects>>, blocks \subseteq blocks',
         undefined => undefined'
  PROVE  PoolInv'
<1>1. \A p \in PoolNames : first_free[p] # 0 => OnePool(p, first_free[p])'
  <2> SUFFICES ASSUME NEW p \in PoolNames, first_free[p] # 0
               PROVE  OnePool(p, first_free[p])'
    OBVIOUS
  <2>1. OnePool(p, first_free[p])
    BY DEF PoolInv
  <2> QED BY <2>1 DEF OnePool, InPool
<1> QED BY <1>1 DEF PoolInv

\* A pool takes an object from its block, which may be new.
LEMMA ObjectTaken ==
  ASSUME PoolInv, NEW p \in PoolNames, NEW c \in 1 .. Chunks, NEW S, S # {},
         ~undefined, SA!TakeObject(p, c, S), HeapInv, HeapInv', blocks \subseteq blocks',
         S = (0 .. SA!ObjsPerBlock(ObjSize[p]) - 1) \ InPool(c),
         [base |-> c, n |-> Heap!ChunksNeeded(BlockSize)] \in blocks',
         \/ c = first_free[p]
         \/ first_free[p] = 0 /\ \A o \in objects : o.base # c
  PROVE  /\ PoolInv'
         /\ \E i : objects' = objects \cup {[pool |-> p, base |-> c, pos |-> i]}
<1> DEFINE i == SA!Lowest(S)
           new == [pool |-> p, base |-> c, pos |-> i]
<1>1. ObjSize[p] \in Nat \ {0} /\ SA!ObjsPerBlock(ObjSize[p]) \in Int /\ Chunks \in Nat
  BY PoolConstants, RoomForHeader, PageTableAssumption
<1>2. i \in S /\ i \in 0 .. SA!ObjsPerBlock(ObjSize[p]) - 1
  BY <1>1, LeastPosition
<1>3. /\ objects' = objects \cup {new}
      /\ bitmap' = [bitmap EXCEPT ![c] = S \ {i}]
      /\ first_free' = [first_free EXCEPT ![p] = c]
      /\ undefined' = (S = {i})
  BY DEF SA!TakeObject
<1> HIDE DEF i
<1>4. new.pool = p /\ new.base = c /\ new.pos = i
  OBVIOUS
<1>5. first_free \in [PoolNames -> 0 .. Chunks] /\ DOMAIN bitmap = 1 .. Chunks
  BY DEF PoolInv
<1>6. /\ first_free' \in [PoolNames -> 0 .. Chunks] /\ DOMAIN bitmap' = 1 .. Chunks
      /\ first_free'[p] = c /\ c # 0
      /\ \A q \in PoolNames : q # p => first_free'[q] = first_free[q]
  BY <1>1, <1>3, <1>5
<1>7. \A o \in objects : o.pool = p => o.base = c
  <2> SUFFICES ASSUME NEW o \in objects, o.pool = p PROVE o.base = c
    OBVIOUS
  <2>1. o.base = first_free[p] /\ [base |-> o.base, n |-> Heap!ChunksNeeded(BlockSize)] \in blocks
    BY DEF PoolInv
  <2>2. o.base \in 1 .. Chunks
    BY <2>1, BlockFields DEF HeapInv
  <2> QED BY <1>1, <2>1, <2>2
<1>8. \A q \in PoolNames : q # p /\ first_free[q] # 0 => first_free[q] # c
  <2> SUFFICES ASSUME NEW q \in PoolNames, q # p, first_free[q] # 0, first_free[q] = c
               PROVE FALSE
    OBVIOUS
  <2>1. PICK o \in objects : o.pool = q
    BY DEF PoolInv, OnePool
  <2>2. o.base = c
    BY Zenon, <2>1 DEF PoolInv
  <2>3. c = first_free[p] /\ first_free[p] # 0
    BY <1>6, <2>2
  <2> QED BY <2>3 DEF PoolInv
<1> HIDE DEF new
<1>9. \A q, r \in PoolNames : first_free'[q] # 0 /\ first_free'[q] = first_free'[r] => q = r
  <2> SUFFICES ASSUME NEW q \in PoolNames, NEW r \in PoolNames, first_free'[q] # 0,
                      first_free'[q] = first_free'[r]
               PROVE q = r
    OBVIOUS
  <2>1. CASE q = p /\ r # p
    BY Zenon, <1>6, <1>8, <2>1
  <2>2. CASE r = p /\ q # p
    BY <1>6, <1>8, <2>2
  <2>3. CASE q # p /\ r # p
    BY <1>6, <2>3 DEF PoolInv
  <2> QED BY <2>1, <2>2, <2>3
<1>10. ASSUME NEW o \in objects'
       PROVE  /\ o = [pool |-> o.pool, base |-> o.base, pos |-> o.pos]
              /\ o.pool \in PoolNames
              /\ o.base = first_free'[o.pool]
              /\ o.pos \in 0 .. SA!ObjsPerBlock(ObjSize[o.pool]) - 1
              /\ [base |-> o.base, n |-> Heap!ChunksNeeded(BlockSize)] \in blocks'
  <2>1. CASE o = new
    <3>1. new = [pool |-> new.pool, base |-> new.base, pos |-> new.pos]
      BY <1>4 DEF new
    <3> QED BY <1>2, <1>4, <1>6, <2>1, <3>1
  <2>2. CASE o \in objects
    <3>1. /\ o = [pool |-> o.pool, base |-> o.base, pos |-> o.pos]
          /\ o.pool \in PoolNames
          /\ o.base = first_free[o.pool]
          /\ o.pos \in 0 .. SA!ObjsPerBlock(ObjSize[o.pool]) - 1
          /\ [base |-> o.base, n |-> Heap!ChunksNeeded(BlockSize)] \in blocks
      BY <2>2 DEF PoolInv
    <3>2. o.base = first_free'[o.pool]
      BY <1>6, <1>7, <2>2, <3>1
    <3> QED BY <3>1, <3>2
  <2> QED BY <1>3, <2>1, <2>2
<1>11. ASSUME NEW q \in PoolNames, first_free'[q] # 0
       PROVE  OnePool(q, first_free[q])'
  <2>1. PICK d : d = first_free'[q]
    OBVIOUS
  <2>2. CASE q = p
    <3>1. InPool(c)' = InPool(c) \cup {i}
      BY <1>3, <1>4 DEF InPool
    <3>2. bitmap'[c] = S \ {i}
      BY <1>3, <1>5
    <3>3. undefined' \/ S \ {i} # {}
      BY Zenon, <1>2, <1>3
    <3>4. S \ {i} = (0 .. SA!ObjsPerBlock(ObjSize[p]) - 1) \ InPool(c)'
      BY <3>1
    <3>5. new \in objects' /\ new.pool = q
      BY <1>3, <1>4, <2>2
    <3>6. OnePool(p, c)'
      BY <2>2, <3>2, <3>3, <3>4, <3>5 DEF OnePool
    <3> QED BY <1>6, <2>2, <3>6 DEF OnePool, InPool
  <2>3. CASE q # p
    <3>1. first_free[q] = d /\ d # 0 /\ d # c /\ d \in 1 .. Chunks
      <4>1. d \in 0 .. Chunks /\ d = first_free[q]
        BY <1>5, <1>6, <2>1, <2>3
      <4> QED BY <1>1, <1>8, <1>11, <2>1, <2>3, <4>1
    <3>2. OnePool(q, d)
      BY <3>1 DEF PoolInv
    <3>3. InPool(d)' = InPool(d)
      BY <1>3, <1>4, <3>1 DEF InPool
    <3>4. bitmap'[d] = bitmap[d]
      BY <1>3, <1>5, <3>1
    <3>5. OnePool(q, d)'
      BY <1>3, <3>2, <3>3, <3>4 DEF OnePool
    <3> QED BY <2>1, <3>5 DEF OnePool, InPool
  <2> QED BY <2>2, <2>3
<1>12. PoolInv'
  <2>1. \A q \in PoolNames : first_free'[q] # 0 => OnePool(q, first_free[q])'
    BY <1>11
  <2> QED BY <1>6, <1>9, <1>10, <2>1 DEF PoolInv
<1> QED BY Zenon, <1>3, <1>12 DEF new

\* The new object makes its pool the owner of its block.
LEMMA OneMoreOwner ==
  ASSUME NEW p, NEW c, NEW i, objects' = objects \cup {[pool |-> p, base |-> c, pos |-> i]}
  PROVE  PoolOwners' = PoolOwners \cup {<<"pool", p, c>>}
<1> DEFINE new == [pool |-> p, base |-> c, pos |-> i]
<1>1. new.pool = p /\ new.base = c
  OBVIOUS
<1>2. objects' = objects \cup {new}
  OBVIOUS
<1> HIDE DEF new
<1>3. PoolOwners' = {<<"pool", o.pool, o.base>> : o \in objects \cup {new}}
  BY <1>2 DEF PoolOwners
<1>4. \A x : x \in PoolOwners' <=> x \in PoolOwners \/ x = <<"pool", p, c>>
  BY <1>1, <1>3 DEF PoolOwners
<1> QED BY <1>4

\* Whatever a pool does, the pools stay in order.
LEMMA SmallStep ==
  ASSUME HeapInv, PoolInv, PoolOwnersInBases, NEW p \in PoolNames, Small(p)
  PROVE  HeapInv' /\ PoolInv' /\ PoolOwnersStep
<1>1. Chunks \in Nat /\ BlockSize \in Nat
  BY PageTableAssumption, PoolConstants
<1>2. CASE SA!Allocate(p)
  <2> DEFINE c == first_free[p]
  <2>1. /\ ~undefined /\ c # 0 /\ c \in 1 .. Chunks /\ UNCHANGED heap
        /\ SA!TakeObject(p, c, bitmap[c])
    <3>1. c \in 0 .. Chunks
      BY DEF PoolInv
    <3> QED BY <1>1, <1>2, <3>1 DEF SA!Allocate, SA!heap, heap
  <2>2. OnePool(p, c)
    BY <2>1 DEF PoolInv
  <2>3. PICK o \in objects : o.pool = p
    BY <2>2 DEF OnePool
  <2>4. o.base = c /\ [base |-> c, n |-> Heap!ChunksNeeded(BlockSize)] \in blocks
    BY Zenon, <2>3 DEF PoolInv
  <2>5. HeapInv' /\ blocks' = blocks
    BY <2>1, HeapKept DEF heap
  <2>6. PICK d : d = c
    OBVIOUS
  <2>7. PICK S : S = bitmap[c]
    OBVIOUS
  <2> HIDE DEF c
  <2>8. d = first_free[p] /\ S # {} /\ SA!TakeObject(p, d, S)
        /\ S = (0 .. SA!ObjsPerBlock(ObjSize[p]) - 1) \ InPool(d) /\ d \in 1 .. Chunks
    BY <2>1, <2>2, <2>6, <2>7 DEF OnePool, c
  <2>9. PoolInv' /\ \E i : objects' = objects \cup {[pool |-> p, base |-> d, pos |-> i]}
    BY Zenon, <2>1, <2>4, <2>5, <2>6, <2>8, ObjectTaken
  <2>10. PoolOwners' = PoolOwners
    <3>1. PICK i : objects' = objects \cup {[pool |-> p, base |-> d, pos |-> i]}
      BY <2>9
    <3>2. <<"pool", p, d>> \in PoolOwners
      BY <2>3, <2>4, <2>6 DEF PoolOwners
    <3>3. PoolOwners' = PoolOwners \cup {<<"pool", p, d>>}
      BY Zenon, <3>1, OneMoreOwner
    <3> QED BY <3>2, <3>3
  <2> QED BY <2>1, <2>5, <2>9, <2>10 DEF PoolOwnersStep
<1>3. CASE SA!AllocateBlock(p)
  <2>1. /\ ~undefined /\ first_free[p] = 0 /\ Heap!Alloc(BlockSize)
        /\ \E b \in blocks' \ blocks :
             SA!TakeObject(p, b.base, 0 .. SA!ObjsPerBlock(ObjSize[p]) - 1)
    BY <1>3, SameHeap DEF SA!AllocateBlock
  <2>2. /\ HeapInv' /\ Given1(Base, Heap!ChunksNeeded(BlockSize))
        /\ \A b \in blocks' \ blocks : b.base = Base
    BY <1>1, <2>1, AllocGives
  <2>3. PICK c : c = Base
    OBVIOUS
  <2>4. PICK S : S = 0 .. SA!ObjsPerBlock(ObjSize[p]) - 1
    OBVIOUS
  <2>5. /\ SA!TakeObject(p, c, S) /\ c \in 1 .. Chunks /\ Given1(c, Heap!ChunksNeeded(BlockSize))
        /\ blocks \subseteq blocks' /\ [base |-> c, n |-> Heap!ChunksNeeded(BlockSize)] \in blocks'
    BY <2>1, <2>2, <2>3, <2>4 DEF Given1
  <2>6. \A o \in objects : o.base # c
    <3> SUFFICES ASSUME NEW o \in objects, o.base = c PROVE FALSE
      OBVIOUS
    <3>1. <<"pool", o.pool, o.base>> \in PoolOwners
      BY DEF PoolOwners
    <3> QED BY <2>5, <3>1 DEF PoolOwnersInBases, Given1
  <2>7. S = S \ InPool(c) /\ S # {}
    <3>1. InPool(c) = {}
      BY <2>6 DEF InPool
    <3>2. SA!ObjsPerBlock(ObjSize[p]) \in Int /\ SA!ObjsPerBlock(ObjSize[p]) >= 1
      BY PoolConstants, RoomForHeader
    <3>3. 0 \in S
      BY <2>4, <3>2
    <3>4. S \ InPool(c) = S
      BY <3>1
    <3> QED BY <3>3, <3>4
  <2>8. PoolInv' /\ \E i : objects' = objects \cup {[pool |-> p, base |-> c, pos |-> i]}
    BY Zenon, <2>1, <2>2, <2>4, <2>5, <2>6, <2>7, ObjectTaken
  <2>9. PoolOwners' = PoolOwners \cup {<<"pool", p, c>>}
    <3>1. PICK i : objects' = objects \cup {[pool |-> p, base |-> c, pos |-> i]}
      BY <2>8
    <3> QED BY <3>1, OneMoreOwner
  <2> QED BY <2>2, <2>5, <2>8, <2>9 DEF PoolOwnersStep
<1>4. CASE SA!AllocateNoBlock(p)
  <2>1. Heap!AllocNull(BlockSize) /\ UNCHANGED <<first_free, bitmap, objects>> /\ undefined'
    BY <1>4, SameHeap DEF SA!AllocateNoBlock
  <2>2. UNCHANGED heap
    BY <2>1 DEF Heap!AllocNull, Heap!hvars, heap
  <2> QED BY <2>1, <2>2, HeapKept, PoolKept DEF PoolOwnersStep, PoolOwners, heap
<1> QED BY <1>2, <1>3, <1>4 DEF Small

\* The words of a block are those of its chunks: blocks that are apart have
\* none in common.
LEMMA BlockWordsApart ==
  ASSUME HeapInv, NEW x \in blocks, NEW y \in blocks, x.base # y.base
  PROVE  SA!BlockWords(x.base, x.n) \cap SA!BlockWords(y.base, y.n) = {}
<1>1. ASSUME NEW a \in Nat \ {0}, NEW m \in Nat, NEW b \in Nat \ {0}, NEW n \in Nat, a + m <= b
      PROVE  SA!BlockWords(a, m) \cap SA!BlockWords(b, n) = {}
  <2>1. ChunkSize \in Nat \ {0}
    BY PageTableAssumption
  <2> DEFINE p == a + m - 1
             q == b - 1
  <2>2. p \in Nat /\ q \in Nat /\ p <= q
    BY <1>1
  <2>3. p * ChunkSize <= q * ChunkSize
    <3> DEFINE d == q - p
    <3>1. d \in Nat /\ q = p + d
      BY <2>2
    <3> HIDE DEF p, q, d
    <3>2. q * ChunkSize = p * ChunkSize + d * ChunkSize
      BY <2>1, <2>2, <3>1
    <3>3. d * ChunkSize \in Nat /\ p * ChunkSize \in Nat
      BY <2>1, <2>2, <3>1
    <3> QED BY <3>2, <3>3
  <2>4. /\ SA!BlockWords(a, m) = (a - 1) * ChunkSize .. p * ChunkSize - 1
        /\ SA!BlockWords(b, n) = q * ChunkSize .. (b + n - 1) * ChunkSize - 1
    BY DEF SA!BlockWords
  <2>5. p * ChunkSize \in Int /\ q * ChunkSize \in Int
    BY <2>1, <2>2
  <2> HIDE DEF p, q
  <2> QED BY <2>3, <2>4, <2>5
<1>2. /\ x.base \in Nat \ {0} /\ x.n \in Nat \ {0} /\ y.base \in Nat \ {0} /\ y.n \in Nat \ {0}
      /\ x # y
  BY PageTableAssumption DEF HeapInv
<1>3. Heap!Run(x.base, x.n) \cap Heap!Run(y.base, y.n) = {}
  BY <1>2 DEF HeapInv
<1>4. x.base + x.n <= y.base \/ y.base + y.n <= x.base
  <2> SUFFICES ASSUME x.base + x.n > y.base, y.base + y.n > x.base PROVE FALSE
    BY <1>2
  <2>1. CASE x.base <= y.base
    <3>1. y.base \in Heap!Run(x.base, x.n) /\ y.base \in Heap!Run(y.base, y.n)
      BY <1>2, <2>1 DEF Heap!Run
    <3> QED BY <1>3, <3>1
  <2>2. CASE y.base <= x.base
    <3>1. x.base \in Heap!Run(x.base, x.n) /\ x.base \in Heap!Run(y.base, y.n)
      BY <1>2, <2>2 DEF Heap!Run
    <3> QED BY <1>3, <3>1
  <2> QED BY <1>2, <2>1, <2>2
<1>5. CASE x.base + x.n <= y.base
  BY <1>1, <1>2, <1>5
<1>6. CASE y.base + y.n <= x.base
  <2>1. SA!BlockWords(y.base, y.n) \cap SA!BlockWords(x.base, x.n) = {}
    BY <1>1, <1>2, <1>6
  <2> QED BY <2>1
<1> QED BY <1>4, <1>5, <1>6

\* An object lies in its block, below the block's header.
LEMMA ObjectInBlock ==
  ASSUME HeapInv, PoolInv, NEW o \in objects
  PROVE  LET n == Heap!ChunksNeeded(BlockSize) IN
         /\ SA!ObjectWords(o) \subseteq SA!BlockWords(o.base, n)
         /\ SA!HeaderWords(o.pool, o.base) \subseteq SA!BlockWords(o.base, n)
         /\ SA!ObjectWords(o) \cap SA!HeaderWords(o.pool, o.base) = {}
         /\ \A u \in objects : u.base = o.base /\ u # o =>
              SA!ObjectWords(o) \cap SA!ObjectWords(u) = {}
<1> DEFINE n == Heap!ChunksNeeded(BlockSize)
           s == ObjSize[o.pool]
           k == SA!ObjsPerBlock(s)
           h == SA!HeaderSize(s)
           at == (o.base - 1) * ChunkSize
           top == (o.base + n - 1) * ChunkSize
<1>1. o.pool \in PoolNames /\ o.pos \in 0 .. k - 1 /\ o.base \in Nat \ {0}
  <2>1. [base |-> o.base, n |-> n] \in blocks
    BY DEF PoolInv
  <2>2. o.base \in 1 .. Chunks
    BY <2>1, BlockFields DEF HeapInv
  <2>3. o.base \in Nat \ {0}
    BY <2>2, PageTableAssumption
  <2>4. o.pool \in PoolNames /\ o.pos \in 0 .. k - 1
    BY Zenon DEF PoolInv
  <2> QED BY <2>3, <2>4
<1>2. /\ s \in Nat \ {0} /\ h \in Nat /\ k \in Int /\ k * s + h <= BlockSize
      /\ BlockSize \in Nat \ {0} /\ ChunkSize \in Nat \ {0}
  BY <1>1, PoolConstants, RoomForHeader
<1>3. n \in Nat /\ BlockSize <= n * ChunkSize
  <2>1. n \in Nat
    BY <1>2, NeededNat
  <2> DEFINE b == BlockSize + ChunkSize - 1
  <2>2. b \in Nat
    BY <1>2
  <2>3. n = b \div ChunkSize
    BY DEF Heap!ChunksNeeded
  <2> HIDE DEF b
  <2>4. b = ChunkSize * n + (b % ChunkSize) /\ b % ChunkSize \in 0 .. ChunkSize - 1
    BY <1>2, <2>2, <2>3, Division
  <2> HIDE DEF n
  <2>5. ChunkSize * n = n * ChunkSize /\ n * ChunkSize \in Nat
    BY <1>2, <2>1
  <2> QED BY <1>2, <2>1, <2>4, <2>5 DEF b
<1>4. at \in Nat /\ top = at + n * ChunkSize
  <2> HIDE DEF n
  <2>1. (o.base - 1) \in Nat
    BY <1>1
  <2>2. at \in Nat
    BY <1>2, <2>1
  <2>3. top = at + n * ChunkSize
    BY <1>1, <1>2, <1>3
  <2> QED BY <2>2, <2>3
<1>5. /\ SA!BlockWords(o.base, n) = at .. top - 1
      /\ SA!HeaderWords(o.pool, o.base) = at + k * s .. at + k * s + h - 1
  BY DEF SA!BlockWords, SA!HeaderWords, SA!HeaderOffset
<1>6. ASSUME NEW u \in objects, u.base = o.base
      PROVE  /\ u.pos \in 0 .. k - 1
             /\ SA!ObjectWords(u) = at + u.pos * s .. at + u.pos * s + s - 1
             /\ u.pool = o.pool
  <2>1. first_free[o.pool] = o.base /\ first_free[u.pool] = o.base /\ u.pool \in PoolNames
    BY Zenon, <1>6 DEF PoolInv
  <2>2. u.pool = o.pool
    BY <1>1, <2>1 DEF PoolInv
  <2> QED BY Zenon, <1>6, <2>2 DEF SA!ObjectWords, PoolInv
<1> HIDE DEF at, top, n, s, k, h
<1>7. ASSUME NEW i \in 0 .. k - 1
      PROVE  /\ i * s \in Nat /\ i * s + s <= k * s
             /\ \A j \in 0 .. k - 1 : i < j => i * s + s <= j * s
  <2>1. \A j \in Int : i < j => s * i + s <= s * j
    BY <1>2, Between
  <2>2. \A j \in Int : s * j = j * s
    BY <1>2
  <2>3. i \in Int /\ i < k /\ i * s \in Nat
    BY <1>2
  <2> QED BY <1>2, <2>1, <2>2, <2>3
<1>8. k * s \in Nat /\ k * s + h <= n * ChunkSize /\ n * ChunkSize \in Nat
  <2>1. k \in Nat
    BY <1>1, <1>2
  <2>2. k * s \in Nat
    BY <1>2, <2>1
  <2> QED BY <1>2, <1>3, <2>2
<1>9. ASSUME NEW u \in objects, u.base = o.base
      PROVE  SA!ObjectWords(u) \subseteq at .. at + k * s - 1
  <2>1. PICK j \in 0 .. k - 1 : j = u.pos
    BY <1>6, <1>9
  <2>2. SA!ObjectWords(u) = at + j * s .. at + j * s + s - 1
    BY <1>6, <1>9, <2>1
  <2>3. j * s \in Nat /\ j * s + s <= k * s
    BY <1>7
  <2> QED BY <1>2, <1>4, <1>8, <2>2, <2>3
<1>10. SA!ObjectWords(o) \subseteq at .. at + k * s - 1
  BY <1>9
<1>11. SA!ObjectWords(o) \subseteq SA!BlockWords(o.base, n)
  BY <1>2, <1>4, <1>5, <1>8, <1>10
<1>12. SA!HeaderWords(o.pool, o.base) \subseteq SA!BlockWords(o.base, n)
  BY <1>2, <1>4, <1>5, <1>8
<1>13. SA!ObjectWords(o) \cap SA!HeaderWords(o.pool, o.base) = {}
  BY <1>2, <1>4, <1>5, <1>8, <1>10
<1>14. ASSUME NEW u \in objects, u.base = o.base, u # o
       PROVE  SA!ObjectWords(o) \cap SA!ObjectWords(u) = {}
  <2>1. u.pos # o.pos
    <3>1. /\ o = [pool |-> o.pool, base |-> o.base, pos |-> o.pos]
          /\ u = [pool |-> u.pool, base |-> u.base, pos |-> u.pos]
      BY Zenon DEF PoolInv
    <3> QED BY <1>6, <1>14, <3>1
  <2>2. PICK i \in 0 .. k - 1 : i = o.pos
    BY <1>1
  <2>3. PICK j \in 0 .. k - 1 : j = u.pos
    BY <1>6, <1>14
  <2>4. /\ SA!ObjectWords(o) = at + i * s .. at + i * s + s - 1
        /\ SA!ObjectWords(u) = at + j * s .. at + j * s + s - 1
    BY <1>6, <1>14, <2>2, <2>3
  <2>5. i * s \in Nat /\ j * s \in Nat /\ (i < j => i * s + s <= j * s) /\ (j < i => j * s + s <= i * s)
    BY <1>7
  <2>6. i < j \/ j < i
    BY <2>1, <2>2, <2>3
  <2> QED BY <1>2, <1>4, <2>4, <2>5, <2>6
<1> QED BY <1>11, <1>12, <1>13, <1>14 DEF n

\* No two small objects overlap.
LEMMA PoolsKeepApart ==
  ASSUME HeapInv, PoolInv
  PROVE  SA!ObjectsApart
<1> DEFINE n == Heap!ChunksNeeded(BlockSize)
           Block(c) == [base |-> c, n |-> n]
<1>1. \A o \in objects : Block(o.base) \in blocks
  BY DEF PoolInv
<1>2. \A c : Block(c).base = c /\ Block(c).n = n
  OBVIOUS
<1> HIDE DEF n, Block
<1>3. ASSUME NEW o \in objects, NEW u \in objects, o.base # u.base
      PROVE  SA!BlockWords(o.base, n) \cap SA!BlockWords(u.base, n) = {}
  <2>1. SA!BlockWords(Block(o.base).base, Block(o.base).n)
          \cap SA!BlockWords(Block(u.base).base, Block(u.base).n) = {}
    BY <1>1, <1>2, <1>3, BlockWordsApart
  <2> QED BY <1>2, <2>1
<1>4. ASSUME NEW o \in objects
      PROVE  /\ SA!ObjectWords(o) \subseteq SA!BlockWords(o.base, n)
             /\ SA!HeaderWords(o.pool, o.base) \subseteq SA!BlockWords(o.base, n)
             /\ SA!ObjectWords(o) \cap SA!HeaderWords(o.pool, o.base) = {}
             /\ \A u \in objects : u.base = o.base /\ u # o =>
                  SA!ObjectWords(o) \cap SA!ObjectWords(u) = {}
  BY ObjectInBlock DEF n
<1>5. ASSUME NEW o \in objects, NEW u \in objects, o # u
      PROVE  SA!ObjectWords(o) \cap SA!ObjectWords(u) = {}
  BY <1>3, <1>4, <1>5
<1>6. ASSUME NEW p \in PoolNames, NEW b \in SA!Blocks(p), NEW o \in objects
      PROVE  /\ SA!HeaderWords(p, b.base) \subseteq SA!BlockWords(b.base, b.n)
             /\ SA!ObjectWords(o) \cap SA!HeaderWords(p, b.base) = {}
  <2>1. PICK u \in objects : b \in blocks /\ u.pool = p /\ u.base = b.base
    BY DEF SA!Blocks
  <2>2. b = Block(u.base)
    <3> SUFFICES ASSUME b # Block(u.base) PROVE FALSE
      OBVIOUS
    <3> DEFINE x == Block(u.base)
    <3>1. x \in blocks /\ x.base = b.base /\ x.n \in Nat \ {0} /\ b.n \in Nat \ {0} /\ b.base \in Nat
      BY <1>1, <1>2, <2>1, PageTableAssumption DEF HeapInv
    <3>2. Heap!Run(b.base, b.n) \cap Heap!Run(x.base, x.n) = {}
      BY <2>1, <3>1 DEF HeapInv
    <3>3. b.base \in Heap!Run(b.base, b.n) /\ b.base \in Heap!Run(x.base, x.n)
      BY <3>1 DEF Heap!Run
    <3> QED BY <3>2, <3>3
  <2>3. b.base = u.base /\ b.n = n
    BY <1>2, <2>2
  <2>4. SA!HeaderWords(p, b.base) \subseteq SA!BlockWords(b.base, b.n)
    BY <1>4, <2>1, <2>3
  <2>5. CASE o.base = u.base
    <3>1. o.pool = p
      <4>1. first_free[o.pool] = o.base /\ first_free[u.pool] = o.base
            /\ o.pool \in PoolNames /\ u.pool \in PoolNames
        BY Zenon, <2>5 DEF PoolInv
      <4>2. o.base # 0
        <5>1. Block(o.base) \in blocks /\ Block(o.base).base = o.base
          BY <1>1, <1>2
        <5>2. o.base \in 1 .. Chunks
          BY <5>1 DEF HeapInv
        <5> QED BY <5>2, PageTableAssumption
      <4> QED BY <2>1, <4>1, <4>2 DEF PoolInv
    <3> QED BY <1>4, <2>3, <2>4, <2>5, <3>1
  <2>6. CASE o.base # u.base
    BY <1>3, <1>4, <2>1, <2>3, <2>4, <2>6
  <2> QED BY <2>5, <2>6
<1>7. ASSUME NEW o \in objects
      PROVE  \E b \in blocks : o.base = b.base /\ SA!ObjectWords(o) \subseteq SA!BlockWords(b.base, b.n)
  BY <1>1, <1>2, <1>4
<1> QED BY Zenon, <1>5, <1>6, <1>7 DEF SA!ObjectsApart, PoolNames
-----------------------------------------------------------------------------
(* Sequences of anything, and the records in them.                           *)

\* A sequence with one more element.
LEMMA Longer ==
  ASSUME NEW T, NEW s \in Seq(T), NEW e \in T
  PROVE  /\ Append(s, e) \in Seq(T)
         /\ Len(s) \in Nat /\ Len(Append(s, e)) = Len(s) + 1
         /\ DOMAIN Append(s, e) = DOMAIN s \cup {Len(s) + 1} /\ Len(s) + 1 \notin DOMAIN s
         /\ \A i \in DOMAIN s : Append(s, e)[i] = s[i]
         /\ Append(s, e)[Len(s) + 1] = e
<1>1. /\ Append(s, e) \in Seq(T) /\ Len(Append(s, e)) = Len(s) + 1 /\ Len(s) \in Nat
      /\ DOMAIN s = 1 .. Len(s) /\ DOMAIN Append(s, e) = 1 .. Len(s) + 1
      /\ \A i \in 1 .. Len(s) : Append(s, e)[i] = s[i]
      /\ Append(s, e)[Len(s) + 1] = e
  BY AppendProperties, LenProperties
<1>2. DOMAIN Append(s, e) = DOMAIN s \cup {Len(s) + 1} /\ Len(s) + 1 \notin DOMAIN s
  BY <1>1
<1> QED BY <1>1, <1>2

\* A sequence with one element changed.
LEMMA OneChanged ==
  ASSUME NEW s, NEW i \in DOMAIN s, NEW e, \E S : s \in Seq(S)
  PROVE  /\ \E S : [s EXCEPT ![i] = e] \in Seq(S)
         /\ Len([s EXCEPT ![i] = e]) = Len(s) /\ DOMAIN [s EXCEPT ![i] = e] = DOMAIN s
         /\ \A j \in DOMAIN s : j # i => [s EXCEPT ![i] = e][j] = s[j]
         /\ [s EXCEPT ![i] = e][i] = e
<1>1. PICK S : s \in Seq(S)
  OBVIOUS
<1> DEFINE T == S \cup {e}
<1>2. s \in Seq(T) /\ e \in T
  BY <1>1
<1> HIDE DEF T
<1>3. Len(s) \in Nat /\ DOMAIN s = 1 .. Len(s)
  BY <1>2, LenProperties
<1>4. i \in 1 .. Len(s)
  BY <1>3
<1>5. [s EXCEPT ![i] = e] \in Seq(T) /\ Len([s EXCEPT ![i] = e]) = Len(s)
  BY <1>2, <1>4, Changed
<1> QED BY <1>5

\* The last element of a sequence is there.
LEMMA TheLast ==
  ASSUME NEW s, \E S : s \in Seq(S), s # <<>>
  PROVE  Len(s) \in DOMAIN s /\ Len(s) \in Nat \ {0} /\ DOMAIN s = 1 .. Len(s)
<1>1. PICK S : s \in Seq(S)
  OBVIOUS
<1>2. Len(s) \in Nat /\ DOMAIN s = 1 .. Len(s) /\ Len(s) # 0
  BY <1>1, LenProperties, EmptySeq
<1> QED BY <1>2

\* An entry is nil, a table or a page, and says which.
LEMMA Kinds ==
  /\ Nil.kind = "nil" /\ \A x : Pointer(x).kind = "table" /\ Pointer(x).to = x
  /\ \A x : Pointer(x) # Nil
  /\ \A t, f : PageEntry(t, f).kind = "page" /\ PageEntry(t, f).size = t /\ PageEntry(t, f).frame = f
  /\ \A t, f : PageEntry(t, f) # Nil /\ \A x : PageEntry(t, f) # Pointer(x)
  /\ \A x, y : Pointer(x) = Pointer(y) => x = y
  /\ \A s : Root(s).level = 3 /\ Root(s).at = s
  /\ \A t, b : Table(t, b).level = t - 1 /\ Table(t, b).at = b
<1>1. Nil.kind = "nil" /\ \A x : Pointer(x).kind = "table" /\ Pointer(x).to = x
  BY DEF Nil, Pointer
<1>2. \A t, f : PageEntry(t, f).kind = "page" /\ PageEntry(t, f).size = t /\ PageEntry(t, f).frame = f
  BY DEF PageEntry
<1>3. /\ \A s : Root(s).level = 3 /\ Root(s).at = s
      /\ \A t, b : Table(t, b).level = t - 1 /\ Table(t, b).at = b
  BY DEF Root, Table
<1>4. \A x : Pointer(x) # Nil
  BY <1>1
<1>5. \A t, f : PageEntry(t, f) # Nil /\ \A x : PageEntry(t, f) # Pointer(x)
  BY <1>1, <1>2
<1>6. \A x, y : Pointer(x) = Pointer(y) => x = y
  BY <1>1
<1> QED BY <1>1, <1>2, <1>3, <1>4, <1>5, <1>6

\* A space's record with one field changed.
LEMMA SpaceFields ==
  ASSUME NEW r, r = SpaceRecord(r.utcb, r.free, r.list, r.segs), NEW e
  PROVE  /\ [r EXCEPT !.free = e] = SpaceRecord(r.utcb, e, r.list, r.segs)
         /\ [r EXCEPT !.utcb = e] = SpaceRecord(e, r.free, r.list, r.segs)
         /\ [r EXCEPT !.segs = e] = SpaceRecord(r.utcb, r.free, r.list, e)
         /\ [r EXCEPT !.list = e] = SpaceRecord(r.utcb, r.free, e, r.segs)
<1>1. r \in [utcb : {r.utcb}, free : {r.free}, list : {r.list}, segs : {r.segs}]
  BY DEF SpaceRecord
<1>2. [r EXCEPT !.free = e] = SpaceRecord(r.utcb, e, r.list, r.segs)
  BY <1>1 DEF SpaceRecord
<1>3. [r EXCEPT !.utcb = e] = SpaceRecord(e, r.free, r.list, r.segs)
  BY <1>1 DEF SpaceRecord
<1>4. [r EXCEPT !.segs = e] = SpaceRecord(r.utcb, r.free, r.list, e)
  BY <1>1 DEF SpaceRecord
<1>5. [r EXCEPT !.list = e] = SpaceRecord(r.utcb, r.free, e, r.segs)
  BY <1>1 DEF SpaceRecord
<1> QED BY <1>2, <1>3, <1>4, <1>5

\* A space, field by field.
LEMMA SpaceParts ==
  ASSUME NEW a, NEW b, NEW c, NEW d
  PROVE  LET r == SpaceRecord(a, b, c, d) IN
         /\ r.utcb = a /\ r.free = b /\ r.list = c /\ r.segs = d
         /\ r = SpaceRecord(r.utcb, r.free, r.list, r.segs)
BY DEF SpaceRecord
-----------------------------------------------------------------------------
(* Who uses a block.                                                         *)

\* Fewer uses of the same blocks.
LEMMA OwnersKept ==
  ASSUME OwnersInv, Bases \subseteq Bases', Owners' \subseteq Owners
  PROVE  OwnersInv'
BY DEF OwnersInv

\* A new block with its one use.
LEMMA OwnerGained ==
  ASSUME OwnersInv, NEW k, NEW i, NEW c, c \notin Bases, Bases' = Bases \cup {c},
         Owners' \subseteq Owners \cup {<<k, i, c>>}
  PROVE  OwnersInv'
<1>1. <<k, i, c>>[1] = k /\ <<k, i, c>>[2] = i /\ <<k, i, c>>[3] = c
  OBVIOUS
<1>2. PICK x : x = <<k, i, c>>
  BY Zenon
<1>3. \A o \in Owners' : o \in Owners \/ o = x
  BY <1>2
<1>4. x[3] \notin Bases /\ x[3] \in Bases'
  BY <1>1, <1>2
<1>5. \A o \in Owners' : o[3] \in Bases'
  BY <1>3, <1>4 DEF OwnersInv
<1>6. \A o, u \in Owners' : o[3] = u[3] => o[1] = u[1] /\ o[2] = u[2]
  BY <1>3, <1>4 DEF OwnersInv
<1> QED BY <1>5, <1>6 DEF OwnersInv

\* The blocks of the pools are blocks.
LEMMA OwnersIn ==
  ASSUME OwnersInv
  PROVE  PoolOwnersInBases
BY DEF OwnersInv, PoolOwnersInBases, Owners
-----------------------------------------------------------------------------
(* The tree of tables grows by a table that hangs in one place.              *)

\* No table is hung elsewhere.
LEMMA TreeKept ==
  ASSUME TreeInv,
         \A p \in DOMAIN tables' : p.level < 3 => p \in DOMAIN tables,
         \A q, i, p : Hangs(q, i, p)' <=> Hangs(q, i, p),
         \A s, p : HangsInSpace(s, p)' <=> HangsInSpace(s, p)
  PROVE  TreeInv'
<1> SUFFICES ASSUME NEW p \in DOMAIN tables', p.level < 3 PROVE OneParent(p)'
  BY DEF TreeInv
<1>1. OneParent(p)
  BY DEF TreeInv
<1>2. \A q, i : Hangs(q, i, p)' => q \in DOMAIN tables /\ i \in DOMAIN tables[q]
  BY DEF Hangs
<1>3. \A q, i : Hangs(q, i, p) => q \in DOMAIN tables' /\ i \in DOMAIN tables'[q]
  BY DEF Hangs
<1>4. \A s : HangsInSpace(s, p)' => s \in SpacesMade
  BY DEF HangsInSpace
<1>5. \A s : HangsInSpace(s, p) => s \in SpacesMade'
  BY DEF HangsInSpace
<1> QED BY <1>1, <1>2, <1>3, <1>4, <1>5 DEF OneParent

\* A new table hung in an entry of another.
LEMMA TreeGrows ==
  ASSUME TreeInv, NEW x, x \notin DOMAIN tables, NEW q, NEW i,
         \A p \in DOMAIN tables' : p.level < 3 => p \in DOMAIN tables \/ p = x,
         \A r, j, p : Hangs(r, j, p)' <=> Hangs(r, j, p) \/ (r = q /\ j = i /\ p = x),
         \A s, p : HangsInSpace(s, p)' <=> HangsInSpace(s, p),
         \A r, j : ~Hangs(r, j, x), \A s : ~HangsInSpace(s, x)
  PROVE  TreeInv'
<1> SUFFICES ASSUME NEW p \in DOMAIN tables', p.level < 3 PROVE OneParent(p)'
  BY DEF TreeInv
<1>1. \A r, j : Hangs(r, j, p)' => r \in DOMAIN tables' /\ j \in DOMAIN tables'[r]
  BY DEF Hangs
<1>2. \A s : HangsInSpace(s, p)' => s \in SpacesMade'
  BY DEF HangsInSpace
<1>3. CASE p = x
  <2>1. Hangs(q, i, p)'
    BY <1>3
  <2> QED BY <1>1, <1>2, <1>3, <2>1 DEF OneParent
<1>4. CASE p # x
  <2>1. OneParent(p)
    BY <1>4 DEF TreeInv
  <2>2. \A r, j : Hangs(r, j, p)' <=> Hangs(r, j, p)
    BY <1>4
  <2>3. \A r, j : Hangs(r, j, p) => r \in DOMAIN tables /\ j \in DOMAIN tables[r]
    BY DEF Hangs
  <2>4. \A s : HangsInSpace(s, p) => s \in SpacesMade
    BY DEF HangsInSpace
  <2> QED BY <1>1, <1>2, <2>1, <2>2, <2>3, <2>4 DEF OneParent
<1> QED BY <1>3, <1>4

\* A new table hung in a space's entry for UTCBs.
LEMMA TreeGrowsInSpace ==
  ASSUME TreeInv, NEW x, x \notin DOMAIN tables, NEW q,
         \A p \in DOMAIN tables' : p.level < 3 => p \in DOMAIN tables \/ p = x,
         \A r, j, p : Hangs(r, j, p)' <=> Hangs(r, j, p),
         \A s, p : HangsInSpace(s, p)' <=> HangsInSpace(s, p) \/ (s = q /\ p = x),
         \A r, j : ~Hangs(r, j, x), \A s : ~HangsInSpace(s, x)
  PROVE  TreeInv'
<1> SUFFICES ASSUME NEW p \in DOMAIN tables', p.level < 3 PROVE OneParent(p)'
  BY DEF TreeInv
<1>1. \A r, j : Hangs(r, j, p)' => r \in DOMAIN tables' /\ j \in DOMAIN tables'[r]
  BY DEF Hangs
<1>2. \A s : HangsInSpace(s, p)' => s \in SpacesMade'
  BY DEF HangsInSpace
<1>3. CASE p = x
  <2>1. HangsInSpace(q, p)'
    BY <1>3
  <2> QED BY <1>1, <1>2, <1>3, <2>1 DEF OneParent
<1>4. CASE p # x
  <2>1. OneParent(p)
    BY <1>4 DEF TreeInv
  <2>2. \A s : HangsInSpace(s, p)' <=> HangsInSpace(s, p)
    BY <1>4
  <2>3. \A r, j : Hangs(r, j, p) => r \in DOMAIN tables /\ j \in DOMAIN tables[r]
    BY DEF Hangs
  <2>4. \A s : HangsInSpace(s, p) => s \in SpacesMade
    BY DEF HangsInSpace
  <2> QED BY <1>1, <1>2, <2>1, <2>2, <2>3, <2>4 DEF OneParent
<1> QED BY <1>3, <1>4
-----------------------------------------------------------------------------
(* The invariant, and the steps that leave tables, bits and threads alone.   *)

Memory == HeapInv /\ ShapeInv /\ TreeInv /\ OwnersInv /\ PoolInv
Utcbs  == ThreadInv /\ PageInv /\ SectionInv /\ LostInv
Walks  == SavedInv /\ RegionInv /\ PagesInv /\ WalkInv
KernelInv == \E S : kernel \in Seq(S)
BInv   == Memory /\ Utcbs /\ Walks /\ KernelInv

\* The spaces keep their bits and their entries for UTCBs.
SameSpaces ==
  /\ (\E S : spaces' \in Seq(S)) /\ Len(spaces') = Len(spaces)
  /\ DOMAIN spaces' = DOMAIN spaces
  /\ \A s \in DOMAIN spaces :
       spaces'[s] = SpaceRecord(spaces[s].utcb, spaces[s].free,
                                spaces'[s].list, spaces'[s].segs)

\* They keep their entries for UTCBs, and get no bit back.
KeptSpaces ==
  /\ (\E S : spaces' \in Seq(S)) /\ Len(spaces') = Len(spaces)
  /\ DOMAIN spaces' = DOMAIN spaces
  /\ \A s \in DOMAIN spaces :
       /\ spaces'[s].free \subseteq spaces[s].free
       /\ spaces'[s] = SpaceRecord(spaces[s].utcb, spaces'[s].free,
                                   spaces'[s].list, spaces'[s].segs)

\* Spaces that do not change are the same.
LEMMA SpacesUnchanged ==
  ASSUME ShapeInv, spaces' = spaces
  PROVE  SameSpaces
BY DEF ShapeInv, SpaceShape, SameSpaces, SpacesMade

\* What is the same of each space.
LEMMA SameParts ==
  ASSUME SameSpaces, NEW s \in SpacesMade
  PROVE  /\ s \in SpacesMade' /\ SpacesMade' = SpacesMade
         /\ spaces'[s].utcb = spaces[s].utcb /\ spaces'[s].free = spaces[s].free
         /\ spaces'[s] = SpaceRecord(spaces'[s].utcb, spaces'[s].free,
                                     spaces'[s].list, spaces'[s].segs)
<1>1. spaces'[s] = SpaceRecord(spaces[s].utcb, spaces[s].free,
                               spaces'[s].list, spaces'[s].segs)
  BY DEF SameSpaces, SpacesMade
<1>2. s \in SpacesMade' /\ SpacesMade' = SpacesMade
  BY DEF SameSpaces, SpacesMade
<1> QED BY <1>1, <1>2, SpaceParts

\* Spaces that are the same are kept.
LEMMA SameKept == ASSUME SameSpaces PROVE KeptSpaces
<1>1. ASSUME NEW s \in DOMAIN spaces
      PROVE  /\ spaces'[s].free \subseteq spaces[s].free
             /\ spaces'[s] = SpaceRecord(spaces[s].utcb, spaces'[s].free,
                                         spaces'[s].list, spaces'[s].segs)
  <2>1. spaces'[s] = SpaceRecord(spaces[s].utcb, spaces[s].free, spaces'[s].list, spaces'[s].segs)
    BY DEF SameSpaces
  <2>2. spaces'[s].free = spaces[s].free
    BY <2>1, SpaceParts
  <2> QED BY <2>1, <2>2
<1> QED BY <1>1 DEF SameSpaces, KeptSpaces

\* What is kept of each space.
LEMMA KeptParts ==
  ASSUME KeptSpaces, NEW s \in SpacesMade
  PROVE  /\ s \in SpacesMade' /\ SpacesMade' = SpacesMade
         /\ spaces'[s].utcb = spaces[s].utcb /\ spaces'[s].free \subseteq spaces[s].free
         /\ spaces'[s] = SpaceRecord(spaces'[s].utcb, spaces'[s].free,
                                     spaces'[s].list, spaces'[s].segs)
<1>1. spaces'[s] = SpaceRecord(spaces[s].utcb, spaces'[s].free,
                               spaces'[s].list, spaces'[s].segs)
      /\ spaces'[s].free \subseteq spaces[s].free
  BY DEF KeptSpaces, SpacesMade
<1>2. s \in SpacesMade' /\ SpacesMade' = SpacesMade
  BY DEF KeptSpaces, SpacesMade
<1> QED BY <1>1, <1>2, SpaceParts

\* The tables keep their shape in a step that writes none.
LEMMA ShapeQuiet ==
  ASSUME ShapeInv, TreeInv, tables' = tables, KeptSpaces, Bases \subseteq Bases'
  PROVE  ShapeInv' /\ TreeInv'
<1>1. SpacesMade' = SpacesMade /\ \E S : spaces' \in Seq(S)
  BY DEF KeptSpaces, SpacesMade
<1>2. ASSUME NEW x \in DOMAIN tables
      PROVE  (RootShape(x) \/ MiddleShape(x) \/ LowShape(x))'
  <2>1. RootShape(x) \/ MiddleShape(x) \/ LowShape(x)
    BY DEF ShapeInv
  <2> QED BY <1>1, <2>1 DEF RootShape, MiddleShape, LowShape, Root
<1>3. ASSUME NEW s \in SpacesMade
      PROVE  Root(s) \in DOMAIN tables' /\ SpaceShape(spaces[s])'
  BY KeptParts DEF ShapeInv, SpaceShape
<1>4. ShapeInv'
  BY <1>1, <1>2, <1>3 DEF ShapeInv
<1>5. \A q, i, p : Hangs(q, i, p)' <=> Hangs(q, i, p)
  BY DEF Hangs
<1>6. \A s, p : HangsInSpace(s, p)' <=> HangsInSpace(s, p)
  BY <1>1, KeptParts DEF HangsInSpace
<1>7. TreeInv'
  BY <1>5, <1>6, TreeKept
<1> QED BY <1>4, <1>7

\* In such a step tables and pages have the uses they had.
LEMMA OwnersQuiet ==
  ASSUME tables' = tables, KeptSpaces
  PROVE  TableOwners' = TableOwners /\ UtcbOwners' = UtcbOwners
<1>1. SpacesMade' = SpacesMade
  BY DEF KeptSpaces, SpacesMade
<1>2. \A s \in SpacesMade : spaces'[s].utcb = spaces[s].utcb /\ UtcbTable(s)' = UtcbTable(s)
  BY KeptParts DEF UtcbTable
<1>3. UtcbPlaces' = UtcbPlaces
  BY <1>1, <1>2 DEF UtcbPlaces
<1>4. \A x \in UtcbPlaces : x[1] \in SpacesMade
  BY DEF UtcbPlaces
<1>5. UtcbOwners' = UtcbOwners
  BY <1>2, <1>3, <1>4 DEF UtcbOwners
<1> QED BY <1>5 DEF TableOwners

\* The threads' part of the invariant needs no look at the heap but for the
\* lost bits.
LEMMA ThreadsQuiet ==
  ASSUME ShapeInv, Utcbs, tables' = tables, SameSpaces,
         UNCHANGED <<threads, page, cpd, zeroed>>, pc # "utcb_map", pc' \notin Creating,
         avail' \subseteq avail \/ spaces = <<>>
  PROVE  Utcbs'
<1>1. SpacesMade' = SpacesMade /\ Current' = Current
  BY DEF SameSpaces, SpacesMade, Current
<1>2. ASSUME NEW s \in SpacesMade
      PROVE  /\ spaces'[s].utcb = spaces[s].utcb /\ spaces'[s].free = spaces[s].free
             /\ UtcbTable(s)' = UtcbTable(s)
  BY SameParts DEF UtcbTable
<1>3. ThreadInv'
  <2>1. ASSUME NEW n \in DOMAIN threads
        PROVE  /\ threads[n] = [space |-> threads[n].space, tcb |-> threads[n].tcb,
                                utcb |-> threads[n].utcb]
               /\ threads[n].space \in SpacesMade'
               /\ Claims(n) =>
                    /\ threads[n].utcb \in 0 .. UtcbBitmap - 1
                    /\ threads[n].utcb \notin spaces'[threads[n].space].free
                    /\ spaces'[threads[n].space].utcb # Nil
                    /\ UtcbTable(threads[n].space)'[PageOf(threads[n].utcb)] # Nil
    BY <1>1, <1>2 DEF Utcbs, ThreadInv
  <2> QED BY <2>1 DEF Utcbs, ThreadInv, Claims, UtcbTable, PageOf
<1>4. PageInv'
  BY DEF Utcbs, PageInv, Creating, NoPage
<1>5. SectionInv'
  <2>1. spaces' # <<>> => cpd' = Claimed(Current') \/ (cpd' = spaces'[Current'].utcb /\ cpd' # Nil)
    <3> SUFFICES ASSUME spaces' # <<>>
                 PROVE  cpd' = Claimed(Current') \/ (cpd' = spaces'[Current'].utcb /\ cpd' # Nil)
      OBVIOUS
    <3>1. Current \in SpacesMade /\ spaces # <<>>
      <4>1. Len(spaces') \in DOMAIN spaces' /\ Len(spaces') \in Nat \ {0}
        BY TheLast DEF SameSpaces
      <4>2. Len(<<>>) = 0
        OBVIOUS
      <4> QED BY <4>1, <4>2 DEF SameSpaces, Current, SpacesMade
    <3> QED BY <1>1, <1>2, <3>1 DEF Utcbs, SectionInv, Claimed
  <2>2. ASSUME NEW z \in zeroed
        PROVE  /\ z.space \in SpacesMade' /\ spaces'[z.space].utcb # Nil /\ z.at # Nil
               /\ \E i \in DOMAIN UtcbTable(z.space)' : UtcbTable(z.space)'[i] = z.at
    BY <1>1, <1>2 DEF Utcbs, SectionInv
  <2> QED BY <2>1, <2>2 DEF SectionInv, UtcbTable, Claimed
<1>6. LostInv'
  <2> SUFFICES ASSUME NEW s \in SpacesMade',
                      NEW pos \in (0 .. UtcbBitmap - 1) \ spaces'[s].free
               PROVE  \/ \E n \in DOMAIN threads' : threads'[n].space = s /\ threads'[n].utcb = pos
                      \/ Heap!Place(Heap!ChunksNeeded(UtcbBytes))' = {}
    BY DEF LostInv, Heap!ChunksNeeded
  <2>1. spaces # <<>>
    BY <1>1 DEF SpacesMade
  <2>2. \/ \E n \in DOMAIN threads : threads[n].space = s /\ threads[n].utcb = pos
        \/ Heap!Place(Heap!ChunksNeeded(UtcbBytes)) = {}
    BY <1>1, <1>2 DEF Utcbs, LostInv
  <2>3. CASE Heap!Place(Heap!ChunksNeeded(UtcbBytes)) = {}
    BY <2>1, <2>3, PlacesShrink
  <2> QED BY <2>2, <2>3
<1> QED BY <1>3, <1>4, <1>5, <1>6 DEF Utcbs

\* No walk is begun outside map_region.
LEMMA WalkOff ==
  ASSUME ~walk.on, walk' = walk, pc' # "map", SavedInv'
  PROVE  Walks'
BY DEF Walks, SavedInv, RegionInv, PagesInv, WalkInv

\* A walk is on only in map_region.
LEMMA NotMapping == ASSUME Walks, pc # "map" PROVE ~walk.on
BY DEF Walks, RegionInv

\* Where an operation ends.
LEMMA BehindPlaces ==
  ASSUME NEW op, Behind(op)
  PROVE  pc' \in {"op", "utcb_page", "schedule"}
BY DEF Behind

\* All that is left to show of such a step is what becomes of the heap.
LEMMA QuietStep ==
  ASSUME BInv, tables' = tables, SameSpaces, UNCHANGED <<threads, page, cpd, zeroed>>,
         pc # "utcb_map", pc' \notin Creating, avail' \subseteq avail \/ spaces = <<>>,
         Bases \subseteq Bases', HeapInv', PoolInv', OwnersInv'
  PROVE  Memory' /\ Utcbs'
<1>1. ShapeInv' /\ TreeInv'
  BY ShapeQuiet, SameKept DEF BInv, Memory
<1>2. Utcbs'
  BY ThreadsQuiet DEF BInv, Memory
<1> QED BY <1>1, <1>2 DEF Memory

\* A step that allocates nothing keeps the uses of blocks.
LEMMA NothingAllocated ==
  ASSUME BInv, tables' = tables, SameSpaces, UNCHANGED <<heap, objects, kernel, page>>,
         ListOwners' = ListOwners
  PROVE  HeapInv' /\ Bases' = Bases /\ OwnersInv' /\ avail' \subseteq avail /\ blocks' = blocks
<1>1. HeapInv' /\ Bases' = Bases
  BY HeapKept DEF BInv, Memory
<1>2. Owners' = Owners
  BY OwnersQuiet, SameKept DEF Owners, PoolOwners, KernelOwners, PageOwners
<1> QED BY <1>1, <1>2, OwnersKept DEF BInv, Memory, heap

\* Steps of the weaver change nothing of the kernel.
LEMMA UnchangedStep == ASSUME BInv, UNCHANGED bvars PROVE BInv'
<1>1. /\ UNCHANGED <<heap, pools, paging, replay, system, history>> /\ UNCHANGED heap
  BY DEF bvars
<1>2. /\ UNCHANGED <<avail, blocks, first_free, bitmap, objects, undefined, tables, region, walk>>
      /\ UNCHANGED <<mem, pc, phase, cur, cur_saved, page, kernel, spaces, threads, ready, cpd>>
      /\ zeroed' = zeroed
  BY <1>1 DEF bvars, heap, pools, paging, replay, system, history
<1>3. Memory'
  <2>1. SameSpaces
    BY <1>2, SpacesUnchanged DEF BInv, Memory
  <2>2. ListOwners' = ListOwners
    BY <1>2 DEF ListOwners, SpacesMade
  <2>3. HeapInv' /\ Bases' = Bases /\ OwnersInv' /\ blocks' = blocks
    BY <1>1, <1>2, <2>1, <2>2, NothingAllocated
  <2>4. PoolInv'
    BY <1>2, PoolKept DEF BInv, Memory
  <2> QED BY <1>2, <2>1, <2>3, <2>4, ShapeQuiet, SameKept DEF BInv, Memory
<1>4. Utcbs'
  <2>1. ThreadInv'
    BY <1>2 DEF BInv, Utcbs, ThreadInv, SpacesMade, Current, Claims, UtcbTable, PageOf
  <2>2. PageInv'
    BY <1>2 DEF BInv, Utcbs, PageInv, Current, UtcbEntry, PageOf, Bases
  <2>3. SectionInv'
    BY <1>2 DEF BInv, Utcbs, SectionInv, Current, SpacesMade, UtcbTable, Claimed
  <2>4. LostInv'
    BY <1>2 DEF BInv, Utcbs, LostInv, Current, SpacesMade, Heap!Place, Heap!Run, Heap!ChunksNeeded
  <2> QED BY <2>1, <2>2, <2>3, <2>4 DEF Utcbs
<1>5. Walks'
  <2>1. SavedInv' /\ RegionInv' /\ PagesInv'
    BY <1>2 DEF BInv, Walks, SavedInv, RegionInv, PagesInv, Current, Section
  <2>2. /\ AtTop(walk.at)' = AtTop(walk.at) /\ AtMiddle(walk.at)' = AtMiddle(walk.at)
        /\ AtLow(walk.at, walk.addr)' = AtLow(walk.at, walk.addr)
        /\ AtLow(walk.at, walk.addr - (walk.addr % Size[1]))'
             = AtLow(walk.at, walk.addr - (walk.addr % Size[1]))
        /\ RestBehind' = RestBehind
    BY <1>2 DEF AtTop, AtMiddle, AtLow, Upper, Middle, Section, RestBehind, Root, Index
  <2>3. WalkInv'
    BY <1>2, <2>2 DEF BInv, Walks, WalkInv, WalkNumbers, WalkPlaces
  <2> QED BY <2>1, <2>3 DEF Walks
<1>6. KernelInv'
  BY <1>2 DEF BInv, KernelInv
<1> QED BY <1>3, <1>4, <1>5, <1>6 DEF BInv
-----------------------------------------------------------------------------
(* What the allocations of a step do to the memory.                          *)

\* A step that only takes a small object keeps the uses of blocks.
LEMMA PoolTaken ==
  ASSUME Memory, NEW p \in PoolNames, Small(p), TableOwners' = TableOwners,
         UtcbOwners' = UtcbOwners, ListOwners' = ListOwners, UNCHANGED <<kernel, page>>
  PROVE  /\ HeapInv' /\ PoolInv' /\ OwnersInv'
         /\ Bases \subseteq Bases' /\ avail' \subseteq avail
<1>1. HeapInv' /\ PoolInv' /\ PoolOwnersStep
  BY SmallStep, OwnersIn DEF Memory
<1>2. KernelOwners' = KernelOwners /\ PageOwners' = PageOwners
  BY DEF KernelOwners, PageOwners
<1>3. CASE UNCHANGED heap /\ PoolOwners' = PoolOwners
  <2>1. Bases' = Bases /\ avail' = avail
    BY <1>3, HeapKept DEF Memory, heap
  <2>2. Owners' = Owners
    BY <1>2, <1>3 DEF Owners
  <2> QED BY <1>1, <2>1, <2>2, OwnersKept DEF Memory
<1>4. CASE \E c, n : \E q \in PoolNames :
             Given1(c, n) /\ PoolOwners' = PoolOwners \cup {<<"pool", q, c>>}
  <2>1. PICK c, n, q : Given1(c, n) /\ PoolOwners' = PoolOwners \cup {<<"pool", q, c>>}
    BY <1>4
  <2>2. Owners' \subseteq Owners \cup {<<"pool", q, c>>}
    BY <1>2, <2>1 DEF Owners
  <2>3. c \notin Bases /\ Bases' = Bases \cup {c} /\ avail' \subseteq avail
    BY <2>1 DEF Given1
  <2>4. OwnersInv'
    BY <2>2, <2>3, OwnerGained DEF Memory
  <2> QED BY <1>1, <2>3, <2>4
<1> QED BY <1>1, <1>3, <1>4 DEF PoolOwnersStep

\* kmem_t gives memory that had no use.
LEMMA BytesTaken ==
  ASSUME Memory, NEW size \in Nat, Bytes(size)
  PROVE  /\ HeapInv' /\ PoolInv' /\ Base \notin Bases /\ Base \in 1 .. Chunks
         /\ Bases' = Bases \cup {Base} /\ avail' \subseteq avail
         /\ PoolOwners' = PoolOwners
         /\ \A b \in blocks' \ blocks : b.base = Base
<1>1. Heap!Alloc(size) /\ UNCHANGED <<first_free, bitmap, objects, undefined>>
  BY DEF Bytes, pools
<1>2. /\ HeapInv' /\ Given1(Base, Heap!ChunksNeeded(size))
      /\ \A b \in blocks' \ blocks : b.base = Base
  BY <1>1, AllocGives DEF Memory
<1>3. /\ blocks \subseteq blocks' /\ Base \notin Bases /\ Base \in 1 .. Chunks
      /\ Bases' = Bases \cup {Base} /\ avail' \subseteq avail
  BY <1>2 DEF Given1
<1>4. PoolInv' /\ PoolOwners' = PoolOwners
  BY <1>1, <1>3, PoolKept DEF Memory, PoolOwners
<1> QED BY <1>2, <1>3, <1>4

\* kmem_t has none to give: there was no place.
LEMMA NoBytesTaken ==
  ASSUME Memory, NEW size, NoBytes(size)
  PROVE  /\ HeapInv' /\ PoolInv' /\ Bases' = Bases /\ avail' = avail
         /\ PoolOwners' = PoolOwners /\ UNCHANGED heap
         /\ Heap!Place(Heap!ChunksNeeded(size)) = {}
<1>1. UNCHANGED heap /\ UNCHANGED <<first_free, bitmap, objects, undefined>>
      /\ avail' = avail /\ blocks' = blocks /\ Heap!Place(Heap!ChunksNeeded(size)) = {}
  BY DEF NoBytes, pools, heap, Heap!AllocNull, Heap!hvars
<1> QED BY <1>1, HeapKept, PoolKept DEF Memory, PoolOwners
-----------------------------------------------------------------------------
(* The steps of the boot: first those that leave tables, bits and threads    *)
(* alone.                                                                    *)

\* After an operation no walk is on.
LEMMA BehindWalks ==
  ASSUME BInv, pc # "map", walk' = walk, NEW op, Behind(op)
  PROVE  Walks' /\ pc' \notin Creating
<1>1. pc' \in {"op", "utcb_page", "schedule"}
  BY BehindPlaces
<1>2. ~walk.on
  BY NotMapping DEF BInv
<1>3. SavedInv' /\ pc' # "map" /\ pc' \notin Creating
  BY <1>1 DEF SavedInv, Creating
<1> QED BY <1>2, <1>3, WalkOff

\* The heap is created before there is anything in it.
LEMMA CreateHeapStep == ASSUME BInv, Replayable, CreateHeap PROVE BInv'
<1>1. /\ pc = "op" /\ ~undefined /\ Op.op = "HEAP" /\ Behind(Op)
      /\ avail' = LET from == Op.args[1] * PageChunks
                  IN from + 1 .. from + Op.args[2] * PageChunks - 1
      /\ first_free' = [p \in DOMAIN first_free |-> 0]
      /\ UNCHANGED <<blocks, bitmap, objects, undefined, tables, walk, page, kernel, spaces>>
      /\ UNCHANGED <<threads, cpd, zeroed>>
  BY DEF CreateHeap, BeginOp, Op, paging, system
<1>0. /\ blocks = {} /\ spaces = <<>>
      /\ Op.args[1] \in Nat /\ Op.args[2] \in Nat
      /\ (Op.args[1] + Op.args[2]) * PageChunks <= Chunks + 1
  BY <1>1 DEF Replayable
<1>2. HeapInv' /\ Bases' = Bases
  <2>1. PICK a, n : a = Op.args[1] /\ n = Op.args[2]
    OBVIOUS
  <2>2. /\ a \in Nat /\ n \in Nat /\ PageChunks \in Nat /\ Chunks \in Nat
        /\ (a + n) * PageChunks <= Chunks + 1
        /\ avail' = a * PageChunks + 1 .. a * PageChunks + n * PageChunks - 1
    BY Zenon, <1>0, <1>1, <2>1, BootAssumption, PageTableAssumption
  <2>3. (a + n) * PageChunks = a * PageChunks + n * PageChunks
        /\ a * PageChunks \in Nat /\ n * PageChunks \in Nat
    BY <2>2
  <2>4. avail' \subseteq 1 .. Chunks
    BY <2>2, <2>3
  <2> QED BY <1>0, <1>1, <2>4 DEF HeapInv, Bases
<1>3. objects = {}
  <2>1. \A o \in objects : o.base \in Bases
    <3>1. \A o \in objects : <<"pool", o.pool, o.base>> \in Owners
      BY DEF PoolOwners, Owners
    <3> QED BY Zenon, <3>1 DEF BInv, Memory, OwnersInv
  <2> QED BY <1>0, <2>1 DEF Bases
<1>4. PoolInv'
  <2>1. first_free \in [PoolNames -> 0 .. Chunks] /\ DOMAIN bitmap = 1 .. Chunks
    BY DEF BInv, Memory, PoolInv
  <2>2. DOMAIN first_free = PoolNames /\ 0 \in 0 .. Chunks
    BY <2>1, PageTableAssumption
  <2>3. first_free' \in [PoolNames -> 0 .. Chunks] /\ \A p \in PoolNames : first_free'[p] = 0
    BY <1>1, <2>2
  <2> QED BY <1>1, <1>3, <2>1, <2>3 DEF PoolInv
<1>5. SameSpaces
  BY <1>1, SpacesUnchanged DEF BInv, Memory
<1>6. Owners' = Owners
  <2>1. TableOwners' = TableOwners /\ UtcbOwners' = UtcbOwners
    BY <1>1, <1>5, OwnersQuiet, SameKept
  <2> QED BY <1>1, <2>1 DEF Owners, PoolOwners, KernelOwners, PageOwners, ListOwners, SpacesMade
<1>7. OwnersInv'
  BY <1>2, <1>6, OwnersKept DEF BInv, Memory
<1>8. Walks' /\ pc' \notin Creating
  BY <1>1, BehindWalks
<1>9. Memory' /\ Utcbs'
  BY <1>0, <1>1, <1>2, <1>4, <1>5, <1>7, <1>8, QuietStep
<1> QED BY <1>1, <1>8, <1>9 DEF BInv, KernelInv

\* A step that allocates nothing and changes of the spaces at most the
\* segments.
LEMMA IdleStep ==
  ASSUME BInv, SameSpaces, UNCHANGED <<heap, first_free, bitmap, objects>>,
         undefined => undefined', ListOwners' = ListOwners,
         UNCHANGED <<tables, page, kernel, threads, cpd, zeroed>>,
         pc # "utcb_map", pc' \notin Creating, Walks'
  PROVE  BInv'
<1>1. HeapInv' /\ Bases' = Bases /\ OwnersInv' /\ avail' \subseteq avail /\ blocks' = blocks
  BY NothingAllocated
<1>2. PoolInv'
  BY <1>1, PoolKept DEF BInv, Memory
<1>3. Memory' /\ Utcbs'
  BY <1>1, <1>2, QuietStep
<1> QED BY <1>3 DEF BInv, KernelInv

\* Operations that are not replayed.
LEMMA SkipStep == ASSUME BInv, Skip PROVE BInv'
<1>1. /\ pc = "op" /\ Behind(Op) /\ UNCHANGED heap
      /\ UNCHANGED <<first_free, bitmap, objects, undefined, tables, walk, page, kernel>>
      /\ UNCHANGED <<spaces, threads, cpd, zeroed>>
  BY DEF Skip, pools, paging, system
<1>2. Walks' /\ pc' \notin Creating
  BY <1>1, BehindWalks
<1>3. SameSpaces /\ ListOwners' = ListOwners
  BY <1>1, SpacesUnchanged DEF BInv, Memory, ListOwners, SpacesMade
<1> QED BY <1>1, <1>2, <1>3, IdleStep

\* The end of a mapping.
LEMMA MappedStep == ASSUME BInv, Mapped PROVE BInv'
<1>1. /\ pc = "map" /\ ~walk.on /\ Behind(cur_saved) /\ UNCHANGED heap
      /\ UNCHANGED <<first_free, bitmap, objects, undefined, tables, walk, page, kernel>>
      /\ UNCHANGED <<spaces, threads, cpd, zeroed>>
  BY DEF Mapped, pools, paging, system
<1>2. pc' \in {"op", "utcb_page", "schedule"}
  BY <1>1, BehindPlaces
<1>3. SavedInv' /\ pc' # "map" /\ pc' \notin Creating
  BY <1>2 DEF SavedInv, Creating
<1>4. Walks'
  BY <1>1, <1>3, WalkOff
<1>5. SameSpaces /\ ListOwners' = ListOwners
  BY <1>1, SpacesUnchanged DEF BInv, Memory, ListOwners, SpacesMade
<1> QED BY <1>1, <1>3, <1>4, <1>5, IdleStep

\* The end of the script.
LEMMA ScheduleStep == ASSUME BInv, Schedule PROVE BInv'
<1>1. /\ pc = "schedule" /\ pc' = "running" /\ UNCHANGED heap
      /\ UNCHANGED <<first_free, bitmap, objects, undefined, tables, walk, page, kernel>>
      /\ UNCHANGED <<spaces, threads, cpd, zeroed>>
  BY DEF Schedule, pools, paging, history
<1>2. ~walk.on
  BY <1>1, NotMapping DEF BInv
<1>3. SavedInv' /\ pc' # "map" /\ pc' \notin Creating
  BY <1>1 DEF SavedInv, Creating
<1>4. Walks'
  BY <1>1, <1>2, <1>3, WalkOff
<1>5. SameSpaces /\ ListOwners' = ListOwners
  BY <1>1, SpacesUnchanged DEF BInv, Memory, ListOwners, SpacesMade
<1> QED BY <1>1, <1>3, <1>4, <1>5, IdleStep

\* A thread is made ready: its bit and its page stay its own.
LEMMA EnqueueStep == ASSUME BInv, Enqueue PROVE BInv'
<1>1. /\ pc = "enqueue" /\ Behind(cur_saved) /\ UNCHANGED heap
      /\ UNCHANGED <<first_free, bitmap, objects, undefined, tables, walk, page, kernel>>
      /\ UNCHANGED <<spaces, threads, cpd, zeroed>>
  BY DEF Enqueue, pools, paging
<1>2. Walks' /\ pc' \notin Creating
  BY <1>1, BehindWalks
<1>3. SameSpaces /\ ListOwners' = ListOwners
  BY <1>1, SpacesUnchanged DEF BInv, Memory, ListOwners, SpacesMade
<1> QED BY <1>1, <1>2, <1>3, IdleStep

\* The image is loaded.
LEMMA LoadStep == ASSUME BInv, Load PROVE BInv'
<1>1. /\ pc = "off" /\ pc' = "op" /\ UNCHANGED heap
      /\ UNCHANGED <<first_free, bitmap, objects, undefined, tables, walk, page, kernel>>
      /\ UNCHANGED <<spaces, threads, cpd, zeroed>>
  BY DEF Load, pools, paging, system, history
<1>2. ~walk.on
  BY <1>1, NotMapping DEF BInv
<1>3. SavedInv' /\ pc' # "map" /\ pc' \notin Creating
  BY <1>1 DEF SavedInv, Creating
<1>4. Walks'
  BY <1>1, <1>2, <1>3, WalkOff
<1>5. SameSpaces /\ ListOwners' = ListOwners
  BY <1>1, SpacesUnchanged DEF BInv, Memory, ListOwners, SpacesMade
<1> QED BY <1>1, <1>3, <1>4, <1>5, IdleStep

\* A table of the kernel is allocated, or the pointer to it is never set.
LEMMA KernelTableStep ==
  ASSUME BInv, NEW at, NEW then, KernelTable(at, then), at \in {"utcb_page", "vectors"},
         then \in {"vectors", "idle"}
  PROVE  BInv'
<1>1. /\ pc = at /\ pc' = then
      /\ UNCHANGED <<tables, walk, page, spaces, threads, cpd, zeroed>>
  BY DEF KernelTable, paging, history
<1>2. pc \notin {"map", "utcb_map"} /\ pc' \notin {"map", "pdir", "segments"} /\ pc' \notin Creating
  BY <1>1 DEF Creating
<1>3. ~walk.on
  BY <1>2, NotMapping DEF BInv
<1>4. Walks'
  BY <1>1, <1>2, <1>3, WalkOff DEF SavedInv
<1>5. SameSpaces /\ ListOwners' = ListOwners
  BY <1>1, SpacesUnchanged DEF BInv, Memory, ListOwners, SpacesMade
<1>6. TableOwners' = TableOwners /\ UtcbOwners' = UtcbOwners /\ PageOwners' = PageOwners
  BY <1>1, <1>5, OwnersQuiet, SameKept DEF PageOwners
<1>7. TableBytes[2] \in Nat
  BY PageTableAssumption
<1>8. ASSUME NEW e, kernel' = Append(kernel, e)
      PROVE  /\ \E S : kernel' \in Seq(S)
             /\ DOMAIN kernel' = DOMAIN kernel \cup {Len(kernel) + 1}
             /\ \A i \in DOMAIN kernel : kernel'[i] = kernel[i]
             /\ kernel'[Len(kernel) + 1] = e
  <2>1. PICK S : kernel \in Seq(S)
    BY DEF BInv, KernelInv
  <2> DEFINE T == S \cup {e}
  <2>2. kernel \in Seq(T) /\ e \in T
    BY <2>1
  <2> HIDE DEF T
  <2> QED BY <1>8, <2>2, Longer
<1>9. CASE Bytes(TableBytes[2]) /\ kernel' = Append(kernel, Base)
  <2>1. /\ HeapInv' /\ PoolInv' /\ Base \notin Bases /\ Bases' = Bases \cup {Base}
        /\ avail' \subseteq avail /\ PoolOwners' = PoolOwners
    BY <1>7, <1>9, BytesTaken DEF BInv
  <2>2. PICK c, k : c = Base /\ k = Len(kernel) + 1
    OBVIOUS
  <2>3. KernelInv' /\ KernelOwners' \subseteq KernelOwners \cup {<<"kernel", k, c>>}
    <3>1. /\ \E S : kernel' \in Seq(S)
          /\ DOMAIN kernel' = DOMAIN kernel \cup {k} /\ kernel'[k] = c
          /\ \A i \in DOMAIN kernel : kernel'[i] = kernel[i]
      BY <1>8, <1>9, <2>2
    <3>2. ASSUME NEW x \in KernelOwners' PROVE x \in KernelOwners \/ x = <<"kernel", k, c>>
      <4>1. PICK j \in DOMAIN kernel' : kernel'[j] # None /\ x = <<"kernel", j, kernel'[j]>>
        BY DEF KernelOwners
      <4> QED BY <3>1, <4>1 DEF KernelOwners
    <3> QED BY <3>1, <3>2 DEF KernelInv
  <2>4. OwnersInv'
    <3>1. Owners' \subseteq Owners \cup {<<"kernel", k, c>>}
      BY <1>5, <1>6, <2>1, <2>3 DEF Owners
    <3> QED BY Zenon, <2>1, <2>2, <3>1, OwnerGained DEF BInv, Memory
  <2>5. Memory' /\ Utcbs'
    BY <1>1, <1>2, <1>5, <2>1, <2>4, QuietStep
  <2> QED BY <1>4, <2>3, <2>5 DEF BInv
<1>10. CASE NoBytes(TableBytes[2]) /\ kernel' = Append(kernel, None)
  <2>1. HeapInv' /\ PoolInv' /\ Bases' = Bases /\ avail' = avail /\ PoolOwners' = PoolOwners
    BY <1>10, NoBytesTaken DEF BInv
  <2>2. PICK k : k = Len(kernel) + 1
    OBVIOUS
  <2>3. KernelInv' /\ KernelOwners' \subseteq KernelOwners
    <3>1. /\ \E S : kernel' \in Seq(S)
          /\ DOMAIN kernel' = DOMAIN kernel \cup {k} /\ kernel'[k] = None
          /\ \A i \in DOMAIN kernel : kernel'[i] = kernel[i]
      BY <1>8, <1>10, <2>2
    <3>2. ASSUME NEW x \in KernelOwners' PROVE x \in KernelOwners
      <4>1. PICK j \in DOMAIN kernel' : kernel'[j] # None /\ x = <<"kernel", j, kernel'[j]>>
        BY DEF KernelOwners
      <4> QED BY <3>1, <4>1 DEF KernelOwners
    <3> QED BY <3>1, <3>2 DEF KernelInv
  <2>4. OwnersInv'
    <3>1. Owners' \subseteq Owners
      BY <1>5, <1>6, <2>1, <2>3 DEF Owners
    <3> QED BY <2>1, <3>1, OwnersKept DEF BInv, Memory
  <2>5. Memory' /\ Utcbs'
    BY <1>1, <1>2, <1>5, <2>1, <2>4, QuietStep
  <2> QED BY <1>4, <2>3, <2>5 DEF BInv
<1> QED BY <1>9, <1>10 DEF KernelTable

\* A step that takes an object of a pool and changes nothing else of these.
LEMMA TakeStep ==
  ASSUME BInv, NEW p \in PoolNames, Small(p),
         UNCHANGED <<tables, walk, page, kernel, spaces, threads, cpd, zeroed>>,
         pc \notin {"map", "utcb_map"}, pc' # "map", pc' \notin Creating, SavedInv'
  PROVE  BInv'
<1>1. ~walk.on
  BY NotMapping DEF BInv
<1>2. Walks'
  BY <1>1, WalkOff
<1>3. SameSpaces /\ ListOwners' = ListOwners
  BY SpacesUnchanged DEF BInv, Memory, ListOwners, SpacesMade
<1>4. TableOwners' = TableOwners /\ UtcbOwners' = UtcbOwners
  BY <1>3, OwnersQuiet, SameKept
<1>5. HeapInv' /\ PoolInv' /\ OwnersInv' /\ Bases \subseteq Bases' /\ avail' \subseteq avail
  BY <1>3, <1>4, PoolTaken DEF BInv
<1>6. Memory' /\ Utcbs'
  BY <1>3, <1>5, QuietStep
<1> QED BY <1>2, <1>6 DEF BInv, KernelInv

\* The idle thread takes an object of its pool.
LEMMA IdleTcbStep == ASSUME BInv, IdleTcb PROVE BInv'
<1>1. /\ pc = "idle" /\ pc' = "op" /\ Small("tcb") /\ "tcb" \in PoolNames
      /\ UNCHANGED <<tables, walk, page, kernel, spaces, threads, cpd, zeroed>>
  BY DEF IdleTcb, paging, system, history, PoolNames
<1>2. SavedInv' /\ pc' # "map" /\ pc' \notin Creating
  BY <1>1 DEF SavedInv, Creating
<1> QED BY <1>1, <1>2, TakeStep

\* A space takes an object, and what it is to be given is remembered.
LEMMA CreateSpaceStep == ASSUME BInv, Replayable, CreateSpace PROVE BInv'
<1>1. /\ pc = "op" /\ ~undefined /\ Op.op = "SPACE" /\ cur_saved' = Op /\ pc' = "pdir"
      /\ Small("space") /\ "space" \in PoolNames
      /\ UNCHANGED <<tables, walk, page, kernel, spaces, threads, cpd, zeroed>>
  BY DEF CreateSpace, BeginOp, Op, paging, system, history, PoolNames
<1>2. Op.args[2] \in Nat /\ ListBytes(Op.args[2]) \in Nat
  BY <1>1 DEF Replayable
<1>3. SavedInv' /\ pc' # "map" /\ pc' \notin Creating
  <2>1. PICK o : o = Op
    OBVIOUS
  <2> QED BY <1>1, <1>2, <2>1 DEF SavedInv, Creating
<1> QED BY <1>1, <1>3, TakeStep

\* lookup_segment: the number of a segment's entry in the space's list.
LEMMA CreateSegmentStep == ASSUME BInv, Replayable, CreateSegment PROVE BInv'
<1>1. /\ pc = "op" /\ ~undefined /\ Op.op = "SEGMENT" /\ Behind(Op) /\ UNCHANGED heap
      /\ \/ spaces' = [spaces EXCEPT ![Current].segs[Op.args[1] + 1] = Op.args[2]]
         \/ spaces' = spaces
      /\ UNCHANGED <<first_free, bitmap, objects, tables, walk, page, kernel>>
      /\ UNCHANGED <<threads, cpd, zeroed>>
  BY DEF CreateSegment, BeginOp, Op, paging
<1>2. undefined => undefined'
  BY <1>1
<1>3. Walks' /\ pc' \notin Creating
  BY <1>1, BehindWalks
<1>4. CASE spaces' = spaces
  <2>1. SameSpaces /\ ListOwners' = ListOwners
    BY <1>4, SpacesUnchanged DEF BInv, Memory, ListOwners, SpacesMade
  <2> QED BY <1>1, <1>2, <1>3, <2>1, IdleStep
<1>5. CASE spaces' = [spaces EXCEPT ![Current].segs[Op.args[1] + 1] = Op.args[2]]
  <2>1. PICK r, g : r = spaces[Current]
                    /\ g = [spaces[Current].segs EXCEPT ![Op.args[1] + 1] = Op.args[2]]
    BY Zenon
  <2>2. /\ (\E S : spaces \in Seq(S)) /\ spaces # <<>>
        /\ \A s \in SpacesMade : SpaceShape(spaces[s])
    BY <1>1 DEF Replayable, BInv, Memory, ShapeInv
  <2>3. Current \in DOMAIN spaces
    BY <2>2, TheLast DEF Current
  <2>4. r = SpaceRecord(r.utcb, r.free, r.list, r.segs)
    BY <2>1, <2>2, <2>3 DEF SpaceShape, SpacesMade
  <2> DEFINE e == SpaceRecord(r.utcb, r.free, r.list, g)
  <2>5. spaces' = [spaces EXCEPT ![Current] = e]
    <3>1. spaces' = [spaces EXCEPT ![Current] = [r EXCEPT !.segs = g]]
      BY <1>5, <2>1
    <3>2. [r EXCEPT !.segs = g] = e
      BY Zenon, <2>4, SpaceFields
    <3> HIDE DEF e
    <3> QED BY Zenon, <3>1, <3>2
  <2>6. /\ e.utcb = r.utcb /\ e.free = r.free /\ e.list = r.list /\ e.segs = g
        /\ e = SpaceRecord(r.utcb, r.free, e.list, e.segs)
    BY SpaceParts
  <2> HIDE DEF e
  <2>7. /\ \E S : spaces' \in Seq(S)
        /\ Len(spaces') = Len(spaces) /\ DOMAIN spaces' = DOMAIN spaces
        /\ \A j \in DOMAIN spaces : j # Current => spaces'[j] = spaces[j]
        /\ spaces'[Current] = e
    BY Zenon, <2>2, <2>3, <2>5, OneChanged
  <2>8. SameSpaces
    <3>1. ASSUME NEW s \in DOMAIN spaces
          PROVE  spaces'[s] = SpaceRecord(spaces[s].utcb, spaces[s].free,
                                          spaces'[s].list, spaces'[s].segs)
      <4>1. CASE s = Current
        BY <2>1, <2>6, <2>7, <4>1
      <4>2. CASE s # Current
        BY <2>2, <2>7, <4>2 DEF SpaceShape, SpacesMade
      <4> QED BY <4>1, <4>2
    <3> QED BY <2>7, <3>1 DEF SameSpaces
  <2>9. ListOwners' = ListOwners
    <3>1. \A s \in DOMAIN spaces : spaces'[s].list = spaces[s].list
      BY Zenon, <2>1, <2>6, <2>7
    <3> QED BY <2>7, <3>1 DEF ListOwners, SpacesMade
  <2> QED BY <1>1, <1>2, <1>3, <2>8, <2>9, IdleStep
<1> QED BY <1>1, <1>4, <1>5

\* The list of segments takes a block of its own.
LEMMA SegmentListStep == ASSUME BInv, SegmentList PROVE BInv'
<1> DEFINE n == cur_saved.args[2]
<1>1. /\ pc = "segments" /\ ~undefined
      /\ UNCHANGED <<tables, walk, page, kernel, threads, cpd, zeroed>>
  BY DEF SegmentList, paging
<1>2. n \in Nat /\ ListBytes(n) \in Nat /\ spaces # <<>>
  BY <1>1 DEF BInv, Walks, SavedInv
<1>3. ~walk.on
  BY <1>1, NotMapping DEF BInv
<1>4. CASE /\ Bytes(ListBytes(n)) /\ Behind(cur_saved)
           /\ spaces' = [spaces EXCEPT ![Current].list = Base,
                                       ![Current].segs = [i \in 1 .. n |-> 0]]
  <2>1. /\ HeapInv' /\ PoolInv' /\ Base \notin Bases /\ Bases' = Bases \cup {Base}
        /\ avail' \subseteq avail /\ PoolOwners' = PoolOwners
    BY <1>2, <1>4, BytesTaken DEF BInv
  <2>2. PICK r, g, b : r = spaces[Current] /\ g = [i \in 1 .. n |-> 0] /\ b = Base
    BY Zenon
  <2> HIDE DEF n
  <2>3. (\E S : spaces \in Seq(S)) /\ \A s \in SpacesMade : SpaceShape(spaces[s])
    BY DEF BInv, Memory, ShapeInv
  <2>4. Current \in DOMAIN spaces
    BY <1>2, <2>3, TheLast DEF Current
  <2>5. r = SpaceRecord(r.utcb, r.free, r.list, r.segs)
    BY <2>2, <2>3, <2>4 DEF SpaceShape, SpacesMade
  <2> DEFINE e == SpaceRecord(r.utcb, r.free, b, g)
  <2>6. spaces' = [spaces EXCEPT ![Current] = e]
    <3>1. PICK q : q = [r EXCEPT !.list = b]
      BY Zenon
    <3>2. q = SpaceRecord(r.utcb, r.free, b, r.segs)
      BY Zenon, <2>5, <3>1, SpaceFields
    <3>3. q.utcb = r.utcb /\ q.free = r.free /\ q.list = b /\ q.segs = r.segs
          /\ q = SpaceRecord(q.utcb, q.free, q.list, q.segs)
      BY <3>2, SpaceParts
    <3>4. [q EXCEPT !.segs = g] = e
      <4>1. [q EXCEPT !.segs = g] = SpaceRecord(q.utcb, q.free, q.list, g)
        BY Zenon, <3>3, SpaceFields
      <4> QED BY <3>3, <4>1
    <3>5. spaces' = [spaces EXCEPT ![Current] = [q EXCEPT !.segs = g]]
      BY Zenon, <1>4, <2>2, <2>4, <3>1 
    <3> QED BY Zenon, <3>4, <3>5
  <2>7. /\ e.utcb = r.utcb /\ e.free = r.free /\ e.list = b
        /\ e = SpaceRecord(r.utcb, r.free, e.list, e.segs)
    BY SpaceParts
  <2> HIDE DEF e
  <2>8. /\ \E S : spaces' \in Seq(S)
        /\ Len(spaces') = Len(spaces) /\ DOMAIN spaces' = DOMAIN spaces
        /\ \A j \in DOMAIN spaces : j # Current => spaces'[j] = spaces[j]
        /\ spaces'[Current] = e
    BY Zenon, <2>3, <2>4, <2>6, OneChanged
  <2>9. SameSpaces
    <3>1. ASSUME NEW s \in DOMAIN spaces
          PROVE  spaces'[s] = SpaceRecord(spaces[s].utcb, spaces[s].free,
                                          spaces'[s].list, spaces'[s].segs)
      <4>1. CASE s = Current
        BY <2>2, <2>7, <2>8, <4>1
      <4>2. CASE s # Current
        BY <2>3, <2>8, <4>2 DEF SpaceShape, SpacesMade
      <4> QED BY <4>1, <4>2
    <3> QED BY <2>8, <3>1 DEF SameSpaces
  <2>10. PICK c : c = Current
    OBVIOUS
  <2>11. ASSUME NEW x \in ListOwners' PROVE x \in ListOwners \/ x = <<"list", c, b>>
    <3>1. PICK s \in DOMAIN spaces' : spaces'[s].list # None /\ x = <<"list", s, spaces'[s].list>>
      BY DEF ListOwners, SpacesMade
    <3>2. CASE s = Current
      BY <2>7, <2>8, <2>10, <3>1, <3>2
    <3>3. CASE s # Current
      BY <2>8, <3>1, <3>3 DEF ListOwners, SpacesMade
    <3> QED BY <3>2, <3>3
  <2>12. OwnersInv'
    <3>1. TableOwners' = TableOwners /\ UtcbOwners' = UtcbOwners
      BY <1>1, <2>9, OwnersQuiet, SameKept
    <3>2. Owners' \subseteq Owners \cup {<<"list", c, b>>}
      BY <1>1, <2>1, <2>11, <3>1 DEF Owners, KernelOwners, PageOwners
    <3> QED BY <2>1, <2>2, <3>2, OwnerGained DEF BInv, Memory
  <2>13. Walks' /\ pc' \notin Creating
    BY <1>1, <1>4, BehindWalks
  <2>14. Memory' /\ Utcbs'
    BY <1>1, <2>1, <2>9, <2>12, <2>13, QuietStep
  <2> QED BY <1>1, <2>13, <2>14 DEF BInv, KernelInv
<1>5. CASE /\ Heap!AllocNull(ListBytes(n)) /\ undefined' = TRUE
           /\ UNCHANGED <<first_free, bitmap, objects, spaces, pc, phase, cur, cur_saved, ran>>
  <2>1. SameSpaces /\ ListOwners' = ListOwners
    BY <1>5, SpacesUnchanged DEF BInv, Memory, ListOwners, SpacesMade
  <2>2. UNCHANGED heap
    BY <1>5 DEF Heap!AllocNull, Heap!hvars, heap
  <2>3. SavedInv' /\ pc' # "map" /\ pc' \notin Creating
    BY <1>1, <1>2, <1>5 DEF SavedInv, Creating
  <2>4. Walks'
    BY <1>1, <1>3, <2>3, WalkOff
  <2> HIDE DEF n
  <2> QED BY <1>1, <1>5, <2>1, <2>2, <2>3, <2>4, IdleStep
<1> QED BY Zenon, <1>4, <1>5 DEF SegmentList

\* A mapping begins with its region.
LEMMA MapMemoryStep == ASSUME BInv, Replayable, MapMemory PROVE BInv'
<1>1. /\ pc = "op" /\ ~undefined /\ Op.op = "MAP" /\ pc' = "map" /\ UNCHANGED heap
      /\ region' = [space |-> Current, v |-> Op.args[2],
                    p |-> spaces[Current].segs[Op.args[1] + 1], n |-> Op.args[3]]
      /\ UNCHANGED <<first_free, bitmap, objects, undefined, tables, walk, page, kernel>>
      /\ UNCHANGED <<spaces, threads, cpd, zeroed>>
  BY DEF MapMemory, BeginOp, Op, pools, system
<1>2. ~walk.on
  BY <1>1, NotMapping DEF BInv
<1>3. PICK s, v, p, n : s = Current /\ v = Op.args[2] /\ n = Op.args[3]
                        /\ p = spaces[Current].segs[Op.args[1] + 1]
  OBVIOUS
<1>4. v \in Nat /\ n \in Nat /\ p \in Nat /\ v + n <= Size[4] /\ spaces # <<>>
  BY <1>1, <1>3 DEF Replayable
<1>5. /\ region'.space = s /\ region'.v = v /\ region'.p = p /\ region'.n = n
      /\ DOMAIN region' = {"space", "v", "p", "n"}
  BY <1>1, <1>3
<1>6. Walks'
  <2>1. RegionInv'
    BY <1>1, <1>3, <1>4, <1>5 DEF RegionInv, Current
  <2> QED BY <1>1, <1>2, <2>1 DEF Walks, SavedInv, PagesInv, WalkInv
<1>7. SameSpaces /\ ListOwners' = ListOwners
  BY <1>1, SpacesUnchanged DEF BInv, Memory, ListOwners, SpacesMade
<1>8. pc' \notin Creating
  BY <1>1 DEF Creating
<1> QED BY <1>1, <1>6, <1>7, <1>8, IdleStep
-----------------------------------------------------------------------------
(* What does not change of a table, a space and a thread.                    *)

\* A table that is not written keeps its shape.
LEMMA TableKept ==
  ASSUME NEW x \in DOMAIN tables, tables'[x] = tables[x], DOMAIN tables \subseteq DOMAIN tables',
         SpacesMade \subseteq SpacesMade', Bases \subseteq Bases',
         RootShape(x) \/ MiddleShape(x) \/ LowShape(x)
  PROVE  (RootShape(x) \/ MiddleShape(x) \/ LowShape(x))'
<1>1. CASE RootShape(x)
  <2>1. /\ \E s \in SpacesMade' : x = Root(s)
        /\ DOMAIN tables'[x] = 0 .. TableSize(3) - 1
        /\ \A i \in DOMAIN tables'[x] :
             \/ tables'[x][i] = Nil
             \/ \E y \in DOMAIN tables' : y.level = 2 /\ tables'[x][i] = Pointer(y)
    BY <1>1 DEF RootShape
  <2> QED BY <2>1 DEF RootShape, Root
<1>2. CASE MiddleShape(x)
  <2>1. /\ x = [level |-> 2, at |-> x.at] /\ x.at \in Bases'
        /\ DOMAIN tables'[x] = 0 .. TableSize(2) - 1
        /\ \A i \in DOMAIN tables'[x] :
             \/ tables'[x][i] = Nil
             \/ \E y \in DOMAIN tables' : y.level = 1 /\ tables'[x][i] = Pointer(y)
             \/ \E f \in Nat : tables'[x][i] = PageEntry(2, f)
    BY <1>2 DEF MiddleShape
  <2> QED BY <2>1 DEF MiddleShape
<1>3. CASE LowShape(x)
  BY <1>3 DEF LowShape
<1> QED BY <1>1, <1>2, <1>3

\* So does a space.
LEMMA SpaceKept ==
  ASSUME ShapeInv, NEW s \in SpacesMade, spaces'[s] = spaces[s],
         DOMAIN tables \subseteq DOMAIN tables'
  PROVE  Root(s) \in DOMAIN tables' /\ SpaceShape(spaces[s])'
<1>1. Root(s) \in DOMAIN tables' /\ SpaceShape(spaces[s])
  BY DEF ShapeInv
<1>2. PICK r : r = spaces[s]
  OBVIOUS
<1>3. SpaceShape(r)'
  BY <1>1, <1>2 DEF SpaceShape
<1> QED BY <1>1, <1>2, <1>3 DEF SpaceShape

\* A thread keeps its bit and its entry when its space does.
LEMMA ThreadKept ==
  ASSUME ThreadInv, NEW n \in DOMAIN threads, NEW s, s = threads[n].space, s \in SpacesMade',
         spaces'[s].free \subseteq spaces[s].free,
         spaces[s].utcb # Nil =>
           /\ spaces'[s].utcb # Nil
           /\ \A i : UtcbTable(s)[i] # Nil => UtcbTable(s)'[i] # Nil
  PROVE  /\ threads[n] = [space |-> s, tcb |-> threads[n].tcb, utcb |-> threads[n].utcb]
         /\ Claims(n) =>
              /\ threads[n].utcb \in 0 .. UtcbBitmap - 1
              /\ threads[n].utcb \notin spaces'[s].free
              /\ spaces'[s].utcb # Nil
              /\ UtcbTable(s)'[PageOf(threads[n].utcb)] # Nil
BY DEF ThreadInv
-----------------------------------------------------------------------------
(* The table for UTCBs, and what a table is.                                 *)

\* The table of a space's UTCBs is one of the lowest level.
LEMMA UtcbTableIs ==
  ASSUME ShapeInv, NEW s \in SpacesMade, spaces[s].utcb # Nil
  PROVE  \E x \in DOMAIN tables :
           /\ x.level = 1 /\ LowShape(x) /\ spaces[s].utcb = Pointer(x)
           /\ UtcbTable(s) = tables[x] /\ spaces[s].utcb.to = x
<1>1. PICK x \in DOMAIN tables : x.level = 1 /\ spaces[s].utcb = Pointer(x)
  BY DEF ShapeInv, SpaceShape
<1>2. spaces[s].utcb.to = x
  BY <1>1, Kinds
<1>3. LowShape(x)
  <2>1. ~RootShape(x)
    BY <1>1, Kinds DEF RootShape
  <2>2. ~MiddleShape(x)
    <3>1. [level |-> 2, at |-> x.at].level = 2
      OBVIOUS
    <3> QED BY <1>1, <3>1 DEF MiddleShape
  <2> QED BY <2>1, <2>2 DEF ShapeInv
<1> QED BY <1>1, <1>2, <1>3 DEF UtcbTable

\* A table is of the level its name says.
LEMMA LevelShape ==
  ASSUME ShapeInv, NEW x \in DOMAIN tables
  PROVE  /\ RootShape(x) => x.level = 3 /\ x.at \in SpacesMade /\ x = Root(x.at)
         /\ MiddleShape(x) => x.level = 2 /\ x.at \in Bases
         /\ LowShape(x) => x.level = 1 /\ x.at \in Bases
         /\ x.level = 3 => RootShape(x)
         /\ x.level = 2 => MiddleShape(x)
         /\ x.level = 1 => LowShape(x)
         /\ x = [level |-> x.level, at |-> x.at]
<1>1. RootShape(x) => x.level = 3 /\ x.at \in SpacesMade /\ x = Root(x.at)
  BY Kinds DEF RootShape
<1>2. [level |-> 2, at |-> x.at].level = 2 /\ [level |-> 1, at |-> x.at].level = 1
  OBVIOUS
<1>3. MiddleShape(x) => x.level = 2 /\ x.at \in Bases
  BY <1>2 DEF MiddleShape
<1>4. LowShape(x) => x.level = 1 /\ x.at \in Bases
  BY <1>2 DEF LowShape
<1>5. RootShape(x) \/ MiddleShape(x) \/ LowShape(x)
  BY DEF ShapeInv
<1>6. x = [level |-> x.level, at |-> x.at]
  <2>1. CASE RootShape(x)
    BY <1>1, <2>1 DEF Root
  <2>2. CASE MiddleShape(x)
    BY <1>2, <2>2 DEF MiddleShape
  <2>3. CASE LowShape(x)
    BY <1>2, <2>3 DEF LowShape
  <2> QED BY <1>5, <2>1, <2>2, <2>3
<1> QED BY <1>1, <1>3, <1>4, <1>5, <1>6

\* A new root: nothing hangs in it, nothing it belongs to is given out.
LEMMA PageDirectoryStep == ASSUME BInv, PageDirectory PROVE BInv'
<1> DEFINE k == Current + 1
           empty == [i \in 0 .. TableSize(3) - 1 |-> Nil]
           bits == 0 .. UtcbBitmap - 1
           r == SpaceRecord(Nil, bits, None, <<>>)
<1>1. /\ pc = "pdir" /\ ~undefined /\ Small("l0") /\ "l0" \in PoolNames
      /\ cpd' = Claimed(k)
      /\ UNCHANGED <<region, walk, page, kernel, threads, zeroed>>
  BY DEF PageDirectory, PoolNames
<1>2. spaces' = Append(spaces, r)
  BY DEF PageDirectory, SpaceRecord
<1>3. tables' = [x \in DOMAIN tables \cup {Root(k)} |-> IF x = Root(k) THEN empty ELSE tables[x]]
  BY DEF PageDirectory
<1>4. /\ pc' \in {"op", "utcb_page", "schedule", "segments"}
      /\ pc' = "segments" => cur_saved' = cur_saved
  BY BehindPlaces DEF PageDirectory
<1>5. ~walk.on
  BY <1>1, NotMapping DEF BInv
<1>6. r.utcb = Nil /\ r.free = bits /\ r.list = None /\ r.segs = <<>>
      /\ r = SpaceRecord(r.utcb, r.free, r.list, r.segs)
  BY SpaceParts
<1> HIDE DEF r
<1>7. /\ \E S : spaces' \in Seq(S)
      /\ k \in Nat \ {0} /\ k \notin SpacesMade /\ Current' = k
      /\ SpacesMade' = SpacesMade \cup {k} /\ spaces'[k] = r
      /\ \A s \in SpacesMade : spaces'[s] = spaces[s]
  <2>0. PICK S : spaces \in Seq(S)
    BY DEF BInv, Memory, ShapeInv
  <2> DEFINE T == S \cup {r}
  <2>1. spaces \in Seq(T) /\ r \in T
    BY <2>0
  <2> HIDE DEF T
  <2>2. /\ \E U : spaces' \in Seq(U)
        /\ Len(spaces) \in Nat /\ Len(spaces') = Len(spaces) + 1
        /\ DOMAIN spaces' = DOMAIN spaces \cup {Len(spaces) + 1}
        /\ Len(spaces) + 1 \notin DOMAIN spaces
        /\ \A i \in DOMAIN spaces : spaces'[i] = spaces[i]
        /\ spaces'[Len(spaces) + 1] = r
    BY <1>2, <2>1, Longer
  <2> QED BY <2>2 DEF SpacesMade, Current
<1>8. Root(k) \notin DOMAIN tables
  <2> SUFFICES ASSUME Root(k) \in DOMAIN tables PROVE FALSE
    OBVIOUS
  <2>1. Root(k).level = 3 /\ Root(k).at = k
    BY Kinds
  <2>2. k \in SpacesMade
    BY <2>1, LevelShape DEF BInv, Memory
  <2> QED BY <1>7, <2>2
<1>9. /\ DOMAIN tables' = DOMAIN tables \cup {Root(k)}
      /\ \A x \in DOMAIN tables : tables'[x] = tables[x]
      /\ tables'[Root(k)] = empty
      /\ DOMAIN empty = 0 .. TableSize(3) - 1 /\ \A i \in DOMAIN empty : empty[i] = Nil
  BY <1>3, <1>8
<1> HIDE DEF empty, k
<1>10. TableOwners' = TableOwners
  <2>1. \A x : x \in DOMAIN tables' /\ x.level < 3 <=> x \in DOMAIN tables /\ x.level < 3
    BY <1>9, Kinds
  <2> QED BY <2>1 DEF TableOwners
<1>11. \A s \in SpacesMade : spaces[s].utcb # Nil => UtcbTable(s)' = UtcbTable(s)
  <2> SUFFICES ASSUME NEW s \in SpacesMade, spaces[s].utcb # Nil
               PROVE  UtcbTable(s)' = UtcbTable(s)
    OBVIOUS
  <2>1. PICK x \in DOMAIN tables : UtcbTable(s) = tables[x] /\ spaces[s].utcb.to = x
    BY UtcbTableIs DEF BInv, Memory
  <2> QED BY <1>7, <1>9, <2>1 DEF UtcbTable
<1>12. UtcbPlaces' = UtcbPlaces /\ UtcbOwners' = UtcbOwners
  <2>1. {t \in SpacesMade' : spaces'[t].utcb # Nil} = {t \in SpacesMade : spaces[t].utcb # Nil}
    BY <1>6, <1>7
  <2>2. UtcbPlaces' = UtcbPlaces
    BY <1>11, <2>1 DEF UtcbPlaces
  <2>3. \A x \in UtcbPlaces : UtcbTable(x[1])' = UtcbTable(x[1])
    BY <1>11 DEF UtcbPlaces
  <2> QED BY <2>2, <2>3 DEF UtcbOwners
<1>13. ListOwners' = ListOwners
  <2>1. {t \in SpacesMade' : spaces'[t].list # None} = {t \in SpacesMade : spaces[t].list # None}
    BY <1>6, <1>7
  <2> QED BY <1>7, <2>1 DEF ListOwners
<1>14. HeapInv' /\ PoolInv' /\ OwnersInv' /\ Bases \subseteq Bases' /\ avail' \subseteq avail
  BY <1>1, <1>10, <1>12, <1>13, PoolTaken DEF BInv
<1>15. ShapeInv'
  <2>1. ASSUME NEW x \in DOMAIN tables PROVE (RootShape(x) \/ MiddleShape(x) \/ LowShape(x))'
    BY <1>7, <1>9, <1>14, TableKept DEF BInv, Memory, ShapeInv
  <2>2. PICK x : x = Root(k)
    OBVIOUS
  <2>3. RootShape(x)'
    <3>1. \E s \in SpacesMade' : x = Root(s)
      BY <1>7, <2>2
    <3>2. DOMAIN tables'[x] = 0 .. TableSize(3) - 1 /\ \A i \in DOMAIN tables'[x] : tables'[x][i] = Nil
      BY <1>9, <2>2
    <3> QED BY <3>1, <3>2 DEF RootShape, Root
  <2>4. ASSUME NEW s \in SpacesMade' PROVE Root(s) \in DOMAIN tables' /\ SpaceShape(spaces[s])'
    <3>1. CASE s \in SpacesMade
      BY <1>7, <1>9, <3>1, SpaceKept DEF BInv, Memory
    <3>2. CASE s = k
      <4>1. PICK q : q = r
        OBVIOUS
      <4>2. SpaceShape(q)'
        BY Zenon, <1>6, <4>1 DEF SpaceShape, bits
      <4>3. spaces'[s] = q
        BY <1>7, <3>2, <4>1
      <4>4. SpaceShape(spaces[s])'
        BY <4>2, <4>3 DEF SpaceShape
      <4> QED BY <1>9, <3>2, <4>4
    <3> QED BY <1>7, <3>1, <3>2
  <2>5. \A y \in DOMAIN tables' : (RootShape(y) \/ MiddleShape(y) \/ LowShape(y))'
    <3> SUFFICES ASSUME NEW y \in DOMAIN tables'
                 PROVE  (RootShape(y) \/ MiddleShape(y) \/ LowShape(y))'
      OBVIOUS
    <3>1. CASE y \in DOMAIN tables
      BY <2>1, <3>1
    <3>2. CASE y = x
      BY <2>3, <3>2 DEF RootShape
    <3> QED BY <1>9, <2>2, <3>1, <3>2
  <2> QED BY <1>7, <2>5, <2>4 DEF ShapeInv, Root
<1>16. TreeInv'
  <2>1. ASSUME NEW q, NEW i, NEW p PROVE Hangs(q, i, p)' <=> Hangs(q, i, p)
    <3>1. CASE q \in DOMAIN tables
      BY <1>9, <3>1 DEF Hangs
    <3>2. CASE q = Root(k)
      <4>1. i \in DOMAIN tables'[q] => tables'[q][i] # Pointer(p)
        BY <1>9, <3>2, Kinds
      <4> QED BY <1>8, <3>2, <4>1 DEF Hangs
    <3> QED BY <1>9, <3>1, <3>2 DEF Hangs
  <2>2. \A s, p : HangsInSpace(s, p)' <=> HangsInSpace(s, p)
    BY <1>6, <1>7, Kinds DEF HangsInSpace
  <2>3. \A p \in DOMAIN tables' : p.level < 3 => p \in DOMAIN tables
    BY <1>9, Kinds
  <2> QED BY <2>1, <2>2, <2>3, TreeKept DEF BInv, Memory
<1>17. ThreadInv'
  <2>1. ASSUME NEW n \in DOMAIN threads
        PROVE  /\ threads[n] = [space |-> threads[n].space, tcb |-> threads[n].tcb,
                                utcb |-> threads[n].utcb]
               /\ threads[n].space \in SpacesMade'
               /\ Claims(n) =>
                    /\ threads[n].utcb \in 0 .. UtcbBitmap - 1
                    /\ threads[n].utcb \notin spaces'[threads[n].space].free
                    /\ spaces'[threads[n].space].utcb # Nil
                    /\ UtcbTable(threads[n].space)'[PageOf(threads[n].utcb)] # Nil
    <3>1. PICK s : s = threads[n].space
      OBVIOUS
    <3>2. s \in SpacesMade
      BY <3>1 DEF BInv, Utcbs, ThreadInv
    <3>3. /\ s \in SpacesMade' /\ spaces'[s] = spaces[s]
          /\ spaces[s].utcb # Nil => UtcbTable(s)' = UtcbTable(s)
      BY <1>7, <1>11, <3>2
    <3>4. UtcbTable(threads[n].space)' = UtcbTable(s)'
      BY <1>1, <3>1 DEF UtcbTable
    <3> QED BY <3>1, <3>3, <3>4, ThreadKept DEF BInv, Utcbs
  <2>2. pc' \notin Creating
    BY <1>4 DEF Creating
  <2>3. /\ \E S : threads \in Seq(S)
        /\ \A m, n \in DOMAIN threads :
             /\ m # n /\ Claims(m) /\ Claims(n) /\ threads[m].space = threads[n].space
             => threads[m].utcb # threads[n].utcb
    BY DEF BInv, Utcbs, ThreadInv
  <2> QED BY <1>1, <2>1, <2>2, <2>3 DEF ThreadInv, Claims, UtcbTable, PageOf
<1>18. PageInv'
  BY <1>1, <1>4 DEF BInv, Utcbs, PageInv, NoPage
<1>19. SectionInv'
  <2>1. cpd' = Claimed(Current')
    BY <1>1, <1>7
  <2>2. ASSUME NEW z \in zeroed
        PROVE  /\ z.space \in SpacesMade' /\ spaces'[z.space].utcb # Nil /\ z.at # Nil
               /\ \E i \in DOMAIN UtcbTable(z.space)' : UtcbTable(z.space)'[i] = z.at
    BY <1>7, <1>11 DEF BInv, Utcbs, SectionInv
  <2> QED BY <1>1, <2>1, <2>2 DEF SectionInv, UtcbTable, Claimed
<1>20. LostInv'
  <2> SUFFICES ASSUME NEW s \in SpacesMade', NEW pos \in bits \ spaces'[s].free
               PROVE  \/ \E n \in DOMAIN threads' : threads'[n].space = s /\ threads'[n].utcb = pos
                      \/ Heap!Place(Heap!ChunksNeeded(UtcbBytes))' = {}
    BY DEF LostInv, Heap!ChunksNeeded
  <2>1. s \in SpacesMade
    BY Zenon, <1>6, <1>7
  <2>2. \/ \E n \in DOMAIN threads : threads[n].space = s /\ threads[n].utcb = pos
        \/ Heap!Place(Heap!ChunksNeeded(UtcbBytes)) = {}
    BY <1>1, <1>7, <2>1 DEF BInv, Utcbs, LostInv
  <2>3. CASE Heap!Place(Heap!ChunksNeeded(UtcbBytes)) = {}
    BY <1>14, <2>3, PlacesShrink
  <2> QED BY <1>1, <2>2, <2>3
<1>21. Walks'
  <2>1. spaces' # <<>>
    BY <1>7 DEF SpacesMade
  <2>2. SavedInv'
    BY <1>1, <1>4, <2>1 DEF BInv, Walks, SavedInv
  <2> QED BY <1>1, <1>4, <1>5, <2>2, WalkOff
<1> QED BY <1>1, <1>14, <1>15, <1>16, <1>17, <1>18, <1>19, <1>20, <1>21
        DEF BInv, Memory, Utcbs, KernelInv
-----------------------------------------------------------------------------
(* A thread and its UTCB.                                                    *)

\* A bit of the bitmap has its page in the table for UTCBs.
LEMMA PageOfRange ==
  ASSUME NEW pos \in 0 .. UtcbBitmap - 1
  PROVE  PageOf(pos) \in 0 .. Size[2] - 1
<1> DEFINE u == UtcbsPerPage
           m == Size[2]
           q == pos \div u
<1>1. u \in Nat \ {0} /\ m \in Nat \ {0} /\ UtcbBitmap \in Nat /\ UtcbBitmap <= u * m
  <2>1. UtcbsPerPage \in Nat \ {0} /\ UtcbBitmap \in 0 .. UtcbsPerPage * Size[2]
    BY BootAssumption
  <2>2. Size[2] \in Nat \ {0}
    BY SizeFacts
  <2>3. UtcbsPerPage * Size[2] \in Nat
    BY <2>1, <2>2
  <2> QED BY <2>1, <2>2, <2>3
<1>2. pos \in Nat /\ pos < u * m
  BY <1>1
<1>3. q \in Nat /\ pos = u * q + (pos % u) /\ pos % u \in 0 .. u - 1
  BY Zenon, <1>1, <1>2, Division
<1> HIDE DEF u, m, q
<1>4. q < m
  <2> SUFFICES ASSUME q >= m PROVE FALSE
    BY <1>1, <1>3
  <2>1. PICK d \in Nat : q = m + d
    BY <1>1, <1>3, q - m \in Nat
  <2>2. u * q = u * m + u * d /\ u * d \in Nat /\ u * m \in Nat
    BY <1>1, <2>1
  <2> QED BY <1>1, <1>2, <1>3, <2>2
<1> QED BY <1>1, <1>3, <1>4 DEF PageOf, u, m, q

\* The lowest bit of a set is in it.
LEMMA LowestIn ==
  ASSUME NEW S \in SUBSET Nat, S # {}
  PROVE  Lowest(S) \in S
BY Zenon, LeastNat DEF Lowest

\* allocate_utcb takes a free bit of the current space and changes nothing else.
LEMMA BitTaken ==
  ASSUME ShapeInv, spaces # <<>>, UtcbsLeft # {}, TakeBit
  PROVE  /\ Current \in SpacesMade /\ Current' = Current
         /\ Pos \in spaces[Current].free /\ Pos \in 0 .. UtcbBitmap - 1
         /\ KeptSpaces
         /\ spaces'[Current].free = spaces[Current].free \ {Pos}
         /\ \A s \in SpacesMade : s # Current => spaces'[s].free = spaces[s].free
         /\ ListOwners' = ListOwners
<1>1. (\E S : spaces \in Seq(S)) /\ \A s \in SpacesMade : SpaceShape(spaces[s])
  BY DEF ShapeInv
<1>2. Current \in SpacesMade
  BY <1>1, TheLast DEF Current, SpacesMade
<1>3. Pos \in spaces[Current].free /\ Pos \in 0 .. UtcbBitmap - 1
  <2>1. spaces[Current].free \subseteq 0 .. UtcbBitmap - 1
    BY <1>1, <1>2 DEF SpaceShape
  <2>2. UtcbsLeft \in SUBSET Nat
    BY <2>1 DEF UtcbsLeft
  <2>3. Pos \in UtcbsLeft
    BY <2>2, LowestIn DEF Pos
  <2> QED BY <2>1, <2>3 DEF UtcbsLeft
<1>4. PICK r, left : r = spaces[Current] /\ left = spaces[Current].free \ {Pos}
  BY Zenon
<1> DEFINE e == SpaceRecord(r.utcb, left, r.list, r.segs)
<1>5. spaces' = [spaces EXCEPT ![Current] = e]
  <2>1. spaces' = [spaces EXCEPT ![Current] = [r EXCEPT !.free = left]]
    BY <1>4 DEF TakeBit
  <2>2. [r EXCEPT !.free = left] = e
    BY Zenon, <1>1, <1>2, <1>4, SpaceFields DEF SpaceShape
  <2> HIDE DEF e
  <2> QED BY Zenon, <2>1, <2>2
<1>6. /\ e.utcb = r.utcb /\ e.free = left /\ e.list = r.list /\ e.segs = r.segs
      /\ e = SpaceRecord(r.utcb, e.free, e.list, e.segs)
  BY SpaceParts
<1> HIDE DEF e
<1>7. /\ \E S : spaces' \in Seq(S)
      /\ Len(spaces') = Len(spaces) /\ DOMAIN spaces' = DOMAIN spaces
      /\ \A j \in DOMAIN spaces : j # Current => spaces'[j] = spaces[j]
      /\ spaces'[Current] = e
  BY Zenon, <1>1, <1>2, <1>5, OneChanged DEF SpacesMade
<1>8. KeptSpaces
  <2>1. ASSUME NEW s \in DOMAIN spaces
        PROVE  /\ spaces'[s].free \subseteq spaces[s].free
               /\ spaces'[s] = SpaceRecord(spaces[s].utcb, spaces'[s].free,
                                           spaces'[s].list, spaces'[s].segs)
    <3>1. CASE s = Current
      BY Zenon, <1>4, <1>6, <1>7, <3>1
    <3>2. CASE s # Current
      BY <1>1, <1>7, <3>2 DEF SpaceShape, SpacesMade
    <3> QED BY <3>1, <3>2
  <2> QED BY <1>7, <2>1 DEF KeptSpaces
<1>9. ListOwners' = ListOwners
  <2>1. \A s \in DOMAIN spaces : spaces'[s].list = spaces[s].list
    BY Zenon, <1>4, <1>6, <1>7
  <2> QED BY <1>7, <2>1 DEF ListOwners, SpacesMade
<1> QED BY Zenon, <1>2, <1>3, <1>4, <1>6, <1>7, <1>8, <1>9 DEF Current, SpacesMade

\* The thread being created gets its UTCB's number.
LEMMA ThreadNumbered ==
  ASSUME ThreadInv, threads # <<>>, NEW pos, SetUtcb(pos)
  PROVE  LET t == Len(threads) IN
         /\ \E S : threads' \in Seq(S)
         /\ t \in DOMAIN threads /\ Len(threads') = t /\ DOMAIN threads' = DOMAIN threads
         /\ \A n \in DOMAIN threads : n # t => threads'[n] = threads[n]
         /\ threads'[t].utcb = pos /\ threads'[t].space = threads[t].space
         /\ threads'[t] = [space |-> threads'[t].space, tcb |-> threads'[t].tcb,
                           utcb |-> threads'[t].utcb]
<1> DEFINE t == Len(threads)
           old == threads[t]
           e == [space |-> old.space, tcb |-> old.tcb, utcb |-> pos]
<1>1. \E S : threads \in Seq(S)
  BY DEF ThreadInv
<1>2. t \in DOMAIN threads
  BY <1>1, TheLast
<1>3. old = [space |-> old.space, tcb |-> old.tcb, utcb |-> old.utcb]
  BY <1>2 DEF ThreadInv
<1>4. threads' = [threads EXCEPT ![t] = e]
  <2>1. PICK o : o = old
    OBVIOUS
  <2>2. o \in [space : {o.space}, tcb : {o.tcb}, utcb : {o.utcb}]
    BY <1>3, <2>1
  <2>3. [o EXCEPT !.utcb = pos] = [space |-> o.space, tcb |-> o.tcb, utcb |-> pos]
    BY <2>2
  <2>4. threads' = [threads EXCEPT ![t] = [o EXCEPT !.utcb = pos]]
    BY <2>1 DEF SetUtcb
  <2> QED BY Zenon, <2>1, <2>3, <2>4
<1>5. e.space = old.space /\ e.utcb = pos /\ e = [space |-> e.space, tcb |-> e.tcb, utcb |-> e.utcb]
  OBVIOUS
<1> HIDE DEF e
<1>6. /\ \E S : threads' \in Seq(S)
      /\ Len(threads') = t /\ DOMAIN threads' = DOMAIN threads
      /\ \A j \in DOMAIN threads : j # t => threads'[j] = threads[j]
      /\ threads'[t] = e
  BY Zenon, <1>1, <1>2, <1>4, OneChanged
<1> QED BY <1>2, <1>5, <1>6

\* In a step that writes no table, the table for UTCBs is the same.
LEMMA TablesSame ==
  ASSUME tables' = tables, KeptSpaces, NEW s \in SpacesMade
  PROVE  spaces'[s].utcb = spaces[s].utcb /\ UtcbTable(s)' = UtcbTable(s)
BY KeptParts DEF UtcbTable

\* Of a step that keeps the tables, the section and its cleared pages.
LEMMA SectionKept ==
  ASSUME SectionInv, tables' = tables, KeptSpaces, UNCHANGED <<cpd, zeroed>>
  PROVE  SectionInv'
<1>1. SpacesMade' = SpacesMade /\ Current' = Current
  BY DEF KeptSpaces, SpacesMade, Current
<1>2. spaces' # <<>> => cpd' = Claimed(Current') \/ (cpd' = spaces'[Current'].utcb /\ cpd' # Nil)
  <2> SUFFICES ASSUME spaces' # <<>>
               PROVE  cpd' = Claimed(Current') \/ (cpd' = spaces'[Current'].utcb /\ cpd' # Nil)
    OBVIOUS
  <2>1. Len(spaces') \in DOMAIN spaces' /\ Len(spaces') \in Nat \ {0}
    BY TheLast DEF KeptSpaces
  <2>2. Len(<<>>) = 0
    OBVIOUS
  <2>3. Current \in SpacesMade /\ spaces # <<>>
    BY <2>1, <2>2 DEF KeptSpaces, Current, SpacesMade
  <2> QED BY <1>1, <2>3, TablesSame DEF SectionInv, Claimed
<1>3. ASSUME NEW z \in zeroed
      PROVE  /\ z.space \in SpacesMade' /\ spaces'[z.space].utcb # Nil /\ z.at # Nil
             /\ \E i \in DOMAIN UtcbTable(z.space)' : UtcbTable(z.space)'[i] = z.at
  BY <1>1, TablesSame DEF SectionInv
<1> QED BY <1>2, <1>3 DEF SectionInv, UtcbTable, Claimed

\* A thread takes an object and has no UTCB yet.
LEMMA CreateThreadStep == ASSUME BInv, Replayable, CreateThread PROVE BInv'
<1>1. /\ pc = "op" /\ ~undefined /\ Op.op = "THREAD" /\ pc' = "utcb"
      /\ Small("tcb") /\ "tcb" \in PoolNames
      /\ UNCHANGED <<tables, walk, page, kernel, spaces, cpd, zeroed>>
  BY DEF CreateThread, BeginOp, Op, paging, history, PoolNames
<1>2. spaces # <<>>
  BY <1>1 DEF Replayable
<1>3. ~walk.on
  BY <1>1, NotMapping DEF BInv
<1>4. SameSpaces /\ ListOwners' = ListOwners /\ KeptSpaces
  BY <1>1, SpacesUnchanged, SameKept DEF BInv, Memory, ListOwners, SpacesMade
<1>5. TableOwners' = TableOwners /\ UtcbOwners' = UtcbOwners
  BY <1>1, <1>4, OwnersQuiet
<1>6. HeapInv' /\ PoolInv' /\ OwnersInv' /\ Bases \subseteq Bases' /\ avail' \subseteq avail
  BY <1>1, <1>4, <1>5, PoolTaken DEF BInv
<1>7. ShapeInv' /\ TreeInv'
  BY <1>1, <1>4, <1>6, ShapeQuiet DEF BInv, Memory
<1>8. Walks' /\ KernelInv'
  BY <1>1, <1>3, WalkOff DEF SavedInv, BInv, KernelInv
<1>9. PageInv'
  BY <1>1 DEF BInv, Utcbs, PageInv, NoPage
<1>10. SectionInv'
  BY <1>1, <1>4, SectionKept DEF BInv, Utcbs
<1> DEFINE new == [space |-> Current, tcb |-> Given, utcb |-> NoUtcb]
<1>11. Current \in SpacesMade /\ Current' = Current /\ SpacesMade' = SpacesMade
  BY <1>1, <1>2, TheLast DEF BInv, Memory, ShapeInv, Current, SpacesMade
<1>12. new.space = Current /\ new.utcb = NoUtcb
       /\ new = [space |-> new.space, tcb |-> new.tcb, utcb |-> new.utcb]
  OBVIOUS
<1> HIDE DEF new
<1>13. \/ undefined' /\ threads' = threads
       \/ threads' = Append(threads, new)
  BY DEF CreateThread, new
<1>14. /\ \E S : threads' \in Seq(S)
       /\ DOMAIN threads \subseteq DOMAIN threads'
       /\ \A n \in DOMAIN threads : threads'[n] = threads[n]
       /\ \A n \in DOMAIN threads' \ DOMAIN threads : threads'[n] = new
       /\ ~undefined' => threads' # <<>> /\ threads'[Len(threads')] = new
  <2>1. PICK S : threads \in Seq(S)
    BY DEF BInv, Utcbs, ThreadInv
  <2> DEFINE T == S \cup {new}
  <2>2. threads \in Seq(T) /\ new \in T
    BY <2>1
  <2> HIDE DEF T
  <2>3. CASE undefined' /\ threads' = threads
    BY <2>1, <2>3
  <2>4. CASE threads' = Append(threads, new)
    <3>1. /\ threads' \in Seq(T)
          /\ Len(threads) \in Nat /\ Len(threads') = Len(threads) + 1
          /\ DOMAIN threads' = DOMAIN threads \cup {Len(threads) + 1}
          /\ \A n \in DOMAIN threads : threads'[n] = threads[n]
          /\ threads'[Len(threads) + 1] = new
      BY <2>2, <2>4, Longer
    <3>2. threads' # <<>>
      BY <3>1
    <3> QED BY <3>1, <3>2
  <2> QED BY <1>13, <2>3, <2>4
<1>15. ThreadInv'
  <2>1. ASSUME NEW n \in DOMAIN threads'
        PROVE  /\ threads'[n] = [space |-> threads'[n].space, tcb |-> threads'[n].tcb,
                                 utcb |-> threads'[n].utcb]
               /\ threads'[n].space \in SpacesMade'
               /\ Claims(n)' =>
                    /\ n \in DOMAIN threads /\ Claims(n)
                    /\ threads'[n].utcb \in 0 .. UtcbBitmap - 1
                    /\ threads'[n].utcb \notin spaces'[threads'[n].space].free
                    /\ spaces'[threads'[n].space].utcb # Nil
                    /\ UtcbTable(threads[n].space)'[PageOf(threads[n].utcb)'] # Nil
    <3>1. CASE n \in DOMAIN threads
      <4>1. PICK s : s = threads[n].space
        OBVIOUS
      <4>2. s \in SpacesMade /\ threads'[n] = threads[n]
        BY <1>14, <3>1, <4>1 DEF BInv, Utcbs, ThreadInv
      <4>3. s \in SpacesMade' /\ spaces'[s] = spaces[s] /\ UtcbTable(s)' = UtcbTable(s)
        BY <1>1, <1>4, <4>2, TablesSame DEF SpacesMade
      <4>4. /\ threads[n] = [space |-> s, tcb |-> threads[n].tcb, utcb |-> threads[n].utcb]
            /\ Claims(n) =>
                 /\ threads[n].utcb \in 0 .. UtcbBitmap - 1
                 /\ threads[n].utcb \notin spaces'[s].free
                 /\ spaces'[s].utcb # Nil
                 /\ UtcbTable(s)'[PageOf(threads[n].utcb)] # Nil
        BY <3>1, <4>1, <4>3, ThreadKept DEF BInv, Utcbs
      <4>5. UtcbTable(threads[n].space)' = UtcbTable(s)' /\ PageOf(threads[n].utcb)' = PageOf(threads[n].utcb)
        BY <4>1, <4>2 DEF UtcbTable, PageOf
      <4> QED BY <3>1, <4>1, <4>2, <4>3, <4>4, <4>5 DEF Claims
    <3>2. CASE n \notin DOMAIN threads
      BY <1>11, <1>12, <1>14, <3>2 DEF Claims
    <3> QED BY <3>1, <3>2
  <2>2. ASSUME NEW m \in DOMAIN threads', NEW n \in DOMAIN threads', m # n,
               Claims(m)', Claims(n)', threads'[m].space = threads'[n].space
        PROVE  threads'[m].utcb # threads'[n].utcb
    BY <1>14, <2>1, <2>2 DEF BInv, Utcbs, ThreadInv
  <2>3. ~undefined' => /\ threads' # <<>> /\ spaces' # <<>>
                       /\ threads'[Len(threads')].space = Current'
                       /\ ~Claims(Len(threads))'
    BY <1>1, <1>2, <1>11, <1>12, <1>14 DEF Claims
  <2> QED BY <1>1, <1>14, <2>1, <2>2, <2>3 DEF ThreadInv
<1>16. LostInv'
  <2> SUFFICES ASSUME NEW s \in SpacesMade', NEW pos \in (0 .. UtcbBitmap - 1) \ spaces'[s].free
               PROVE  \/ \E n \in DOMAIN threads' : threads'[n].space = s /\ threads'[n].utcb = pos
                      \/ Heap!Place(Heap!ChunksNeeded(UtcbBytes))' = {}
    BY DEF LostInv, Heap!ChunksNeeded
  <2>1. \/ \E n \in DOMAIN threads : threads[n].space = s /\ threads[n].utcb = pos
        \/ Heap!Place(Heap!ChunksNeeded(UtcbBytes)) = {}
    BY <1>1, <1>11 DEF BInv, Utcbs, LostInv
  <2>2. CASE Heap!Place(Heap!ChunksNeeded(UtcbBytes)) = {}
    BY <1>6, <2>2, PlacesShrink
  <2> QED BY <1>14, <2>1, <2>2
<1> QED BY <1>6, <1>7, <1>8, <1>9, <1>10, <1>15, <1>16 DEF BInv, Memory, Utcbs

\* What the creation of a thread has reached when its UTCB is looked for.
LEMMA AtUtcb ==
  ASSUME ThreadInv, pc \in {"utcb", "utcb_map"}, pc = "utcb" => ~undefined
  PROVE  /\ threads # <<>> /\ spaces # <<>> /\ Len(threads) \in DOMAIN threads
         /\ threads[Len(threads)].space = Current /\ ~Claims(Len(threads))
<1>1. \E S : threads \in Seq(S)
  BY DEF ThreadInv
<1>2. pc \in Creating /\ pc # "enqueue" /\ ~(undefined /\ pc = "utcb")
  BY DEF Creating
<1>3. /\ threads # <<>> /\ spaces # <<>>
      /\ threads[Len(threads)].space = Current /\ ~Claims(Len(threads))
  BY <1>2 DEF ThreadInv
<1> QED BY <1>1, <1>3, TheLast

\* No bit left: the thread is refused.
LEMMA NoUtcbLeftStep == ASSUME BInv, NoUtcbLeft PROVE BInv'
<1>1. /\ pc = "utcb" /\ ~undefined /\ pc' = "enqueue" /\ UNCHANGED heap
      /\ UNCHANGED <<first_free, bitmap, objects, undefined, tables, walk, page, kernel>>
      /\ UNCHANGED <<spaces, threads, cpd, zeroed>>
  BY DEF NoUtcbLeft, pools, paging, system, history
<1>2. ~walk.on
  BY <1>1, NotMapping DEF BInv
<1>3. Walks' /\ KernelInv'
  BY <1>1, <1>2, WalkOff DEF SavedInv, BInv, KernelInv
<1>4. SameSpaces /\ ListOwners' = ListOwners /\ KeptSpaces
  BY <1>1, SpacesUnchanged, SameKept DEF BInv, Memory, ListOwners, SpacesMade
<1>5. HeapInv' /\ Bases' = Bases /\ OwnersInv' /\ blocks' = blocks /\ avail' = avail
  BY <1>1, <1>4, NothingAllocated DEF heap
<1>6. PoolInv' /\ ShapeInv' /\ TreeInv'
  BY <1>1, <1>4, <1>5, PoolKept, ShapeQuiet DEF BInv, Memory
<1>7. PageInv'
  BY <1>1 DEF BInv, Utcbs, PageInv, NoPage
<1>8. SectionInv'
  BY <1>1, <1>4, SectionKept DEF BInv, Utcbs
<1>9. ThreadInv'
  <2>1. /\ threads # <<>> /\ spaces # <<>>
        /\ threads[Len(threads)].space = Current
    BY <1>1, AtUtcb DEF BInv, Utcbs
  <2> QED BY <1>1, <2>1 DEF BInv, Utcbs, ThreadInv, Claims, UtcbTable, SpacesMade, PageOf, Current
<1>10. LostInv'
  BY <1>1, <1>5 DEF BInv, Utcbs, LostInv, SpacesMade, Heap!Place, Heap!Run, Heap!ChunksNeeded
<1> QED BY <1>3, <1>5, <1>6, <1>7, <1>8, <1>9, <1>10 DEF BInv, Memory, Utcbs

\* The other bits are held, or lost, as they were.
BitsKept ==
  \A s \in SpacesMade : \A pos \in (0 .. UtcbBitmap - 1) \ spaces[s].free :
    \/ \E n \in DOMAIN threads : n # Len(threads) /\ threads[n].space = s /\ threads[n].utcb = pos
    \/ Heap!Place(Heap!ChunksNeeded(UtcbBytes)) = {}

\* The bits taken, but the one of this step, have their threads.
LEMMA OtherBits ==
  ASSUME LostInv, ThreadInv, pc = "utcb", ~undefined
  PROVE  BitsKept
<1> SUFFICES ASSUME NEW s \in SpacesMade, NEW pos \in (0 .. UtcbBitmap - 1) \ spaces[s].free,
                    Heap!Place(Heap!ChunksNeeded(UtcbBytes)) # {}
             PROVE  \E n \in DOMAIN threads : n # Len(threads) /\ threads[n].space = s
                                              /\ threads[n].utcb = pos
  BY DEF BitsKept
<1>1. PICK n \in DOMAIN threads : threads[n].space = s /\ threads[n].utcb = pos
  BY DEF LostInv
<1>2. threads[Len(threads)].utcb = NoUtcb
  BY AtUtcb DEF Claims
<1>3. pos # NoUtcb
  BY DEF NoUtcb
<1> QED BY <1>1, <1>2, <1>3

\* A bit whose page is mapped: the UTCB is cleared in place.
LEMMA UtcbInPageStep == ASSUME BInv, UtcbInPage PROVE BInv'
<1> DEFINE t == Len(threads)
           entry == IF cpd.kind = "space" THEN spaces[cpd.space].utcb ELSE cpd
           new == [space |-> Current, at |-> UtcbEntry(entry, Pos)]
<1>1. /\ pc = "utcb" /\ ~undefined /\ pc' = "enqueue" /\ UNCHANGED heap
      /\ UtcbsLeft # {} /\ UtcbEntry(spaces[Current].utcb, Pos) # Nil /\ TakeBit /\ SetUtcb(Pos)
      /\ UNCHANGED <<first_free, bitmap, objects, undefined, tables, walk, page, kernel>>
  BY DEF UtcbInPage, pools, paging
<1>2. cpd' = entry /\ zeroed' = zeroed \cup {new}
  BY DEF UtcbInPage
<1>3. ~walk.on
  BY <1>1, NotMapping DEF BInv
<1>4. Walks' /\ KernelInv'
  BY <1>1, <1>3, WalkOff DEF SavedInv, BInv, KernelInv
<1>5. /\ threads # <<>> /\ spaces # <<>> /\ t \in DOMAIN threads
      /\ threads[t].space = Current /\ ~Claims(t)
  BY <1>1, AtUtcb DEF BInv, Utcbs
<1>6. /\ Current \in SpacesMade /\ Current' = Current
      /\ Pos \in spaces[Current].free /\ Pos \in 0 .. UtcbBitmap - 1
      /\ KeptSpaces /\ SpacesMade' = SpacesMade
      /\ spaces'[Current].free = spaces[Current].free \ {Pos}
      /\ \A s \in SpacesMade : s # Current => spaces'[s].free = spaces[s].free
      /\ ListOwners' = ListOwners
  BY <1>1, <1>5, BitTaken DEF BInv, Memory, KeptSpaces, SpacesMade
<1>7. /\ \E S : threads' \in Seq(S)
      /\ Len(threads') = t /\ DOMAIN threads' = DOMAIN threads
      /\ \A n \in DOMAIN threads : n # t => threads'[n] = threads[n]
      /\ threads'[t].utcb = Pos /\ threads'[t].space = Current
      /\ threads'[t] = [space |-> threads'[t].space, tcb |-> threads'[t].tcb,
                        utcb |-> threads'[t].utcb]
  BY <1>1, <1>5, ThreadNumbered DEF BInv, Utcbs
<1>8. PICK pos, c : pos = Pos /\ c = Current
  OBVIOUS
<1>9. /\ spaces[c].utcb # Nil
      /\ UtcbTable(c)[PageOf(pos)] # Nil /\ UtcbEntry(spaces[c].utcb, pos) = UtcbTable(c)[PageOf(pos)]
      /\ PageOf(pos) \in DOMAIN UtcbTable(c)
  <2>1. spaces[c].utcb # Nil /\ UtcbTable(c)[PageOf(pos)] # Nil
        /\ UtcbEntry(spaces[c].utcb, pos) = UtcbTable(c)[PageOf(pos)]
    BY <1>1, <1>8 DEF UtcbEntry, UtcbTable
  <2>2. DOMAIN UtcbTable(c) = 0 .. Size[2] - 1
    BY <1>6, <1>8, <2>1, UtcbTableIs DEF BInv, Memory, LowShape
  <2> QED BY <1>6, <1>8, <2>1, <2>2, PageOfRange
\* The section's entry is the space's own, claimed or read before.
<1>10. entry = spaces[c].utcb
  <2>1. cpd = Claimed(Current) \/ (cpd = spaces[Current].utcb /\ cpd # Nil)
    BY <1>5 DEF BInv, Utcbs, SectionInv
  <2>2. CASE cpd = Claimed(Current)
    <3>1. cpd.kind = "space" /\ cpd.space = Current
      BY <2>2 DEF Claimed
    <3> QED BY <1>8, <3>1
  <2>3. CASE cpd = spaces[Current].utcb /\ cpd # Nil
    <3>1. PICK x : spaces[Current].utcb = Pointer(x)
      BY <1>6, <1>8, <1>9, UtcbTableIs DEF BInv, Memory
    <3>2. cpd.kind # "space"
      BY <2>3, <3>1, Kinds
    <3> QED BY <1>8, <2>3, <3>2
  <2> QED BY <2>1, <2>2, <2>3
<1> HIDE DEF entry
<1>11. new.space = c /\ new.at = UtcbTable(c)[PageOf(pos)]
  BY <1>8, <1>9, <1>10
<1> HIDE DEF new, t
<1>12. \A s \in SpacesMade : spaces'[s].utcb = spaces[s].utcb /\ UtcbTable(s)' = UtcbTable(s)
  BY <1>1, <1>6, TablesSame
<1>13. HeapInv' /\ Bases' = Bases /\ avail' = avail /\ blocks' = blocks
  BY <1>1, HeapKept DEF BInv, Memory, heap
<1>14. Owners' = Owners
  <2>1. TableOwners' = TableOwners /\ UtcbOwners' = UtcbOwners
    BY <1>1, <1>6, OwnersQuiet
  <2> QED BY <1>1, <1>6, <2>1 DEF Owners, PoolOwners, KernelOwners, PageOwners
<1>15. OwnersInv'
  BY <1>13, <1>14, OwnersKept DEF BInv, Memory
<1>16. PoolInv' /\ ShapeInv' /\ TreeInv'
  BY <1>1, <1>6, <1>13, PoolKept, ShapeQuiet DEF BInv, Memory
<1>17. PageInv'
  BY <1>1 DEF BInv, Utcbs, PageInv, NoPage
<1>18. SectionInv'
  <2>1. cpd' = spaces'[Current'].utcb /\ cpd' # Nil
    BY <1>2, <1>6, <1>8, <1>9, <1>10, <1>12
  <2>2. ASSUME NEW z \in zeroed'
        PROVE  /\ z.space \in SpacesMade' /\ spaces'[z.space].utcb # Nil /\ z.at # Nil
               /\ \E i \in DOMAIN UtcbTable(z.space)' : UtcbTable(z.space)'[i] = z.at
    <3>1. CASE z \in zeroed
      BY <1>6, <1>12, <3>1 DEF BInv, Utcbs, SectionInv
    <3>2. CASE z = new
      <4>1. c \in SpacesMade /\ UtcbTable(c)' = UtcbTable(c) /\ spaces'[c].utcb # Nil
        BY <1>6, <1>8, <1>9, <1>12
      <4>2. z.space = c /\ z.at = UtcbTable(c)[PageOf(pos)]
        BY <1>11, <3>2
      <4> QED BY <1>6, <1>9, <4>1, <4>2
    <3> QED BY <1>2, <3>1, <3>2
  <2> QED BY <2>1, <2>2 DEF SectionInv, UtcbTable, Claimed
<1>19. ThreadInv'
  <2>1. ASSUME NEW n \in DOMAIN threads'
        PROVE  /\ threads'[n] = [space |-> threads'[n].space, tcb |-> threads'[n].tcb,
                                 utcb |-> threads'[n].utcb]
               /\ threads'[n].space \in SpacesMade'
               /\ Claims(n)' =>
                    /\ threads'[n].utcb \in 0 .. UtcbBitmap - 1
                    /\ threads'[n].utcb \notin spaces'[threads'[n].space].free
                    /\ spaces'[threads'[n].space].utcb # Nil
                    /\ UtcbTable(threads[n].space)'[PageOf(threads[n].utcb)'] # Nil
    <3>1. CASE n = t
      <4>1. threads'[n].space = c /\ threads'[n].utcb = pos /\ c \in SpacesMade
        BY <1>6, <1>7, <1>8, <3>1
      <4>2. UtcbTable(threads[n].space)' = UtcbTable(c)' /\ PageOf(threads[n].utcb)' = PageOf(pos)
        BY <4>1 DEF UtcbTable, PageOf
      <4>3. UtcbTable(c)' = UtcbTable(c) /\ spaces'[c].utcb = spaces[c].utcb /\ c \in SpacesMade'
        BY <1>6, <1>12, <4>1
      <4>4. pos \in 0 .. UtcbBitmap - 1 /\ pos \notin spaces'[c].free
        BY <1>6, <1>8
      <4> QED BY <1>7, <1>9, <3>1, <4>1, <4>2, <4>3, <4>4
    <3>2. CASE n # t
      <4>1. PICK s : s = threads[n].space
        OBVIOUS
      <4>2. s \in SpacesMade /\ threads'[n] = threads[n] /\ n \in DOMAIN threads
        BY <1>7, <3>2, <4>1 DEF BInv, Utcbs, ThreadInv
      <4>3. s \in SpacesMade' /\ spaces'[s].free \subseteq spaces[s].free
            /\ spaces'[s].utcb = spaces[s].utcb /\ UtcbTable(s)' = UtcbTable(s)
        BY <1>6, <1>12, <4>2, KeptParts
      <4>4. /\ threads[n] = [space |-> s, tcb |-> threads[n].tcb, utcb |-> threads[n].utcb]
            /\ Claims(n) =>
                 /\ threads[n].utcb \in 0 .. UtcbBitmap - 1
                 /\ threads[n].utcb \notin spaces'[s].free
                 /\ spaces'[s].utcb # Nil
                 /\ UtcbTable(s)'[PageOf(threads[n].utcb)] # Nil
        BY <4>1, <4>2, <4>3, ThreadKept DEF BInv, Utcbs
      <4>5. UtcbTable(threads[n].space)' = UtcbTable(s)' /\ PageOf(threads[n].utcb)' = PageOf(threads[n].utcb)
        BY <4>1, <4>2 DEF UtcbTable, PageOf
      <4> QED BY <4>1, <4>2, <4>3, <4>4, <4>5 DEF Claims
    <3> QED BY <3>1, <3>2
  <2>2. ASSUME NEW m \in DOMAIN threads, m # t, threads[m].utcb # NoUtcb, threads[m].space = c
        PROVE  threads[m].utcb # pos
    BY <1>6, <1>8, <2>2 DEF BInv, Utcbs, ThreadInv, Claims
  <2>3. ASSUME NEW m \in DOMAIN threads', NEW n \in DOMAIN threads', m # n,
               Claims(m)', Claims(n)', threads'[m].space = threads'[n].space
        PROVE  threads'[m].utcb # threads'[n].utcb
    <3>1. CASE m = t
      BY <1>7, <1>8, <2>2, <2>3, <3>1 DEF Claims
    <3>2. CASE n = t
      BY <1>7, <1>8, <2>2, <2>3, <3>2 DEF Claims
    <3>3. CASE m # t /\ n # t
      BY <1>7, <2>3, <3>3 DEF BInv, Utcbs, ThreadInv, Claims
    <3> QED BY <3>1, <3>2, <3>3
  <2>4. /\ threads' # <<>> /\ spaces' # <<>>
        /\ threads'[Len(threads')].space = Current'
    BY <1>5, <1>6, <1>7 DEF t, KeptSpaces, SpacesMade
  <2> QED BY <1>1, <1>7, <2>1, <2>3, <2>4 DEF ThreadInv
<1>20. LostInv'
  <2> SUFFICES ASSUME NEW s \in SpacesMade', NEW q \in (0 .. UtcbBitmap - 1) \ spaces'[s].free
               PROVE  \/ \E n \in DOMAIN threads' : threads'[n].space = s /\ threads'[n].utcb = q
                      \/ Heap!Place(Heap!ChunksNeeded(UtcbBytes))' = {}
    BY DEF LostInv, Heap!ChunksNeeded
  <2>1. CASE s = c /\ q = pos
    BY <1>5, <1>7, <1>8, <2>1
  <2>2. CASE ~(s = c /\ q = pos)
    <3>1. q \notin spaces[s].free /\ s \in SpacesMade
      BY <1>6, <1>8, <2>2
    <3>2. \/ \E n \in DOMAIN threads : n # t /\ threads[n].space = s /\ threads[n].utcb = q
          \/ Heap!Place(Heap!ChunksNeeded(UtcbBytes)) = {}
      BY <1>1, <3>1, OtherBits DEF BInv, Utcbs, BitsKept, t
    <3>3. CASE Heap!Place(Heap!ChunksNeeded(UtcbBytes)) = {}
      BY <1>13, <3>3, PlacesShrink
    <3> QED BY <1>7, <3>2, <3>3
  <2> QED BY <2>1, <2>2
<1> QED BY <1>4, <1>13, <1>15, <1>16, <1>17, <1>18, <1>19, <1>20 DEF BInv, Memory, Utcbs

\* Threads and their spaces' tables unchanged, and no bit given back: the
\* threads keep what they have.
LEMMA ThreadsKept ==
  ASSUME ThreadInv, tables' = tables, KeptSpaces, threads' = threads,
         pc' \in Creating /\ ~(undefined' /\ pc' = "utcb") =>
           /\ threads # <<>> /\ spaces # <<>>
           /\ threads[Len(threads)].space = Current
           /\ pc' # "enqueue" => ~Claims(Len(threads))
  PROVE  ThreadInv'
<1>1. SpacesMade' = SpacesMade /\ Current' = Current /\ (spaces # <<>> => spaces' # <<>>)
  BY DEF KeptSpaces, SpacesMade, Current
<1>2. ASSUME NEW n \in DOMAIN threads
      PROVE  /\ threads[n] = [space |-> threads[n].space, tcb |-> threads[n].tcb,
                              utcb |-> threads[n].utcb]
             /\ threads[n].space \in SpacesMade'
             /\ Claims(n) =>
                  /\ threads[n].utcb \in 0 .. UtcbBitmap - 1
                  /\ threads[n].utcb \notin spaces'[threads[n].space].free
                  /\ spaces'[threads[n].space].utcb # Nil
                  /\ UtcbTable(threads[n].space)'[PageOf(threads[n].utcb)'] # Nil
  <2>1. PICK s : s = threads[n].space
    OBVIOUS
  <2>2. s \in SpacesMade
    BY <2>1 DEF ThreadInv
  <2>3. s \in SpacesMade' /\ spaces'[s].free \subseteq spaces[s].free
        /\ spaces'[s].utcb = spaces[s].utcb /\ UtcbTable(s)' = UtcbTable(s)
    BY <1>1, <2>2, KeptParts, TablesSame
  <2>4. /\ threads[n] = [space |-> s, tcb |-> threads[n].tcb, utcb |-> threads[n].utcb]
        /\ Claims(n) =>
             /\ threads[n].utcb \in 0 .. UtcbBitmap - 1
             /\ threads[n].utcb \notin spaces'[s].free
             /\ spaces'[s].utcb # Nil
             /\ UtcbTable(s)'[PageOf(threads[n].utcb)] # Nil
    BY <2>1, <2>3, ThreadKept
  <2>5. UtcbTable(threads[n].space)' = UtcbTable(s)' /\ PageOf(threads[n].utcb)' = PageOf(threads[n].utcb)
    BY <2>1 DEF UtcbTable, PageOf
  <2> QED BY <2>1, <2>3, <2>4, <2>5
<1>3. \A m, n \in DOMAIN threads :
        m # n /\ Claims(m) /\ Claims(n) /\ threads[m].space = threads[n].space
        => threads[m].utcb # threads[n].utcb
  BY DEF ThreadInv
<1>4. \E S : threads \in Seq(S)
  BY DEF ThreadInv
<1> QED BY <1>1, <1>2, <1>3, <1>4 DEF ThreadInv, Claims

\* A bit whose page is not: it gets a page, or the bit is lost for want of one.
LEMMA UtcbNoPageStep == ASSUME BInv, UtcbNoPage PROVE BInv'
<1> DEFINE t == Len(threads)
<1>1. /\ pc = "utcb" /\ ~undefined
      /\ UtcbsLeft # {} /\ UtcbEntry(spaces[Current].utcb, Pos) = Nil /\ TakeBit
      /\ \/ Bytes(UtcbBytes) /\ pc' = "utcb_map" /\ page' = [base |-> Base, pos |-> Pos]
         \/ NoBytes(UtcbBytes) /\ pc' = "enqueue" /\ page' = page
      /\ UNCHANGED <<tables, walk, kernel, threads, cpd, zeroed>>
  BY DEF UtcbNoPage, paging, history
<1>2. ~walk.on
  BY <1>1, NotMapping DEF BInv
<1>3. Walks' /\ KernelInv'
  BY <1>1, <1>2, WalkOff DEF SavedInv, BInv, KernelInv
<1>4. /\ threads # <<>> /\ spaces # <<>> /\ t \in DOMAIN threads
      /\ threads[t].space = Current /\ ~Claims(t)
  BY <1>1, AtUtcb DEF BInv, Utcbs
<1>5. /\ Current \in SpacesMade /\ Current' = Current
      /\ Pos \in spaces[Current].free /\ Pos \in 0 .. UtcbBitmap - 1
      /\ KeptSpaces /\ SpacesMade' = SpacesMade
      /\ spaces'[Current].free = spaces[Current].free \ {Pos}
      /\ \A s \in SpacesMade : s # Current => spaces'[s].free = spaces[s].free
      /\ ListOwners' = ListOwners
  BY <1>1, <1>4, BitTaken DEF BInv, Memory, KeptSpaces, SpacesMade
<1>6. PICK pos, c : pos = Pos /\ c = Current
  OBVIOUS
<1>7. SectionInv'
  BY <1>1, <1>5, SectionKept DEF BInv, Utcbs
<1>8. ThreadInv'
  BY <1>1, <1>4, <1>5, ThreadsKept DEF BInv, Utcbs
<1>9. TableOwners' = TableOwners /\ UtcbOwners' = UtcbOwners /\ KernelOwners' = KernelOwners
  BY <1>1, <1>5, OwnersQuiet DEF KernelOwners
<1>10. page = NoPage /\ PageOwners = {}
  <2>1. page = NoPage
    BY <1>1 DEF BInv, Utcbs, PageInv
  <2>2. page.base = None
    BY <2>1 DEF NoPage
  <2> QED BY <2>1, <2>2 DEF PageOwners
<1>11. BitsKept
  BY <1>1, OtherBits DEF BInv, Utcbs
<1>12. ASSUME NEW s \in SpacesMade', NEW q \in (0 .. UtcbBitmap - 1) \ spaces'[s].free,
              ~(s = c /\ q = pos), avail' \subseteq avail
       PROVE  \/ \E n \in DOMAIN threads' : threads'[n].space = s /\ threads'[n].utcb = q
              \/ Heap!Place(Heap!ChunksNeeded(UtcbBytes))' = {}
  <2>1. q \notin spaces[s].free /\ s \in SpacesMade
    BY <1>5, <1>6, <1>12
  <2>2. \/ \E n \in DOMAIN threads : n # t /\ threads[n].space = s /\ threads[n].utcb = q
        \/ Heap!Place(Heap!ChunksNeeded(UtcbBytes)) = {}
    BY <1>11, <2>1 DEF BitsKept
  <2>3. CASE Heap!Place(Heap!ChunksNeeded(UtcbBytes)) = {}
    BY <1>12, <2>3, PlacesShrink
  <2> QED BY <1>1, <2>2, <2>3
<1>13. CASE NoBytes(UtcbBytes) /\ pc' = "enqueue" /\ page' = page
  <2>1. /\ HeapInv' /\ PoolInv' /\ Bases' = Bases /\ avail' = avail
        /\ PoolOwners' = PoolOwners /\ UNCHANGED heap
        /\ Heap!Place(Heap!ChunksNeeded(UtcbBytes)) = {}
    BY <1>13, NoBytesTaken DEF BInv
  <2>2. ShapeInv' /\ TreeInv'
    BY <1>1, <1>5, <2>1, ShapeQuiet DEF BInv, Memory
  <2>3. Owners' = Owners
    BY <1>5, <1>9, <1>13, <2>1 DEF Owners, PageOwners
  <2>4. OwnersInv'
    BY <2>1, <2>3, OwnersKept DEF BInv, Memory
  <2>5. PageInv'
    BY <1>10, <1>13 DEF PageInv, NoPage
  <2>6. LostInv'
    <3>1. Heap!Place(Heap!ChunksNeeded(UtcbBytes))' = {}
      BY <2>1, PlacesShrink
    <3> QED BY <3>1 DEF LostInv, Heap!ChunksNeeded
  <2> QED BY <1>3, <1>7, <1>8, <2>1, <2>2, <2>4, <2>5, <2>6 DEF BInv, Memory, Utcbs
<1>14. CASE Bytes(UtcbBytes) /\ pc' = "utcb_map" /\ page' = [base |-> Base, pos |-> Pos]
  <2>1. UtcbBytes \in Nat
    BY BootAssumption
  <2>2. /\ HeapInv' /\ PoolInv' /\ Base \notin Bases /\ Base \in 1 .. Chunks
        /\ Bases' = Bases \cup {Base} /\ avail' \subseteq avail
        /\ PoolOwners' = PoolOwners
    BY <1>14, <2>1, BytesTaken DEF BInv
  <2>3. PICK b : b = Base
    OBVIOUS
  <2>4. /\ page'.base = b /\ page'.pos = pos
        /\ page' = [base |-> page'.base, pos |-> page'.pos]
    BY <1>6, <1>14, <2>3
  <2>5. ShapeInv' /\ TreeInv'
    BY <1>1, <1>5, <2>2, ShapeQuiet DEF BInv, Memory
  <2>6. OwnersInv'
    <3>1. PageOwners' \subseteq {<<"page", 0, b>>}
      BY <2>4 DEF PageOwners
    <3>2. Owners' \subseteq Owners \cup {<<"page", 0, b>>}
      BY <1>5, <1>9, <2>2, <3>1 DEF Owners
    <3> QED BY <2>2, <2>3, <3>2, OwnerGained DEF BInv, Memory
  <2>7. PageInv'
    <3>1. b \in Bases' /\ b # None
      BY <2>2, <2>3 DEF None
    <3>2. pos \in (0 .. UtcbBitmap - 1) \ spaces'[c].free
      BY <1>5, <1>6
    <3>3. UtcbEntry(spaces[Current].utcb, page.pos)' = Nil
      <4>1. spaces'[c].utcb = spaces[c].utcb
        BY <1>5, <1>6, TablesSame, <1>1
      <4>2. UtcbEntry(spaces[c].utcb, pos) = Nil
        BY <1>1, <1>6
      <4> QED BY <1>1, <1>5, <1>6, <2>4, <4>1, <4>2 DEF UtcbEntry, PageOf
    <3>4. ASSUME NEW n \in DOMAIN threads, threads[n].space = c PROVE threads[n].utcb # pos
      <4>1. CASE Claims(n)
        BY <1>5, <1>6, <3>4, <4>1 DEF BInv, Utcbs, ThreadInv
      <4>2. CASE ~Claims(n)
        BY <1>5, <1>6, <4>2 DEF Claims, NoUtcb
      <4> QED BY <4>1, <4>2
    <3> QED BY <1>1, <1>5, <1>6, <1>14, <2>4, <3>1, <3>2, <3>3, <3>4 DEF PageInv
  <2>8. LostInv'
    <3> SUFFICES ASSUME NEW s \in SpacesMade', NEW q \in (0 .. UtcbBitmap - 1) \ spaces'[s].free
                 PROVE  \/ \E n \in DOMAIN threads' : threads'[n].space = s /\ threads'[n].utcb = q
                        \/ s = c /\ q = pos
                        \/ Heap!Place(Heap!ChunksNeeded(UtcbBytes))' = {}
      BY <1>5, <1>6, <1>14, <2>4 DEF LostInv, Heap!ChunksNeeded
    <3> QED BY <1>12, <2>2
  <2> QED BY <1>3, <1>7, <1>8, <2>2, <2>5, <2>6, <2>7, <2>8 DEF BInv, Memory, Utcbs
<1> QED BY <1>1, <1>13, <1>14
-----------------------------------------------------------------------------
(* Steps that write tables: what is there of the UTCBs stays.                *)

UtcbsStay ==
  /\ (\E S : spaces' \in Seq(S)) /\ Len(spaces') = Len(spaces)
  /\ DOMAIN spaces' = DOMAIN spaces
  /\ \A s \in DOMAIN spaces :
       /\ spaces'[s].free = spaces[s].free
       /\ spaces[s].utcb # Nil =>
            /\ spaces'[s].utcb = spaces[s].utcb
            /\ DOMAIN UtcbTable(s)' = DOMAIN UtcbTable(s)
            /\ \A i \in DOMAIN UtcbTable(s) :
                 UtcbTable(s)[i] # Nil => UtcbTable(s)'[i] = UtcbTable(s)[i]

\* A thread keeps its bit and its page.
LEMMA StayingThread ==
  ASSUME ShapeInv, ThreadInv, UtcbsStay, NEW n \in DOMAIN threads, NEW s, s = threads[n].space
  PROVE  /\ s \in SpacesMade'
         /\ threads[n] = [space |-> s, tcb |-> threads[n].tcb, utcb |-> threads[n].utcb]
         /\ Claims(n) =>
              /\ threads[n].utcb \in 0 .. UtcbBitmap - 1
              /\ threads[n].utcb \notin spaces'[s].free
              /\ spaces'[s].utcb # Nil
              /\ UtcbTable(s)'[PageOf(threads[n].utcb)] # Nil
<1>1. /\ s \in SpacesMade
      /\ threads[n] = [space |-> s, tcb |-> threads[n].tcb, utcb |-> threads[n].utcb]
      /\ Claims(n) =>
           /\ threads[n].utcb \in 0 .. UtcbBitmap - 1
           /\ threads[n].utcb \notin spaces[s].free
           /\ spaces[s].utcb # Nil
           /\ UtcbTable(s)[PageOf(threads[n].utcb)] # Nil
  BY DEF ThreadInv
<1>2. s \in SpacesMade' /\ spaces'[s].free = spaces[s].free
  BY <1>1 DEF UtcbsStay, SpacesMade
<1>3. ASSUME Claims(n)
      PROVE  spaces'[s].utcb # Nil /\ UtcbTable(s)'[PageOf(threads[n].utcb)] # Nil
  <2>1. PageOf(threads[n].utcb) \in 0 .. Size[2] - 1
    BY <1>1, <1>3, PageOfRange
  <2>2. DOMAIN UtcbTable(s) = 0 .. Size[2] - 1
    BY <1>1, <1>3, UtcbTableIs DEF LowShape
  <2> QED BY Zenon, <1>1, <1>3, <2>1, <2>2 DEF UtcbsStay, SpacesMade
<1> QED BY <1>1, <1>2, <1>3

\* The section of the directory stays.
LEMMA StayingSection ==
  ASSUME SectionInv, UtcbsStay, UNCHANGED <<cpd, zeroed>>
  PROVE  SectionInv'
<1>1. SpacesMade' = SpacesMade /\ Current' = Current
  BY DEF UtcbsStay, SpacesMade, Current
<1>2. spaces' # <<>> => cpd' = Claimed(Current') \/ (cpd' = spaces'[Current'].utcb /\ cpd' # Nil)
  <2> SUFFICES ASSUME spaces' # <<>>
               PROVE  cpd' = Claimed(Current') \/ (cpd' = spaces'[Current'].utcb /\ cpd' # Nil)
    OBVIOUS
  <2>1. Len(spaces') \in DOMAIN spaces' /\ Len(spaces') \in Nat \ {0}
    BY TheLast DEF UtcbsStay
  <2>2. Len(<<>>) = 0
    OBVIOUS
  <2>3. Current \in SpacesMade /\ spaces # <<>>
    BY <2>1, <2>2 DEF UtcbsStay, Current, SpacesMade
  <2>4. cpd = Claimed(Current) \/ (cpd = spaces[Current].utcb /\ cpd # Nil)
    BY <2>3 DEF SectionInv
  <2>5. cpd = spaces[Current].utcb /\ cpd # Nil => spaces'[Current].utcb = cpd
    BY <2>3 DEF UtcbsStay, SpacesMade
  <2> QED BY <1>1, <2>4, <2>5 DEF Claimed
<1>3. ASSUME NEW z \in zeroed
      PROVE  /\ z.space \in SpacesMade' /\ spaces'[z.space].utcb # Nil /\ z.at # Nil
             /\ \E i \in DOMAIN UtcbTable(z.space)' : UtcbTable(z.space)'[i] = z.at
  <2>1. /\ z.space \in SpacesMade /\ spaces[z.space].utcb # Nil /\ z.at # Nil
        /\ \E i \in DOMAIN UtcbTable(z.space) : UtcbTable(z.space)[i] = z.at
    BY DEF SectionInv
  <2>2. PICK i \in DOMAIN UtcbTable(z.space) : UtcbTable(z.space)[i] = z.at
    BY <2>1
  <2>3. /\ spaces'[z.space].utcb = spaces[z.space].utcb
        /\ i \in DOMAIN UtcbTable(z.space)' /\ UtcbTable(z.space)'[i] = z.at
    BY <2>1, <2>2 DEF UtcbsStay, SpacesMade
  <2> QED BY <1>1, <2>1, <2>3
<1> QED BY <1>2, <1>3 DEF SectionInv, UtcbTable, Claimed

\* No thread, bit or page is touched.
LEMMA UtcbsKept ==
  ASSUME ShapeInv, Utcbs, UtcbsStay, UNCHANGED <<threads, page, cpd, zeroed>>,
         pc # "utcb_map", pc' \notin Creating, avail' \subseteq avail
  PROVE  Utcbs'
<1>1. SpacesMade' = SpacesMade
  BY DEF UtcbsStay, SpacesMade
<1>2. ThreadInv'
  <2>1. ASSUME NEW n \in DOMAIN threads
        PROVE  /\ threads[n] = [space |-> threads[n].space, tcb |-> threads[n].tcb,
                                utcb |-> threads[n].utcb]
               /\ threads[n].space \in SpacesMade'
               /\ Claims(n) =>
                    /\ threads[n].utcb \in 0 .. UtcbBitmap - 1
                    /\ threads[n].utcb \notin spaces'[threads[n].space].free
                    /\ spaces'[threads[n].space].utcb # Nil
                    /\ UtcbTable(threads[n].space)'[PageOf(threads[n].utcb)'] # Nil
    <3>1. PICK s : s = threads[n].space
      OBVIOUS
    <3>2. UtcbTable(threads[n].space)' = UtcbTable(s)' /\ PageOf(threads[n].utcb)' = PageOf(threads[n].utcb)
      BY <3>1 DEF UtcbTable, PageOf
    <3> QED BY <3>1, <3>2, StayingThread DEF Utcbs
  <2>2. \A m, n \in DOMAIN threads :
          m # n /\ Claims(m) /\ Claims(n) /\ threads[m].space = threads[n].space
          => threads[m].utcb # threads[n].utcb
    BY DEF Utcbs, ThreadInv
  <2>3. \E S : threads \in Seq(S)
    BY DEF Utcbs, ThreadInv
  <2> QED BY <2>1, <2>2, <2>3 DEF ThreadInv, Claims
<1>3. PageInv'
  BY DEF Utcbs, PageInv, Creating, NoPage
<1>4. SectionInv'
  BY StayingSection DEF Utcbs
<1>5. LostInv'
  <2> SUFFICES ASSUME NEW s \in SpacesMade', NEW q \in (0 .. UtcbBitmap - 1) \ spaces'[s].free
               PROVE  \/ \E n \in DOMAIN threads' : threads'[n].space = s /\ threads'[n].utcb = q
                      \/ Heap!Place(Heap!ChunksNeeded(UtcbBytes))' = {}
    BY DEF LostInv, Heap!ChunksNeeded
  <2>1. spaces'[s].free = spaces[s].free /\ s \in SpacesMade
    BY <1>1 DEF UtcbsStay, SpacesMade
  <2>2. \/ \E n \in DOMAIN threads : threads[n].space = s /\ threads[n].utcb = q
        \/ Heap!Place(Heap!ChunksNeeded(UtcbBytes)) = {}
    BY <2>1 DEF Utcbs, LostInv
  <2>3. CASE Heap!Place(Heap!ChunksNeeded(UtcbBytes)) = {}
    BY <2>3, PlacesShrink
  <2> QED BY <2>2, <2>3
<1> QED BY <1>2, <1>3, <1>4, <1>5 DEF Utcbs

\* The page of the thread being created is mapped.
LEMMA PageMapped ==
  ASSUME ShapeInv, Utcbs, UtcbsStay, UNCHANGED <<cpd, zeroed>>, SetUtcb(page.pos),
         pc = "utcb_map", pc' = "enqueue", page' = NoPage, avail' \subseteq avail,
         NEW c, NEW pos, c = Current, pos = page.pos,
         spaces'[c].utcb # Nil, UtcbTable(c)'[PageOf(pos)] # Nil
  PROVE  Utcbs'
<1> DEFINE t == Len(threads)
<1>1. /\ threads # <<>> /\ spaces # <<>> /\ t \in DOMAIN threads
      /\ threads[t].space = Current /\ ~Claims(t)
  BY AtUtcb DEF Utcbs
<1>2. c = Current /\ pos = page.pos
  OBVIOUS
<1>3. /\ c \in SpacesMade /\ SpacesMade' = SpacesMade /\ Current' = c
      /\ pos \in 0 .. UtcbBitmap - 1 /\ pos \notin spaces[c].free /\ pos \notin spaces'[c].free
      /\ \A n \in DOMAIN threads : threads[n].space = c => threads[n].utcb # pos
  <2>1. c \in SpacesMade
    BY <1>1, <1>2 DEF Utcbs, ThreadInv
  <2>2. SpacesMade' = SpacesMade /\ Current' = c /\ spaces'[c].free = spaces[c].free
    BY <1>2, <2>1 DEF UtcbsStay, SpacesMade, Current
  <2>3. /\ pos \in (0 .. UtcbBitmap - 1) \ spaces[c].free
        /\ \A n \in DOMAIN threads : threads[n].space = c => threads[n].utcb # pos
    BY <1>2 DEF Utcbs, PageInv
  <2> QED BY <2>1, <2>2, <2>3
<1>4. /\ \E S : threads' \in Seq(S)
      /\ Len(threads') = t /\ DOMAIN threads' = DOMAIN threads
      /\ \A n \in DOMAIN threads : n # t => threads'[n] = threads[n]
      /\ threads'[t].utcb = pos /\ threads'[t].space = c
      /\ threads'[t] = [space |-> threads'[t].space, tcb |-> threads'[t].tcb,
                        utcb |-> threads'[t].utcb]
  BY <1>1, <1>2, ThreadNumbered DEF Utcbs
<1> HIDE DEF t
<1>5. ThreadInv'
  <2>1. ASSUME NEW n \in DOMAIN threads'
        PROVE  /\ threads'[n] = [space |-> threads'[n].space, tcb |-> threads'[n].tcb,
                                 utcb |-> threads'[n].utcb]
               /\ threads'[n].space \in SpacesMade'
               /\ Claims(n)' =>
                    /\ threads'[n].utcb \in 0 .. UtcbBitmap - 1
                    /\ threads'[n].utcb \notin spaces'[threads'[n].space].free
                    /\ spaces'[threads'[n].space].utcb # Nil
                    /\ UtcbTable(threads[n].space)'[PageOf(threads[n].utcb)'] # Nil
    <3>1. CASE n = t
      <4>1. threads'[n].space = c /\ threads'[n].utcb = pos
        BY <1>4, <3>1
      <4>2. /\ UtcbTable(threads[n].space)' = UtcbTable(c)'
            /\ PageOf(threads[n].utcb)' = PageOf(pos)
        BY <4>1 DEF UtcbTable, PageOf
      <4>3. spaces'[c].utcb # Nil /\ UtcbTable(c)'[PageOf(pos)] # Nil
        OBVIOUS
      <4> QED BY <1>3, <1>4, <3>1, <4>1, <4>2, <4>3
    <3>2. CASE n # t
      <4>1. PICK s : s = threads[n].space
        OBVIOUS
      <4>2. threads'[n] = threads[n] /\ n \in DOMAIN threads
        BY <1>4, <3>2
      <4>3. /\ s \in SpacesMade'
            /\ threads[n] = [space |-> s, tcb |-> threads[n].tcb, utcb |-> threads[n].utcb]
            /\ Claims(n) =>
                 /\ threads[n].utcb \in 0 .. UtcbBitmap - 1
                 /\ threads[n].utcb \notin spaces'[s].free
                 /\ spaces'[s].utcb # Nil
                 /\ UtcbTable(s)'[PageOf(threads[n].utcb)] # Nil
        BY <4>1, <4>2, StayingThread DEF Utcbs
      <4>4. /\ UtcbTable(threads[n].space)' = UtcbTable(s)'
            /\ PageOf(threads[n].utcb)' = PageOf(threads[n].utcb)
        BY <4>1, <4>2 DEF UtcbTable, PageOf
      <4> QED BY <4>1, <4>2, <4>3, <4>4 DEF Claims
    <3> QED BY <3>1, <3>2
  <2>2. ASSUME NEW m \in DOMAIN threads', NEW n \in DOMAIN threads', m # n,
               Claims(m)', Claims(n)', threads'[m].space = threads'[n].space
        PROVE  threads'[m].utcb # threads'[n].utcb
    <3>1. CASE m = t
      BY <1>3, <1>4, <2>2, <3>1
    <3>2. CASE n = t
      BY <1>3, <1>4, <2>2, <3>2
    <3>3. CASE m # t /\ n # t
      BY <1>4, <2>2, <3>3 DEF Utcbs, ThreadInv, Claims
    <3> QED BY <3>1, <3>2, <3>3
  <2>3. /\ threads' # <<>> /\ spaces' # <<>>
        /\ threads'[Len(threads')].space = Current'
    BY <1>1, <1>3, <1>4 DEF t, SpacesMade
  <2> QED BY <1>4, <2>1, <2>2, <2>3 DEF ThreadInv
<1>6. PageInv'
  BY DEF PageInv, NoPage
<1>7. SectionInv'
  BY StayingSection DEF Utcbs
<1>8. LostInv'
  <2> SUFFICES ASSUME NEW s \in SpacesMade', NEW q \in (0 .. UtcbBitmap - 1) \ spaces'[s].free
               PROVE  \/ \E n \in DOMAIN threads' : threads'[n].space = s /\ threads'[n].utcb = q
                      \/ Heap!Place(Heap!ChunksNeeded(UtcbBytes))' = {}
    BY DEF LostInv, Heap!ChunksNeeded
  <2>1. spaces'[s].free = spaces[s].free /\ s \in SpacesMade
    BY <1>3 DEF UtcbsStay, SpacesMade
  <2>2. \/ \E n \in DOMAIN threads : threads[n].space = s /\ threads[n].utcb = q
        \/ s = c /\ q = pos
        \/ Heap!Place(Heap!ChunksNeeded(UtcbBytes)) = {}
    BY <1>2, <2>1 DEF Utcbs, LostInv
  <2>3. CASE Heap!Place(Heap!ChunksNeeded(UtcbBytes)) = {}
    BY <2>3, PlacesShrink
  <2>4. CASE s = c /\ q = pos
    BY <1>1, <1>4, <2>4 DEF t
  <2>5. CASE \E n \in DOMAIN threads : threads[n].space = s /\ threads[n].utcb = q
    <3>1. PICK n \in DOMAIN threads : threads[n].space = s /\ threads[n].utcb = q
      BY <2>5
    <3>2. n # t
      BY <1>1, <3>1 DEF Claims, NoUtcb, t
    <3> QED BY <1>4, <3>1, <3>2
  <2> QED BY <2>2, <2>3, <2>4, <2>5
<1> QED BY <1>5, <1>6, <1>7, <1>8 DEF Utcbs
-----------------------------------------------------------------------------
(* The page of a UTCB is mapped.                                             *)

UtcbUse(o, s, i) ==
  /\ s \in SpacesMade /\ spaces[s].utcb # Nil
  /\ i \in DOMAIN UtcbTable(s) /\ UtcbTable(s)[i] # Nil
  /\ o = <<"utcb", <<s, i>>, UtcbTable(s)[i].frame>>

\* A page entered in the table for UTCBs is the use of its block.
LEMMA UseOwns ==
  ASSUME NEW o, NEW s, NEW i, UtcbUse(o, s, i)
  PROVE  o \in UtcbOwners
<1>1. PICK x : x = <<s, i>>
  BY Zenon
<1>2. x[1] = s /\ x[2] = i /\ x \in UtcbPlaces
  BY <1>1 DEF UtcbUse, UtcbPlaces
<1>3. o = <<"utcb", x, UtcbTable(x[1])[x[2]].frame>>
  BY <1>1, <1>2 DEF UtcbUse
<1> QED BY <1>2, <1>3 DEF UtcbOwners

\* The uses of blocks as pages of UTCBs, after a step.
LEMMA UtcbOwnersThen ==
  ASSUME NEW o, o \in UtcbOwners'
  PROVE  \E s, i : /\ s \in SpacesMade' /\ spaces'[s].utcb # Nil
                   /\ i \in DOMAIN UtcbTable(s)' /\ UtcbTable(s)'[i] # Nil
                   /\ o = <<"utcb", <<s, i>>, UtcbTable(s)'[i].frame>>
<1>1. PICK x \in UtcbPlaces' : o = <<"utcb", x, tables'[spaces'[x[1]].utcb.to][x[2]].frame>>
  BY DEF UtcbOwners, UtcbTable
<1>2. PICK s \in SpacesMade' : spaces'[s].utcb # Nil /\
        \E i \in DOMAIN tables'[spaces'[s].utcb.to] :
           tables'[spaces'[s].utcb.to][i] # Nil /\ x = <<s, i>>
  BY DEF UtcbPlaces, UtcbTable
<1>3. PICK i \in DOMAIN tables'[spaces'[s].utcb.to] :
        tables'[spaces'[s].utcb.to][i] # Nil /\ x = <<s, i>>
  BY <1>2
<1>4. x[1] = s /\ x[2] = i
  BY <1>3
<1>5. UtcbTable(s)' = tables'[spaces'[s].utcb.to]
  BY DEF UtcbTable
<1> QED BY <1>1, <1>2, <1>3, <1>4, <1>5

\* The page that was in flight becomes a UTCB's; a new table may be taken.
LEMMA PageHandedOver ==
  ASSUME OwnersInv, NEW b, <<"page", 0, b>> \in Owners, Bases \subseteq Bases',
         NEW i, NEW x, NEW c, c \notin Bases,
         \A o \in Owners' : \/ o \in Owners /\ o[1] # "page"
                            \/ o = <<"utcb", i, b>>
                            \/ o = <<"table", x, c>> /\ c \in Bases'
  PROVE  OwnersInv'
<1>1. PICK p, u, d : p = <<"page", 0, b>> /\ u = <<"utcb", i, b>> /\ d = <<"table", x, c>>
  BY Zenon
<1>2. /\ p \in Owners /\ p[1] = "page" /\ p[3] = b /\ b \in Bases
      /\ u[1] = "utcb" /\ u[2] = i /\ u[3] = b
      /\ d[1] = "table" /\ d[2] = x /\ d[3] = c
  <2>1. p \in Owners /\ p[1] = "page" /\ p[3] = b
    BY <1>1
  <2> QED BY <1>1, <2>1 DEF OwnersInv
<1>3. \A o \in Owners' : \/ o \in Owners /\ o[1] # "page"
                         \/ o = u
                         \/ o = d /\ c \in Bases'
  BY <1>1
<1>4. \A o \in Owners' : o[3] \in Bases'
  BY <1>2, <1>3 DEF OwnersInv
<1>5. \A o \in Owners : o[1] # "page" => o[3] # b /\ o[3] # c
  BY <1>2 DEF OwnersInv
<1>6. \A o, q \in Owners' : o[3] = q[3] => o[1] = q[1] /\ o[2] = q[2]
  BY <1>2, <1>3, <1>5 DEF OwnersInv
<1> QED BY <1>4, <1>6 DEF OwnersInv

\* The page in flight, and where it is to be mapped.
LEMMA PageAtHand ==
  ASSUME BInv, pc = "utcb_map"
  PROVE  /\ page.base \in Bases /\ page.base \in Nat /\ <<"page", 0, page.base>> \in Owners
         /\ page.pos \in 0 .. UtcbBitmap - 1 /\ PageOf(page.pos) \in 0 .. Size[2] - 1
         /\ Current \in SpacesMade /\ spaces # <<>>
         /\ spaces[Current].utcb # Nil => UtcbTable(Current)[PageOf(page.pos)] = Nil
<1>1. /\ page.base \in Bases /\ page.base # None
      /\ page.pos \in 0 .. UtcbBitmap - 1
      /\ UtcbEntry(spaces[Current].utcb, page.pos) = Nil
  BY DEF BInv, Utcbs, PageInv
<1>2. page.base \in Nat
  <2>1. PICK b \in blocks : page.base = b.base
    BY <1>1 DEF Bases
  <2>2. b.base \in 1 .. Chunks /\ Chunks \in Nat
    BY PageTableAssumption DEF BInv, Memory, HeapInv
  <2> QED BY <2>1, <2>2
<1>3. <<"page", 0, page.base>> \in Owners
  BY <1>1 DEF Owners, PageOwners
<1>4. Current \in SpacesMade /\ spaces # <<>>
  BY AtUtcb DEF BInv, Utcbs, ThreadInv
<1>5. spaces[Current].utcb # Nil => UtcbTable(Current)[PageOf(page.pos)] = Nil
  BY <1>1 DEF UtcbEntry, UtcbTable
<1> QED BY <1>1, <1>2, <1>3, <1>4, <1>5, PageOfRange

MapUtcbRest ==
  /\ pc = "utcb_map" /\ pc' = "enqueue" /\ page' = NoPage
  /\ UNCHANGED <<walk, kernel, cpd, zeroed>>

\* A place for a UTCB in a table of its space that exists.
LEMMA MapInTable ==
  ASSUME BInv, MapUtcbRest, UNCHANGED heap, UNCHANGED pools, spaces' = spaces,
         spaces[Current].utcb # Nil, SetUtcb(page.pos),
         tables' = [tables EXCEPT ![spaces[Current].utcb.to][PageOf(page.pos)]
                                     = PageEntry(0, page.base)]
  PROVE  Memory' /\ Utcbs'
<1>1. /\ page.base \in Bases /\ page.base \in Nat /\ <<"page", 0, page.base>> \in Owners
      /\ page.pos \in 0 .. UtcbBitmap - 1 /\ PageOf(page.pos) \in 0 .. Size[2] - 1
      /\ Current \in SpacesMade /\ spaces # <<>>
      /\ UtcbTable(Current)[PageOf(page.pos)] = Nil
  BY PageAtHand DEF MapUtcbRest
<1>2. PICK c, pos, b, at, x : /\ c = Current /\ pos = page.pos /\ b = page.base /\ at = PageOf(pos)
                              /\ x = spaces[Current].utcb.to
  OBVIOUS
<1>3. /\ x \in DOMAIN tables /\ x.level = 1 /\ LowShape(x) /\ spaces[c].utcb = Pointer(x)
      /\ DOMAIN tables[x] = 0 .. Size[2] - 1 /\ tables[x][at] = Nil /\ at \in DOMAIN tables[x]
  <2>1. PICK y \in DOMAIN tables :
          /\ y.level = 1 /\ LowShape(y) /\ spaces[c].utcb = Pointer(y)
          /\ UtcbTable(c) = tables[y] /\ spaces[c].utcb.to = y
    BY <1>1, <1>2, UtcbTableIs DEF BInv, Memory
  <2>2. x = y /\ tables[x][at] = Nil
    BY <1>1, <1>2, <2>1
  <2>3. DOMAIN tables[x] = 0 .. Size[2] - 1
    BY <2>1, <2>2 DEF LowShape
  <2> QED BY <1>1, <1>2, <2>1, <2>2, <2>3
<1>4. /\ DOMAIN tables' = DOMAIN tables
      /\ \A y \in DOMAIN tables : y # x => tables'[y] = tables[y]
      /\ DOMAIN tables'[x] = DOMAIN tables[x] /\ tables'[x][at] = PageEntry(0, b)
      /\ \A i \in DOMAIN tables[x] : i # at => tables'[x][i] = tables[x][i]
  <2>1. tables' = [tables EXCEPT ![x] = [tables[x] EXCEPT ![at] = PageEntry(0, b)]]
    BY <1>2
  <2> QED BY Zenon, <1>3, <2>1
<1>5. /\ HeapInv' /\ Bases' = Bases /\ avail' = avail /\ blocks' = blocks /\ objects' = objects
      /\ UNCHANGED <<first_free, bitmap, objects, undefined>>
  BY HeapKept DEF BInv, Memory, heap, pools
<1>6. PoolInv'
  BY <1>5, PoolKept DEF BInv, Memory
<1>7. SpacesMade' = SpacesMade
  BY DEF SpacesMade
<1>8. ShapeInv'
  <2>1. ASSUME NEW y \in DOMAIN tables, y # x
        PROVE  (RootShape(y) \/ MiddleShape(y) \/ LowShape(y))'
    BY <1>4, <1>5, <1>7, <2>1, TableKept DEF BInv, Memory, ShapeInv
  <2>2. LowShape(x)'
    <3>1. \A i \in DOMAIN tables'[x] :
            tables'[x][i] = Nil \/ \E f \in Nat : tables'[x][i] = PageEntry(0, f)
      <4>1. b \in Nat
        BY <1>1, <1>2
      <4>2. \A i \in DOMAIN tables[x] :
              tables[x][i] = Nil \/ \E f \in Nat : tables[x][i] = PageEntry(0, f)
        BY <1>3 DEF LowShape
      <4> QED BY <1>4, <4>1, <4>2
    <3>2. x = [level |-> 1, at |-> x.at] /\ x.at \in Bases'
      BY <1>3, <1>5 DEF LowShape
    <3> QED BY <1>3, <1>4, <3>1, <3>2 DEF LowShape
  <2>3. ASSUME NEW s \in SpacesMade' PROVE Root(s) \in DOMAIN tables' /\ SpaceShape(spaces[s])'
    BY <1>4, <1>7, SpaceKept DEF BInv, Memory
  <2>4. ASSUME NEW y \in DOMAIN tables' PROVE (RootShape(y) \/ MiddleShape(y) \/ LowShape(y))'
    <3>1. CASE y = x
      BY <2>2, <3>1 DEF LowShape
    <3>2. CASE y # x
      BY <1>4, <2>1, <3>2
    <3> QED BY <3>1, <3>2
  <2>5. \E S : spaces' \in Seq(S)
    BY DEF BInv, Memory, ShapeInv
  <2> QED BY <2>3, <2>4, <2>5 DEF ShapeInv, Root
<1>9. TreeInv'
  <2>1. ASSUME NEW q, NEW i, NEW p PROVE Hangs(q, i, p)' <=> Hangs(q, i, p)
    <3>1. CASE q = x /\ i = at
      <4>1. PageEntry(0, b) # Pointer(p) /\ Nil # Pointer(p)
        BY Kinds
      <4> QED BY <1>3, <1>4, <3>1, <4>1 DEF Hangs
    <3>2. CASE ~(q = x /\ i = at)
      BY <1>4, <3>2 DEF Hangs
    <3> QED BY <3>1, <3>2
  <2>2. \A s, p : HangsInSpace(s, p)' <=> HangsInSpace(s, p)
    BY <1>7 DEF HangsInSpace
  <2> QED BY <1>4, <2>1, <2>2, TreeKept DEF BInv, Memory
\* No other space has the table.
<1>10. \A s \in SpacesMade : s # c /\ spaces[s].utcb # Nil =>
         /\ spaces[s].utcb # Pointer(x) /\ UtcbTable(s)' = UtcbTable(s)
  <2> SUFFICES ASSUME NEW s \in SpacesMade, s # c, spaces[s].utcb # Nil
               PROVE  spaces[s].utcb # Pointer(x) /\ UtcbTable(s)' = UtcbTable(s)
    OBVIOUS
  <2>1. OneParent(x)
    BY <1>3 DEF BInv, Memory, TreeInv
  <2>2. spaces[s].utcb # Pointer(x)
    BY Zenon, <1>1, <1>2, <1>3, <2>1 DEF OneParent, HangsInSpace
  <2>3. PICK y \in DOMAIN tables : spaces[s].utcb = Pointer(y) /\ spaces[s].utcb.to = y
    BY UtcbTableIs DEF BInv, Memory
  <2> QED BY <1>4, <2>2, <2>3 DEF UtcbTable
<1>11. UtcbTable(c) = tables[x] /\ UtcbTable(c)' = tables'[x]
  BY <1>2 DEF UtcbTable
<1>12. UtcbsStay
  <2>1. ASSUME NEW s \in DOMAIN spaces, spaces[s].utcb # Nil
        PROVE  /\ DOMAIN UtcbTable(s)' = DOMAIN UtcbTable(s)
               /\ \A i \in DOMAIN UtcbTable(s) :
                    UtcbTable(s)[i] # Nil => UtcbTable(s)'[i] = UtcbTable(s)[i]
    <3>1. CASE s = c
      BY Zenon, <1>3, <1>4, <1>11, <3>1
    <3>2. CASE s # c
      BY <1>10, <2>1, <3>2 DEF SpacesMade
    <3> QED BY <3>1, <3>2
  <2> QED BY <2>1 DEF UtcbsStay, BInv, Memory, ShapeInv
<1>13. Utcbs'
  <2>1. spaces'[c].utcb # Nil /\ UtcbTable(c)'[PageOf(pos)] # Nil
    BY <1>2, <1>4, <1>11, Kinds
  <2> QED BY <1>2, <1>5, <1>12, <2>1, PageMapped DEF BInv, Memory, MapUtcbRest
<1>14. OwnersInv'
  <2>1. ASSUME NEW o \in UtcbOwners' PROVE o \in UtcbOwners \/ o = <<"utcb", <<c, at>>, b>>
    <3>1. PICK s, i : /\ s \in SpacesMade' /\ spaces'[s].utcb # Nil
                      /\ i \in DOMAIN UtcbTable(s)' /\ UtcbTable(s)'[i] # Nil
                      /\ o = <<"utcb", <<s, i>>, UtcbTable(s)'[i].frame>>
      BY UtcbOwnersThen
    <3>2. CASE s = c /\ i = at
      <4>1. UtcbTable(s)'[i].frame = b
        <5>1. PageEntry(0, b).frame = b
          BY Kinds
        <5> QED BY Zenon, <1>4, <1>11, <3>2, <5>1
      <4> QED BY <3>1, <3>2, <4>1
    <3>3. CASE ~(s = c /\ i = at)
      <4>1. UtcbUse(o, s, i)
        <5>1. CASE s = c
          BY Zenon, <1>3, <1>4, <1>7, <1>11, <3>1, <3>3, <5>1 DEF UtcbUse
        <5>2. CASE s # c
          BY <1>7, <1>10, <3>1, <5>2 DEF UtcbUse
        <5> QED BY <5>1, <5>2
      <4> QED BY <4>1, UseOwns
    <3> QED BY <3>2, <3>3
  <2>2. /\ TableOwners' = TableOwners /\ ListOwners' = ListOwners
        /\ PoolOwners' = PoolOwners /\ KernelOwners' = KernelOwners
    BY <1>4, <1>5, <1>7 DEF TableOwners, ListOwners, PoolOwners, KernelOwners, MapUtcbRest
  <2>3. PageOwners' = {}
    BY DEF PageOwners, MapUtcbRest, NoPage
  <2>4. \A o \in TableOwners \cup UtcbOwners \cup ListOwners \cup PoolOwners \cup KernelOwners :
          o[1] # "page"
    BY DEF TableOwners, UtcbOwners, ListOwners, PoolOwners, KernelOwners
  <2>5. PICK n, k : n \notin Bases /\ k = <<c, at>>
    <3>1. 0 \notin Bases
      BY PageTableAssumption DEF BInv, Memory, HeapInv, Bases
    <3> QED BY Zenon, <3>1
  <2>6. \A o \in Owners' : (o \in Owners /\ o[1] # "page") \/ o = <<"utcb", k, b>>
    BY <2>1, <2>2, <2>3, <2>4, <2>5 DEF Owners
  <2> QED BY Zenon, <1>1, <1>2, <1>5, <2>5, <2>6, PageHandedOver DEF BInv, Memory
<1> QED BY <1>5, <1>6, <1>8, <1>9, <1>13, <1>14 DEF Memory

\* The space has no table for UTCBs yet: it gets one.
LEMMA MapInNewTable ==
  ASSUME BInv, MapUtcbRest, Bytes(TableBytes[2]), spaces[Current].utcb = Nil, SetUtcb(page.pos),
         tables' = [x \in DOMAIN tables \cup {Table(2, Base)} |->
                      IF x = Table(2, Base)
                      THEN [Empty(2) EXCEPT ![PageOf(page.pos)] = PageEntry(0, page.base)]
                      ELSE tables[x]],
         spaces' = [spaces EXCEPT ![Current].utcb = Pointer(Table(2, Base))]
  PROVE  Memory' /\ Utcbs'
<1>1. /\ page.base \in Bases /\ page.base \in Nat /\ <<"page", 0, page.base>> \in Owners
      /\ page.pos \in 0 .. UtcbBitmap - 1 /\ PageOf(page.pos) \in 0 .. Size[2] - 1
      /\ Current \in SpacesMade /\ spaces # <<>>
  BY PageAtHand DEF MapUtcbRest
<1>2. PICK c, pos, b, at, d : /\ c = Current /\ pos = page.pos /\ b = page.base
                              /\ at = PageOf(pos) /\ d = Base
  OBVIOUS
<1>3. PICK x : x = Table(2, d)
  OBVIOUS
<1>4. /\ HeapInv' /\ PoolInv' /\ d \notin Bases /\ d \in 1 .. Chunks
      /\ Bases' = Bases \cup {d} /\ avail' \subseteq avail
      /\ PoolOwners' = PoolOwners
  BY <1>2, PageTableAssumption, BytesTaken DEF BInv
<1>5. x = [level |-> 1, at |-> x.at] /\ x.level = 1 /\ x.at = d
  BY <1>3 DEF Table
<1>6. x \notin DOMAIN tables
  BY <1>4, <1>5, LevelShape DEF BInv, Memory
<1>7. /\ DOMAIN tables' = DOMAIN tables \cup {x}
      /\ \A y \in DOMAIN tables : tables'[y] = tables[y]
      /\ DOMAIN tables'[x] = 0 .. Size[2] - 1 /\ tables'[x][at] = PageEntry(0, b)
      /\ \A i \in DOMAIN tables'[x] : i # at => tables'[x][i] = Nil
  <2>1. PICK f : f = [Empty(2) EXCEPT ![at] = PageEntry(0, b)]
    BY Zenon
  <2>2. tables' = [y \in DOMAIN tables \cup {x} |-> IF y = x THEN f ELSE tables[y]]
    BY <1>2, <1>3, <2>1
  <2>3. DOMAIN Empty(2) = 0 .. Size[2] - 1 /\ \A i \in 0 .. Size[2] - 1 : Empty(2)[i] = Nil
    BY DEF Empty, Entries
  <2>4. /\ DOMAIN f = 0 .. Size[2] - 1 /\ f[at] = PageEntry(0, b)
        /\ \A i \in DOMAIN f : i # at => f[i] = Nil
    BY Zenon, <1>1, <1>2, <2>1, <2>3
  <2> QED BY Zenon, <1>6, <2>2, <2>4
<1>8. PICK r, ptr : r = spaces[c] /\ ptr = Pointer(x)
  OBVIOUS
<1> DEFINE e == SpaceRecord(ptr, r.free, r.list, r.segs)
<1>9. spaces' = [spaces EXCEPT ![c] = e]
  <2>1. spaces' = [spaces EXCEPT ![c] = [r EXCEPT !.utcb = ptr]]
    BY <1>2, <1>3, <1>8
  <2>2. [r EXCEPT !.utcb = ptr] = e
    BY Zenon, <1>1, <1>2, <1>8, SpaceFields DEF BInv, Memory, ShapeInv, SpaceShape
  <2> HIDE DEF e
  <2> QED BY Zenon, <2>1, <2>2
<1>10. /\ e.utcb = ptr /\ e.free = r.free /\ e.list = r.list /\ e.segs = r.segs
       /\ e = SpaceRecord(e.utcb, e.free, e.list, e.segs)
  BY SpaceParts
<1> HIDE DEF e
<1>11. /\ \E S : spaces' \in Seq(S)
       /\ Len(spaces') = Len(spaces) /\ SpacesMade' = SpacesMade /\ DOMAIN spaces' = DOMAIN spaces
       /\ \A s \in SpacesMade : s # c => spaces'[s] = spaces[s]
       /\ spaces'[c] = e
  <2>1. (\E S : spaces \in Seq(S)) /\ c \in DOMAIN spaces
    BY <1>1, <1>2 DEF BInv, Memory, ShapeInv, SpacesMade
  <2>2. PICK u : u = [spaces EXCEPT ![c] = e]
    BY Zenon
  <2>3. /\ \E S : u \in Seq(S)
        /\ Len(u) = Len(spaces) /\ DOMAIN u = DOMAIN spaces
        /\ \A s \in DOMAIN spaces : s # c => u[s] = spaces[s]
        /\ u[c] = e
    BY Zenon, <2>1, <2>2, OneChanged
  <2>4. spaces' = u
    BY Zenon, <1>9, <2>2
  <2> QED BY Zenon, <2>3, <2>4 DEF SpacesMade
<1>12. ShapeInv'
  <2>1. ASSUME NEW y \in DOMAIN tables PROVE (RootShape(y) \/ MiddleShape(y) \/ LowShape(y))'
    BY <1>4, <1>7, <1>11, TableKept DEF BInv, Memory, ShapeInv
  <2>2. LowShape(x)'
    <3>1. \A i \in DOMAIN tables'[x] :
            tables'[x][i] = Nil \/ \E f \in Nat : tables'[x][i] = PageEntry(0, f)
      BY Zenon, <1>1, <1>2, <1>7
    <3> QED BY Zenon, <1>4, <1>5, <1>7, <3>1 DEF LowShape
  <2>3. ASSUME NEW s \in SpacesMade' PROVE Root(s) \in DOMAIN tables' /\ SpaceShape(spaces[s])'
    <3>1. CASE s # c
      BY <1>7, <1>11, <3>1, SpaceKept DEF BInv, Memory
    <3>2. CASE s = c
      <4>1. PICK q : q = e
        OBVIOUS
      <4>2. r.free \subseteq 0 .. UtcbBitmap - 1 /\ Root(c) \in DOMAIN tables
        BY <1>1, <1>2, <1>8 DEF BInv, Memory, ShapeInv, SpaceShape
      <4>3. q.utcb = Pointer(x) /\ x \in DOMAIN tables' /\ q.free \subseteq 0 .. UtcbBitmap - 1
            /\ q = SpaceRecord(q.utcb, q.free, q.list, q.segs)
        BY <1>7, <1>8, <1>10, <4>1, <4>2
      <4>4. SpaceShape(q)'
        BY <1>5, <4>3 DEF SpaceShape
      <4>5. spaces'[s] = q
        BY <1>11, <3>2, <4>1
      <4> QED BY Zenon, <1>7, <3>2, <4>2, <4>4, <4>5 DEF SpaceShape
    <3> QED BY <3>1, <3>2
  <2>4. ASSUME NEW y \in DOMAIN tables' PROVE (RootShape(y) \/ MiddleShape(y) \/ LowShape(y))'
    <3>1. CASE y = x
      BY Zenon, <2>2, <3>1 DEF LowShape
    <3>2. CASE y # x
      BY <1>7, <2>1, <3>2
    <3> QED BY <3>1, <3>2
  <2> QED BY <1>11, <2>3, <2>4 DEF ShapeInv, Root
\* Nothing points to the new table but the space.
<1>13. (\A q, i : ~Hangs(q, i, x)) /\ \A s : ~HangsInSpace(s, x)
  <2>1. ASSUME NEW q, NEW i, Hangs(q, i, x) PROVE FALSE
    <3>1. q \in DOMAIN tables /\ i \in DOMAIN tables[q] /\ tables[q][i] = Pointer(x)
      BY <2>1 DEF Hangs
    <3>2. RootShape(q) \/ MiddleShape(q) \/ LowShape(q)
      BY <3>1 DEF BInv, Memory, ShapeInv
    <3>3. \/ tables[q][i] = Nil
          \/ \E y \in DOMAIN tables : tables[q][i] = Pointer(y)
          \/ \E t, f : tables[q][i] = PageEntry(t, f)
      <4>1. CASE RootShape(q)
        BY <3>1, <4>1 DEF RootShape
      <4>2. CASE MiddleShape(q)
        BY <3>1, <4>2 DEF MiddleShape
      <4>3. CASE LowShape(q)
        BY <3>1, <4>3 DEF LowShape
      <4> QED BY <3>2, <4>1, <4>2, <4>3
    <3> QED BY <1>6, <3>1, <3>3, Kinds
  <2>2. ASSUME NEW s, HangsInSpace(s, x) PROVE FALSE
    <3>1. s \in SpacesMade /\ spaces[s].utcb = Pointer(x)
      BY <2>2 DEF HangsInSpace
    <3>2. spaces[s].utcb = Nil \/ \E y \in DOMAIN tables : spaces[s].utcb = Pointer(y)
      BY <3>1 DEF BInv, Memory, ShapeInv, SpaceShape
    <3> QED BY <1>6, <3>1, <3>2, Kinds
  <2> QED BY <2>1, <2>2
<1>14. TreeInv'
  <2>1. ASSUME NEW q, NEW i, NEW p PROVE Hangs(q, i, p)' <=> Hangs(q, i, p)
    <3>1. CASE q \in DOMAIN tables
      BY <1>7, <3>1 DEF Hangs
    <3>2. CASE q = x
      <4>1. PageEntry(0, b) # Pointer(p) /\ Nil # Pointer(p)
        BY Kinds
      <4> QED BY Zenon, <1>6, <1>7, <3>2, <4>1 DEF Hangs
    <3>3. CASE q \notin DOMAIN tables /\ q # x
      BY <1>7, <3>3 DEF Hangs
    <3> QED BY <3>1, <3>2, <3>3
  <2>2. ASSUME NEW s, NEW p
        PROVE  HangsInSpace(s, p)' <=> HangsInSpace(s, p) \/ (s = c /\ p = x)
    <3>1. CASE s = c
      <4>1. spaces'[c].utcb = Pointer(x) /\ (Pointer(x) = Pointer(p) <=> x = p)
            /\ Nil # Pointer(p) /\ spaces[c].utcb = Nil
        BY Zenon, <1>2, <1>8, <1>10, <1>11, Kinds
      <4> QED BY <1>1, <1>2, <1>11, <3>1, <4>1 DEF HangsInSpace
    <3>2. CASE s # c
      BY Zenon, <1>11, <3>2 DEF HangsInSpace
    <3> QED BY <3>1, <3>2
  <2> QED BY Zenon, <1>6, <1>7, <1>13, <2>1, <2>2, TreeGrowsInSpace DEF BInv, Memory
<1>15. UtcbTable(c)' = tables'[x] /\ spaces'[c].utcb # Nil
  <2>1. spaces'[c].utcb = Pointer(x)
    BY Zenon, <1>8, <1>10, <1>11
  <2>2. Pointer(x).to = x /\ Pointer(x) # Nil
    BY Kinds
  <2> QED BY <2>1, <2>2 DEF UtcbTable
<1>16. \A s \in SpacesMade : spaces[s].utcb # Nil => s # c /\ UtcbTable(s)' = UtcbTable(s)
  <2> SUFFICES ASSUME NEW s \in SpacesMade, spaces[s].utcb # Nil
               PROVE  s # c /\ UtcbTable(s)' = UtcbTable(s)
    OBVIOUS
  <2>1. s # c
    BY <1>2
  <2>2. PICK y \in DOMAIN tables : spaces[s].utcb.to = y
    BY UtcbTableIs DEF BInv, Memory
  <2> QED BY <1>7, <1>11, <2>1, <2>2 DEF UtcbTable
<1>17. UtcbsStay
  <2>1. ASSUME NEW s \in DOMAIN spaces
        PROVE  /\ spaces'[s].free = spaces[s].free
               /\ spaces[s].utcb # Nil =>
                    /\ spaces'[s].utcb = spaces[s].utcb
                    /\ DOMAIN UtcbTable(s)' = DOMAIN UtcbTable(s)
                    /\ \A i \in DOMAIN UtcbTable(s) :
                         UtcbTable(s)[i] # Nil => UtcbTable(s)'[i] = UtcbTable(s)[i]
    <3>1. CASE s = c
      BY Zenon, <1>2, <1>8, <1>10, <1>11, <3>1
    <3>2. CASE s # c
      BY <1>11, <1>16, <3>2 DEF SpacesMade
    <3> QED BY <3>1, <3>2
  <2> QED BY <1>11, <2>1 DEF UtcbsStay
<1>18. Utcbs'
  <2>1. UtcbTable(c)'[PageOf(pos)] # Nil
    BY <1>2, <1>7, <1>15, Kinds
  <2> QED BY Zenon, <1>2, <1>4, <1>15, <1>17, <2>1, PageMapped DEF BInv, Memory, MapUtcbRest
<1>19. OwnersInv'
  <2>1. ASSUME NEW o \in UtcbOwners' PROVE o \in UtcbOwners \/ o = <<"utcb", <<c, at>>, b>>
    <3>1. PICK s, i : /\ s \in SpacesMade' /\ spaces'[s].utcb # Nil
                      /\ i \in DOMAIN UtcbTable(s)' /\ UtcbTable(s)'[i] # Nil
                      /\ o = <<"utcb", <<s, i>>, UtcbTable(s)'[i].frame>>
      BY UtcbOwnersThen
    <3>2. CASE s = c
      <4>1. PageEntry(0, b).frame = b
        BY Kinds
      <4>2. i = at
        BY Zenon, <1>7, <1>15, <3>1, <3>2
      <4>3. UtcbTable(s)'[i].frame = b
        BY Zenon, <1>7, <1>15, <3>2, <4>1, <4>2
      <4> QED BY <3>1, <3>2, <4>2, <4>3
    <3>3. CASE s # c
      <4>1. spaces'[s] = spaces[s] /\ s \in SpacesMade /\ spaces[s].utcb # Nil
        BY Zenon, <1>11, <3>1, <3>3
      <4>2. UtcbTable(s)' = UtcbTable(s)
        BY <1>16, <4>1
      <4>3. UtcbUse(o, s, i)
        BY <3>1, <4>1, <4>2 DEF UtcbUse
      <4> QED BY <4>3, UseOwns
    <3> QED BY <3>2, <3>3
  <2>2. ASSUME NEW o \in TableOwners' PROVE o \in TableOwners \/ o = <<"table", x, d>>
    BY <1>5, <1>7 DEF TableOwners
  <2>3. ListOwners' = ListOwners
    <3>1. \A s \in SpacesMade : spaces'[s].list = spaces[s].list
      BY <1>8, <1>10, <1>11
    <3> QED BY <1>11, <3>1 DEF ListOwners
  <2>4. KernelOwners' = KernelOwners
    BY DEF KernelOwners, MapUtcbRest
  <2>5. PageOwners' = {}
    BY DEF PageOwners, MapUtcbRest, NoPage
  <2>6. \A o \in TableOwners \cup UtcbOwners \cup ListOwners \cup PoolOwners \cup KernelOwners :
          o[1] # "page"
    BY DEF TableOwners, UtcbOwners, ListOwners, PoolOwners, KernelOwners
  <2>7. PICK k : k = <<c, at>>
    BY Zenon
  <2>8. \A o \in Owners' : \/ o \in Owners /\ o[1] # "page"
                           \/ o = <<"utcb", k, b>>
                           \/ o = <<"table", x, d>> /\ d \in Bases'
    BY <1>4, <2>1, <2>2, <2>3, <2>4, <2>5, <2>6, <2>7 DEF Owners
  <2>9. OwnersInv /\ <<"page", 0, b>> \in Owners /\ Bases \subseteq Bases' /\ d \notin Bases
    BY <1>1, <1>2, <1>4 DEF BInv, Memory
  <2> QED BY Zenon, <2>8, <2>9, PageHandedOver
<1> QED BY <1>4, <1>12, <1>14, <1>18, <1>19 DEF Memory

\* There is no memory for a table: the page is lost with the bit.
LEMMA PageLost ==
  ASSUME BInv, MapUtcbRest, NoBytes(TableBytes[2]), UNCHANGED <<tables, spaces, threads>>
  PROVE  Memory' /\ Utcbs'
<1>1. /\ HeapInv' /\ PoolInv' /\ Bases' = Bases /\ avail' = avail
      /\ PoolOwners' = PoolOwners
      /\ Heap!Place(Heap!ChunksNeeded(TableBytes[2])) = {}
  BY NoBytesTaken DEF BInv
<1>2. SameSpaces /\ ListOwners' = ListOwners /\ KeptSpaces
  BY SpacesUnchanged, SameKept DEF BInv, Memory, ListOwners, SpacesMade
<1>3. ShapeInv' /\ TreeInv'
  BY <1>1, <1>2, ShapeQuiet DEF BInv, Memory
<1>4. OwnersInv'
  <2>1. TableOwners' = TableOwners /\ UtcbOwners' = UtcbOwners
    BY <1>2, OwnersQuiet
  <2>2. PageOwners' = {} /\ KernelOwners' = KernelOwners
    BY DEF PageOwners, NoPage, KernelOwners, MapUtcbRest
  <2>3. Owners' \subseteq Owners
    BY <1>1, <1>2, <2>1, <2>2 DEF Owners
  <2> QED BY <1>1, <2>3, OwnersKept DEF BInv, Memory
<1>5. /\ threads # <<>> /\ spaces # <<>>
      /\ threads[Len(threads)].space = Current
  BY AtUtcb DEF BInv, Utcbs, MapUtcbRest
<1>6. ThreadInv'
  BY <1>2, <1>5, ThreadsKept DEF BInv, Utcbs, MapUtcbRest
<1>7. PageInv' /\ SectionInv'
  BY <1>2, SectionKept DEF BInv, Utcbs, MapUtcbRest, PageInv, NoPage
<1>8. LostInv'
  <2>1. Heap!Place(Heap!ChunksNeeded(UtcbBytes)) = {}
    BY <1>1, NoTableNoPage DEF BInv, Memory, HeapInv
  <2>2. Heap!Place(Heap!ChunksNeeded(UtcbBytes))' = {}
    BY <1>1, <2>1, PlacesShrink
  <2> QED BY <2>2 DEF LostInv, Heap!ChunksNeeded
<1> QED BY <1>1, <1>3, <1>4, <1>6, <1>7, <1>8 DEF Memory, Utcbs

\* The page of a UTCB is entered, in a table that may be new.
LEMMA MapUtcbStep == ASSUME BInv, MapUtcb PROVE BInv'
<1>1. MapUtcbRest
  BY DEF MapUtcb, MapUtcbRest, history
<1>2. ~walk.on
  BY <1>1, NotMapping DEF BInv, MapUtcbRest
<1>3. Walks' /\ KernelInv'
  BY <1>1, <1>2, WalkOff DEF SavedInv, BInv, KernelInv, MapUtcbRest
<1>4. PICK b, c : b = Base /\ c = page.base
  OBVIOUS
<1>5. /\ PageEntry(0, c) = [kind |-> "page", size |-> 0, frame |-> c]
      /\ Pointer(Table(2, b)) = [kind |-> "table", to |-> Table(2, b)]
  BY DEF PageEntry, Pointer
<1>6. \/ /\ spaces[Current].utcb = Nil /\ Bytes(TableBytes[2])
         /\ tables' = [x \in DOMAIN tables \cup {Table(2, Base)} |->
                         IF x = Table(2, Base)
                         THEN [Empty(2) EXCEPT ![PageOf(page.pos)] = PageEntry(0, page.base)]
                         ELSE tables[x]]
         /\ spaces' = [spaces EXCEPT ![Current].utcb = Pointer(Table(2, Base))]
         /\ SetUtcb(page.pos)
      \/ NoBytes(TableBytes[2]) /\ UNCHANGED <<tables, spaces, threads>>
      \/ /\ spaces[Current].utcb # Nil
         /\ tables' = [tables EXCEPT ![spaces[Current].utcb.to][PageOf(page.pos)]
                                        = PageEntry(0, page.base)]
         /\ SetUtcb(page.pos) /\ UNCHANGED heap /\ UNCHANGED pools /\ spaces' = spaces
  BY DEF MapUtcb, PageEntry, Pointer
<1> QED BY <1>1, <1>3, <1>6, MapInTable, MapInNewTable, PageLost DEF BInv
-----------------------------------------------------------------------------
(* Where a walk is.                                                          *)

\* A larger page is a multiple of a smaller.
LEMMA SizesDivide ==
  \A u \in 0 .. 2 : \A t \in 0 .. u : Size[u] % Size[t] = 0
<1>1. /\ Size[0] = 1 /\ Size[1] \in Nat \ {0} /\ Size[2] \in Nat \ {0}
      /\ Size[1] % Size[0] = 0 /\ Size[2] % Size[1] = 0
  <2>1. 0 \in 0 .. 3 /\ 1 \in 0 .. 3 /\ 1 \in 0 .. 4 /\ 2 \in 0 .. 4
    OBVIOUS
  <2>2. Size[0] = 1 /\ Size[1] \in Nat \ {0} /\ Size[2] \in Nat \ {0}
    BY <2>1, SizeFacts
  <2>3. Size[0 + 1] % Size[0] = 0 /\ Size[1 + 1] % Size[1] = 0
    BY <2>1, PageTableAssumption
  <2> QED BY <2>2, <2>3
<1>2. ASSUME NEW n \in Nat \ {0} PROVE n % 1 = 0 /\ n % n = 0
  <2>1. n = n * 1 + 0 /\ 0 \in 0 .. n - 1
    OBVIOUS
  <2>2. n % n = 0
    BY <2>1, DivisionOnly
  <2>3. n % 1 \in 0 .. 1 - 1
    BY Division
  <2> QED BY <2>2, <2>3
<1>3. /\ Size[0] % Size[0] = 0 /\ Size[1] % Size[1] = 0 /\ Size[2] % Size[2] = 0
      /\ Size[2] % Size[0] = 0
  BY <1>1, <1>2
<1> SUFFICES ASSUME NEW u \in 0 .. 2, NEW t \in 0 .. u PROVE Size[u] % Size[t] = 0
  OBVIOUS
<1>4. \/ u = t
      \/ u = 1 /\ t = 0
      \/ u = 2 /\ t = 0
      \/ u = 2 /\ t = 1
  OBVIOUS
<1>5. u = 0 \/ u = 1 \/ u = 2
  OBVIOUS
<1> QED BY <1>1, <1>3, <1>4, <1>5

Walking == ShapeInv /\ RegionInv /\ PagesInv /\ walk.on

\* The entry of the region in the directory of its space.
LEMMA TopPlace ==
  ASSUME Walking
  PROVE  /\ pc = "map" /\ region.n \in Nat \ {0} /\ region.v \in Nat /\ region.p \in Nat
         /\ region.v + region.n <= Size[4]
         /\ region.space \in SpacesMade /\ Root(region.space) \in DOMAIN tables
         /\ DOMAIN tables[Root(region.space)] = 0 .. TableSize(3) - 1
         /\ Index(3, region.v) \in 0 .. TableSize(3) - 1
         /\ Upper = Nil \/ \E y \in DOMAIN tables : y.level = 2 /\ Upper = Pointer(y)
<1>1. pc = "map" /\ region.n # 0
  BY DEF Walking, RegionInv, PagesInv
<1>2. /\ region.space = Current /\ spaces # <<>> /\ region.v \in Nat /\ region.p \in Nat
      /\ region.n \in Nat /\ region.v + region.n <= Size[4]
  BY <1>1 DEF Walking, RegionInv
<1>3. region.space \in SpacesMade
  BY <1>2, TheLast DEF Walking, ShapeInv, SpacesMade, Current
<1>4. PICK x : x = Root(region.space)
  OBVIOUS
<1>5. x \in DOMAIN tables /\ x.level = 3
  BY <1>3, <1>4, Kinds DEF Walking, ShapeInv
<1>6. RootShape(x)
  BY <1>5, LevelShape DEF Walking
<1>7. DOMAIN tables[x] = 0 .. TableSize(3) - 1
  BY <1>6 DEF RootShape
<1>8. Index(3, region.v) \in 0 .. TableSize(3) - 1
  <2>1. 3 \in 0 .. 3
    OBVIOUS
  <2> QED BY Zenon, <1>2, <2>1, IndexRange
<1>9. Upper = Nil \/ \E y \in DOMAIN tables : y.level = 2 /\ Upper = Pointer(y)
  BY <1>4, <1>6, <1>7, <1>8 DEF RootShape, Upper
<1> QED BY <1>1, <1>2, <1>3, <1>4, <1>5, <1>7, <1>8, <1>9

\* The entry below it.
LEMMA MiddlePlace ==
  ASSUME Walking, Upper.kind = "table"
  PROVE  /\ Upper.to \in DOMAIN tables /\ Upper.to.level = 2 /\ Upper = Pointer(Upper.to)
         /\ DOMAIN tables[Upper.to] = 0 .. TableSize(2) - 1
         /\ Index(2, region.v) \in 0 .. TableSize(2) - 1
         /\ \/ Middle = Nil
            \/ \E z \in DOMAIN tables : z.level = 1 /\ Middle = Pointer(z)
            \/ \E f \in Nat : Middle = PageEntry(2, f)
<1>1. PICK y \in DOMAIN tables : y.level = 2 /\ Upper = Pointer(y)
  BY TopPlace, Kinds
<1>2. Upper.to = y
  BY <1>1, Kinds
<1>3. MiddleShape(y)
  BY <1>1, LevelShape DEF Walking
<1>4. DOMAIN tables[y] = 0 .. TableSize(2) - 1
  BY <1>3 DEF MiddleShape
<1>5. Index(2, region.v) \in 0 .. TableSize(2) - 1
  <2>1. 2 \in 0 .. 3 /\ region.v \in Nat
    BY TopPlace
  <2> QED BY Zenon, <2>1, IndexRange
<1>6. Middle = tables[y][Index(2, region.v)]
  BY <1>2 DEF Middle
<1>7. \/ Middle = Nil
      \/ \E z \in DOMAIN tables : z.level = 1 /\ Middle = Pointer(z)
      \/ \E f \in Nat : Middle = PageEntry(2, f)
  BY <1>3, <1>4, <1>5, <1>6 DEF MiddleShape
<1> QED BY <1>1, <1>2, <1>4, <1>5, <1>7

\* The entries below that.
LEMMA LowPlace ==
  ASSUME Walking, Upper.kind = "table", Middle.kind = "table"
  PROVE  /\ Middle.to \in DOMAIN tables /\ Middle.to.level = 1 /\ Middle = Pointer(Middle.to)
         /\ DOMAIN tables[Middle.to] = 0 .. Size[2] - 1
         /\ \A i \in 0 .. Size[2] - 1 :
              \/ tables[Middle.to][i] = Nil
              \/ \E f \in Nat : tables[Middle.to][i] = PageEntry(0, f)
<1>1. PICK z \in DOMAIN tables : z.level = 1 /\ Middle = Pointer(z)
  BY MiddlePlace, Kinds
<1>2. Middle.to = z
  BY <1>1, Kinds
<1>3. LowShape(z)
  BY <1>1, LevelShape DEF Walking
<1> QED BY <1>1, <1>2, <1>3 DEF LowShape

\* The pages of the walk, in the table they are entered in.
LEMMA PagesInTable ==
  ASSUME Walking
  PROVE  /\ walk.pages \in Nat \ {0} /\ Size[2] % walk.pages = 0
         /\ Section \in Nat
         /\ \A a \in region.v .. region.v + walk.pages - 1 :
              /\ a \in Nat /\ a < Size[4]
              /\ a \div Size[2] = region.v \div Size[2]
              /\ a % Size[2] = a - Section /\ a - Section \in 0 .. Size[2] - 1
<1>1. /\ walk.pages \in 1 .. region.n /\ region.v % walk.pages = 0
      /\ \E t \in 0 .. 2 : walk.pages = Size[t]
  BY DEF Walking, PagesInv
<1>2. /\ region.v \in Nat /\ region.n \in Nat \ {0} /\ region.v + region.n <= Size[4]
      /\ Size[4] \in Nat /\ Size[2] \in Nat \ {0}
  <2>1. 2 \in 0 .. 4 /\ 4 \in 0 .. 4
    OBVIOUS
  <2>2. Size[4] \in Nat /\ Size[2] \in Nat \ {0}
    BY <2>1, SizeFacts
  <2> QED BY <2>2, TopPlace
<1>3. PICK v, n, m, r : v = region.v /\ n = walk.pages /\ m = Size[4] /\ r = region.n
  OBVIOUS
<1>4. v \in Nat /\ n \in Nat \ {0} /\ m \in Nat /\ n <= r /\ r \in Nat /\ v + r <= m
  BY <1>1, <1>2, <1>3
<1>5. v % n = 0 /\ Size[2] % n = 0
  <2>1. PICK t \in 0 .. 2 : n = Size[t]
    BY <1>1, <1>3
  <2>2. t \in 0 .. 2 /\ 2 \in 0 .. 2
    OBVIOUS
  <2> QED BY <1>1, <1>3, <2>1, <2>2, SizesDivide
<1>6. /\ v - (v % Size[2]) \in Nat
      /\ \A x \in v .. v + n - 1 :
           /\ x \div Size[2] = v \div Size[2]
           /\ x % Size[2] = x - (v - (v % Size[2]))
  BY <1>4, <1>5, InSection
<1>7. Section = v - (v % Size[2])
  BY <1>3 DEF Section
<1>8. ASSUME NEW a \in v .. v + n - 1
      PROVE  /\ a \in Nat /\ a < m
             /\ a \div Size[2] = v \div Size[2]
             /\ a % Size[2] = a - Section /\ a - Section \in 0 .. Size[2] - 1
  <2>1. a \in Nat /\ a < m
    BY <1>4
  <2>2. a % Size[2] \in 0 .. Size[2] - 1
    BY Zenon, <1>2, <2>1, Division
  <2>3. a % Size[2] = a - Section /\ a \div Size[2] = v \div Size[2]
    BY <1>6, <1>7
  <2> QED BY <2>1, <2>2, <2>3
<1> QED BY <1>3, <1>4, <1>5, <1>6, <1>7, <1>8
-----------------------------------------------------------------------------
(* What the walk writes: a page's entry, or the entry of a new table.        *)

SystemStays == UNCHANGED <<page, kernel, spaces, threads, cpd, zeroed>>

\* A page written into a table: shape, tree and uses stay.
LEMMA EntryWritten ==
  ASSUME Memory, Utcbs, UNCHANGED heap, UNCHANGED pools, SystemStays, pc = "map", pc' = "map",
         NEW x \in DOMAIN tables, NEW i \in DOMAIN tables[x], NEW t, NEW f \in Nat,
         (x.level = 2 /\ t = 2) \/ (x.level = 1 /\ t = 0),
         tables[x][i].kind # "table", \A s : ~HangsInSpace(s, x),
         tables' = [tables EXCEPT ![x] = [tables[x] EXCEPT ![i] = PageEntry(t, f)]]
  PROVE  Memory' /\ Utcbs'
<1>1. PICK e : e = PageEntry(t, f)
  OBVIOUS
<1>2. /\ DOMAIN tables' = DOMAIN tables
      /\ \A y \in DOMAIN tables : y # x => tables'[y] = tables[y]
      /\ DOMAIN tables'[x] = DOMAIN tables[x] /\ tables'[x][i] = e
      /\ \A j \in DOMAIN tables[x] : j # i => tables'[x][j] = tables[x][j]
  BY <1>1
<1>3. /\ HeapInv' /\ Bases' = Bases /\ avail' = avail /\ blocks' = blocks
      /\ UNCHANGED <<first_free, bitmap, objects, undefined>>
  BY HeapKept DEF Memory, heap, pools
<1>4. PoolInv'
  BY <1>3, PoolKept DEF Memory
<1>5. SpacesMade' = SpacesMade /\ spaces' = spaces
  BY DEF SpacesMade, SystemStays
<1>6. (RootShape(x) \/ MiddleShape(x) \/ LowShape(x))'
  <2>1. CASE x.level = 2 /\ t = 2
    <3>1. MiddleShape(x) /\ e = PageEntry(2, f)
      BY <1>1, <2>1, LevelShape DEF Memory
    <3>2. ASSUME NEW j \in DOMAIN tables'[x]
          PROVE  \/ tables'[x][j] = Nil
                 \/ \E y \in DOMAIN tables' : y.level = 1 /\ tables'[x][j] = Pointer(y)
                 \/ \E g \in Nat : tables'[x][j] = PageEntry(2, g)
      <4>1. CASE j = i
        BY <1>2, <3>1, <4>1
      <4>2. CASE j # i
        BY <1>2, <3>1, <4>2 DEF MiddleShape
      <4> QED BY <4>1, <4>2
    <3>3. MiddleShape(x)'
      BY <1>2, <1>3, <3>1, <3>2 DEF MiddleShape
    <3> QED BY <3>3
  <2>2. CASE x.level = 1 /\ t = 0
    <3>1. LowShape(x) /\ e = PageEntry(0, f)
      BY <1>1, <2>2, LevelShape DEF Memory
    <3>2. ASSUME NEW j \in DOMAIN tables'[x]
          PROVE  \/ tables'[x][j] = Nil
                 \/ \E g \in Nat : tables'[x][j] = PageEntry(0, g)
      <4>1. CASE j = i
        BY <1>2, <3>1, <4>1
      <4>2. CASE j # i
        BY <1>2, <3>1, <4>2 DEF LowShape
      <4> QED BY <4>1, <4>2
    <3>3. LowShape(x)'
      BY <1>2, <1>3, <3>1, <3>2 DEF LowShape
    <3> QED BY <3>3
  <2> QED BY <2>1, <2>2
<1>7. ShapeInv'
  <2>1. ASSUME NEW y \in DOMAIN tables, y # x
        PROVE  (RootShape(y) \/ MiddleShape(y) \/ LowShape(y))'
    BY <1>2, <1>3, <1>5, <2>1, TableKept DEF Memory, ShapeInv
  <2>2. ASSUME NEW s \in SpacesMade' PROVE Root(s) \in DOMAIN tables' /\ SpaceShape(spaces[s])'
    BY <1>2, <1>5, SpaceKept DEF Memory
  <2>3. ASSUME NEW y \in DOMAIN tables' PROVE (RootShape(y) \/ MiddleShape(y) \/ LowShape(y))'
    <3>1. CASE y = x
      BY <1>6, <3>1 DEF RootShape, MiddleShape, LowShape
    <3>2. CASE y # x
      BY <1>2, <2>1, <3>2
    <3> QED BY <3>1, <3>2
  <2>4. \E S : spaces' \in Seq(S)
    BY <1>5 DEF Memory, ShapeInv
  <2> QED BY <2>2, <2>3, <2>4 DEF ShapeInv, Root
<1>8. TreeInv'
  <2>1. ASSUME NEW q, NEW j, NEW p PROVE Hangs(q, j, p)' <=> Hangs(q, j, p)
    <3>1. CASE q = x /\ j = i
      <4>1. e # Pointer(p) /\ tables[x][i] # Pointer(p)
        BY <1>1, Kinds
      <4> QED BY <1>2, <3>1, <4>1 DEF Hangs
    <3>2. CASE ~(q = x /\ j = i)
      BY <1>2, <3>2 DEF Hangs
    <3> QED BY <3>1, <3>2
  <2>2. \A s, p : HangsInSpace(s, p)' <=> HangsInSpace(s, p)
    BY <1>5 DEF HangsInSpace
  <2> QED BY <1>2, <2>1, <2>2, TreeKept DEF Memory
<1>9. \A s \in SpacesMade : spaces[s].utcb # Nil => UtcbTable(s)' = UtcbTable(s)
  <2> SUFFICES ASSUME NEW s \in SpacesMade, spaces[s].utcb # Nil
               PROVE  UtcbTable(s)' = UtcbTable(s)
    OBVIOUS
  <2>1. PICK y \in DOMAIN tables : spaces[s].utcb = Pointer(y) /\ spaces[s].utcb.to = y
    BY UtcbTableIs DEF Memory
  <2>2. y # x
    BY <2>1 DEF HangsInSpace
  <2> QED BY <1>2, <1>5, <2>1, <2>2 DEF UtcbTable
<1>10. UtcbsStay
  BY <1>5, <1>9 DEF UtcbsStay, Memory, ShapeInv, SpacesMade
<1>11. Utcbs'
  <2>1. pc # "utcb_map" /\ pc' \notin Creating
    BY DEF Creating
  <2> QED BY <1>3, <1>10, <2>1, UtcbsKept DEF Memory, SystemStays
<1>12. OwnersInv'
  <2>1. ASSUME NEW o \in UtcbOwners' PROVE o \in UtcbOwners
    <3>1. PICK s, j : /\ s \in SpacesMade' /\ spaces'[s].utcb # Nil
                      /\ j \in DOMAIN UtcbTable(s)' /\ UtcbTable(s)'[j] # Nil
                      /\ o = <<"utcb", <<s, j>>, UtcbTable(s)'[j].frame>>
      BY UtcbOwnersThen
    <3>2. s \in SpacesMade /\ spaces[s].utcb # Nil /\ UtcbTable(s)' = UtcbTable(s)
      BY <1>5, <1>9, <3>1
    <3>3. UtcbUse(o, s, j)
      BY <3>1, <3>2 DEF UtcbUse
    <3> QED BY <3>3, UseOwns
  <2>2. /\ TableOwners' = TableOwners /\ ListOwners' = ListOwners
        /\ PoolOwners' = PoolOwners /\ KernelOwners' = KernelOwners /\ PageOwners' = PageOwners
    BY <1>2, <1>3, <1>5
       DEF TableOwners, ListOwners, PoolOwners, KernelOwners, PageOwners, SystemStays
  <2>3. Owners' \subseteq Owners
    BY <2>1, <2>2 DEF Owners
  <2> QED BY <1>3, <2>3, OwnersKept DEF Memory
<1> QED BY <1>3, <1>4, <1>7, <1>8, <1>11, <1>12 DEF Memory

\* A table that is not there yet has not been pointed to.
LEMMA NothingPoints ==
  ASSUME ShapeInv, NEW n, n \notin DOMAIN tables
  PROVE  (\A q, i : ~Hangs(q, i, n)) /\ \A s : ~HangsInSpace(s, n)
<1>1. ASSUME NEW q, NEW i, Hangs(q, i, n) PROVE FALSE
  <2>1. q \in DOMAIN tables /\ i \in DOMAIN tables[q] /\ tables[q][i] = Pointer(n)
    BY <1>1 DEF Hangs
  <2>2. RootShape(q) \/ MiddleShape(q) \/ LowShape(q)
    BY <2>1 DEF ShapeInv
  <2>3. \/ tables[q][i] = Nil
        \/ \E y \in DOMAIN tables : tables[q][i] = Pointer(y)
        \/ \E t, f : tables[q][i] = PageEntry(t, f)
    <3>1. CASE RootShape(q)
      BY <2>1, <3>1 DEF RootShape
    <3>2. CASE MiddleShape(q)
      BY <2>1, <3>2 DEF MiddleShape
    <3>3. CASE LowShape(q)
      BY <2>1, <3>3 DEF LowShape
    <3> QED BY <2>2, <3>1, <3>2, <3>3
  <2> QED BY <2>1, <2>3, Kinds
<1>2. ASSUME NEW s, HangsInSpace(s, n) PROVE FALSE
  <2>1. s \in SpacesMade /\ spaces[s].utcb = Pointer(n)
    BY <1>2 DEF HangsInSpace
  <2>2. spaces[s].utcb = Nil \/ \E y \in DOMAIN tables : spaces[s].utcb = Pointer(y)
    BY <2>1 DEF ShapeInv, SpaceShape
  <2> QED BY <2>1, <2>2, Kinds
<1> QED BY <1>1, <1>2

\* The table n, in block d, hangs in entry i of x since this step.
Hung(x, i, t, d, n) ==
  /\ n \notin DOMAIN tables /\ n.level = t - 1 /\ n.at = d /\ n = [level |-> t - 1, at |-> d]
  /\ DOMAIN tables' = DOMAIN tables \cup {n}
  /\ \A y \in DOMAIN tables : y # x => tables'[y] = tables[y]
  /\ DOMAIN tables'[x] = DOMAIN tables[x] /\ tables'[x][i] = Pointer(n)
  /\ \A j \in DOMAIN tables[x] : j # i => tables'[x][j] = tables[x][j]
  /\ DOMAIN tables'[n] = 0 .. Entries(t) - 1
  /\ \A j \in DOMAIN tables'[n] : tables'[n][j] = Nil

\* A new table, empty, hangs where it was put.
LEMMA WithTableIs ==
  ASSUME ShapeInv, NEW x \in DOMAIN tables, NEW i \in DOMAIN tables[x], NEW t \in {2, 3},
         NEW d, d \notin Bases, NEW n, n = Table(t, d), NEW pg, pg.table = x, pg.idx = i,
         tables' = WithTable(pg, t, d)
  PROVE  Hung(x, i, t, d, n)
<1>1. n = [level |-> t - 1, at |-> d] /\ n.level = t - 1 /\ n.at = d
  BY DEF Table
<1>2. n \notin DOMAIN tables
  <2> SUFFICES ASSUME n \in DOMAIN tables PROVE FALSE
    OBVIOUS
  <2>1. RootShape(n) \/ MiddleShape(n) \/ LowShape(n)
    BY DEF ShapeInv
  <2>2. n.level = 3 \/ n.at \in Bases
    BY <2>1, LevelShape
  <2> QED BY <1>1, <2>2
<1>3. PICK f, e : f = Empty(t) /\ e = Pointer(n)
  OBVIOUS
<1>4. DOMAIN f = 0 .. Entries(t) - 1 /\ \A j \in DOMAIN f : f[j] = Nil
  BY <1>3 DEF Empty
<1>5. tables' = [y \in DOMAIN tables \cup {n} |->
                   IF y = n THEN f
                   ELSE IF y = x THEN [tables[y] EXCEPT ![i] = e]
                   ELSE tables[y]]
  BY <1>3 DEF WithTable, Pointer
<1>6. /\ tables'[n] = f /\ DOMAIN tables' = DOMAIN tables \cup {n}
      /\ \A y \in DOMAIN tables : y # x => tables'[y] = tables[y]
  BY <1>2, <1>5
<1>7. tables'[x] = [tables[x] EXCEPT ![i] = e]
  BY <1>2, <1>5
<1>8. /\ DOMAIN tables'[x] = DOMAIN tables[x] /\ tables'[x][i] = e
      /\ \A j \in DOMAIN tables[x] : j # i => tables'[x][j] = tables[x][j]
  BY <1>7
<1>9. DOMAIN tables'[n] = 0 .. Entries(t) - 1 /\ \A j \in DOMAIN tables'[n] : tables'[n][j] = Nil
  BY <1>4, <1>6
<1>10. tables'[x][i] = Pointer(n)
  BY <1>3, <1>8
<1> QED BY <1>1, <1>2, <1>6, <1>8, <1>9, <1>10 DEF Hung

\* A table made by the walk: shape, tree and uses stay.
LEMMA TableHung ==
  ASSUME Memory, Utcbs, NEW t \in {2, 3}, Bytes(TableBytes[t]), SystemStays,
         pc = "map", pc' = "map",
         NEW x \in DOMAIN tables, NEW i \in DOMAIN tables[x], x.level = t, tables[x][i] = Nil,
         NEW pg, pg.table = x, pg.idx = i, NEW d, d = Base, tables' = WithTable(pg, t, d)
  PROVE  Memory' /\ Utcbs'
<1>1. /\ HeapInv' /\ PoolInv' /\ d \notin Bases /\ d \in 1 .. Chunks
      /\ Bases' = Bases \cup {d} /\ avail' \subseteq avail
      /\ PoolOwners' = PoolOwners
  <2>1. TableBytes[t] \in Nat
    BY PageTableAssumption
  <2> QED BY <2>1, BytesTaken
<1>2. PICK n : n = Table(t, d)
  OBVIOUS
<1>3. /\ n \notin DOMAIN tables /\ n.level = t - 1 /\ n.at = d /\ n = [level |-> t - 1, at |-> d]
      /\ DOMAIN tables' = DOMAIN tables \cup {n}
      /\ \A y \in DOMAIN tables : y # x => tables'[y] = tables[y]
      /\ DOMAIN tables'[x] = DOMAIN tables[x] /\ tables'[x][i] = Pointer(n)
      /\ \A j \in DOMAIN tables[x] : j # i => tables'[x][j] = tables[x][j]
      /\ DOMAIN tables'[n] = 0 .. Entries(t) - 1
      /\ \A j \in DOMAIN tables'[n] : tables'[n][j] = Nil
  <2>1. ShapeInv /\ d \notin Bases
    BY <1>1 DEF Memory
  <2>2. Hung(x, i, t, d, n)
    BY <1>2, <2>1, WithTableIs
  <2> QED BY <2>2 DEF Hung
<1>4. SpacesMade' = SpacesMade /\ spaces' = spaces
  BY DEF SpacesMade, SystemStays
<1>5. ASSUME NEW y \in DOMAIN tables PROVE (RootShape(y) \/ MiddleShape(y) \/ LowShape(y))'
  <2>1. CASE y # x
    BY <1>1, <1>3, <1>4, <2>1, TableKept DEF Memory, ShapeInv
  <2>2. CASE y = x /\ t = 3
    <3>1. RootShape(x) /\ n.level = 2
      BY <1>3, <2>2, LevelShape DEF Memory
    <3>2. ASSUME NEW j \in DOMAIN tables'[x]
          PROVE  \/ tables'[x][j] = Nil
                 \/ \E z \in DOMAIN tables' : z.level = 2 /\ tables'[x][j] = Pointer(z)
      <4>1. CASE j = i
        BY <1>3, <3>1, <4>1
      <4>2. CASE j # i
        BY <1>3, <3>1, <4>2 DEF RootShape
      <4> QED BY <4>1, <4>2
    <3>3. (\E s \in SpacesMade' : x = Root(s)) /\ DOMAIN tables'[x] = 0 .. TableSize(3) - 1
      BY <1>3, <1>4, <3>1 DEF RootShape
    <3>4. RootShape(x)'
      BY <3>2, <3>3 DEF RootShape, Root
    <3> QED BY <2>2, <3>4 DEF RootShape
  <2>3. CASE y = x /\ t = 2
    <3>1. MiddleShape(x) /\ n.level = 1
      BY <1>3, <2>3, LevelShape DEF Memory
    <3>2. ASSUME NEW j \in DOMAIN tables'[x]
          PROVE  \/ tables'[x][j] = Nil
                 \/ \E z \in DOMAIN tables' : z.level = 1 /\ tables'[x][j] = Pointer(z)
                 \/ \E f \in Nat : tables'[x][j] = PageEntry(2, f)
      <4>1. CASE j = i
        BY <1>3, <3>1, <4>1
      <4>2. CASE j # i
        BY <1>3, <3>1, <4>2 DEF MiddleShape
      <4> QED BY <4>1, <4>2
    <3>3. /\ x = [level |-> 2, at |-> x.at] /\ x.at \in Bases'
          /\ DOMAIN tables'[x] = 0 .. TableSize(2) - 1
      BY <1>1, <1>3, <3>1 DEF MiddleShape
    <3>4. MiddleShape(x)'
      BY <3>2, <3>3 DEF MiddleShape
    <3> QED BY <2>3, <3>4 DEF MiddleShape
  <2> QED BY <2>1, <2>2, <2>3
<1>6. (RootShape(n) \/ MiddleShape(n) \/ LowShape(n))'
  <2>1. n.at \in Bases'
    BY <1>1, <1>3
  <2>2. CASE t = 3
    <3>1. n = [level |-> 2, at |-> n.at] /\ DOMAIN tables'[n] = 0 .. TableSize(2) - 1
      BY <1>3, <2>2 DEF Entries
    <3> QED BY <1>3, <2>1, <3>1 DEF MiddleShape
  <2>3. CASE t = 2
    <3>1. n = [level |-> 1, at |-> n.at] /\ DOMAIN tables'[n] = 0 .. Size[2] - 1
      BY <1>3, <2>3 DEF Entries
    <3> QED BY <1>3, <2>1, <3>1 DEF LowShape
  <2> QED BY <2>2, <2>3
<1>7. ShapeInv'
  <2>1. ASSUME NEW s \in SpacesMade' PROVE Root(s) \in DOMAIN tables' /\ SpaceShape(spaces[s])'
    BY <1>3, <1>4, SpaceKept DEF Memory
  <2>2. ASSUME NEW y \in DOMAIN tables' PROVE (RootShape(y) \/ MiddleShape(y) \/ LowShape(y))'
    <3>1. CASE y = n
      BY <1>6, <3>1 DEF RootShape, MiddleShape, LowShape
    <3>2. CASE y # n
      BY <1>3, <1>5, <3>2
    <3> QED BY <3>1, <3>2
  <2>3. \E S : spaces' \in Seq(S)
    BY <1>4 DEF Memory, ShapeInv
  <2> QED BY <2>1, <2>2, <2>3 DEF ShapeInv, Root
<1>8. TreeInv'
  <2>1. (\A q, j : ~Hangs(q, j, n)) /\ \A s : ~HangsInSpace(s, n)
    BY <1>3, NothingPoints DEF Memory
  <2>2. ASSUME NEW r, NEW j, NEW p
        PROVE  Hangs(r, j, p)' <=> Hangs(r, j, p) \/ (r = x /\ j = i /\ p = n)
    <3>1. CASE r = x /\ j = i
      <4>1. Pointer(p) # Nil /\ (Pointer(n) = Pointer(p) <=> p = n)
        BY Kinds
      <4> QED BY <1>3, <3>1, <4>1 DEF Hangs
    <3>2. CASE r = n
      <4>1. Pointer(p) # Nil
        BY Kinds
      <4> QED BY Zenon, <1>3, <3>2, <4>1 DEF Hangs
    <3>3. CASE r # n /\ ~(r = x /\ j = i)
      BY <1>3, <3>3 DEF Hangs
    <3> QED BY <3>1, <3>2, <3>3
  <2>3. \A s, p : HangsInSpace(s, p)' <=> HangsInSpace(s, p)
    BY <1>4 DEF HangsInSpace
  <2>4. \A p \in DOMAIN tables' : p.level < 3 => p \in DOMAIN tables \/ p = n
    BY <1>3
  <2>5. TreeInv /\ n \notin DOMAIN tables
    BY <1>3 DEF Memory
  <2>6. \A r, j, p : Hangs(r, j, p)' <=> Hangs(r, j, p) \/ (r = x /\ j = i /\ p = n)
    BY <2>2
  <2> QED BY <2>1, <2>3, <2>4, <2>5, <2>6, TreeGrows
<1>9. \A s \in SpacesMade : spaces[s].utcb # Nil => UtcbTable(s)' = UtcbTable(s)
  <2> SUFFICES ASSUME NEW s \in SpacesMade, spaces[s].utcb # Nil
               PROVE  UtcbTable(s)' = UtcbTable(s)
    OBVIOUS
  <2>1. PICK y \in DOMAIN tables : y.level = 1 /\ spaces[s].utcb.to = y
    BY UtcbTableIs DEF Memory
  <2>2. y # x
    BY <2>1
  <2> QED BY <1>3, <1>4, <2>1, <2>2 DEF UtcbTable
<1>10. UtcbsStay
  BY <1>4, <1>9 DEF UtcbsStay, Memory, ShapeInv, SpacesMade
<1>11. Utcbs'
  <2>1. pc # "utcb_map" /\ pc' \notin Creating
    BY DEF Creating
  <2> QED BY <1>1, <1>10, <2>1, UtcbsKept DEF Memory, SystemStays
<1>12. OwnersInv'
  <2>1. ASSUME NEW o \in UtcbOwners' PROVE o \in UtcbOwners
    <3>1. PICK s, j : /\ s \in SpacesMade' /\ spaces'[s].utcb # Nil
                      /\ j \in DOMAIN UtcbTable(s)' /\ UtcbTable(s)'[j] # Nil
                      /\ o = <<"utcb", <<s, j>>, UtcbTable(s)'[j].frame>>
      BY UtcbOwnersThen
    <3>2. s \in SpacesMade /\ spaces[s].utcb # Nil /\ UtcbTable(s)' = UtcbTable(s)
      BY <1>4, <1>9, <3>1
    <3>3. UtcbUse(o, s, j)
      BY <3>1, <3>2 DEF UtcbUse
    <3> QED BY <3>3, UseOwns
  <2>2. ASSUME NEW o \in TableOwners' PROVE o \in TableOwners \/ o = <<"table", n, d>>
    BY <1>3 DEF TableOwners
  <2>3. /\ ListOwners' = ListOwners /\ KernelOwners' = KernelOwners /\ PageOwners' = PageOwners
    BY <1>4 DEF ListOwners, KernelOwners, PageOwners, SystemStays
  <2>4. Owners' \subseteq Owners \cup {<<"table", n, d>>}
    BY <1>1, <2>1, <2>2, <2>3 DEF Owners
  <2> QED BY <1>1, <2>4, OwnerGained DEF Memory
<1> QED BY <1>1, <1>7, <1>8, <1>11, <1>12 DEF Memory
-----------------------------------------------------------------------------
(* map_fpage begins, and is done.                                            *)

TurnRest ==
  /\ pc = "map" /\ pc' = "map" /\ UNCHANGED pools /\ SystemStays

\* A turn that writes no table.
LEMMA TablesLeft ==
  ASSUME BInv, TurnRest, UNCHANGED heap, tables' = tables
  PROVE  Memory' /\ Utcbs'
<1>1. /\ UNCHANGED <<page, kernel, spaces, threads, cpd, zeroed>>
      /\ UNCHANGED <<first_free, bitmap, objects, undefined>>
  BY DEF TurnRest, SystemStays, pools
<1>2. SameSpaces /\ ListOwners' = ListOwners
  BY <1>1, SpacesUnchanged DEF BInv, Memory, ListOwners, SpacesMade
<1>3. HeapInv' /\ Bases' = Bases /\ OwnersInv' /\ avail' \subseteq avail /\ blocks' = blocks
  BY <1>1, <1>2, NothingAllocated
<1>4. PoolInv'
  BY <1>1, <1>3, PoolKept DEF BInv, Memory
<1>5. pc # "utcb_map" /\ pc' \notin Creating
  BY DEF TurnRest, Creating
<1> QED BY <1>1, <1>2, <1>3, <1>4, <1>5, QuietStep

\* The page size chosen for a region fits it.
LEMMA BiggestIs ==
  ASSUME NEW r, r.v \in Nat, r.p \in Nat, r.n \in Nat \ {0}
  PROVE  /\ Biggest(r) \in 0 .. 2 /\ Size[Biggest(r)] <= r.n
         /\ r.v % Size[Biggest(r)] = 0 /\ r.p % Size[Biggest(r)] = 0
<1> DEFINE P(t) == /\ Size[t] <= r.n /\ r.v % Size[t] = 0 /\ r.p % Size[t] = 0
                   /\ \A u \in t + 1 .. 2 :
                        r.n < Size[u] \/ r.v % Size[u] # 0 \/ r.p % Size[u] # 0
<1>1. Size[0] = 1 /\ Size[1] \in Nat /\ Size[2] \in Nat
  <2>1. 1 \in 0 .. 4 /\ 2 \in 0 .. 4
    OBVIOUS
  <2> QED BY <2>1, SizeFacts
<1>2. r.v % 1 = 0 /\ r.p % 1 = 0
  <2>1. 1 \in Nat \ {0}
    OBVIOUS
  <2>2. r.v % 1 \in 0 .. 1 - 1 /\ r.p % 1 \in 0 .. 1 - 1
    BY <2>1, Division
  <2> QED BY <2>2
<1>3. \E t \in 0 .. 2 : P(t)
  <2>1. CASE Size[2] <= r.n /\ r.v % Size[2] = 0 /\ r.p % Size[2] = 0
    <3>1. P(2) /\ 2 \in 0 .. 2
      BY <2>1
    <3> QED BY <3>1
  <2>2. CASE /\ ~(Size[2] <= r.n /\ r.v % Size[2] = 0 /\ r.p % Size[2] = 0)
             /\ Size[1] <= r.n /\ r.v % Size[1] = 0 /\ r.p % Size[1] = 0
    <3>1. r.n < Size[2] \/ r.v % Size[2] # 0 \/ r.p % Size[2] # 0
      BY <1>1, <2>2
    <3>2. \A u \in 1 + 1 .. 2 : u = 2
      OBVIOUS
    <3>3. P(1) /\ 1 \in 0 .. 2
      BY <2>2, <3>1, <3>2
    <3> QED BY <3>3
  <2>3. CASE /\ ~(Size[2] <= r.n /\ r.v % Size[2] = 0 /\ r.p % Size[2] = 0)
             /\ ~(Size[1] <= r.n /\ r.v % Size[1] = 0 /\ r.p % Size[1] = 0)
    <3>1. /\ r.n < Size[2] \/ r.v % Size[2] # 0 \/ r.p % Size[2] # 0
          /\ r.n < Size[1] \/ r.v % Size[1] # 0 \/ r.p % Size[1] # 0
      BY <1>1, <2>3
    <3>2. \A u \in 0 + 1 .. 2 : u = 1 \/ u = 2
      OBVIOUS
    <3>3. P(0) /\ 0 \in 0 .. 2
      BY <1>1, <1>2, <3>1, <3>2
    <3> QED BY <3>3
  <2> QED BY <2>1, <2>2, <2>3
<1>4. PICK t : t = Biggest(r)
  OBVIOUS
<1>5. t = CHOOSE u \in 0 .. 2 : P(u)
  BY <1>4 DEF Biggest
<1>6. t \in 0 .. 2 /\ P(t)
  BY <1>3, <1>5
<1> QED BY <1>4, <1>6

\* A walk begins at the region, with a page size that fits.
LEMMA MapFpageWalks ==
  ASSUME BInv, TurnRest, NEW guess \in Sizes, MapFpage(guess)
  PROVE  Walks' /\ walk'.on /\ walk'.pages = Size[Biggest(region)]
<1>1. PICK t, v, p, s : t = Biggest(region) /\ v = region.v /\ p = region.p /\ s = region.space
  OBVIOUS
<1>2. PICK w : w = walk'
  OBVIOUS
<1>3. /\ pc = "map" /\ region.n > 0 /\ UNCHANGED <<tables, region>>
      /\ w = [on |-> TRUE, pgsize |-> guess, size |-> 3,
              num |-> IF guess <= t THEN Size[t] \div Size[guess] ELSE 0,
              addr |-> v, phys |-> p, pages |-> Size[t],
              at |-> [table |-> Root(s), idx |-> Index(3, v)],
              r_tpg |-> [u \in 0 .. 2 |-> Nil], r_tnum |-> [u \in 0 .. 2 |-> 0]]
  BY <1>1, <1>2 DEF MapFpage, TurnRest
<1>4. /\ DOMAIN w = Locals /\ w.on /\ w.pgsize = guess /\ w.size = 3
      /\ w.num = IF guess <= t THEN Size[t] \div Size[guess] ELSE 0
      /\ w.addr = v /\ w.phys = p /\ w.pages = Size[t]
      /\ w.at = [table |-> Root(s), idx |-> Index(3, v)]
      /\ w.r_tpg = [u \in 0 .. 2 |-> Nil] /\ w.r_tnum = [u \in 0 .. 2 |-> 0]
  BY <1>3 DEF Locals
<1>5. /\ v \in Nat /\ p \in Nat /\ region.n \in Nat \ {0}
  BY <1>1, <1>3 DEF BInv, Walks, RegionInv
<1>6. t \in 0 .. 2 /\ Size[t] <= region.n /\ v % Size[t] = 0 /\ p % Size[t] = 0
  BY <1>1, <1>5, BiggestIs
<1>7. /\ Size[t] \in Nat \ {0}
      /\ guess <= t => /\ guess \in 0 .. 2 /\ Size[t] % Size[guess] = 0
                       /\ Size[t] \div Size[guess] \in Nat
                       /\ (Size[t] \div Size[guess]) * Size[guess] = Size[t]
  <2>1. t \in 0 .. 4 /\ guess \in 0 .. 4
    BY <1>6 DEF Sizes
  <2>2. Size[t] \in Nat \ {0} /\ Size[guess] \in Nat \ {0}
    BY <2>1, SizeFacts
  <2>3. ASSUME guess <= t
        PROVE  /\ guess \in 0 .. 2 /\ Size[t] % Size[guess] = 0
               /\ Size[t] \div Size[guess] \in Nat
               /\ (Size[t] \div Size[guess]) * Size[guess] = Size[t]
    <3>1. guess \in 0 .. t /\ guess \in 0 .. 2
      BY <1>6, <2>1, <2>3
    <3>2. PICK a, b : a = Size[t] /\ b = Size[guess]
      OBVIOUS
    <3>3. a % b = 0
      BY <1>6, <3>1, <3>2, SizesDivide
    <3>4. a \div b \in Nat /\ a = b * (a \div b) + (a % b)
      BY Zenon, <2>2, <3>2, Division
    <3>5. (a \div b) * b = a
      BY <2>2, <3>2, <3>3, <3>4
    <3> QED BY <3>1, <3>2, <3>3, <3>4, <3>5
  <2> QED BY <2>2, <2>3
<1>8. RegionInv'
  BY <1>3 DEF BInv, Walks, RegionInv, TurnRest, SystemStays, Current
<1>9. PagesInv'
  <2>1. w.num \in Nat /\ w.pages \in 1 .. region.n
    BY <1>4, <1>5, <1>6, <1>7
  <2> QED BY <1>1, <1>2, <1>3, <1>4, <1>6, <2>1 DEF PagesInv
<1>10. WalkInv'
  <2> SUFFICES ASSUME w.num # 0 PROVE WalkInv'
    BY <1>2 DEF WalkInv
  <2>1. guess <= t
    BY <1>4
  <2>2. /\ w.pgsize \in 0 .. 2 /\ w.size = 3 /\ w.size \in 0 .. 3
        /\ DOMAIN w.r_tpg = 0 .. 2 /\ w.r_tnum \in [0 .. 2 -> Nat]
        /\ w.pages % Size[w.pgsize] = 0
    BY <1>4, <1>7, <2>1
  <2>3. /\ w.addr \in v .. v + w.pages - 1 /\ w.phys = p + (w.addr - v)
        /\ w.addr = v
    BY <1>4, <1>5, <1>7
  <2>4. w.num * Size[w.pgsize] = w.pages
    BY <1>4, <1>7, <2>1
  <2>5. AtTop(walk.at)'
    BY <1>1, <1>2, <1>3, <1>4 DEF AtTop
  <2>6. /\ region' = region /\ walk' = w /\ region.v = v /\ region.p = p
    BY <1>1, <1>2, <1>3
  <2>7. ~(w.size = 2) /\ ~(w.size = 1) /\ ~(w.size = 0) /\ ~(w.size < 2)
    BY <2>2
  <2> QED BY <2>2, <2>3, <2>4, <2>5, <2>6, <2>7 DEF WalkInv, WalkNumbers, WalkPlaces
<1>11. SavedInv'
  BY DEF SavedInv, TurnRest
<1> QED BY <1>1, <1>2, <1>4, <1>8, <1>9, <1>10, <1>11 DEF Walks

\* A walk ends: the region begins after its pages.
LEMMA FpageDoneWalks ==
  ASSUME BInv, TurnRest, FpageDone
  PROVE  Walks'
<1>1. PICK k : k = walk.pages
  OBVIOUS
<1>2. /\ walk.on /\ walk' = NoWalk
      /\ region' = [region EXCEPT !.v = @ + k, !.p = @ + k, !.n = @ - k]
  BY <1>1 DEF FpageDone
<1>3. /\ region.n # 0 /\ pc = "map"
      /\ DOMAIN region = {"space", "v", "p", "n"}
      /\ region.space = Current /\ spaces # <<>>
      /\ region.v \in Nat /\ region.p \in Nat /\ region.n \in Nat
      /\ region.v + region.n <= Size[4] /\ k \in 1 .. region.n
  BY <1>1, <1>2 DEF BInv, Walks, RegionInv, PagesInv
<1>4. /\ DOMAIN region' = {"space", "v", "p", "n"} /\ region'.space = region.space
      /\ region'.v = region.v + k /\ region'.p = region.p + k /\ region'.n = region.n - k
  BY <1>2, <1>3
<1>5. ~walk'.on
  BY <1>2 DEF NoWalk
<1>6. Size[4] \in Nat
  <2>1. 4 \in 0 .. 4
    OBVIOUS
  <2> QED BY <2>1, SizeFacts
<1>7. RegionInv'
  <2>1. PICK v, p, n : v = region.v /\ p = region.p /\ n = region.n
    OBVIOUS
  <2>2. v \in Nat /\ p \in Nat /\ n \in Nat /\ v + n <= Size[4] /\ k \in 1 .. n
    BY <1>3, <2>1
  <2>3. v + k \in Nat /\ p + k \in Nat /\ n - k \in Nat /\ (v + k) + (n - k) <= Size[4]
    BY <1>6, <2>2
  <2>4. region'.v = v + k /\ region'.p = p + k /\ region'.n = n - k
    BY <1>4, <2>1
  <2>5. /\ region'.v \in Nat /\ region'.p \in Nat /\ region'.n \in Nat
        /\ region'.v + region'.n <= Size[4]
    BY <2>3, <2>4
  <2>6. spaces' = spaces /\ Current' = Current
    BY DEF TurnRest, SystemStays, Current
  <2> QED BY Zenon, <1>3, <1>4, <1>5, <2>5, <2>6 DEF RegionInv
<1> QED BY <1>5, <1>7 DEF Walks, PagesInv, WalkInv, SavedInv, TurnRest
-----------------------------------------------------------------------------
(* map_next_level: the walk goes down a level, or fails.                     *)

SameLocals(u, w) ==
  /\ DOMAIN u = Locals
  /\ u.on = w.on /\ u.pgsize = w.pgsize /\ u.addr = w.addr /\ u.phys = w.phys /\ u.pages = w.pages

\* n entries on in a table.
LEMMA AfterIs ==
  ASSUME NEW pg, NEW x, NEW i, pg = [table |-> x, idx |-> i], NEW t, NEW n
  PROVE  After(pg, t, n) = [table |-> x, idx |-> i + n * Stride(t)]
<1>1. PICK j : j = i + n * Stride(t)
  OBVIOUS
<1>2. pg.idx = i
  OBVIOUS
<1>3. After(pg, t, n) = [pg EXCEPT !.idx = j]
  BY <1>1, <1>2 DEF After
<1>4. pg \in [table : {x}, idx : {i}]
  OBVIOUS
<1>5. [pg EXCEPT !.idx = j] = [table |-> x, idx |-> j]
  BY <1>4
<1> QED BY <1>1, <1>3, <1>5

\* What a turn remembers of the level above.
LEMMA RememberedIs ==
  ASSUME NEW w, DOMAIN w = Locals, NEW u, u = Remembered(w)
  PROVE  /\ SameLocals(u, w) /\ u.size = w.size - 1 /\ u.num = w.num /\ u.at = w.at
         /\ u.r_tpg = [w.r_tpg EXCEPT ![w.size - 1] = After(w.at, w.size, 1)]
         /\ u.r_tnum = [w.r_tnum EXCEPT ![w.size - 1] = w.num - 1]
<1>1. PICK e, k : e = After(w.at, w.size, 1) /\ k = w.num - 1
  OBVIOUS
<1>2. u = [w EXCEPT !.size = @ - 1, !.r_tpg[w.size - 1] = e, !.r_tnum[w.size - 1] = k]
  BY <1>1 DEF Remembered
<1>3. /\ u.size = w.size - 1 /\ u.num = w.num /\ u.at = w.at
      /\ u.r_tpg = [w.r_tpg EXCEPT ![w.size - 1] = e]
      /\ u.r_tnum = [w.r_tnum EXCEPT ![w.size - 1] = k]
  BY <1>2 DEF Locals
<1>4. SameLocals(u, w)
  BY <1>2 DEF Locals, SameLocals
<1> QED BY <1>1, <1>3, <1>4

\* What it takes to the level below.
LEMMA BelowIs ==
  ASSUME NEW w, DOMAIN w = Locals, NEW pg, NEW u, u = Below(w, pg)
  PROVE  /\ SameLocals(u, w) /\ u.size = w.size /\ u.num = w.num
         /\ u.r_tpg = w.r_tpg /\ u.r_tnum = w.r_tnum
         /\ u.at = After(pg, w.size, Index(w.size, w.addr))
<1>1. PICK e : e = After(pg, w.size, Index(w.size, w.addr))
  OBVIOUS
<1>2. u = [w EXCEPT !.at = e]
  BY <1>1 DEF Below
<1>3. /\ u.size = w.size /\ u.num = w.num /\ u.at = e
      /\ u.r_tpg = w.r_tpg /\ u.r_tnum = w.r_tnum
  BY <1>2 DEF Locals
<1>4. SameLocals(u, w)
  BY <1>2 DEF Locals, SameLocals
<1> QED BY <1>1, <1>3, <1>4

\* What the remembered levels hold stays what it was.
LEMMA StillRemembered ==
  ASSUME NEW f, DOMAIN f = 0 .. 2, NEW g \in [0 .. 2 -> Nat], NEW i \in 0 .. 2, NEW e, NEW k \in Nat
  PROVE  /\ DOMAIN [f EXCEPT ![i] = e] = 0 .. 2 /\ [f EXCEPT ![i] = e][i] = e
         /\ \A j \in 0 .. 2 : j # i => [f EXCEPT ![i] = e][j] = f[j]
         /\ [g EXCEPT ![i] = k] \in [0 .. 2 -> Nat] /\ [g EXCEPT ![i] = k][i] = k
         /\ \A j \in 0 .. 2 : j # i => [g EXCEPT ![i] = k][j] = g[j]
<1>1. DOMAIN g = 0 .. 2
  OBVIOUS
<1>2. /\ [g EXCEPT ![i] = k] \in [0 .. 2 -> Nat] /\ [g EXCEPT ![i] = k][i] = k
      /\ \A j \in 0 .. 2 : j # i => [g EXCEPT ![i] = k][j] = g[j]
  OBVIOUS
<1>3. /\ DOMAIN [f EXCEPT ![i] = e] = 0 .. 2 /\ [f EXCEPT ![i] = e][i] = e
      /\ \A j \in 0 .. 2 : j # i => [f EXCEPT ![i] = e][j] = f[j]
  OBVIOUS
<1> QED BY <1>2, <1>3

\* A page as large as a section is the section.
LEMMA WholeSection ==
  ASSUME Walking, walk.num # 0, walk.num * Size[2] = walk.pages
  PROVE  walk.num = 1 /\ walk.pages = Size[2]
<1>1. PICK n, p, s : n = walk.num /\ p = walk.pages /\ s = Size[2]
  OBVIOUS
<1>2. n \in Nat /\ n # 0 /\ p \in Nat \ {0} /\ s % p = 0 /\ n * s = p
  BY <1>1, PagesInTable DEF Walking, PagesInv
<1>3. s \in Nat \ {0}
  <2>1. 2 \in 0 .. 4
    OBVIOUS
  <2> QED BY <1>1, <2>1, SizeFacts
<1>4. p <= s
  <2>1. s \div p \in Nat /\ s = p * (s \div p) + (s % p)
    BY <1>2, <1>3, Division
  <2>2. PICK k : k = s \div p
    OBVIOUS
  <2>3. k \in Nat /\ s = p * k
    BY <1>2, <2>1, <2>2
  <2>4. k # 0
    BY <1>2, <1>3, <2>3
  <2>5. p * 0 + p <= p * k
    BY <1>2, <2>3, <2>4, Between
  <2> QED BY <1>2, <2>3, <2>5
<1>5. n = 1
  <2> SUFFICES ASSUME 1 < n PROVE FALSE
    BY <1>2
  <2>1. s * 1 + s <= s * n
    BY <1>2, <1>3, Between
  <2>2. s * n = n * s
    BY <1>2, <1>3
  <2> QED BY <1>2, <1>3, <1>4, <2>1, <2>2
<1> QED BY <1>1, <1>2, <1>3, <1>5

\* Where a walk with the locals of this one but for the level comes to be.
LowerPlace ==
  /\ walk.size = 3 => AtMiddle(walk.at)'
  /\ walk.size = 2 => AtLow(walk.at, walk.addr - (walk.addr % Size[1]))'
  /\ walk.size = 1 => AtLow(walk.at, walk.addr)'

\* A level down, the walk is where it should be.
LEMMA DescendedWalk ==
  ASSUME Walking, WalkInv, walk.num # 0, walk.size > walk.pgsize,
         SameLocals(walk', walk), walk'.size = walk.size - 1, walk'.num = walk.num,
         walk'.r_tpg = [walk.r_tpg EXCEPT ![walk.size - 1] = After(walk.at, walk.size, 1)],
         walk'.r_tnum = [walk.r_tnum EXCEPT ![walk.size - 1] = walk.num - 1],
         region' = region, LowerPlace
  PROVE  WalkInv' /\ PagesInv'
<1>1. PICK u : u = walk'
  OBVIOUS
<1>2. PICK z, n, v, p, g : /\ z = walk.size /\ n = walk.num /\ v = region.v /\ p = walk.pages
                           /\ g = walk.pgsize
  OBVIOUS
<1>3. /\ g \in 0 .. 2 /\ z \in 1 .. 3 /\ z > g /\ n \in Nat \ {0}
      /\ DOMAIN walk.r_tpg = 0 .. 2 /\ walk.r_tnum \in [0 .. 2 -> Nat]
      /\ p % Size[g] = 0 /\ walk.addr \in v .. v + p - 1
      /\ walk.phys = region.p + (walk.addr - v)
      /\ walk.addr = v /\ n * Size[g] = p
  BY <1>2 DEF WalkInv, WalkNumbers, Walking, PagesInv
<1>4. /\ v \in Nat /\ p \in Nat \ {0} /\ v % p = 0 /\ Size[1] \in Nat \ {0} /\ Size[0] = 1
  <2>1. v \in Nat
    BY <1>2, TopPlace
  <2>2. p \in Nat \ {0} /\ v % p = 0
    BY <1>2, PagesInTable DEF Walking, PagesInv
  <2>3. Size[1] \in Nat \ {0} /\ Size[0] = 1
    <3>1. 1 \in 0 .. 4
      OBVIOUS
    <3> QED BY <3>1, SizeFacts
  <2> QED BY <2>1, <2>2, <2>3
<1>5. /\ DOMAIN u = Locals /\ u.on /\ u.pgsize = g /\ u.addr = v /\ u.phys = walk.phys
      /\ u.pages = p /\ u.size = z - 1 /\ u.num = n
  BY Zenon, <1>1, <1>2, <1>3 DEF SameLocals, Walking
<1>6. /\ DOMAIN u.r_tpg = 0 .. 2 /\ u.r_tnum \in [0 .. 2 -> Nat]
  <2>1. PICK e, k : e = After(walk.at, walk.size, 1) /\ k = walk.num - 1
    OBVIOUS
  <2>2. z - 1 \in 0 .. 2 /\ k \in Nat
    BY <1>2, <1>3, <2>1
  <2>3. u.r_tpg = [walk.r_tpg EXCEPT ![z - 1] = e] /\ u.r_tnum = [walk.r_tnum EXCEPT ![z - 1] = k]
    BY <1>1, <1>2, <2>1
  <2> QED BY <1>3, <2>2, <2>3, StillRemembered
<1>7. PagesInv'
  BY <1>1, <1>2, <1>5 DEF PagesInv, Walking
<1>8. g = 2 => n = 1 /\ p = Size[2]
  BY <1>2, <1>3, WholeSection
<1>9. g = 1 => v % Size[1] = 0
  BY <1>3, <1>4, DividesThrough
<1>10. /\ u.size = 2 => /\ AtMiddle(walk.at)'
                        /\ g = 2 => u.num = 1 /\ u.addr = v /\ u.pages = Size[2]
       /\ u.size = 1 => /\ AtLow(walk.at, walk.addr - (walk.addr % Size[1]))'
                        /\ g # 0 => /\ u.addr % Size[1] = 0
                                    /\ u.addr + u.num * Size[1] = v + u.pages
       /\ u.size = 0 => AtLow(walk.at, walk.addr)' /\ g = 0 /\ u.addr + u.num = v + u.pages
  <2>1. CASE z = 3
    <3>1. AtMiddle(walk.at)' /\ u.size = 2
      BY <1>2, <1>5, <2>1 DEF LowerPlace
    <3> QED BY <1>5, <1>8, <3>1
  <2>2. CASE z = 2
    <3>1. AtLow(walk.at, walk.addr - (walk.addr % Size[1]))' /\ u.size = 1
      BY <1>2, <1>5, <2>2 DEF LowerPlace
    <3>2. g # 0 => u.addr % Size[1] = 0 /\ u.addr + u.num * Size[1] = v + u.pages
      BY <1>3, <1>5, <1>9, <2>2
    <3> QED BY <3>1, <3>2
  <2>3. CASE z = 1
    <3>1. AtLow(walk.at, walk.addr)' /\ u.size = 0
      BY <1>2, <1>5, <2>3 DEF LowerPlace
    <3>2. g = 0 /\ u.addr + u.num = v + u.pages
      BY <1>3, <1>4, <1>5, <2>3
    <3> QED BY <3>1, <3>2
  <2> QED BY <1>3, <2>1, <2>2, <2>3
<1>11. /\ u.size \in 0 .. 2 /\ u.size # 3
       /\ u.size < 2 => g # 2
  BY <1>3, <1>5
<1>12. u.size = 0 => RestBehind'
  BY <1>1, <1>2, <1>5, <1>10 DEF RestBehind
<1>13. region' = region /\ region.v = v
  BY <1>2
<1>14. /\ u.pgsize \in 0 .. 2 /\ u.size \in 0 .. 3 /\ u.size # 3
       /\ ~(u.size < 2 /\ u.pgsize = 2)
       /\ DOMAIN u.r_tpg = 0 .. 2 /\ u.r_tnum \in [0 .. 2 -> Nat]
  BY <1>3, <1>5, <1>6, <1>11
<1>15. /\ u.pages % Size[u.pgsize] = 0
       /\ u.addr \in v .. v + u.pages - 1
       /\ u.phys = region.p + (u.addr - v)
       /\ u.addr = v /\ u.num * Size[u.pgsize] = u.pages
  BY <1>3, <1>5
<1>16. /\ u.size = 2 => AtMiddle(walk.at)' /\ (u.pgsize = 2 => u.num = 1 /\ u.addr = v /\ u.pages = Size[2])
       /\ u.size = 1 => /\ AtLow(walk.at, walk.addr - (walk.addr % Size[1]))'
                        /\ u.pgsize # 0 => /\ u.addr % Size[1] = 0
                                           /\ u.addr + u.num * Size[1] = v + u.pages
       /\ u.size = 0 => AtLow(walk.at, walk.addr)' /\ RestBehind'
  BY <1>5, <1>10, <1>12
<1>17. WalkNumbers'
  <2>1. walk' = u /\ region'.v = v /\ region'.p = region.p
    BY <1>1, <1>13
  <2> QED BY Zenon, <1>14, <1>15, <2>1 DEF WalkNumbers
<1>18. WalkPlaces'
  BY <1>1, <1>13, <1>14, <1>16 DEF WalkPlaces
<1> QED BY <1>7, <1>17, <1>18 DEF WalkInv

\* The indexes of a page in the lower tables.
LEMMA LowIndexes ==
  ASSUME Walking, NEW a \in region.v .. region.v + walk.pages - 1
  PROVE  /\ Index(1, a) * Size[1] = (a - (a % Size[1])) - Section
         /\ Index(0, a) = a % Size[1] /\ a % Size[1] \in Nat /\ a % Size[1] \in 0 .. Size[1] - 1
         /\ a \in Nat /\ Section \in Nat
<1>1. a \in Nat /\ Section \in Nat /\ a % Size[2] = a - Section
  BY PagesInTable
<1>2. /\ a % Size[1] \in 0 .. Size[1] - 1
      /\ Index(1, a) * Size[1] = (a % Size[2]) - (a % Size[1])
      /\ Index(0, a) = a % Size[1]
  BY <1>1, LowIndex
<1>3. PICK k, r : k = Section /\ r = a % Size[1]
  OBVIOUS
<1>4. Size[1] \in Nat \ {0}
  <2>1. 1 \in 0 .. 4
    OBVIOUS
  <2> QED BY <2>1, SizeFacts
<1>5. r \in Nat
  BY <1>2, <1>3, <1>4
<1>6. (a - k) - r = (a - r) - k
  BY <1>1, <1>3, <1>5
<1> QED BY <1>1, <1>2, <1>3, <1>5, <1>6

\* The place below an entry of each level.
LEMMA LowerAt ==
  ASSUME Walking, WalkInv, walk.num # 0, region' = region, walk'.addr = walk.addr,
         walk.size \in {1, 2, 3} => Upper'.kind = "table",
         walk.size \in {1, 2} => Middle'.kind = "table",
         walk.size = 3 =>
           walk'.at = After([table |-> Upper'.to, idx |-> 0], 2, Index(2, walk.addr)),
         walk.size = 2 =>
           walk'.at = After([table |-> Middle'.to, idx |-> 0], 1, Index(1, walk.addr)),
         walk.size = 1 =>
           walk'.at = After(walk.at, 0, Index(0, walk.addr)) /\ Middle'.to = Middle.to
  PROVE  LowerPlace
<1>1. PICK a, k, v, b : a = walk.addr /\ k = Section /\ v = region.v /\ b = walk'.at
  OBVIOUS
<1>2. a \in v .. v + walk.pages - 1 /\ (walk.size = 3 => a = v)
  BY <1>1 DEF WalkInv, WalkNumbers, Walking, PagesInv
<1>3. /\ Index(1, a) * Size[1] = (a - (a % Size[1])) - k
      /\ Index(0, a) = a % Size[1] /\ a % Size[1] \in Nat
      /\ a \in Nat /\ k \in Nat
  BY <1>1, <1>2, LowIndexes
<1>4. Section' = k /\ region'.v = v /\ walk'.addr = a /\ walk'.at = b
  BY <1>1 DEF Section
<1>5. ASSUME walk.size = 3 PROVE AtMiddle(walk.at)'
  <2>1. PICK x : x = Upper'.to
    OBVIOUS
  <2>2. b = [table |-> x, idx |-> 0 + Index(2, a) * Stride(2)]
    BY <1>1, <1>5, <2>1, AfterIs
  <2>3. Index(2, a) \in Nat
    <3>1. 2 \in 0 .. 3 /\ TableSize(2) \in Nat
      BY SizeFacts
    <3> QED BY <1>3, <3>1, IndexRange
  <2>4. 0 + Index(2, a) * Stride(2) = Index(2, a)
    BY <2>3 DEF Stride
  <2>5. a = v
    BY <1>2, <1>5
  <2> QED BY <1>4, <1>5, <2>1, <2>2, <2>4, <2>5 DEF AtMiddle
<1>6. ASSUME walk.size = 2 PROVE AtLow(walk.at, walk.addr - (walk.addr % Size[1]))'
  <2>1. PICK x : x = Middle'.to
    OBVIOUS
  <2>2. b = [table |-> x, idx |-> 0 + Index(1, a) * Stride(1)]
    BY <1>1, <1>6, <2>1, AfterIs
  <2>3. 0 + Index(1, a) * Stride(1) = (a - (a % Size[1])) - k
    BY <1>3 DEF Stride
  <2> QED BY <1>4, <1>6, <2>1, <2>2, <2>3 DEF AtLow
<1>7. ASSUME walk.size = 1 PROVE AtLow(walk.at, walk.addr)'
  <2>1. PICK x : x = Middle.to
    OBVIOUS
  <2>2. AtLow(walk.at, walk.addr - (walk.addr % Size[1]))
    BY <1>7 DEF WalkInv, WalkPlaces, Walking
  <2>3. walk.at = [table |-> x, idx |-> (a - (a % Size[1])) - k]
    BY <1>1, <2>1, <2>2 DEF AtLow
  <2>4. PICK i : i = (a - (a % Size[1])) - k
    OBVIOUS
  <2>5. b = [table |-> x, idx |-> i + Index(0, a) * Stride(0)]
    BY <1>1, <1>7, <2>3, <2>4, AfterIs
  <2>6. PICK r : r = a % Size[1]
    OBVIOUS
  <2>7. i + Index(0, a) * Stride(0) = a - k
    <3>1. Stride(0) = 1
      BY DEF Stride
    <3>2. r \in Nat /\ i = (a - r) - k /\ Index(0, a) = r
      BY <1>3, <2>4, <2>6
    <3> QED BY <1>3, <3>1, <3>2
  <2> QED BY <1>4, <1>7, <2>1, <2>5, <2>7 DEF AtLow
<1> QED BY <1>5, <1>6, <1>7 DEF LowerPlace

\* What the entry the walk is at says, by its level.
LEMMA EntryAt ==
  ASSUME Walking, WalkInv, walk.num # 0
  PROVE  /\ walk.size = 3 => /\ walk.at = [table |-> Root(region.space), idx |-> Index(3, region.v)]
                             /\ Entry(walk.at) = Upper
         /\ walk.size = 2 => /\ walk.at = [table |-> Upper.to, idx |-> Index(2, region.v)]
                             /\ Upper.kind = "table" /\ Entry(walk.at) = Middle
         /\ walk.size \in {0, 1} => /\ Upper.kind = "table" /\ Middle.kind = "table"
                                    /\ walk.at.table = Middle.to
                                    /\ walk.at.idx \in 0 .. Size[2] - 1
                                    /\ ~IsPage(Entry(walk.at), 1) /\ Entry(walk.at).kind # "table"
<1>1. walk.size = 3 => AtTop(walk.at)
  BY DEF WalkInv, WalkPlaces, Walking
<1>2. walk.size = 2 => AtMiddle(walk.at)
  BY DEF WalkInv, WalkPlaces, Walking
<1>3. ASSUME walk.size \in {0, 1}
      PROVE  /\ Upper.kind = "table" /\ Middle.kind = "table"
             /\ walk.at.table = Middle.to
             /\ walk.at.idx \in 0 .. Size[2] - 1
             /\ ~IsPage(Entry(walk.at), 1) /\ Entry(walk.at).kind # "table"
  <2>1. PICK a, k, r, x : a = walk.addr /\ k = Section /\ r = a % Size[1] /\ x = Middle.to
    OBVIOUS
  <2>2. /\ a \in region.v .. region.v + walk.pages - 1
        /\ AtLow(walk.at, a) \/ AtLow(walk.at, a - r)
    BY <1>3, <2>1 DEF WalkInv, WalkNumbers, WalkPlaces, Walking
  <2>3. /\ a \in Nat /\ k \in Nat /\ a - k \in 0 .. Size[2] - 1
        /\ a % Size[2] = a - k
    BY <2>1, <2>2, PagesInTable
  <2>4. r \in Nat /\ Index(1, a) * Size[1] = (a - r) - k
    BY <2>1, <2>2, LowIndexes
  <2>5. Index(1, a) * Size[1] \in Nat
    <3>1. 1 \in 0 .. 3 /\ 1 \in 0 .. 4
      OBVIOUS
    <3>2. Size[1] \in Nat /\ TableSize(1) \in Nat /\ Index(1, a) \in 0 .. TableSize(1) - 1
      BY Zenon, <2>3, <3>1, SizeFacts, IndexRange
    <3> QED BY <3>2
  <2>6. PICK i : i = walk.at.idx
    OBVIOUS
  <2>7. /\ Upper.kind = "table" /\ Middle.kind = "table" /\ walk.at.table = x
        /\ i = a - k \/ i = (a - r) - k
    BY <2>1, <2>2, <2>6 DEF AtLow
  <2>8. i \in 0 .. Size[2] - 1
    <3>1. PICK j : j = (a - r) - k
      OBVIOUS
    <3>2. j \in Nat /\ j <= a - k
      BY <2>3, <2>4, <2>5, <3>1
    <3>3. Size[2] \in Nat
      <4>1. 2 \in 0 .. 4
        OBVIOUS
      <4> QED BY <4>1, SizeFacts
    <3> QED BY <2>3, <2>7, <3>1, <3>2, <3>3
  <2>9. tables[x][i] = Nil \/ \E f \in Nat : tables[x][i] = PageEntry(0, f)
    BY <2>1, <2>7, <2>8, LowPlace
  <2>10. Entry(walk.at) = tables[x][i]
    BY <2>6, <2>7 DEF Entry
  <2>11. ~IsPage(Entry(walk.at), 1) /\ Entry(walk.at).kind # "table"
    BY <2>9, <2>10, Kinds DEF IsPage
  <2> QED BY <2>1, <2>6, <2>7, <2>8, <2>11
<1>4. ASSUME walk.size = 3
      PROVE  /\ walk.at = [table |-> Root(region.space), idx |-> Index(3, region.v)]
             /\ Entry(walk.at) = Upper
  BY <1>1, <1>4 DEF AtTop, Entry, Upper
<1>5. ASSUME walk.size = 2
      PROVE  /\ walk.at = [table |-> Upper.to, idx |-> Index(2, region.v)]
             /\ Upper.kind = "table" /\ Entry(walk.at) = Middle
  BY <1>2, <1>5 DEF AtMiddle, Entry, Middle
<1> QED BY <1>3, <1>4, <1>5

\* Down into a table that is there.
LEMMA DescendTable ==
  ASSUME Walking, WalkInv, walk.num # 0, walk.size > walk.pgsize,
         NEW w, w = Remembered(walk), IsSubtree(walk.at, walk.size),
         walk' = Below(w, Subtree(walk.at, walk.size)), UNCHANGED <<tables, region>>
  PROVE  WalkInv' /\ PagesInv'
<1>1. /\ SameLocals(w, walk) /\ w.size = walk.size - 1 /\ w.num = walk.num /\ w.at = walk.at
      /\ w.r_tpg = [walk.r_tpg EXCEPT ![walk.size - 1] = After(walk.at, walk.size, 1)]
      /\ w.r_tnum = [walk.r_tnum EXCEPT ![walk.size - 1] = walk.num - 1]
  BY RememberedIs DEF Walking, PagesInv
<1>2. PICK u, q : u = walk' /\ q = Subtree(walk.at, walk.size)
  OBVIOUS
<1>3. /\ SameLocals(u, w) /\ u.size = w.size /\ u.num = w.num
      /\ u.r_tpg = w.r_tpg /\ u.r_tnum = w.r_tnum
      /\ u.at = After(q, w.size, Index(w.size, w.addr))
  BY <1>1, <1>2, BelowIs DEF SameLocals
<1>4. SameLocals(walk', walk) /\ walk'.addr = walk.addr /\ w.addr = walk.addr
  BY <1>1, <1>2, <1>3 DEF SameLocals
<1>5. Upper' = Upper /\ Middle' = Middle
  BY DEF Upper, Middle, Root, Index
<1>6. walk.size \in 1 .. 3
  BY DEF WalkInv, WalkNumbers, Walking
<1>7. CASE walk.size = 3
  <2>1. /\ walk.at = [table |-> Root(region.space), idx |-> Index(3, region.v)]
        /\ Entry(walk.at) = Upper
    BY <1>7, EntryAt
  <2>2. Upper.kind = "table" /\ q = [table |-> Upper.to, idx |-> 0] /\ w.size = 2
    BY <1>1, <1>2, <1>7, <2>1 DEF IsSubtree, IsPage, Subtree
  <2>3. u.at = After([table |-> Upper'.to, idx |-> 0], 2, Index(2, walk.addr))
    BY <1>3, <1>4, <1>5, <2>2
  <2>4. LowerPlace
    BY <1>2, <1>4, <1>5, <1>7, <2>2, <2>3, LowerAt
  <2> QED BY <1>1, <1>2, <1>3, <1>4, <2>4, DescendedWalk
<1>8. CASE walk.size = 2
  <2>1. /\ walk.at = [table |-> Upper.to, idx |-> Index(2, region.v)]
        /\ Upper.kind = "table" /\ Entry(walk.at) = Middle
    BY <1>8, EntryAt
  <2>2. Middle.kind = "table" /\ q = [table |-> Middle.to, idx |-> 0] /\ w.size = 1
    BY <1>1, <1>2, <1>8, <2>1 DEF IsSubtree, IsPage, Subtree
  <2>3. u.at = After([table |-> Middle'.to, idx |-> 0], 1, Index(1, walk.addr))
    BY <1>3, <1>4, <1>5, <2>2
  <2>4. LowerPlace
    BY <1>2, <1>4, <1>5, <1>8, <2>1, <2>2, <2>3, LowerAt
  <2> QED BY <1>1, <1>2, <1>3, <1>4, <2>4, DescendedWalk
<1>9. CASE walk.size = 1
  <2>1. Upper.kind = "table" /\ Middle.kind = "table"
    BY <1>9, EntryAt
  <2>2. q = walk.at /\ w.size = 0
    BY <1>1, <1>2, <1>9 DEF Subtree
  <2>3. u.at = After(walk.at, 0, Index(0, walk.addr))
    BY <1>3, <1>4, <2>2
  <2>4. LowerPlace
    BY <1>2, <1>4, <1>5, <1>9, <2>1, <2>3, LowerAt
  <2> QED BY <1>1, <1>2, <1>3, <1>4, <2>4, DescendedWalk
<1> QED BY <1>6, <1>7, <1>8, <1>9

\* Down into a new one.
LEMMA DescendNewTable ==
  ASSUME Walking, WalkInv, walk.num # 0, walk.size > walk.pgsize, walk.size \in {2, 3},
         NEW w, w = Remembered(walk), NEW n,
         walk' = Below(w, [table |-> n, idx |-> 0]), region' = region,
         Hung(walk.at.table, walk.at.idx, walk.size, n.at, n)
  PROVE  WalkInv' /\ PagesInv'
<1>1. /\ SameLocals(w, walk) /\ w.size = walk.size - 1 /\ w.num = walk.num /\ w.at = walk.at
      /\ w.r_tpg = [walk.r_tpg EXCEPT ![walk.size - 1] = After(walk.at, walk.size, 1)]
      /\ w.r_tnum = [walk.r_tnum EXCEPT ![walk.size - 1] = walk.num - 1]
  BY RememberedIs DEF Walking, PagesInv
<1>2. PICK u, q : u = walk' /\ q = [table |-> n, idx |-> 0]
  OBVIOUS
<1>3. /\ SameLocals(u, w) /\ u.size = w.size /\ u.num = w.num
      /\ u.r_tpg = w.r_tpg /\ u.r_tnum = w.r_tnum
      /\ u.at = After(q, w.size, Index(w.size, w.addr))
  BY <1>1, <1>2, BelowIs DEF SameLocals
<1>4. SameLocals(walk', walk) /\ walk'.addr = walk.addr /\ w.addr = walk.addr
  BY <1>1, <1>2, <1>3 DEF SameLocals
<1>5. PICK r, i, j, y : r = Root(region.space) /\ i = Index(3, region.v) /\ j = Index(2, region.v)
                        /\ y = Upper.to
  OBVIOUS
<1>6. /\ Upper' = tables'[r][i]
      /\ Middle' = tables'[Upper'.to][j]
  BY <1>5 DEF Upper, Middle, Root, Index
<1>7. r \in DOMAIN tables /\ r.level = 3
  BY <1>5, TopPlace, Kinds
<1>8. Pointer(n).kind = "table" /\ Pointer(n).to = n
  BY Kinds
<1>9. CASE walk.size = 3
  <2>1. walk.at.table = r /\ walk.at.idx = i
    BY <1>5, <1>9, EntryAt
  <2>2. Upper' = Pointer(n) /\ w.size = 2
    BY <1>1, <1>6, <1>9, <2>1 DEF Hung
  <2>3. u.at = After([table |-> Upper'.to, idx |-> 0], 2, Index(2, walk.addr))
    BY <1>2, <1>3, <1>4, <1>8, <2>2
  <2>4. LowerPlace
    BY <1>2, <1>4, <1>8, <1>9, <2>2, <2>3, LowerAt
  <2> QED BY <1>1, <1>2, <1>3, <1>4, <2>4, DescendedWalk
<1>10. CASE walk.size = 2
  <2>1. walk.at.table = y /\ walk.at.idx = j /\ Upper.kind = "table"
    BY <1>5, <1>10, EntryAt
  <2>2. y \in DOMAIN tables /\ y.level = 2
    BY <1>5, <2>1, MiddlePlace
  <2>3. Upper' = Upper /\ w.size = 1
    <3>1. r # y
      BY <1>7, <2>2
    <3>2. tables'[r] = tables[r]
      BY <1>1, <1>7, <2>1, <3>1 DEF Hung
    <3>3. tables[r][i] = Upper
      BY <1>5 DEF Upper
    <3>4. w.size = 1
      BY <1>1, <1>10
    <3> QED BY <1>6, <3>2, <3>3, <3>4
  <2>4. Middle' = Pointer(n)
    BY <1>5, <1>6, <2>1, <2>3 DEF Hung
  <2>5. u.at = After([table |-> Middle'.to, idx |-> 0], 1, Index(1, walk.addr))
    BY <1>2, <1>3, <1>4, <1>8, <2>3, <2>4
  <2>6. LowerPlace
    BY <1>2, <1>4, <1>8, <1>10, <2>1, <2>3, <2>4, <2>5, LowerAt
  <2> QED BY <1>1, <1>2, <1>3, <1>4, <2>6, DescendedWalk
<1> QED BY <1>9, <1>10

\* A page in the way: the walk stays where it is.
LEMMA DescendStays ==
  ASSUME Walking, WalkInv, walk.num # 0, walk.size > walk.pgsize,
         NEW w, w = Remembered(walk), ~IsSubtree(walk.at, walk.size),
         walk' = [w EXCEPT !.size = walk.size], UNCHANGED <<tables, region>>
  PROVE  WalkInv' /\ PagesInv'
<1>1. /\ SameLocals(w, walk) /\ w.size = walk.size - 1 /\ w.num = walk.num /\ w.at = walk.at
      /\ w.r_tpg = [walk.r_tpg EXCEPT ![walk.size - 1] = After(walk.at, walk.size, 1)]
      /\ w.r_tnum = [walk.r_tnum EXCEPT ![walk.size - 1] = walk.num - 1]
  BY RememberedIs DEF Walking, PagesInv
<1>2. PICK u, z, a, v, e, k : /\ u = walk' /\ z = walk.size /\ a = walk.addr /\ v = region.v
                              /\ e = After(walk.at, walk.size, 1) /\ k = walk.num - 1
  OBVIOUS
<1>3. u = [w EXCEPT !.size = z]
  BY <1>2
<1>4. /\ DOMAIN u = Locals /\ u.on = w.on /\ u.pgsize = w.pgsize /\ u.size = z /\ u.num = w.num
      /\ u.addr = w.addr /\ u.phys = w.phys /\ u.pages = w.pages /\ u.at = w.at
      /\ u.r_tpg = w.r_tpg /\ u.r_tnum = w.r_tnum
  BY <1>1, <1>3 DEF SameLocals, Locals
<1>5. /\ DOMAIN u = Locals /\ u.on = walk.on /\ u.pgsize = walk.pgsize /\ u.size = walk.size
      /\ u.num = walk.num /\ u.addr = walk.addr /\ u.phys = walk.phys /\ u.pages = walk.pages
      /\ u.at = walk.at
  BY <1>1, <1>2, <1>4 DEF SameLocals
<1>6. z \in {2, 3}
  <2>1. z \in 1 .. 3
    BY <1>2 DEF WalkInv, WalkNumbers, Walking
  <2>2. z # 1
    BY <1>2, EntryAt DEF IsSubtree
  <2> QED BY <2>1, <2>2
<1>7. DOMAIN u.r_tpg = 0 .. 2 /\ u.r_tnum \in [0 .. 2 -> Nat]
  <2>1. z - 1 \in 0 .. 2 /\ k \in Nat
    BY <1>2, <1>6 DEF Walking, PagesInv
  <2>2. DOMAIN walk.r_tpg = 0 .. 2 /\ walk.r_tnum \in [0 .. 2 -> Nat]
    BY DEF WalkInv, WalkNumbers, Walking
  <2>3. u.r_tpg = [walk.r_tpg EXCEPT ![z - 1] = e] /\ u.r_tnum = [walk.r_tnum EXCEPT ![z - 1] = k]
    BY <1>1, <1>2, <1>4
  <2> QED BY <2>1, <2>2, <2>3, StillRemembered
<1>8. PagesInv'
  BY <1>2, <1>5 DEF PagesInv, Walking
<1>9. /\ AtTop(walk.at)' = AtTop(walk.at) /\ AtMiddle(walk.at)' = AtMiddle(walk.at)
  BY <1>2, <1>5 DEF AtTop, AtMiddle, Upper, Root, Index
<1>10. WalkNumbers'
  BY <1>2, <1>5, <1>7 DEF WalkInv, WalkNumbers, Walking
<1>11. WalkPlaces'
  <2>1. /\ walk'.size = z /\ walk'.num = walk.num /\ walk'.addr = walk.addr
        /\ walk'.pgsize = walk.pgsize /\ walk'.pages = walk.pages
    BY <1>2, <1>5
  <2>2. ~(z = 1) /\ ~(z = 0) /\ ~(z < 2)
    BY <1>6
  <2>3. /\ z = 3 => AtTop(walk.at)
        /\ z = 2 => AtMiddle(walk.at)
                    /\ (walk.pgsize = 2 => walk.num = 1 /\ walk.addr = region.v
                                           /\ walk.pages = Size[2])
    BY <1>2 DEF WalkInv, WalkPlaces, Walking
  <2> QED BY <1>9, <2>1, <2>2, <2>3 DEF WalkPlaces
<1> QED BY <1>8, <1>10, <1>11 DEF WalkInv

\* A turn that goes down keeps everything.
LEMMA DescendStep ==
  ASSUME BInv, TurnRest, Descend
  PROVE  Memory' /\ Utcbs' /\ Walks'
<1>1. PICK w, z : w = Remembered(walk) /\ z = walk.size
  OBVIOUS
<1>2. /\ walk.on /\ walk.num > 0 /\ walk.size > walk.pgsize /\ NextLevel(w)
      /\ pc = "map" /\ pc' = "map"
  BY <1>1 DEF Descend, TurnRest
<1>3. Walking /\ WalkInv /\ walk.num # 0
  BY <1>2 DEF BInv, Memory, Walks, Walking, PagesInv
<1>4. z \in 1 .. 3 /\ w.size + 1 = z /\ w.at = walk.at
  <2>1. z \in 1 .. 3
    BY <1>1, <1>2, <1>3 DEF WalkInv, WalkNumbers, Walking
  <2>2. w.size = walk.size - 1 /\ w.at = walk.at
    BY Zenon, <1>1, <1>3, RememberedIs DEF Walking, PagesInv
  <2> QED BY <1>1, <2>1, <2>2
<1>5. SavedInv'
  BY <1>2 DEF SavedInv
<1>6. region' = region => RegionInv'
  BY <1>2, <1>3 DEF Walking, RegionInv, TurnRest, SystemStays, Current
<1>7. CASE /\ ~IsValid(w.at, z) /\ Heap!Alloc(TableBytes[z])
           /\ \E b \in blocks' \ blocks :
                /\ tables' = WithTable(w.at, z, b.base)
                /\ walk' = Below(w, [table |-> Table(z, b.base), idx |-> 0])
           /\ UNCHANGED region
  <2>1. z \in {2, 3} /\ Entry(walk.at) = Nil
    BY <1>4, <1>7 DEF IsValid
  <2>2. Bytes(TableBytes[z])
    BY <1>7 DEF Bytes, TurnRest
  <2>3. /\ \A b \in blocks' \ blocks : b.base = Base
        /\ Base \notin Bases
    <3>1. TableBytes[z] \in Nat
      BY <2>1, PageTableAssumption
    <3> QED BY <2>2, <3>1, BytesTaken DEF BInv
  <2>4. PICK d, n : /\ d = Base /\ n = Table(z, d)
                    /\ tables' = WithTable(walk.at, z, d)
                    /\ walk' = Below(w, [table |-> n, idx |-> 0])
    BY <1>4, <1>7, <2>3
  <2>5. PICK x, i : x = walk.at.table /\ i = walk.at.idx
    OBVIOUS
  <2>6. x \in DOMAIN tables /\ i \in DOMAIN tables[x] /\ x.level = z
    <3>1. CASE z = 3
      <4>1. x = Root(region.space) /\ i = Index(3, region.v)
        BY <1>1, <1>3, <2>5, <3>1, EntryAt
      <4> QED BY Zenon, <1>3, <3>1, <4>1, TopPlace, Kinds
    <3>2. CASE z = 2
      <4>1. x = Upper.to /\ i = Index(2, region.v) /\ Upper.kind = "table"
        BY <1>1, <1>3, <2>5, <3>2, EntryAt
      <4> QED BY Zenon, <1>3, <3>2, <4>1, MiddlePlace
    <3> QED BY <2>1, <3>1, <3>2
  <2>7. tables[x][i] = Nil
    BY <2>1, <2>5 DEF Entry
  <2>8. Memory' /\ Utcbs'
    BY <1>2, <2>1, <2>2, <2>4, <2>5, <2>6, <2>7, TableHung DEF BInv, TurnRest
  <2>9. Hung(x, i, z, d, n)
    BY <1>3, <2>1, <2>3, <2>4, <2>5, <2>6, WithTableIs DEF Walking
  <2>10. n.at = d
    BY <2>9 DEF Hung
  <2>11. WalkInv' /\ PagesInv'
    BY Zenon, <1>1, <1>2, <1>3, <1>7, <2>1, <2>4, <2>5, <2>9, <2>10, DescendNewTable
  <2> QED BY <1>5, <1>6, <1>7, <2>8, <2>11 DEF Walks
<1>8. CASE /\ Heap!AllocNull(TableBytes[z])
           /\ walk' = NoWalk /\ region' = NoRegion /\ UNCHANGED tables
  <2>1. Memory' /\ Utcbs'
    BY <1>8, TablesLeft DEF Heap!AllocNull, Heap!hvars, heap
  <2>2. ~walk'.on /\ region'.n = 0
    BY <1>8 DEF NoWalk, NoRegion
  <2> QED BY <1>5, <2>1, <2>2 DEF Walks, RegionInv, PagesInv, WalkInv
<1>9. CASE /\ walk' = IF IsSubtree(w.at, z) THEN Below(w, Subtree(w.at, z))
                      ELSE [w EXCEPT !.size = z]
           /\ UNCHANGED <<avail, blocks, tables, region>>
  <2>1. Memory' /\ Utcbs'
    BY <1>9, TablesLeft DEF heap
  <2>2. CASE IsSubtree(w.at, z)
    <3>1. WalkInv' /\ PagesInv'
      BY <1>1, <1>2, <1>3, <1>4, <1>9, <2>2, DescendTable
    <3> QED BY <1>5, <1>6, <1>9, <2>1, <3>1 DEF Walks
  <2>3. CASE ~IsSubtree(w.at, z)
    <3>1. WalkInv' /\ PagesInv'
      BY <1>1, <1>2, <1>3, <1>4, <1>9, <2>3, DescendStays
    <3> QED BY <1>5, <1>6, <1>9, <2>1, <3>1 DEF Walks
  <2> QED BY <2>2, <2>3
<1> QED BY <1>2, <1>4, <1>7, <1>8, <1>9 DEF NextLevel
-----------------------------------------------------------------------------
(* A level is filled from the one below, and an entry is written.            *)

\* The locals of a step down that is remembered with another count.
LEMMA RecursedIs ==
  ASSUME Walking, NEW k, NEW pg,
         walk' = Below([Remembered(walk) EXCEPT !.num = k], pg)
  PROVE  /\ SameLocals(walk', walk) /\ walk'.size = walk.size - 1 /\ walk'.num = k
         /\ walk'.r_tpg = [walk.r_tpg EXCEPT ![walk.size - 1] = After(walk.at, walk.size, 1)]
         /\ walk'.r_tnum = [walk.r_tnum EXCEPT ![walk.size - 1] = walk.num - 1]
         /\ walk'.at = After(pg, walk.size - 1, Index(walk.size - 1, walk.addr))
<1>1. PICK w, x, u, z, n, e : /\ w = Remembered(walk) /\ x = [w EXCEPT !.num = k] /\ u = walk'
                              /\ z = walk.size /\ n = walk.num - 1
                              /\ e = After(walk.at, walk.size, 1)
  OBVIOUS
<1>2. /\ SameLocals(w, walk) /\ w.size = z - 1
      /\ w.r_tpg = [walk.r_tpg EXCEPT ![z - 1] = e]
      /\ w.r_tnum = [walk.r_tnum EXCEPT ![z - 1] = n]
  BY <1>1, RememberedIs DEF Walking, PagesInv
<1>3. /\ DOMAIN x = Locals /\ x.on = w.on /\ x.pgsize = w.pgsize /\ x.addr = w.addr
      /\ x.phys = w.phys /\ x.pages = w.pages
      /\ x.size = w.size /\ x.num = k /\ x.r_tpg = w.r_tpg /\ x.r_tnum = w.r_tnum
  BY <1>1, <1>2 DEF SameLocals, Locals
<1>4. /\ SameLocals(u, x) /\ u.size = x.size /\ u.num = x.num
      /\ u.r_tpg = x.r_tpg /\ u.r_tnum = x.r_tnum
      /\ u.at = After(pg, x.size, Index(x.size, x.addr))
  <2>1. u = Below(x, pg) /\ DOMAIN x = Locals
    BY <1>1, <1>3
  <2> QED BY <2>1, BelowIs
<1>5. SameLocals(u, walk) /\ x.addr = walk.addr
  BY <1>2, <1>3, <1>4 DEF SameLocals
<1> QED BY <1>1, <1>2, <1>3, <1>4, <1>5

\* A turn that enters the table below keeps the walk in place.
LEMMA RecurseWalks ==
  ASSUME Walking, WalkInv, Recurse
  PROVE  WalkInv' /\ PagesInv'
<1>1. PICK u, z, n, v, p, g, a : /\ u = walk' /\ z = walk.size /\ n = walk.num /\ v = region.v
                                 /\ p = walk.pages /\ g = walk.pgsize /\ a = walk.addr
  OBVIOUS
<1>2. PICK k, q : k = TableSize(walk.size - 1) /\ q = Subtree(walk.at, walk.size)
  OBVIOUS
<1>3. /\ walk.num # 0 /\ n \in Nat \ {0} /\ z <= g /\ Recurses /\ UNCHANGED <<tables, region>>
      /\ walk' = Below([Remembered(walk) EXCEPT !.num = k], q)
  BY <1>1, <1>2 DEF Recurse, Walking, PagesInv
<1>4. /\ SameLocals(walk', walk) /\ u.size = z - 1 /\ u.num = k
      /\ u.r_tpg = [walk.r_tpg EXCEPT ![z - 1] = After(walk.at, z, 1)]
      /\ u.r_tnum = [walk.r_tnum EXCEPT ![z - 1] = n - 1]
      /\ u.at = After(q, z - 1, Index(z - 1, walk.addr))
  BY Zenon, <1>1, <1>3, RecursedIs
<1>5. /\ DOMAIN u = Locals /\ u.on /\ u.pgsize = g /\ u.addr = a /\ u.phys = walk.phys /\ u.pages = p
  BY <1>1, <1>4 DEF SameLocals, Walking
<1>6. /\ g \in 0 .. 2 /\ z \in 0 .. 2
      /\ DOMAIN walk.r_tpg = 0 .. 2 /\ walk.r_tnum \in [0 .. 2 -> Nat]
      /\ p % Size[g] = 0 /\ a \in v .. v + p - 1
      /\ walk.phys = region.p + (a - v)
  BY <1>1, <1>3 DEF WalkInv, WalkNumbers, Walking
<1>7. z \in {1, 2}
  <2>1. z # 0
    BY <1>1, <1>3 DEF Recurses, IsSubtree
  <2> QED BY <1>6, <2>1
<1>8. /\ v \in Nat /\ p \in Nat \ {0} /\ v % p = 0 /\ a \in Nat
      /\ Size[1] \in Nat \ {0} /\ Size[0] = 1 /\ Size[2] % Size[1] = 0
      /\ TableSize(1) \in Nat \ {0} /\ TableSize(1) * Size[1] = Size[2]
      /\ TableSize(0) = Size[1]
  <2>1. v \in Nat
    BY <1>1, TopPlace
  <2>2. p \in Nat \ {0} /\ v % p = 0 /\ a \in Nat
    BY <1>1, <1>6, PagesInTable DEF Walking, PagesInv
  <2>3. 1 \in 0 .. 4 /\ 0 \in 0 .. 3 /\ 1 \in 0 .. 3 /\ 2 \in 0 .. 2 /\ 1 \in 0 .. 2
    OBVIOUS
  <2>4. Size[1] \in Nat \ {0} /\ Size[0] = 1 /\ Size[2] % Size[1] = 0
    BY <2>3, SizeFacts, SizesDivide
  <2>5. TableSize(1) \in Nat \ {0} /\ Size[1 + 1] = TableSize(1) * Size[1]
    BY <2>3, SizeFacts
  <2>6. TableSize(0) \in Nat \ {0} /\ Size[0 + 1] = TableSize(0) * Size[0]
    BY <2>3, SizeFacts
  <2> QED BY <2>1, <2>2, <2>4, <2>5, <2>6
<1>9. Upper' = Upper /\ Middle' = Middle /\ Section' = Section
  BY <1>3 DEF Upper, Middle, Root, Index, Section
<1>10. LowerPlace
  <2>1. CASE z = 2
    <3>1. /\ Upper.kind = "table" /\ Entry(walk.at) = Middle
      BY <1>1, <1>3, <2>1, EntryAt
    <3>2. Middle.kind = "table" /\ q = [table |-> Middle.to, idx |-> 0]
      BY <1>1, <1>2, <1>3, <2>1, <3>1 DEF Recurses, IsSubtree, IsPage, Subtree
    <3>3. u.at = After([table |-> Middle'.to, idx |-> 0], 1, Index(1, walk.addr))
      BY <1>4, <1>9, <2>1, <3>2
    <3> QED BY <1>1, <1>3, <1>5, <1>9, <2>1, <3>1, <3>2, <3>3, LowerAt
  <2>2. CASE z = 1
    <3>1. Upper.kind = "table" /\ Middle.kind = "table"
      BY <1>1, <1>3, <2>2, EntryAt
    <3>2. q = walk.at
      BY <1>1, <1>2, <2>2 DEF Subtree
    <3>3. u.at = After(walk.at, 0, Index(0, walk.addr))
      BY <1>4, <2>2, <3>2
    <3> QED BY <1>1, <1>3, <1>5, <1>9, <2>2, <3>1, <3>3, LowerAt
  <2> QED BY <1>7, <2>1, <2>2
<1>11. /\ DOMAIN u.r_tpg = 0 .. 2 /\ u.r_tnum \in [0 .. 2 -> Nat]
       /\ u.r_tpg[z - 1] = After(walk.at, z, 1) /\ u.r_tnum[z - 1] = n - 1
       /\ z = 1 => u.r_tnum[1] = walk.r_tnum[1]
  <2>1. PICK e, m : e = After(walk.at, z, 1) /\ m = n - 1
    OBVIOUS
  <2>2. z - 1 \in 0 .. 2 /\ m \in Nat
    BY <1>3, <1>7, <2>1
  <2> QED BY <1>4, <1>6, <2>1, <2>2, StillRemembered
<1>12. k \in Nat /\ PagesInv'
  <2>1. k \in Nat
    BY <1>1, <1>2, <1>7, <1>8
  <2> QED BY <1>1, <1>3, <1>4, <1>5, <2>1 DEF PagesInv, Walking
<1>13. region' = region /\ walk' = u /\ region.v = v
  BY <1>1, <1>3
<1>14. WalkNumbers'
  <2>1. ~(u.size > u.pgsize) /\ u.size \in 0 .. 3 /\ u.pgsize \in 0 .. 2
    BY <1>3, <1>4, <1>5, <1>6, <1>7
  <2>2. /\ u.pages % Size[u.pgsize] = 0 /\ u.addr \in v .. v + u.pages - 1
        /\ u.phys = region.p + (u.addr - v)
    BY <1>5, <1>6
  <2> QED BY <1>11, <1>13, <2>1, <2>2 DEF WalkNumbers
<1>15. CASE z = 2
  <2>1. g = 2 /\ n = 1 /\ a = v /\ p = Size[2]
    <3>1. g = 2
      BY <1>3, <1>6, <1>15
    <3> QED BY <1>1, <1>3, <1>15, <3>1 DEF WalkInv, WalkPlaces, Walking
  <2>2. u.size = 1 /\ u.num = TableSize(1) /\ u.r_tnum[1] = 0
    <3>1. z - 1 = 1 /\ n - 1 = 0
      BY <1>15, <2>1
    <3> QED BY <1>1, <1>2, <1>4, <1>11, <3>1
  <2>3. a % Size[1] = 0
    BY <1>8, <2>1, DividesThrough
  <2>4. u.addr % Size[1] = 0 /\ u.addr + u.num * Size[1] = v + u.pages
    BY <1>5, <1>8, <2>1, <2>2, <2>3
  <2>5. AtLow(walk.at, walk.addr - (walk.addr % Size[1]))'
    BY <1>1, <1>10, <1>15 DEF LowerPlace
  <2>6. u.size # 3 /\ u.size # 2 /\ u.size # 0
    BY <2>2
  <2> QED BY <1>12, <1>13, <1>14, <2>2, <2>4, <2>5, <2>6 DEF WalkInv, WalkPlaces
<1>16. CASE z = 1
  <2>1. u.size = 0 /\ u.num = Size[1] /\ g # 0 /\ g \in {1, 2}
    BY <1>1, <1>2, <1>3, <1>4, <1>6, <1>8, <1>16
  <2>2. /\ AtLow(walk.at, a - (a % Size[1])) /\ a % Size[1] = 0
        /\ a + n * Size[1] = v + p
    BY <1>1, <1>3, <1>16, <2>1 DEF WalkInv, WalkPlaces, Walking
  <2>3. AtLow(walk.at, a)
    BY <1>8, <2>2
  <2>4. AtLow(walk.at, walk.addr)'
    BY <1>1, <1>10, <1>16 DEF LowerPlace
  <2>5. u.r_tnum[0] = n - 1 /\ u.r_tpg[0] = After(walk.at, 1, 1)
    <3>1. z - 1 = 0
      BY <1>16
    <3> QED BY <1>11, <1>16, <3>1
  <2>6. (u.addr + u.num) % Size[1] = 0
    <3>1. Size[1] % Size[1] = 0
      <4>1. 1 \in 0 .. 2 /\ 1 \in 0 .. 1
        OBVIOUS
      <4> QED BY <4>1, SizesDivide
    <3>2. (a + Size[1]) % Size[1] = 0
      BY <1>8, <2>2, <3>1, SumDivides
    <3> QED BY <1>5, <2>1, <3>2
  <2>7. AtLow(walk.r_tpg[0], walk.addr + walk.num)'
    <3>1. PICK x, s : x = Middle.to /\ s = Section
      OBVIOUS
    <3>2. walk.at = [table |-> x, idx |-> a - s] /\ Upper.kind = "table" /\ Middle.kind = "table"
      BY <2>3, <3>1 DEF AtLow
    <3>3. PICK i : i = a - s
      OBVIOUS
    <3>4. u.r_tpg[0] = [table |-> x, idx |-> i + 1 * Stride(1)]
      BY <2>5, <3>2, <3>3, AfterIs
    <3>5. s \in Nat
      BY <3>1, PagesInTable
    <3>6. i + 1 * Stride(1) = (a + Size[1]) - s
      BY <1>8, <3>3, <3>5 DEF Stride
    <3>7. u.r_tpg[0] = [table |-> Middle'.to, idx |-> (u.addr + u.num) - Section']
      BY <1>5, <1>9, <2>1, <3>1, <3>4, <3>6
    <3> QED BY <1>9, <1>13, <3>2, <3>7 DEF AtLow
  <2>8. u.addr + u.num + u.r_tnum[0] * Size[1] = v + u.pages
    <3>1. PICK s, c, l : s = Size[1] /\ c = n * s /\ l = (n - 1) * s
      OBVIOUS
    <3>2. s \in Nat /\ n \in Nat
      BY <1>3, <1>8, <3>1
    <3>3. c = s + l /\ c \in Int /\ l \in Int
      BY <3>1, <3>2
    <3>4. a + c = v + p
      BY <2>2, <3>1
    <3>5. u.addr + u.num + u.r_tnum[0] * Size[1] = a + s + l
      BY <1>5, <2>1, <2>5, <3>1
    <3> QED BY <1>5, <1>8, <3>2, <3>3, <3>4, <3>5
  <2>9. RestBehind'
    BY <1>5, <1>13, <2>1, <2>6, <2>7, <2>8 DEF RestBehind
  <2>10. u.pgsize = 2 => u.r_tnum[1] = 0
    <3>1. walk.pgsize = 2 => walk.r_tnum[1] = 0
      BY <1>1, <1>3, <1>16 DEF WalkInv, WalkPlaces, Walking
    <3> QED BY <1>1, <1>5, <1>11, <1>16, <3>1
  <2>11. u.size # 3 /\ u.size # 2 /\ u.size # 1
    BY <2>1
  <2> QED BY <1>12, <1>13, <1>14, <2>1, <2>4, <2>9, <2>10, <2>11 DEF WalkInv, WalkPlaces
<1> QED BY <1>7, <1>15, <1>16
-----------------------------------------------------------------------------
(* The entry of a page is written, and the walk goes on behind it.           *)

\* set_entry writes one entry.
LEMMA WithEntryIs ==
  ASSUME NEW x \in DOMAIN tables, NEW i \in DOMAIN tables[x], DOMAIN tables[x] \subseteq Nat,
         NEW pg, pg = [table |-> x, idx |-> i], NEW t \in {0, 2}, NEW f,
         tables' = WithEntry(pg, t, f)
  PROVE  tables' = [tables EXCEPT ![x] =
                      [tables[x] EXCEPT ![i] = PageEntry(t, f - (f % Size[t]))]]
<1>1. PICK e, k : e = PageEntry(t, f - (f % Size[t])) /\ k = tables[x]
  OBVIOUS
<1>2. pg.table = x /\ pg.idx = i /\ Stride(t) = 1
  BY DEF Stride
<1>3. tables' = [tables EXCEPT ![x] =
                   [j \in DOMAIN @ |-> IF j \in i .. i + 1 - 1 THEN e ELSE @[j]]]
  BY <1>1, <1>2 DEF WithEntry, PageEntry
<1>4. tables' = [tables EXCEPT ![x] = [j \in DOMAIN k |-> IF j \in i .. i + 1 - 1 THEN e ELSE k[j]]]
  BY Zenon, <1>1, <1>3
<1>5. [j \in DOMAIN k |-> IF j \in i .. i + 1 - 1 THEN e ELSE k[j]] = [k EXCEPT ![i] = e]
  <2>1. \A j \in DOMAIN k : j \in i .. i + 1 - 1 <=> j = i
    BY <1>1
  <2>2. i \in DOMAIN k
    BY <1>1
  <2> QED BY <2>1, <2>2
<1> QED BY Zenon, <1>1, <1>4, <1>5

\* What moving on leaves and what it counts on.
Moved(u, w) ==
  /\ DOMAIN u = Locals
  /\ u.on = w.on /\ u.pgsize = w.pgsize /\ u.pages = w.pages
  /\ u.addr = w.addr + Size[w.size] /\ u.phys = w.phys + Size[w.size]
  /\ u.r_tpg = w.r_tpg /\ u.r_tnum = w.r_tnum

\* The entry the walk goes on with, here or in the level it climbs to.
LEMMA NextIs ==
  ASSUME NEW w, DOMAIN w = Locals, NEW u, u = NextEntry(w)
  PROVE  /\ Moved(u, w)
         /\ w.num - 1 > 0 =>
              u.num = w.num - 1 /\ u.size = w.size /\ u.at = After(w.at, w.size, 1)
         /\ ~(w.num - 1 > 0) /\ ~(w.size < w.pgsize) => u.num = w.num - 1
         /\ ~(w.num - 1 > 0) /\ w.size < w.pgsize =>
              LET left == {k \in w.size .. w.pgsize - 1 : w.r_tnum[k] > 0}
                  k == IF left = {} THEN w.pgsize - 1
                       ELSE CHOOSE x \in left : \A y \in left : x <= y
              IN u.size = k + 1 /\ u.num = w.r_tnum[k] /\ u.at = w.r_tpg[k]
<1>1. PICK a, f, n : a = w.addr + Size[w.size] /\ f = w.phys + Size[w.size] /\ n = w.num - 1
  OBVIOUS
<1>2. PICK m : m = [w EXCEPT !.addr = a, !.phys = f, !.num = n]
  OBVIOUS
<1>3. /\ DOMAIN m = Locals /\ m.on = w.on /\ m.pgsize = w.pgsize /\ m.pages = w.pages
      /\ m.addr = a /\ m.phys = f /\ m.num = n /\ m.size = w.size /\ m.at = w.at
      /\ m.r_tpg = w.r_tpg /\ m.r_tnum = w.r_tnum
  BY <1>2 DEF Locals
<1>4. u = IF n > 0 THEN [m EXCEPT !.at = After(m.at, m.size, 1)]
          ELSE IF m.size < m.pgsize THEN Climbed(m) ELSE m
  BY <1>1, <1>2, <1>3 DEF NextEntry
<1>5. CASE n > 0
  <2>1. PICK e : e = After(w.at, w.size, 1)
    OBVIOUS
  <2>2. u = [m EXCEPT !.at = e]
    BY <1>3, <1>4, <1>5, <2>1
  <2>3. /\ DOMAIN u = Locals /\ u.on = w.on /\ u.pgsize = w.pgsize /\ u.pages = w.pages
        /\ u.addr = a /\ u.phys = f /\ u.num = n /\ u.size = w.size /\ u.at = e
        /\ u.r_tpg = w.r_tpg /\ u.r_tnum = w.r_tnum
    BY <1>3, <2>2 DEF Locals
  <2> QED BY <1>1, <1>5, <2>1, <2>3 DEF Moved
<1>6. CASE ~(n > 0) /\ ~(w.size < w.pgsize)
  <2>1. u = m
    BY <1>3, <1>4, <1>6
  <2> QED BY <1>1, <1>3, <1>6, <2>1 DEF Moved
<1>7. CASE ~(n > 0) /\ w.size < w.pgsize
  <2> DEFINE L == {k \in w.size .. w.pgsize - 1 : w.r_tnum[k] > 0}
             K == IF L = {} THEN w.pgsize - 1 ELSE CHOOSE x \in L : \A y \in L : x <= y
  <2>1. PICK k, p, q, z : k = K /\ p = w.r_tpg[k] /\ q = w.r_tnum[k] /\ z = k + 1
    OBVIOUS
  <2>2. u = Climbed(m)
    BY <1>3, <1>4, <1>7
  <2>3. Climbed(m) = [m EXCEPT !.at = m.r_tpg[K], !.num = m.r_tnum[K], !.size = K + 1]
    BY <1>3 DEF Climbed
  <2>4. u = [m EXCEPT !.at = p, !.num = q, !.size = z]
    <3>1. m.r_tpg[K] = p /\ m.r_tnum[K] = q /\ K + 1 = z
      BY <1>3, <2>1
    <3> HIDE DEF K, L
    <3> QED BY Zenon, <2>2, <2>3, <3>1
  <2>5. /\ DOMAIN u = Locals /\ u.on = w.on /\ u.pgsize = w.pgsize /\ u.pages = w.pages
        /\ u.addr = a /\ u.phys = f /\ u.num = q /\ u.size = z /\ u.at = p
        /\ u.r_tpg = w.r_tpg /\ u.r_tnum = w.r_tnum
    BY <1>3, <2>4 DEF Locals
  <2>6. Moved(u, w)
    BY <1>1, <2>5 DEF Moved
  <2>7. u.size = K + 1 /\ u.num = w.r_tnum[K] /\ u.at = w.r_tpg[K]
    BY <2>1, <2>5
  <2> QED BY <1>1, <1>7, <2>6, <2>7
<1> QED BY Zenon, <1>5, <1>6, <1>7

\* The level climbed to: with the second of three levels done, the lowest has
\* the rest or there is none.
LEMMA ClimbedTo ==
  ASSUME NEW g \in {1, 2}, NEW f \in [0 .. 2 -> Nat], g = 2 => f[1] = 0,
         NEW L, L = {k \in 0 .. g - 1 : f[k] > 0},
         NEW K, K = IF L = {} THEN g - 1 ELSE CHOOSE x \in L : \A y \in L : x <= y
  PROVE  K = 0 \/ (K = 1 /\ f[K] = 0 /\ f[0] = 0)
<1>1. f[0] \in Nat /\ f[1] \in Nat
  OBVIOUS
<1>2. \A k \in L : k = 0
  <2> SUFFICES ASSUME NEW k \in L, k # 0 PROVE FALSE
    OBVIOUS
  <2>1. k \in 0 .. g - 1 /\ f[k] > 0
    OBVIOUS
  <2>2. k = 1 /\ g = 2
    BY <2>1
  <2> QED BY <1>1, <2>1, <2>2
<1>3. CASE L = {}
  <2>1. K = g - 1
    BY <1>3
  <2>2. g = 2 => ~(f[1] > 0)
    BY <1>1
  <2>3. ~(f[0] > 0)
    <3>1. 0 \in 0 .. g - 1
      OBVIOUS
    <3> QED BY <1>3, <3>1
  <2>4. f[0] = 0
    BY <1>1, <2>3
  <2> QED BY <1>1, <2>1, <2>2, <2>4
<1>4. CASE L # {}
  <2>1. 0 \in L /\ \A y \in L : 0 <= y
    BY <1>2, <1>4
  <2>2. K \in L
    BY <1>4, <2>1
  <2> QED BY <1>2, <2>2
<1> QED BY <1>3, <1>4

\* Where the entry is and what is written.
Writes(x, i, t, f) ==
  /\ x \in DOMAIN tables /\ i \in DOMAIN tables[x] /\ tables[x][i].kind # "table"
  /\ Upper.kind = "table" /\ t = walk.size /\ f = walk.phys - (walk.phys % Size[t]) /\ f \in Nat
  /\ \/ /\ t = 2 /\ x.level = 2 /\ x = Upper.to /\ i = Index(2, region.v)
     \/ /\ t = 0 /\ x.level = 1 /\ Middle.kind = "table"
        /\ x = Middle.to /\ i = walk.addr - Section
  /\ tables' = [tables EXCEPT ![x] = [tables[x] EXCEPT ![i] = PageEntry(t, f)]]

\* A turn that sets an entry writes a page of the region where it belongs.
LEMMA SetEntryWrites ==
  ASSUME Walking, WalkInv, SetEntry
  PROVE  \E x, i, t, f : Writes(x, i, t, f)
<1>1. /\ walk.num # 0 /\ walk.size <= walk.pgsize /\ ~Recurses
      /\ tables' = WithEntry(walk.at, walk.size, walk.phys)
  BY DEF SetEntry, Walking, PagesInv
<1>2. PICK t, p, f : t = walk.size /\ p = walk.phys /\ f = p - (p % Size[t])
  OBVIOUS
<1>3. /\ t \in 0 .. 2 /\ walk.addr \in region.v .. region.v + walk.pages - 1
      /\ p = region.p + (walk.addr - region.v)
  BY <1>1, <1>2 DEF WalkInv, WalkNumbers, Walking
<1>4. t # 1
  BY <1>1, <1>2, EntryAt DEF Recurses, IsValid, IsSubtree
<1>5. f \in Nat
  <2>1. t \in 0 .. 4
    BY <1>3
  <2>2. Size[t] \in Nat \ {0}
    BY <2>1, SizeFacts
  <2>3. p \in Nat
    <3>1. region.p \in Nat /\ region.v \in Nat /\ walk.addr \in Nat
      BY Zenon, <1>3, TopPlace, PagesInTable
    <3> QED BY <1>3, <3>1
  <2>4. p % Size[t] \in 0 .. Size[t] - 1 /\ p % Size[t] <= p
    <3>1. PICK s, q, r : s = Size[t] /\ q = p \div s /\ r = p % s
      OBVIOUS
    <3>2. q \in Nat /\ r \in 0 .. s - 1 /\ p = s * q + r
      BY Zenon, <2>2, <2>3, <3>1, Division
    <3>3. s * q \in Nat
      BY <2>2, <3>1, <3>2
    <3> QED BY <2>2, <3>1, <3>2, <3>3
  <2> QED BY <1>2, <2>2, <2>3, <2>4
<1>6. CASE t = 2
  <2>1. PICK x, i : x = Upper.to /\ i = Index(2, region.v)
    OBVIOUS
  <2>2. walk.at = [table |-> x, idx |-> i] /\ Upper.kind = "table" /\ Entry(walk.at) = Middle
    BY <1>1, <1>2, <1>6, <2>1, EntryAt
  <2>3. x \in DOMAIN tables /\ x.level = 2 /\ DOMAIN tables[x] = 0 .. TableSize(2) - 1
        /\ i \in DOMAIN tables[x] /\ tables[x][i] = Middle
    BY Zenon, <2>1, <2>2, MiddlePlace DEF Middle
  <2>4. Middle.kind # "table"
    <3>1. Middle # Nil => Middle.kind # "table"
      BY <1>1, <1>2, <1>6, <2>2 DEF Recurses, IsValid, IsSubtree
    <3>2. Nil.kind # "table"
      BY Kinds
    <3> QED BY <3>1, <3>2
  <2>5. DOMAIN tables[x] \subseteq Nat
    BY <2>3
  <2>6. tables' = [tables EXCEPT ![x] = [tables[x] EXCEPT ![i] = PageEntry(t, f)]]
    <3>1. PICK pg : pg = walk.at
      OBVIOUS
    <3>2. tables' = WithEntry(pg, t, p) /\ pg = [table |-> x, idx |-> i] /\ t \in {0, 2}
      BY <1>1, <1>2, <1>6, <2>2, <3>1
    <3>3. x \in DOMAIN tables /\ i \in DOMAIN tables[x] /\ DOMAIN tables[x] \subseteq Nat
      BY <2>3, <2>5
    <3>4. tables' = [tables EXCEPT ![x] = [tables[x] EXCEPT ![i] = PageEntry(t, p - (p % Size[t]))]]
      BY <3>2, <3>3, WithEntryIs
    <3> QED BY <1>2, <3>4
  <2>7. Writes(x, i, t, f)
    BY Zenon, <1>2, <1>5, <1>6, <2>1, <2>2, <2>3, <2>4, <2>6 DEF Writes
  <2> QED BY <2>7
<1>7. CASE t = 0
  <2>1. PICK x, i : x = Middle.to /\ i = walk.addr - Section
    OBVIOUS
  <2>2. AtLow(walk.at, walk.addr)
    BY <1>1, <1>2, <1>7 DEF WalkInv, WalkPlaces, Walking
  <2>3. walk.at = [table |-> x, idx |-> i] /\ Upper.kind = "table" /\ Middle.kind = "table"
    BY <2>1, <2>2 DEF AtLow
  <2>4. /\ x \in DOMAIN tables /\ x.level = 1 /\ DOMAIN tables[x] = 0 .. Size[2] - 1
        /\ i \in DOMAIN tables[x]
    <3>1. i \in 0 .. Size[2] - 1
      BY <1>3, <2>1, PagesInTable
    <3> QED BY Zenon, <2>1, <2>3, <3>1, LowPlace
  <2>5. tables[x][i].kind # "table"
    <3>1. Entry(walk.at).kind # "table"
      BY <1>1, <1>2, <1>7, EntryAt
    <3> QED BY <2>3, <3>1 DEF Entry
  <2>6. DOMAIN tables[x] \subseteq Nat
    BY <2>4
  <2>7. tables' = [tables EXCEPT ![x] = [tables[x] EXCEPT ![i] = PageEntry(t, f)]]
    <3>1. PICK pg : pg = walk.at
      OBVIOUS
    <3>2. tables' = WithEntry(pg, t, p) /\ pg = [table |-> x, idx |-> i] /\ t \in {0, 2}
      BY <1>1, <1>2, <1>7, <2>3, <3>1
    <3>3. x \in DOMAIN tables /\ i \in DOMAIN tables[x] /\ DOMAIN tables[x] \subseteq Nat
      BY <2>4, <2>6
    <3>4. tables' = [tables EXCEPT ![x] = [tables[x] EXCEPT ![i] = PageEntry(t, p - (p % Size[t]))]]
      BY <3>2, <3>3, WithEntryIs
    <3> QED BY <1>2, <3>4
  <2>8. Writes(x, i, t, f)
    BY Zenon, <1>2, <1>5, <1>7, <2>1, <2>3, <2>4, <2>5, <2>7 DEF Writes
  <2> QED BY <2>8
<1> QED BY <1>3, <1>4, <1>6, <1>7

\* The tables the walk came through are not written when a low one is.
LEMMA PlacesStay ==
  ASSUME Walking, NEW x, NEW i, NEW t, NEW f, Writes(x, i, t, f), t = 0, region' = region
  PROVE  Upper' = Upper /\ Middle' = Middle /\ Section' = Section
<1>1. x.level = 1 /\ Upper.kind = "table"
      /\ tables' = [tables EXCEPT ![x] = [tables[x] EXCEPT ![i] = PageEntry(t, f)]]
  BY DEF Writes
<1>2. PICK r, y : r = Root(region.space) /\ y = Upper.to
  OBVIOUS
<1>3. r \in DOMAIN tables /\ r.level = 3 /\ y \in DOMAIN tables /\ y.level = 2
  BY <1>1, <1>2, TopPlace, MiddlePlace, Kinds
<1>4. tables'[r] = tables[r] /\ tables'[y] = tables[y]
  BY <1>1, <1>3
<1>5. Upper' = Upper
  BY <1>2, <1>4 DEF Upper, Root, Index
<1>6. Middle' = Middle
  BY <1>2, <1>4, <1>5 DEF Middle, Index
<1> QED BY <1>5, <1>6 DEF Section

\* It keeps shape, tree and uses.
LEMMA SetEntryMemory ==
  ASSUME BInv, TurnRest, SetEntry
  PROVE  Memory' /\ Utcbs'
<1>1. Walking /\ WalkInv
  BY DEF BInv, Memory, Walks, Walking, SetEntry
<1>2. PICK x, i, t, f : Writes(x, i, t, f)
  BY <1>1, SetEntryWrites
<1>3. /\ x \in DOMAIN tables /\ i \in DOMAIN tables[x] /\ f \in Nat
      /\ (x.level = 2 /\ t = 2) \/ (x.level = 1 /\ t = 0)
      /\ tables[x][i].kind # "table"
      /\ tables' = [tables EXCEPT ![x] = [tables[x] EXCEPT ![i] = PageEntry(t, f)]]
  BY <1>2 DEF Writes
<1>4. ASSUME NEW s PROVE ~HangsInSpace(s, x)
  <2> SUFFICES ASSUME HangsInSpace(s, x) PROVE FALSE
    OBVIOUS
  <2>1. s \in SpacesMade /\ spaces[s].utcb = Pointer(x)
    BY DEF HangsInSpace
  <2>2. x.level = 1
    <3>1. spaces[s].utcb = Nil \/ \E y \in DOMAIN tables : y.level = 1 /\ spaces[s].utcb = Pointer(y)
      BY <2>1 DEF BInv, Memory, ShapeInv, SpaceShape
    <3> QED BY <2>1, <3>1, Kinds
  <2>3. x = Middle.to /\ Upper.kind = "table" /\ Middle.kind = "table"
    BY <1>2, <2>2 DEF Writes
  <2>4. Hangs(Upper.to, Index(2, region.v), x)
    <3>1. PICK y, j : y = Upper.to /\ j = Index(2, region.v)
      OBVIOUS
    <3>2. y \in DOMAIN tables /\ DOMAIN tables[y] = 0 .. TableSize(2) - 1 /\ j \in 0 .. TableSize(2) - 1
      BY <1>1, <2>3, <3>1, MiddlePlace
    <3>3. Middle = Pointer(x) /\ Middle = tables[y][j]
      BY <1>1, <2>3, <3>1, LowPlace DEF Middle
    <3> QED BY <3>1, <3>2, <3>3 DEF Hangs
  <2>5. OneParent(x)
    BY <1>3, <2>2 DEF BInv, Memory, TreeInv
  <2> QED BY <2>1, <2>4, <2>5 DEF OneParent, Hangs
<1>5. UNCHANGED heap /\ UNCHANGED pools /\ SystemStays /\ pc = "map" /\ pc' = "map"
  BY DEF SetEntry, TurnRest, heap
<1> QED BY Zenon, <1>3, <1>4, <1>5, EntryWritten DEF BInv

\* The walk behind the entry: the next of the low table, the next 64k of a
\* remembered one, or the end.
LEMMA SetEntryWalks ==
  ASSUME Walking, WalkInv, SetEntry
  PROVE  WalkInv' /\ PagesInv'
<1>1. PICK u, z, n, v, p, g, a : /\ u = walk' /\ z = walk.size /\ n = walk.num /\ v = region.v
                                 /\ p = walk.pages /\ g = walk.pgsize /\ a = walk.addr
  OBVIOUS
<1>2. PICK x, i, t, f : Writes(x, i, t, f)
  BY SetEntryWrites
<1>3. /\ n \in Nat \ {0} /\ z <= g /\ u = NextEntry(walk) /\ region' = region
      /\ DOMAIN walk = Locals /\ walk.on
  BY <1>1 DEF SetEntry, Walking, PagesInv
<1>4. /\ g \in 0 .. 2 /\ z \in {0, 2}
      /\ DOMAIN walk.r_tpg = 0 .. 2 /\ walk.r_tnum \in [0 .. 2 -> Nat]
      /\ p % Size[g] = 0 /\ a \in v .. v + p - 1
      /\ walk.phys = region.p + (a - v)
  <2>1. z \in {0, 2}
    BY <1>1, <1>2 DEF Writes
  <2> QED BY <1>1, <1>3, <2>1 DEF WalkInv, WalkNumbers, Walking
<1>5. /\ v \in Nat /\ p \in Nat \ {0} /\ a \in Nat /\ region.p \in Nat
      /\ Size[1] \in Nat \ {0} /\ Size[0] = 1
  <2>1. v \in Nat /\ region.p \in Nat
    BY <1>1, TopPlace
  <2>2. p \in Nat \ {0} /\ a \in Nat
    BY <1>1, <1>4, PagesInTable
  <2>3. 1 \in 0 .. 4
    OBVIOUS
  <2> QED BY <2>1, <2>2, <2>3, SizeFacts
<1>6. Moved(u, walk)
  BY Zenon, <1>3, NextIs
<1>7. /\ DOMAIN u = Locals /\ u.on /\ u.pgsize = g /\ u.pages = p
      /\ u.addr = a + Size[z] /\ u.phys = walk.phys + Size[z]
      /\ u.r_tpg = walk.r_tpg /\ u.r_tnum = walk.r_tnum
  BY <1>1, <1>3, <1>6 DEF Moved
<1>8. region.v = v /\ region' = region /\ walk' = u
  BY <1>1, <1>3
<1>9. u.num \in Nat => PagesInv'
  BY <1>1, <1>3, <1>7 DEF PagesInv, Walking
<1>10. ASSUME u.num = 0 PROVE WalkInv' /\ PagesInv'
  BY <1>1, <1>9, <1>10 DEF WalkInv
<1>11. CASE z = 2
  <2>1. n = 1
    <3>1. g = 2
      BY <1>3, <1>4, <1>11
    <3> QED BY <1>1, <1>3, <1>11, <3>1 DEF WalkInv, WalkPlaces, Walking
  <2>2. ~(walk.num - 1 > 0) /\ ~(walk.size < walk.pgsize)
    BY <1>1, <1>3, <1>4, <1>11, <2>1
  <2>3. u.num = walk.num - 1
    BY <1>3, <2>2, NextIs
  <2>4. u.num = 0
    <3>1. walk.num = 1
      BY <1>1, <2>1
    <3> QED BY <2>3, <3>1
  <2> QED BY <1>10, <2>4
<1>12. CASE z = 0
  <2>1. /\ AtLow(walk.at, a)
        /\ g = 0 => a + n = v + p
        /\ g # 0 => /\ (a + n) % Size[1] = 0
                    /\ AtLow(walk.r_tpg[0], a + n)
                    /\ a + n + walk.r_tnum[0] * Size[1] = v + p
        /\ g = 2 => walk.r_tnum[1] = 0
    BY <1>1, <1>3, <1>4, <1>12 DEF WalkInv, WalkPlaces, RestBehind, Walking
  <2>2. Upper' = Upper /\ Middle' = Middle /\ Section' = Section
    <3>1. t = 0
      BY <1>1, <1>2, <1>12 DEF Writes
    <3> QED BY <1>2, <1>3, <3>1, PlacesStay
  <2>3. PICK m, c : m = Middle.to /\ c = Section
    OBVIOUS
  <2>4. u.addr = a + 1 /\ u.phys = region.p + (u.addr - v)
    BY <1>4, <1>5, <1>7, <1>12
  <2>5. PICK k, s : k = walk.r_tnum[0] /\ s = k * Size[1]
    OBVIOUS
  <2>6. k \in Nat /\ s \in Nat /\ (k # 0 => s > 0)
    <3>1. PICK j : j = Size[1]
      OBVIOUS
    <3>2. k \in Nat /\ j \in Nat \ {0}
      BY <1>4, <1>5, <2>5, <3>1
    <3>3. k * j \in Nat
      BY <3>2
    <3>4. k # 0 => k * j > 0
      BY <3>2
    <3> QED BY <2>5, <3>1, <3>2, <3>3, <3>4
  <2>7. c \in Nat
    BY <2>3, PagesInTable
  <2>8. walk.at = [table |-> m, idx |-> a - c] /\ Upper.kind = "table" /\ Middle.kind = "table"
    BY <2>1, <2>3 DEF AtLow
  <2>9. /\ Middle'.to = m /\ Section' = c /\ Upper'.kind = "table" /\ Middle'.kind = "table"
    BY <2>2, <2>3, <2>8
  <2>10. CASE n - 1 > 0
    <3>1. u.num = n - 1 /\ u.size = 0 /\ u.at = After(walk.at, 0, 1)
      <4>1. walk.num - 1 > 0
        BY <1>1, <2>10
      <4>2. u.num = walk.num - 1 /\ u.size = walk.size /\ u.at = After(walk.at, walk.size, 1)
        BY <1>3, <4>1, NextIs
      <4>3. walk.num = n /\ walk.size = 0
        BY <1>1, <1>12
      <4> QED BY <4>2, <4>3
    <3>2. u.at = [table |-> m, idx |-> u.addr - c]
      <4>1. PICK l : l = a - c
        OBVIOUS
      <4>2. u.at = [table |-> m, idx |-> l + 1 * Stride(0)]
        BY <2>8, <3>1, <4>1, AfterIs
      <4>3. l + 1 * Stride(0) = u.addr - c
        BY <1>5, <2>4, <2>7, <4>1 DEF Stride
      <4> QED BY <4>2, <4>3
    <3>3. AtLow(walk.at, walk.addr)'
      BY <1>8, <2>9, <3>2 DEF AtLow
    <3>4. /\ g = 0 => u.addr + u.num = v + p
          /\ g # 0 => u.addr + u.num = a + n
      BY <1>3, <1>5, <2>1, <2>4, <3>1
    <3>5. u.addr \in v .. v + p - 1
      <4>1. CASE g = 0
        BY <1>3, <1>4, <1>5, <2>1, <2>4, <2>10, <4>1
      <4>2. CASE g # 0
        <5>1. a + n + s = v + p
          BY <2>1, <2>5, <4>2
        <5> QED BY <1>3, <1>4, <1>5, <2>4, <2>6, <2>10, <5>1
      <4> QED BY <4>1, <4>2
    <3>6. RestBehind'
      <4>1. CASE g = 0
        BY <1>7, <1>8, <3>4, <4>1 DEF RestBehind
      <4>2. CASE g # 0
        <5>1. PICK e : e = walk.r_tpg[0]
          OBVIOUS
        <5>2. e = [table |-> m, idx |-> (a + n) - c]
          BY <2>1, <2>3, <4>2, <5>1 DEF AtLow
        <5>3. u.r_tpg[0] = e /\ u.r_tnum[0] = k /\ u.addr + u.num = a + n
          BY <1>7, <2>5, <3>4, <4>2, <5>1
        <5>4. AtLow(walk.r_tpg[0], walk.addr + walk.num)'
          BY <1>8, <2>9, <5>2, <5>3 DEF AtLow
        <5>5. (u.addr + u.num) % Size[1] = 0 /\ u.addr + u.num + u.r_tnum[0] * Size[1] = v + p
          BY <2>1, <2>5, <4>2, <5>3
        <5> QED BY <1>7, <1>8, <4>2, <5>4, <5>5 DEF RestBehind
      <4> QED BY <4>1, <4>2
    <3>7. WalkNumbers'
      <4>1. ~(u.size > u.pgsize) /\ u.size \in 0 .. 3
        BY <1>4, <1>7, <3>1
      <4> QED BY <1>4, <1>7, <1>8, <2>4, <3>5, <4>1 DEF WalkNumbers
    <3>8. WalkPlaces'
      <4>1. u.pgsize = 2 => u.r_tnum[1] = 0
        BY <1>7, <2>1
      <4>2. ~(u.size = 3) /\ ~(u.size = 2) /\ ~(u.size = 1)
        BY <3>1
      <4> QED BY <1>8, <3>3, <3>6, <4>1, <4>2 DEF WalkPlaces
    <3>9. u.num \in Nat
      BY <1>3, <2>10, <3>1
    <3> QED BY <1>9, <3>7, <3>8, <3>9 DEF WalkInv
  <2>11. CASE ~(n - 1 > 0) /\ g = 0
    <3>1. u.num = walk.num - 1
      <4>1. ~(walk.num - 1 > 0) /\ ~(walk.size < walk.pgsize)
        BY <1>1, <1>12, <2>11
      <4> QED BY <1>3, <4>1, NextIs
    <3>2. u.num = 0
      BY <1>1, <1>3, <2>11, <3>1
    <3> QED BY <1>10, <3>2
  <2>12. CASE ~(n - 1 > 0) /\ g # 0
    <3> DEFINE L == {j \in walk.size .. walk.pgsize - 1 : walk.r_tnum[j] > 0}
               K == IF L = {} THEN walk.pgsize - 1 ELSE CHOOSE y \in L : \A q \in L : y <= q
    <3>1. u.size = K + 1 /\ u.num = walk.r_tnum[K] /\ u.at = walk.r_tpg[K]
      <4>1. ~(walk.num - 1 > 0) /\ walk.size < walk.pgsize
        BY <1>1, <1>4, <1>12, <2>12
      <4> QED BY Zenon, <1>3, <4>1, NextIs
    <3>2. K = 0 \/ (K = 1 /\ walk.r_tnum[K] = 0 /\ walk.r_tnum[0] = 0)
      <4> DEFINE r == walk.r_tnum
                 q == L
                 w == K
      <4>1. r = walk.r_tnum /\ q = L /\ w = K
        OBVIOUS
      <4>2. /\ g \in {1, 2} /\ r \in [0 .. 2 -> Nat] /\ (g = 2 => r[1] = 0)
        BY <1>4, <2>1, <2>12, <4>1
      <4>3. q = {j \in 0 .. g - 1 : r[j] > 0}
        BY <1>1, <1>12, <4>1
      <4>4. w = IF q = {} THEN g - 1 ELSE CHOOSE y \in q : \A j \in q : y <= j
        BY <1>1, <4>1
      <4> HIDE DEF L, K, r, q, w
      <4>5. w = 0 \/ (w = 1 /\ r[w] = 0 /\ r[0] = 0)
        BY <4>2, <4>3, <4>4, ClimbedTo
      <4> QED BY <4>1, <4>5
    <3> HIDE DEF L, K
    <3>3. n = 1
      BY <1>3, <2>12
    <3>4. CASE K = 0 /\ k # 0
      <4>1. u.size = 1 /\ u.num = k /\ u.at = walk.r_tpg[0]
        BY <2>5, <3>1, <3>4
      <4>2. a + 1 + s = v + p /\ u.addr % Size[1] = 0
        BY <2>1, <2>4, <2>5, <2>12, <3>3
      <4>3. u.addr \in v .. v + p - 1
        BY <1>4, <1>5, <2>4, <2>6, <3>4, <4>2
      <4>4. u.addr % Size[1] = 0 /\ u.addr + u.num * Size[1] = v + u.pages
        BY <1>7, <2>4, <2>5, <4>1, <4>2
      <4>5. u.at = [table |-> m, idx |-> u.addr - c]
        BY <2>1, <2>3, <2>4, <2>12, <3>3, <4>1 DEF AtLow
      <4>6. u.addr - (u.addr % Size[1]) = u.addr
        BY <1>5, <2>4, <4>4
      <4>7. AtLow(walk.at, walk.addr - (walk.addr % Size[1]))'
        BY <1>8, <2>9, <4>5, <4>6 DEF AtLow
      <4>8. WalkNumbers'
        <5>1. ~(u.size > u.pgsize) /\ u.size \in 0 .. 3
          BY <1>4, <1>7, <2>12, <4>1
        <5> QED BY <1>4, <1>7, <1>8, <2>4, <4>3, <5>1 DEF WalkNumbers
      <4>9. WalkPlaces'
        <5>1. u.pgsize = 2 => u.r_tnum[1] = 0
          BY <1>7, <2>1
        <5>2. ~(u.size = 3) /\ ~(u.size = 2) /\ ~(u.size = 0)
          BY <4>1
        <5> QED BY <1>8, <4>1, <4>4, <4>7, <5>1, <5>2 DEF WalkPlaces
      <4>10. u.num \in Nat
        BY <2>6, <4>1
      <4> QED BY <1>9, <4>8, <4>9, <4>10 DEF WalkInv
    <3>5. CASE ~(K = 0 /\ k # 0)
      <4>1. u.num = 0
        BY <2>5, <3>1, <3>2, <3>5
      <4> QED BY <1>10, <4>1
    <3> QED BY <3>4, <3>5
  <2> QED BY <2>10, <2>11, <2>12
<1> QED BY <1>4, <1>11, <1>12

\* The entry written is the page's: what is left begins behind it.
LEMMA SetEntryGoes ==
  ASSUME Walking, WalkInv, SetEntry
  PROVE  /\ walk'.on /\ walk'.pages = walk.pages /\ walk'.addr = walk.addr + Size[walk.size]
         /\ walk'.num = 0 => walk.addr + Size[walk.size] = region.v + walk.pages
<1>1. PICK u, z, n, v, p, g, a : /\ u = walk' /\ z = walk.size /\ n = walk.num /\ v = region.v
                                 /\ p = walk.pages /\ g = walk.pgsize /\ a = walk.addr
  OBVIOUS
<1>2. PICK x, i, t, f : Writes(x, i, t, f)
  BY SetEntryWrites
<1>3. /\ n \in Nat \ {0} /\ z <= g /\ u = NextEntry(walk) /\ DOMAIN walk = Locals /\ walk.on
  BY <1>1 DEF SetEntry, Walking, PagesInv
<1>4. Moved(u, walk)
  BY Zenon, <1>3, NextIs
<1>5. u.on /\ u.pages = p /\ u.addr = a + Size[z]
  BY <1>1, <1>3, <1>4 DEF Moved
<1>6. /\ g \in 0 .. 2 /\ z \in {0, 2} /\ walk.r_tnum \in [0 .. 2 -> Nat]
      /\ a \in v .. v + p - 1 /\ v \in Nat /\ p \in Nat
  <2>1. z \in {0, 2}
    BY <1>1, <1>2 DEF Writes
  <2>2. g \in 0 .. 2 /\ walk.r_tnum \in [0 .. 2 -> Nat] /\ a \in v .. v + p - 1
    BY <1>1, <1>3 DEF WalkInv, WalkNumbers, Walking
  <2> QED BY <1>1, <2>1, <2>2, TopPlace, PagesInTable
<1>7. ASSUME u.num = 0 PROVE a + Size[z] = v + p
  <2>1. CASE z = 2
    <3>1. g = 2
      BY <1>3, <1>6, <2>1
    <3> QED BY <1>1, <1>3, <2>1, <3>1 DEF WalkInv, WalkPlaces, Walking
  <2>2. CASE z = 0
    <3>1. /\ g = 0 => a + n = v + p
          /\ g # 0 => a + n + walk.r_tnum[0] * Size[1] = v + p
          /\ g = 2 => walk.r_tnum[1] = 0
      BY <1>1, <1>3, <1>6, <2>2 DEF WalkInv, WalkPlaces, RestBehind, Walking
    <3>2. n = 1
      <4>1. walk.num - 1 > 0 => u.num = walk.num - 1
        BY <1>3, NextIs
      <4> QED BY <1>1, <1>3, <1>7, <4>1
    <3>3. Size[z] = 1
      BY <2>2, SizeFacts
    <3>4. CASE g = 0
      BY <1>6, <3>1, <3>2, <3>3, <3>4
    <3>5. CASE g # 0
      <4> DEFINE L == {j \in walk.size .. walk.pgsize - 1 : walk.r_tnum[j] > 0}
                 K == IF L = {} THEN walk.pgsize - 1 ELSE CHOOSE y \in L : \A q \in L : y <= q
      <4>1. u.num = walk.r_tnum[K]
        <5>1. ~(walk.num - 1 > 0) /\ walk.size < walk.pgsize
          BY <1>1, <1>6, <2>2, <3>2, <3>5
        <5> QED BY Zenon, <1>3, <5>1, NextIs
      <4>2. K = 0 \/ (K = 1 /\ walk.r_tnum[K] = 0 /\ walk.r_tnum[0] = 0)
        <5> DEFINE r == walk.r_tnum
                   q == L
                   w == K
        <5>1. r = walk.r_tnum /\ q = L /\ w = K
          OBVIOUS
        <5>2. /\ g \in {1, 2} /\ r \in [0 .. 2 -> Nat] /\ (g = 2 => r[1] = 0)
          BY <1>6, <3>1, <3>5, <5>1
        <5>3. q = {j \in 0 .. g - 1 : r[j] > 0}
          BY <1>1, <2>2, <5>1
        <5>4. w = IF q = {} THEN g - 1 ELSE CHOOSE y \in q : \A j \in q : y <= j
          BY <1>1, <5>1
        <5> HIDE DEF L, K, r, q, w
        <5>5. w = 0 \/ (w = 1 /\ r[w] = 0 /\ r[0] = 0)
          BY <5>2, <5>3, <5>4, ClimbedTo
        <5> QED BY <5>1, <5>5
      <4> HIDE DEF L, K
      <4>3. walk.r_tnum[0] = 0
        BY <1>7, <4>1, <4>2
      <4>4. Size[1] \in Nat /\ 0 * Size[1] = 0
        <5>1. 1 \in 0 .. 4
          OBVIOUS
        <5>2. Size[1] \in Nat
          BY <5>1, SizeFacts
        <5> QED BY <5>2
      <4>5. a + 1 + 0 = v + p
        BY <3>1, <3>2, <3>5, <4>3, <4>4
      <4> QED BY <1>6, <3>3, <4>5
    <3> QED BY <3>4, <3>5
  <2> QED BY <1>6, <2>1, <2>2
<1> QED BY <1>1, <1>5, <1>7
-----------------------------------------------------------------------------
(* A turn of map_region's loops, and every step.                             *)

\* Every turn of map_region keeps everything.
LEMMA MapTurnStep == ASSUME BInv, MapTurn PROVE BInv'
<1>1. TurnRest /\ Step /\ pc = "map" /\ pc' = "map"
  BY DEF MapTurn, TurnRest, SystemStays, replay, system
<1>2. KernelInv'
  BY <1>1 DEF BInv, KernelInv, TurnRest, SystemStays
<1>3. SavedInv'
  BY <1>1 DEF SavedInv
<1>4. CASE \E guess \in Sizes : MapFpage(guess)
  <2>1. PICK guess \in Sizes : MapFpage(guess)
    BY <1>4
  <2>2. Walks'
    BY <1>1, <2>1, MapFpageWalks
  <2>3. Memory' /\ Utcbs'
    BY <1>1, <2>1, TablesLeft DEF MapFpage, heap
  <2> QED BY <1>2, <2>2, <2>3 DEF BInv
<1>5. CASE Descend
  BY <1>1, <1>2, <1>5, DescendStep DEF BInv
<1>6. CASE Recurse \/ SetEntry
  <2>1. Walking /\ WalkInv
    BY <1>6 DEF BInv, Memory, Walks, Walking, Recurse, SetEntry
  <2>2. WalkInv' /\ PagesInv'
    BY <1>6, <2>1, RecurseWalks, SetEntryWalks
  <2>3. region' = region
    BY <1>6 DEF Recurse, SetEntry
  <2>4. RegionInv'
    BY <1>1, <2>1, <2>3 DEF Walking, RegionInv, TurnRest, SystemStays, Current
  <2>5. Memory' /\ Utcbs'
    <3>1. CASE Recurse
      BY <1>1, <3>1, TablesLeft DEF Recurse, heap
    <3>2. CASE SetEntry
      BY <1>1, <3>2, SetEntryMemory
    <3> QED BY <1>6, <3>1, <3>2
  <2> QED BY <1>2, <1>3, <2>2, <2>4, <2>5 DEF BInv, Walks
<1>7. CASE FpageDone
  <2>1. Memory' /\ Utcbs'
    BY <1>1, <1>7, TablesLeft DEF FpageDone, heap
  <2> QED BY <1>1, <1>2, <1>7, <2>1, FpageDoneWalks DEF BInv
<1> QED BY <1>1, <1>4, <1>5, <1>6, <1>7 DEF Step

\* No step of a replayable boot breaks the invariant.
LEMMA NextBInv ==
  ASSUME BInv, Replayable, [BootNext]_vars
  PROVE  BInv'
<1>1. CASE UNCHANGED vars \/ (W!Next /\ UNCHANGED bvars)
  <2>1. UNCHANGED bvars
    BY <1>1 DEF vars
  <2> QED BY <2>1, UnchangedStep
<1>2. CASE Load
  BY <1>2, LoadStep
<1>3. CASE CreateHeap \/ Skip \/ CreateSpace \/ PageDirectory \/ SegmentList
  BY <1>3, CreateHeapStep, SkipStep, CreateSpaceStep, PageDirectoryStep, SegmentListStep
<1>4. CASE KernelTable("utcb_page", "vectors") \/ KernelTable("vectors", "idle") \/ IdleTcb
  BY <1>4, KernelTableStep, IdleTcbStep
<1>5. CASE CreateSegment \/ MapMemory \/ MapTurn \/ Mapped
  BY <1>5, CreateSegmentStep, MapMemoryStep, MapTurnStep, MappedStep
<1>6. CASE CreateThread \/ NoUtcbLeft \/ UtcbInPage \/ UtcbNoPage \/ MapUtcb
  BY <1>6, CreateThreadStep, NoUtcbLeftStep, UtcbInPageStep, UtcbNoPageStep, MapUtcbStep
<1>7. CASE Enqueue \/ Schedule
  BY <1>7, EnqueueStep, ScheduleStep
<1> QED BY <1>1, <1>2, <1>3, <1>4, <1>5, <1>6, <1>7 DEF BootNext, Boot

\* It holds before the boot.
LEMMA InitBInv == ASSUME BootInit PROVE BInv
<1>1. /\ avail = {} /\ blocks = {} /\ first_free = [p \in {"space", "tcb", "l0"} |-> 0]
      /\ bitmap = [c \in 1 .. Chunks |-> {}] /\ objects = {} /\ tables = << >>
      /\ walk = NoWalk /\ pc = "off" /\ page = NoPage /\ kernel = <<>>
      /\ spaces = <<>> /\ threads = <<>> /\ zeroed = {}
  BY DEF BootInit, Init
<1>2. DOMAIN << >> = {} /\ << >> \in Seq({})
  OBVIOUS
<1>3. DOMAIN tables = {} /\ SpacesMade = {} /\ DOMAIN threads = {} /\ DOMAIN kernel = {}
  BY <1>1, <1>2 DEF SpacesMade
<1>4. HeapInv
  BY <1>1 DEF HeapInv
<1>5. ShapeInv /\ TreeInv
  BY <1>1, <1>2, <1>3 DEF ShapeInv, TreeInv
<1>6. OwnersInv
  <2>1. TableOwners = {} /\ UtcbOwners = {} /\ ListOwners = {} /\ PoolOwners = {} /\ KernelOwners = {}
    BY <1>1, <1>3 DEF TableOwners, UtcbOwners, UtcbPlaces, ListOwners, PoolOwners, KernelOwners
  <2>2. PageOwners = {}
    BY <1>1 DEF PageOwners, NoPage
  <2>3. Owners = {}
    BY <2>1, <2>2 DEF Owners
  <2> QED BY <2>3 DEF OwnersInv
<1>7. PoolInv
  <2>1. 0 \in 0 .. Chunks
    BY PageTableAssumption
  <2>2. first_free \in [PoolNames -> 0 .. Chunks] /\ \A p \in PoolNames : first_free[p] = 0
    BY <1>1, <2>1 DEF PoolNames
  <2> QED BY <1>1, <2>2 DEF PoolInv
<1>8. Utcbs
  <2>1. ThreadInv
    BY <1>1, <1>2, <1>3 DEF ThreadInv, Creating
  <2>2. PageInv /\ SectionInv /\ LostInv
    BY <1>1, <1>3 DEF PageInv, SectionInv, LostInv
  <2> QED BY <2>1, <2>2 DEF Utcbs
<1>9. Walks
  <2>1. ~walk.on
    BY <1>1 DEF NoWalk
  <2> QED BY <1>1, <2>1 DEF Walks, SavedInv, RegionInv, PagesInv, WalkInv
<1>10. KernelInv
  BY <1>1, <1>2 DEF KernelInv
<1> QED BY <1>4, <1>5, <1>6, <1>7, <1>8, <1>9, <1>10 DEF BInv, Memory
-----------------------------------------------------------------------------
(* What follows.                                                             *)

\* Two threads with UTCBs, of one space or of two.
LEMMA FramesApart ==
  ASSUME BInv, NEW m \in DOMAIN threads, NEW n \in DOMAIN threads, m # n, Claims(m), Claims(n)
  PROVE  /\ UtcbFrame(threads[m]) # Nil
         /\ IF threads[m].space = threads[n].space THEN threads[m].utcb # threads[n].utcb
            ELSE UtcbFrame(threads[m]) # UtcbFrame(threads[n])
<1> DEFINE Use(k, s, i) ==
      /\ s \in SpacesMade /\ spaces[s].utcb # Nil /\ s = threads[k].space
      /\ i \in DOMAIN UtcbTable(s) /\ UtcbTable(s)[i] # Nil
      /\ UtcbFrame(threads[k]) = UtcbTable(s)[i]
<1>1. ASSUME NEW k \in DOMAIN threads, Claims(k)
      PROVE  \E s, i : Use(k, s, i)
  <2>1. PICK s, p, i : s = threads[k].space /\ p = threads[k].utcb /\ i = PageOf(p)
    OBVIOUS
  <2>2. /\ s \in SpacesMade /\ p \in 0 .. UtcbBitmap - 1
        /\ spaces[s].utcb # Nil /\ UtcbTable(s)[i] # Nil
    BY <1>1, <2>1 DEF BInv, Utcbs, ThreadInv
  <2>3. i \in DOMAIN UtcbTable(s)
    <3>1. i \in 0 .. Size[2] - 1
      BY <2>1, <2>2, PageOfRange
    <3> QED BY Zenon, <2>2, <3>1, UtcbTableIs DEF BInv, Memory, LowShape
  <2>4. UtcbFrame(threads[k]) = UtcbTable(s)[i]
    BY <2>1, <2>2 DEF UtcbFrame, UtcbEntry, UtcbTable
  <2> QED BY <2>1, <2>2, <2>3, <2>4
<1>2. PICK s, i : Use(m, s, i)
  BY <1>1
<1>3. PICK t, j : Use(n, t, j)
  BY <1>1
<1>4. ASSUME UtcbTable(s)[i] = UtcbTable(t)[j] PROVE s = t
  <2>1. PICK f : f = UtcbTable(s)[i].frame
    OBVIOUS
  <2>2. PICK o, u : o = <<"utcb", <<s, i>>, f>> /\ u = <<"utcb", <<t, j>>, f>>
    BY Zenon
  <2>3. UtcbUse(o, s, i) /\ UtcbUse(u, t, j)
    BY <1>2, <1>3, <1>4, <2>1, <2>2 DEF UtcbUse
  <2>4. o \in Owners /\ u \in Owners
    BY <2>3, UseOwns DEF Owners
  <2>5. o[3] = u[3] /\ o[2] = <<s, i>> /\ u[2] = <<t, j>>
    BY <2>2
  <2>6. <<s, i>> = <<t, j>>
    BY <2>4, <2>5 DEF BInv, Memory, OwnersInv
  <2> QED BY <2>6
<1>5. threads[m].space = threads[n].space => threads[m].utcb # threads[n].utcb
  BY DEF BInv, Utcbs, ThreadInv
<1> QED BY <1>2, <1>3, <1>4, <1>5

\* The invariant implies that UTCBs are apart.
LEMMA UtcbsFollow == ASSUME BInv PROVE UtcbsApart
<1>1. \A m, n \in DOMAIN threads :
        LET x == threads[m] y == threads[n] IN
        m # n /\ x.utcb # NoUtcb /\ y.utcb # NoUtcb =>
          /\ UtcbFrame(x) # Nil
          /\ IF x.space = y.space THEN x.utcb # y.utcb ELSE UtcbFrame(x) # UtcbFrame(y)
  BY FramesApart DEF Claims
<1>2. \A z \in zeroed : \E e \in Range(tables[spaces[z.space].utcb.to]) : e = z.at
  BY DEF BInv, Utcbs, SectionInv, UtcbTable, Range
<1>3. LostInv
  BY DEF BInv, Utcbs
<1> QED BY <1>1, <1>2, <1>3 DEF UtcbsApart, LostInv

\* A table hangs in one place.
LEMMA OneEntry ==
  ASSUME BInv, NEW p \in DOMAIN tables, p.level < 3
  PROVE  Cardinality({x \in Places : tables[x[1]][x[2]] = [kind |-> "table", to |-> p]})
         + Cardinality({s \in SpacesMade : spaces[s].utcb = [kind |-> "table", to |-> p]}) = 1
<1> DEFINE A == {x \in Places : tables[x[1]][x[2]] = [kind |-> "table", to |-> p]}
           B == {s \in SpacesMade : spaces[s].utcb = [kind |-> "table", to |-> p]}
<1>1. OneParent(p)
  BY DEF BInv, Memory, TreeInv
<1>2. ASSUME NEW x \in A
      PROVE  \E q, i : x = <<q, i>> /\ Hangs(q, i, p)
  <2>1. PICK q \in DOMAIN tables : \E i \in DOMAIN tables[q] : x = <<q, i>>
    BY DEF Places
  <2>2. PICK i \in DOMAIN tables[q] : x = <<q, i>>
    BY <2>1
  <2> QED BY <2>2 DEF Hangs, Pointer
<1>3. \A s \in B : HangsInSpace(s, p)
  BY DEF HangsInSpace, Pointer
<1>4. CASE \E q \in DOMAIN tables : \E i \in DOMAIN tables[q] : Hangs(q, i, p)
  <2>1. PICK q \in DOMAIN tables : \E j \in DOMAIN tables[q] : Hangs(q, j, p)
    BY <1>4
  <2>0. PICK i \in DOMAIN tables[q] : Hangs(q, i, p)
    BY <2>1
  <2>2. <<q, i>> \in A
    <3>1. <<q, i>> \in Places
      BY <2>0 DEF Places
    <3> QED BY <2>0, <3>1 DEF Hangs, Pointer
  <2>3. \A x \in A : x = <<q, i>>
    BY <1>1, <1>2, <2>0 DEF OneParent, Hangs
  <2>4. A = {<<q, i>>}
    BY <2>2, <2>3
  <2>5. B = {}
    BY <1>1, <1>3, <2>0 DEF OneParent, Hangs
  <2>6. Cardinality(A) = 1 /\ Cardinality(B) = 0
    BY Zenon, <2>4, <2>5, FS_Singleton, FS_EmptySet
  <2> QED BY <2>6
<1>5. CASE \E s \in SpacesMade : HangsInSpace(s, p)
  <2>1. PICK s \in SpacesMade : HangsInSpace(s, p)
    BY <1>5
  <2>2. s \in B /\ \A t \in B : t = s
    BY <1>1, <1>3, <2>1 DEF OneParent, HangsInSpace, Pointer
  <2>3. B = {s}
    BY <2>2
  <2>4. A = {}
    BY <1>1, <1>2, <2>1 DEF OneParent, Hangs
  <2>5. Cardinality(A) = 0 /\ Cardinality(B) = 1
    BY Zenon, <2>3, <2>4, FS_Singleton, FS_EmptySet
  <2> QED BY <2>5
<1> QED BY <1>1, <1>4, <1>5 DEF OneParent

\* What each use takes, as MemoryApart lists them.
Kind == <<"table", "utcb", "list", "pool", "kernel">>
Uses == <<TableBlocks, UtcbBlocks, Lists, PoolBlocks, Kernels>>

\* Each use that MemoryApart lists is the use of an owner.
LEMMA UsesOwn ==
  ASSUME ShapeInv, NEW k \in 1 .. 5, NEW b \in Uses[k]
  PROVE  \E o \in Owners : o[1] = Kind[k] /\ o[3] = b
<1>1. CASE k = 1
  <2>1. PICK x \in DOMAIN tables : x.level < 3 /\ b = x.at
    BY <1>1 DEF Uses, TableBlocks
  <2>2. <<"table", x, x.at>> \in Owners
    BY <2>1 DEF Owners, TableOwners
  <2> QED BY <1>1, <2>1, <2>2 DEF Kind
<1>2. CASE k = 2
  <2>1. PICK e : /\ b = e.frame /\ e # Nil
                 /\ \E s \in SpacesMade : /\ spaces[s].utcb # Nil
                                          /\ e \in Range(tables[spaces[s].utcb.to])
    BY <1>2 DEF Uses, UtcbBlocks
  <2>2. PICK s \in SpacesMade : /\ spaces[s].utcb # Nil
                                /\ e \in Range(tables[spaces[s].utcb.to])
    BY <2>1
  <2>3. PICK i \in DOMAIN UtcbTable(s) : e = UtcbTable(s)[i]
    BY <2>2 DEF UtcbTable, Range
  <2>4. PICK o : o = <<"utcb", <<s, i>>, UtcbTable(s)[i].frame>>
    BY Zenon
  <2>5. UtcbUse(o, s, i)
    BY <2>1, <2>2, <2>3, <2>4 DEF UtcbUse
  <2>6. o \in Owners
    BY <2>5, UseOwns DEF Owners
  <2> QED BY <1>2, <2>1, <2>3, <2>4, <2>6 DEF Kind
<1>3. CASE k = 3
  <2>1. PICK s \in SpacesMade : spaces[s].list # None /\ b = spaces[s].list
    BY <1>3 DEF Uses, Lists
  <2>2. <<"list", s, spaces[s].list>> \in Owners
    BY <2>1 DEF Owners, ListOwners
  <2> QED BY <1>3, <2>1, <2>2 DEF Kind
<1>4. CASE k = 4
  <2>1. PICK o \in objects : b = o.base
    BY <1>4 DEF Uses, PoolBlocks
  <2>2. <<"pool", o.pool, o.base>> \in Owners
    BY <2>1 DEF Owners, PoolOwners
  <2> QED BY <1>4, <2>1, <2>2 DEF Kind
<1>5. CASE k = 5
  <2>1. PICK j \in DOMAIN kernel : kernel[j] # None /\ b = kernel[j]
    BY <1>5 DEF Uses, Kernels, Range
  <2>2. <<"kernel", j, kernel[j]>> \in Owners
    BY <2>1 DEF Owners, KernelOwners
  <2> QED BY <1>5, <2>1, <2>2 DEF Kind
<1> QED BY <1>1, <1>2, <1>3, <1>4, <1>5

\* The invariant implies that memory is apart.
LEMMA MemoryFollows == ASSUME BInv PROVE MemoryApart
<1>1. SA!ObjectsApart
  BY PoolsKeepApart DEF BInv, Memory
<1>2. \A x, y \in blocks : x # y => Heap!Run(x.base, x.n) \cap Heap!Run(y.base, y.n) = {}
  BY DEF BInv, Memory, HeapInv
<1>3. \A p \in DOMAIN tables : p.level < 3 =>
        Cardinality({x \in Places : tables[x[1]][x[2]] = [kind |-> "table", to |-> p]})
        + Cardinality({s \in SpacesMade : spaces[s].utcb = [kind |-> "table", to |-> p]}) = 1
  BY OneEntry
<1>4. DOMAIN Uses = 1 .. 5
  BY DEF Uses
<1>5. ASSUME NEW a \in 1 .. 5, NEW b \in 1 .. 5, a # b
      PROVE  Uses[a] \cap Uses[b] = {}
  <2> SUFFICES ASSUME NEW c \in Uses[a], c \in Uses[b] PROVE FALSE
    OBVIOUS
  <2>1. PICK o \in Owners : o[1] = Kind[a] /\ o[3] = c
    BY UsesOwn DEF BInv, Memory
  <2>2. PICK u \in Owners : u[1] = Kind[b] /\ u[3] = c
    BY UsesOwn DEF BInv, Memory
  <2>3. o[1] = u[1]
    BY <2>1, <2>2 DEF BInv, Memory, OwnersInv
  <2>4. Kind[a] # Kind[b]
    BY <1>5 DEF Kind
  <2> QED BY <2>1, <2>2, <2>3, <2>4
<1> QED BY <1>1, <1>2, <1>3, <1>4, <1>5 DEF MemoryApart, Uses
-----------------------------------------------------------------------------
\* In every boot from a script that can be replayed, for every description,
\* heap and geometry of the tables: each thread's UTCB is its own, in a page
\* mapped in its own space only, and a bit of a space is lost only when the
\* heap has no page (space_t::allocate_utcb, space.cc).
THEOREM BootUtcbsApart == BootSpec /\ []Replayable => []UtcbsApart
<1> QED
  BY InitBInv, NextBInv, UtcbsFollow, PTL DEF BootSpec

\* And each block of the heap has one use: page table, page of UTCBs, segment
\* list, pool or table of the kernel; each table hangs in one place; no small
\* objects overlap (kmem_resource.cc, smallalloc.cc, space.cc).
THEOREM BootMemoryApart == BootSpec /\ []Replayable => []MemoryApart
<1> QED
  BY InitBInv, NextBInv, MemoryFollows, PTL DEF BootSpec
-----------------------------------------------------------------------------
(* What the processor finds for a page.                                      *)

Through(s, x, y) ==
  /\ Hangs(Root(s), Index(3, x), y) /\ y.level = 2
  /\ y \in DOMAIN tables /\ Index(2, x) \in DOMAIN tables[y]
Down(s, x, y, z) ==
  /\ Through(s, x, y) /\ Hangs(y, Index(2, x), z) /\ z.level = 1
  /\ z \in DOMAIN tables /\ x % Size[2] \in DOMAIN tables[z]

\* What the processor finds for a page, by where its walk ends.
LEMMA LeafWalk ==
  ASSUME ShapeInv, NEW s \in SpacesMade, NEW x \in 0 .. Size[4] - 1
  PROVE  /\ x \in Nat /\ Root(s) \in DOMAIN tables /\ Index(3, x) \in DOMAIN tables[Root(s)]
         /\ \/ tables[Root(s)][Index(3, x)] = Nil /\ Leaf(s, x) = Nil
            \/ \E y : /\ Through(s, x, y) /\ tables[y][Index(2, x)].kind # "table"
                      /\ Leaf(s, x) = tables[y][Index(2, x)]
                      /\ Leaf(s, x) = Nil \/ \E f \in Nat : Leaf(s, x) = PageEntry(2, f)
            \/ \E y, z : /\ Down(s, x, y, z) /\ Leaf(s, x) = tables[z][x % Size[2]]
                         /\ Leaf(s, x) = Nil \/ \E f \in Nat : Leaf(s, x) = PageEntry(0, f)
<1>1. x \in Nat /\ Size[2] \in Nat \ {0}
  <2>1. 4 \in 0 .. 4 /\ 2 \in 0 .. 4
    OBVIOUS
  <2> QED BY <2>1, SizeFacts
<1>2. PICK r, i, j, k : r = Root(s) /\ i = Index(3, x) /\ j = Index(2, x) /\ k = x % Size[2]
  OBVIOUS
<1>3. r \in DOMAIN tables /\ r.level = 3
  BY <1>2, Kinds DEF ShapeInv
<1>4. RootShape(r)
  BY <1>3, LevelShape
<1>5. /\ i \in 0 .. TableSize(3) - 1 /\ j \in 0 .. TableSize(2) - 1 /\ k \in 0 .. Size[2] - 1
  <2>1. 3 \in 0 .. 3 /\ 2 \in 0 .. 3
    OBVIOUS
  <2> QED BY Zenon, <1>1, <1>2, <2>1, IndexRange, Division
<1>6. i \in DOMAIN tables[r]
  BY <1>4, <1>5 DEF RootShape
<1>7. PICK e : e = tables[r][i]
  OBVIOUS
<1>8. Leaf(s, x) = LET e2 == IF e = Nil THEN Nil ELSE tables[e.to][j]
                   IN IF e2.kind = "table" THEN tables[e2.to][k] ELSE e2
  BY <1>2, <1>7 DEF Leaf
<1>9. CASE e = Nil
  <2>1. Leaf(s, x) = Nil
    BY <1>8, <1>9, Kinds
  <2> QED BY <1>1, <1>2, <1>3, <1>6, <1>7, <1>9, <2>1
<1>10. CASE e # Nil
  <2>1. PICK y \in DOMAIN tables : y.level = 2 /\ e = Pointer(y)
    BY <1>4, <1>6, <1>7, <1>10 DEF RootShape
  <2>2. MiddleShape(y)
    BY <2>1, LevelShape
  <2>3. j \in DOMAIN tables[y]
    BY <1>5, <2>2 DEF MiddleShape
  <2>4. Through(s, x, y)
    BY <1>2, <1>3, <1>6, <1>7, <2>1, <2>3 DEF Through, Hangs
  <2>5. PICK d : d = tables[y][j]
    OBVIOUS
  <2>6. Leaf(s, x) = IF d.kind = "table" THEN tables[d.to][k] ELSE d
    BY <1>8, <1>10, <2>1, <2>5, Kinds
  <2>7. \/ d = Nil
        \/ \E z \in DOMAIN tables : z.level = 1 /\ d = Pointer(z)
        \/ \E f \in Nat : d = PageEntry(2, f)
    BY <2>2, <2>3, <2>5 DEF MiddleShape
  <2>8. CASE d.kind # "table"
    <3>1. Leaf(s, x) = d /\ (d = Nil \/ \E f \in Nat : d = PageEntry(2, f))
      BY <2>6, <2>7, <2>8, Kinds
    <3> QED BY <1>1, <1>2, <1>3, <1>6, <2>4, <2>5, <2>8, <3>1
  <2>9. CASE d.kind = "table"
    <3>1. PICK z \in DOMAIN tables : z.level = 1 /\ d = Pointer(z)
      BY <2>7, <2>9, Kinds
    <3>2. LowShape(z)
      BY <3>1, LevelShape
    <3>3. k \in DOMAIN tables[z]
      BY <1>5, <3>2 DEF LowShape
    <3>4. Leaf(s, x) = tables[z][k]
      BY <2>6, <2>9, <3>1, Kinds
    <3>5. tables[z][k] = Nil \/ \E f \in Nat : tables[z][k] = PageEntry(0, f)
      BY <3>2, <3>3 DEF LowShape
    <3>6. Down(s, x, y, z)
      BY <1>2, <2>1, <2>3, <2>4, <2>5, <3>1, <3>3 DEF Down, Hangs
    <3> QED BY <1>1, <1>2, <1>3, <1>6, <3>4, <3>5, <3>6
  <2> QED BY <2>8, <2>9
<1> QED BY <1>9, <1>10

\* A page keeps what it has while the entries on its way are what they were.
Visits(s, x, q, i) ==
  \/ q = Root(s) /\ i = Index(3, x)
  \/ \E y : Through(s, x, y) /\ q = y /\ i = Index(2, x)
  \/ \E y, z : Down(s, x, y, z) /\ q = z /\ i = x % Size[2]
Rewritten(q, i) ==
  \A y \in DOMAIN tables : \A j \in DOMAIN tables[y] :
    ~(y = q /\ j = i) => tables'[y][j] = tables[y][j]

\* One entry written off the way of a page: it finds what it found.
LEMMA LeafKept ==
  ASSUME ShapeInv, NEW s \in SpacesMade, NEW x \in 0 .. Size[4] - 1, NEW q, NEW i,
         Rewritten(q, i), ~Visits(s, x, q, i)
  PROVE  Leaf(s, x)' = Leaf(s, x)
<1>1. PICK r, a, b, c : r = Root(s) /\ a = Index(3, x) /\ b = Index(2, x) /\ c = x % Size[2]
  OBVIOUS
<1>2. r \in DOMAIN tables /\ a \in DOMAIN tables[r]
  BY <1>1, LeafWalk
<1>3. tables'[r][a] = tables[r][a]
  BY <1>1, <1>2 DEF Rewritten, Visits
<1>4. Leaf(s, x)' = LET e3 == tables'[r][a]
                        e2 == IF e3 = Nil THEN Nil ELSE tables'[e3.to][b]
                    IN IF e2.kind = "table" THEN tables'[e2.to][c] ELSE e2
  BY <1>1 DEF Leaf, Root, Index
<1>5. CASE tables[r][a] = Nil /\ Leaf(s, x) = Nil
  BY <1>3, <1>4, <1>5, Kinds
<1>6. CASE \E y : /\ Through(s, x, y) /\ tables[y][b].kind # "table"
                  /\ Leaf(s, x) = tables[y][b]
  <2>1. PICK y : /\ Through(s, x, y) /\ tables[y][b].kind # "table"
                 /\ Leaf(s, x) = tables[y][b]
    BY <1>6
  <2>2. tables[r][a] = Pointer(y) /\ y \in DOMAIN tables /\ b \in DOMAIN tables[y]
    BY <1>1, <2>1 DEF Through, Hangs
  <2>3. tables'[y][b] = tables[y][b]
    BY <1>1, <2>1, <2>2 DEF Rewritten, Visits
  <2> QED BY <1>3, <1>4, <2>1, <2>2, <2>3, Kinds
<1>7. CASE \E y, z : Down(s, x, y, z) /\ Leaf(s, x) = tables[z][c]
  <2>1. PICK y, z : Down(s, x, y, z) /\ Leaf(s, x) = tables[z][c]
    BY <1>7
  <2>2. /\ tables[r][a] = Pointer(y) /\ y \in DOMAIN tables /\ b \in DOMAIN tables[y]
        /\ tables[y][b] = Pointer(z) /\ z \in DOMAIN tables /\ c \in DOMAIN tables[z]
        /\ Through(s, x, y) /\ y.level = 2 /\ z.level = 1
    BY <1>1, <2>1 DEF Down, Through, Hangs
  <2>3. tables'[y][b] = tables[y][b] /\ tables'[z][c] = tables[z][c]
    BY <1>1, <2>1, <2>2 DEF Rewritten, Visits
  <2>4. Leaf(s, x)' = tables'[z][c]
    BY <1>3, <1>4, <2>2, <2>3, Kinds
  <2> QED BY <2>1, <2>3, <2>4
<1> QED BY <1>1, <1>5, <1>6, <1>7, LeafWalk

\* The translations are the leaves.
Finds(s, x, o) == Leaf(s, x) # Nil /\ o = <<s, x, Leaf(s, x).frame + (x % Size[Leaf(s, x).size])>>

\* A translation is what is found for a page.
LEMMA TranslationsAre ==
  \A o : o \in Translations(SpacesMade) <=>
           \E s \in SpacesMade : \E x \in 0 .. Size[4] - 1 : Finds(s, x, o)
BY DEF Translations, Finds

\* The same after a step.
LEMMA TranslationsThen ==
  \A o : o \in Translations(SpacesMade)' <=>
           \E s \in SpacesMade' : \E x \in 0 .. Size[4] - 1 :
             /\ Leaf(s, x)' # Nil
             /\ o = <<s, x, Leaf(s, x)'.frame + (x % Size[Leaf(s, x)'.size])>>
BY DEF Translations

\* Every page finds what it found.
LEMMA SameTranslations ==
  ASSUME SpacesMade' = SpacesMade,
         \A s \in SpacesMade, x \in 0 .. Size[4] - 1 : Leaf(s, x)' = Leaf(s, x)
  PROVE  Translations(SpacesMade)' = Translations(SpacesMade)
<1>1. \A o : o \in Translations(SpacesMade)' <=> o \in Translations(SpacesMade)
  BY TranslationsAre, TranslationsThen DEF Finds
<1> QED BY <1>1
-----------------------------------------------------------------------------
(* What is asked, what is left to do, and what is mapped.                    *)

PairOf(o, s, v, p, n) == \E a \in v .. v + n - 1 : o = <<s, a, p + (a - v)>>

\* The pages of a region, each with its frame.
LEMMA PairsAre ==
  ASSUME NEW s, NEW v \in Nat, NEW p \in Nat, NEW n \in Int, NEW o
  PROVE  o \in Pairs(s, v, p, n) <=> PairOf(o, s, v, p, n)
<1>1. ASSUME o \in Pairs(s, v, p, n) PROVE \E a \in v .. v + n - 1 : o = <<s, a, p + (a - v)>>
  <2>1. PICK i \in 0 .. n - 1 : o = <<s, v + i, p + i>>
    BY <1>1 DEF Pairs
  <2>2. PICK a : a = v + i
    OBVIOUS
  <2>3. a \in v .. v + n - 1 /\ p + i = p + (a - v)
    BY <2>2
  <2> QED BY <2>1, <2>2, <2>3
<1>2. ASSUME NEW a \in v .. v + n - 1, o = <<s, a, p + (a - v)>> PROVE o \in Pairs(s, v, p, n)
  <2>1. PICK i : i = a - v
    OBVIOUS
  <2>2. i \in 0 .. n - 1 /\ v + i = a /\ p + i = p + (a - v)
    BY <2>1
  <2>3. o = <<s, v + i, p + i>>
    BY <1>2, <2>2
  <2> QED BY <2>2, <2>3 DEF Pairs
<1> QED BY <1>1, <1>2 DEF PairOf

\* The first k of n pages, and the rest.
LEMMA PairsSplit ==
  ASSUME NEW s, NEW v \in Nat, NEW p \in Nat, NEW n \in Nat, NEW k \in 0 .. n
  PROVE  /\ Pairs(s, v, p, n) = Pairs(s, v, p, k) \cup Pairs(s, v + k, p + k, n - k)
         /\ Pairs(s, v, p, k) \cap Pairs(s, v + k, p + k, n - k) = {}
<1>1. PICK w, q, m : w = v + k /\ q = p + k /\ m = n - k
  OBVIOUS
<1>2. w \in Nat /\ q \in Nat /\ m \in Nat /\ k \in Int /\ n \in Int /\ m \in Int
  BY <1>1
<1>3. \A o : o \in Pairs(s, v, p, n) <=> PairOf(o, s, v, p, n)
  BY <1>2, PairsAre
<1>4. \A o : o \in Pairs(s, v, p, k) <=> PairOf(o, s, v, p, k)
  BY <1>2, PairsAre
<1>5. \A o : o \in Pairs(s, w, q, m) <=> PairOf(o, s, w, q, m)
  BY <1>2, PairsAre
<1>6. ASSUME NEW o
      PROVE  PairOf(o, s, w, q, m) <=> \E a \in v + k .. v + n - 1 : o = <<s, a, p + (a - v)>>
  <2>1. w .. w + m - 1 = v + k .. v + n - 1
    BY <1>1
  <2>2. \A a \in v + k .. v + n - 1 : q + (a - w) = p + (a - v)
    BY <1>1
  <2> QED BY Zenon, <2>1, <2>2 DEF PairOf
<1>7. ASSUME NEW o
      PROVE  PairOf(o, s, v, p, n) <=> PairOf(o, s, v, p, k) \/ PairOf(o, s, w, q, m)
  <2>1. \A a : a \in v .. v + n - 1 <=> a \in v .. v + k - 1 \/ a \in v + k .. v + n - 1
    OBVIOUS
  <2> QED BY <1>6, <2>1 DEF PairOf
<1>8. ASSUME NEW o, PairOf(o, s, v, p, k), PairOf(o, s, w, q, m) PROVE FALSE
  <2>1. PICK a \in v .. v + k - 1 : o = <<s, a, p + (a - v)>>
    BY <1>8 DEF PairOf
  <2>2. PICK b \in v + k .. v + n - 1 : o = <<s, b, p + (b - v)>>
    BY <1>6, <1>8
  <2>3. a = b
    BY <2>1, <2>2
  <2> QED BY <2>3
<1>9. Pairs(s, v, p, n) = Pairs(s, v, p, k) \cup Pairs(s, w, q, m)
  BY <1>3, <1>4, <1>5, <1>7
<1>10. Pairs(s, v, p, k) \cap Pairs(s, w, q, m) = {}
  BY <1>4, <1>5, <1>8
<1> QED BY <1>1, <1>9, <1>10

\* What is mapped stays mapped while nothing more is asked.
Grown == asked' = asked /\ Translations(SpacesMade) \subseteq Translations(SpacesMade)'

\* A step in which nothing is asked, mapped or given up.
LEMMA QuietMap ==
  ASSUME MapInv, UNCHANGED <<asked, given_up>>, SpacesMade \subseteq SpacesMade', Left' = Left,
         Translations(SpacesMade)' = Translations(SpacesMade)
  PROVE  MapInv' /\ Grown
<1>1. Single(asked)'
  BY DEF MapInv, Single, Map!Single
<1>2. \A x \in asked' : /\ x = <<x[1], x[2], x[3]>> /\ x[1] \in SpacesMade'
                        /\ x[2] \in 0 .. Size[4] - 1 /\ x[3] \in Nat
  BY DEF MapInv
<1>3. /\ given_up' \subseteq asked' /\ Left' \subseteq asked' \ given_up'
      /\ Translations(SpacesMade)' = (asked' \ given_up') \ Left'
  BY DEF MapInv
<1> QED BY <1>1, <1>2, <1>3 DEF MapInv, Grown

\* A step that writes no table and asks nothing.
LEMMA QuietTables ==
  ASSUME MapInv, UNCHANGED <<asked, given_up, tables>>, SpacesMade' = SpacesMade, Left' = Left
  PROVE  MapInv' /\ Grown
<1>1. \A s \in SpacesMade, x \in 0 .. Size[4] - 1 : Leaf(s, x)' = Leaf(s, x)
  BY DEF Leaf, Root, Index
<1>2. Translations(SpacesMade)' = Translations(SpacesMade)
  BY <1>1, SameTranslations
<1> QED BY <1>2, QuietMap

\* Some pages are given up, or are mapped: they were left to do.
LEMMA LessLeft ==
  ASSUME MapInv, UNCHANGED asked, SpacesMade' = SpacesMade, NEW D,
         Left' \cup D = Left, Left' \cap D = {},
         \/ given_up' = given_up /\ Translations(SpacesMade)' = Translations(SpacesMade) \cup D
         \/ given_up' = given_up \cup D /\ Translations(SpacesMade)' = Translations(SpacesMade)
  PROVE  MapInv' /\ Grown
<1>1. Single(asked)'
  BY DEF MapInv, Single, Map!Single
<1>2. \A x \in asked' : /\ x = <<x[1], x[2], x[3]>> /\ x[1] \in SpacesMade'
                        /\ x[2] \in 0 .. Size[4] - 1 /\ x[3] \in Nat
  BY DEF MapInv
<1>3. PICK A, G, L, T, H, M, U : /\ A = asked /\ G = given_up /\ L = Left
                                 /\ T = Translations(SpacesMade)
                                 /\ H = given_up' /\ M = Left' /\ U = Translations(SpacesMade)'
  OBVIOUS
<1>4. /\ G \subseteq A /\ L \subseteq A \ G /\ T = (A \ G) \ L /\ M \cup D = L /\ M \cap D = {}
      /\ (H = G /\ U = T \cup D) \/ (H = G \cup D /\ U = T)
  BY <1>3 DEF MapInv
<1>5. H \subseteq A /\ M \subseteq A \ H /\ U = (A \ H) \ M
  BY <1>4
<1>6. /\ given_up' \subseteq asked' /\ Left' \subseteq asked' \ given_up'
      /\ Translations(SpacesMade)' = (asked' \ given_up') \ Left'
  BY <1>3, <1>5
<1>7. T \subseteq U
  BY <1>4
<1> QED BY <1>1, <1>2, <1>3, <1>6, <1>7 DEF MapInv, Grown

\* A step that is not of map_region.
AwayFromMap ==
  /\ pc # "map" \/ region.n = 0
  /\ pc' # "map"
  /\ UNCHANGED <<asked, given_up, tables>>
  /\ SpacesMade' = SpacesMade

\* A step away from map_region maps nothing.
LEMMA AwayKeeps == ASSUME MapInv, AwayFromMap PROVE MapInv' /\ Grown
<1>1. Left = {} /\ Left' = {}
  BY DEF AwayFromMap, Left
<1> QED BY <1>1, QuietTables DEF AwayFromMap

\* The steps that are.
LEMMA AwaySteps ==
  ASSUME \/ Load \/ CreateHeap \/ Skip \/ CreateSpace \/ SegmentList
         \/ KernelTable("utcb_page", "vectors") \/ KernelTable("vectors", "idle")
         \/ IdleTcb \/ CreateSegment \/ Mapped \/ CreateThread \/ NoUtcbLeft
         \/ UtcbInPage \/ UtcbNoPage \/ Enqueue \/ Schedule
  PROVE  AwayFromMap
<1>1. CASE CreateHeap \/ Skip \/ CreateSegment \/ Mapped \/ Enqueue
  <2>1. \E op : Behind(op)
    BY <1>1 DEF CreateHeap, Skip, CreateSegment, Mapped, Enqueue
  <2>2. pc' # "map"
    BY <2>1, BehindPlaces
  <2>3. pc # "map" \/ region.n = 0
    BY <1>1 DEF CreateHeap, Skip, CreateSegment, Mapped, Enqueue, BeginOp
  <2>4. UNCHANGED <<asked, given_up, tables>>
    BY <1>1 DEF CreateHeap, Skip, CreateSegment, Mapped, Enqueue, paging
  <2>5. SpacesMade' = SpacesMade
    <3>1. CASE CreateHeap \/ Skip \/ Mapped \/ Enqueue
      BY <3>1 DEF CreateHeap, Skip, Mapped, Enqueue, system, SpacesMade
    <3>2. CASE CreateSegment
      BY <3>2 DEF CreateSegment, SpacesMade
    <3> QED BY <1>1, <3>1, <3>2
  <2> QED BY <2>2, <2>3, <2>4, <2>5 DEF AwayFromMap
<1>2. CASE Load \/ CreateSpace \/ IdleTcb \/ NoUtcbLeft \/ CreateThread \/ Schedule
  BY <1>2 DEF Load, CreateSpace, IdleTcb, NoUtcbLeft, CreateThread, Schedule, BeginOp, paging,
              system, history, SpacesMade, AwayFromMap
<1>3. CASE KernelTable("utcb_page", "vectors") \/ KernelTable("vectors", "idle")
  BY <1>3 DEF KernelTable, paging, history, SpacesMade, AwayFromMap
<1>4. CASE SegmentList
  <2>1. pc = "segments" /\ UNCHANGED <<asked, given_up, tables>>
    BY <1>4 DEF SegmentList, paging
  <2>2. pc' # "map"
    <3>1. (\E op : Behind(op)) \/ pc' = pc
      BY <1>4 DEF SegmentList
    <3> QED BY <2>1, <3>1, BehindPlaces
  <2>3. SpacesMade' = SpacesMade
    BY <1>4 DEF SegmentList, SpacesMade
  <2> QED BY <2>1, <2>2, <2>3 DEF AwayFromMap
<1>5. CASE UtcbInPage \/ UtcbNoPage
  <2>1. /\ pc = "utcb" /\ pc' # "map" /\ TakeBit /\ UNCHANGED <<asked, given_up, tables>>
    BY <1>5 DEF UtcbInPage, UtcbNoPage, paging, history
  <2>2. SpacesMade' = SpacesMade
    BY <2>1 DEF TakeBit, SpacesMade
  <2> QED BY <2>1, <2>2 DEF AwayFromMap
<1> QED BY <1>1, <1>2, <1>3, <1>4, <1>5

\* A new space has nothing mapped.
LEMMA PageDirectoryMap == ASSUME BInv, MapInv, PageDirectory PROVE MapInv' /\ Grown
<1>1. PICK k : k = Current + 1
  OBVIOUS
<1>2. /\ pc = "pdir" /\ UNCHANGED <<asked, given_up>>
      /\ \E r : spaces' = Append(spaces, r)
      /\ tables' = [x \in DOMAIN tables \cup {Root(k)} |->
                      IF x = Root(k) THEN [i \in 0 .. TableSize(3) - 1 |-> Nil]
                      ELSE tables[x]]
      /\ (\E op : Behind(op)) \/ pc' = "segments"
  BY <1>1 DEF PageDirectory
<1>3. ShapeInv
  BY DEF BInv, Memory
<1>4. /\ k \in Nat \ {0} /\ k \notin SpacesMade /\ SpacesMade' = SpacesMade \cup {k}
  <2>1. PICK r, S : spaces' = Append(spaces, r) /\ spaces \in Seq(S)
    BY <1>2, <1>3 DEF ShapeInv
  <2> DEFINE T == S \cup {r}
  <2>2. spaces \in Seq(T) /\ r \in T
    BY <2>1
  <2> HIDE DEF T
  <2>3. /\ Len(spaces) \in Nat /\ DOMAIN spaces' = DOMAIN spaces \cup {Len(spaces) + 1}
        /\ Len(spaces) + 1 \notin DOMAIN spaces
    BY <2>1, <2>2, Longer
  <2> QED BY <1>1, <2>3 DEF SpacesMade, Current
<1>5. Root(k) \notin DOMAIN tables
  BY <1>3, <1>4, Kinds, LevelShape
<1>6. Left = {} /\ Left' = {}
  BY <1>2, BehindPlaces DEF Left
<1>7. ASSUME NEW s \in SpacesMade, NEW x \in 0 .. Size[4] - 1 PROVE Leaf(s, x)' = Leaf(s, x)
  <2>1. Rewritten(Root(k), 0)
    BY <1>2, <1>5 DEF Rewritten
  <2>2. ~Visits(s, x, Root(k), 0)
    <3>1. Root(s) \in DOMAIN tables
      BY <1>3 DEF ShapeInv
    <3> QED BY <1>5, <3>1 DEF Visits, Through, Down
  <2> QED BY <1>3, <2>1, <2>2, LeafKept
<1>8. ASSUME NEW x \in 0 .. Size[4] - 1 PROVE Leaf(k, x)' = Nil
  <2>1. x \in Nat
    <3>1. 4 \in 0 .. 4
      OBVIOUS
    <3> QED BY <3>1, SizeFacts
  <2>2. Index(3, x) \in 0 .. TableSize(3) - 1
    <3>1. 3 \in 0 .. 3
      OBVIOUS
    <3> QED BY <2>1, <3>1, IndexRange
  <2>3. PICK r, i : r = Root(k) /\ i = Index(3, x)
    OBVIOUS
  <2>4. tables'[r][i] = Nil
    BY <1>2, <2>2, <2>3
  <2>5. Leaf(k, x)' = LET e2 == IF tables'[r][i] = Nil THEN Nil
                                ELSE tables'[tables'[r][i].to][Index(2, x)]
                      IN IF e2.kind = "table" THEN tables'[e2.to][x % Size[2]] ELSE e2
    BY <2>3 DEF Leaf, Root, Index
  <2> QED BY <2>4, <2>5, Kinds
<1>9. Translations(SpacesMade)' = Translations(SpacesMade)
  <2>1. ASSUME NEW o \in Translations(SpacesMade)' PROVE o \in Translations(SpacesMade)
    <3>1. PICK s \in SpacesMade' : \E x \in 0 .. Size[4] - 1 :
                 /\ Leaf(s, x)' # Nil
                 /\ o = <<s, x, Leaf(s, x)'.frame + (x % Size[Leaf(s, x)'.size])>>
      BY TranslationsThen
    <3>2. PICK x \in 0 .. Size[4] - 1 :
                 /\ Leaf(s, x)' # Nil
                 /\ o = <<s, x, Leaf(s, x)'.frame + (x % Size[Leaf(s, x)'.size])>>
      BY <3>1
    <3>3. s \in SpacesMade
      BY <1>4, <1>8, <3>2
    <3>4. Leaf(s, x)' = Leaf(s, x)
      BY <1>7, <3>3
    <3>5. Finds(s, x, o)
      BY <3>2, <3>4 DEF Finds
    <3> QED BY <3>3, <3>5, TranslationsAre
  <2>2. ASSUME NEW o \in Translations(SpacesMade) PROVE o \in Translations(SpacesMade)'
    <3>1. PICK s \in SpacesMade : \E x \in 0 .. Size[4] - 1 : Finds(s, x, o)
      BY TranslationsAre
    <3>2. PICK x \in 0 .. Size[4] - 1 : Finds(s, x, o)
      BY <3>1
    <3>3. Leaf(s, x)' = Leaf(s, x) /\ s \in SpacesMade'
      BY <1>4, <1>7
    <3> QED BY <3>2, <3>3, TranslationsThen DEF Finds
  <2> QED BY <2>1, <2>2
<1> QED BY <1>2, <1>4, <1>6, <1>9, QuietMap

\* A step that writes an entry no page is reached through.
LEMMA LeavesKept ==
  ASSUME ShapeInv, SpacesMade' = SpacesMade, NEW q, NEW i, Rewritten(q, i),
         \A s \in SpacesMade, x \in 0 .. Size[4] - 1 : ~Visits(s, x, q, i)
  PROVE  Translations(SpacesMade)' = Translations(SpacesMade)
<1>1. \A s \in SpacesMade, x \in 0 .. Size[4] - 1 : Leaf(s, x)' = Leaf(s, x)
  BY LeafKept
<1> QED BY <1>1, SameTranslations

\* The table for UTCBs is on no page's way.
LEMMA MapUtcbMap == ASSUME BInv, MapInv, MapUtcb PROVE MapInv' /\ Grown
<1>1. /\ pc = "utcb_map" /\ pc' = "enqueue" /\ UNCHANGED <<asked, given_up>>
  BY DEF MapUtcb, history
<1>2. Left = {} /\ Left' = {}
  BY <1>1 DEF Left
<1>3. ShapeInv /\ TreeInv
  BY DEF BInv, Memory
<1>4. SpacesMade' = SpacesMade
  BY DEF MapUtcb, SpacesMade
<1>5. Current \in SpacesMade
  BY <1>1, TheLast DEF BInv, Memory, ShapeInv, Utcbs, ThreadInv, Creating, SpacesMade, Current
<1>6. PICK c, e, d : c = Current /\ e = spaces[c].utcb /\ d = Base
  OBVIOUS
<1>7. CASE e = Nil /\ Bytes(TableBytes[2])
           /\ \A y \in DOMAIN tables : y # Table(2, d) => tables'[y] = tables[y]
  <2>1. PICK n : n = Table(2, d)
    OBVIOUS
  <2>2. n \notin DOMAIN tables
    <3>1. TableBytes[2] \in Nat
      BY PageTableAssumption
    <3>2. d \notin Bases
      BY <1>6, <1>7, <3>1, BytesTaken DEF BInv
    <3>3. n.level = 1 /\ n.at = d
      BY <2>1, Kinds
    <3> QED BY <1>3, <3>2, <3>3, LevelShape
  <2>3. Rewritten(n, 0)
    BY <1>7, <2>1, <2>2 DEF Rewritten
  <2>4. ASSUME NEW s \in SpacesMade, NEW x \in 0 .. Size[4] - 1 PROVE ~Visits(s, x, n, 0)
    BY <1>3, <2>2 DEF Visits, Through, Down, ShapeInv
  <2> QED BY <1>1, <1>2, <1>3, <1>4, <2>3, <2>4, LeavesKept, QuietMap
<1>8. CASE tables' = tables
  BY <1>1, <1>2, <1>4, <1>8, QuietTables
<1>9. CASE e # Nil /\ \E m, i : tables' = [tables EXCEPT ![e.to][i] = m]
  <2>1. PICK m, i : tables' = [tables EXCEPT ![e.to][i] = m]
    BY Zenon, <1>9
  <2>2. PICK z \in DOMAIN tables : z.level = 1 /\ e = Pointer(z) /\ e.to = z
    BY <1>3, <1>5, <1>6, <1>9, UtcbTableIs
  <2>3. Rewritten(z, i)
    BY <2>1, <2>2 DEF Rewritten
  <2>4. ASSUME NEW s \in SpacesMade, NEW x \in 0 .. Size[4] - 1, Visits(s, x, z, i) PROVE FALSE
    <3>1. Root(s).level = 3
      BY Kinds
    <3>2. PICK y : Hangs(y, Index(2, x), z)
      BY <2>2, <2>4, <3>1 DEF Visits, Through, Down
    <3>3. HangsInSpace(c, z)
      BY <1>5, <1>6, <2>2 DEF HangsInSpace
    <3>4. OneParent(z)
      BY <1>3, <2>2 DEF TreeInv
    <3> QED BY <1>5, <1>6, <3>2, <3>3, <3>4 DEF OneParent, Hangs
  <2> QED BY <1>1, <1>2, <1>3, <1>4, <2>3, <2>4, LeavesKept, QuietMap
<1> QED
  <2>1. \/ /\ e = Nil /\ Bytes(TableBytes[2])
           /\ tables' = [x \in DOMAIN tables \cup {Table(2, d)} |->
                           IF x = Table(2, d)
                           THEN [Empty(2) EXCEPT ![PageOf(page.pos)] =
                                   [kind |-> "page", size |-> 0, frame |-> page.base]]
                           ELSE tables[x]]
        \/ tables' = tables
        \/ e # Nil /\ tables' = [tables EXCEPT ![e.to][PageOf(page.pos)] =
                                   [kind |-> "page", size |-> 0, frame |-> page.base]]
    BY <1>6 DEF MapUtcb
  <2> QED BY Zenon, <1>7, <1>8, <1>9, <2>1
-----------------------------------------------------------------------------
(* What is left of the region, as the walk goes on.                          *)

\* What is left after m pages, and the pages from k to m.
LEMMA LeftPairs ==
  ASSUME NEW s, NEW v \in Nat, NEW p \in Nat, NEW n \in Nat, NEW m \in 0 .. n, NEW k \in 0 .. m
  PROVE  /\ Pairs(s, v + m, p + m, n - m) \cup Pairs(s, v + k, p + k, m - k)
              = Pairs(s, v + k, p + k, n - k)
         /\ Pairs(s, v + m, p + m, n - m) \cap Pairs(s, v + k, p + k, m - k) = {}
<1>1. PICK x, y, z, j : x = v + k /\ y = p + k /\ z = n - k /\ j = m - k
  OBVIOUS
<1>2. x \in Nat /\ y \in Nat /\ z \in Nat /\ j \in 0 .. z
  BY <1>1
<1>3. /\ Pairs(s, x, y, z) = Pairs(s, x, y, j) \cup Pairs(s, x + j, y + j, z - j)
      /\ Pairs(s, x, y, j) \cap Pairs(s, x + j, y + j, z - j) = {}
  BY Zenon, <1>2, PairsSplit
<1>4. x + j = v + m /\ y + j = p + m /\ z - j = n - m
  BY <1>1
<1> QED BY <1>1, <1>3, <1>4

\* The pages a turn leaves behind and what is left after it.
LEMMA LeftSplit ==
  ASSUME pc = "map", pc' = "map", region' = region, region.n # 0, region.n \in Nat,
         region.v \in Nat, region.p \in Nat,
         NEW k, k = LeftFrom, NEW m, m = LeftFrom', m \in 0 .. region.n, k \in 0 .. m,
         NEW D, D = Pairs(region.space, region.v + k, region.p + k, m - k)
  PROVE  Left' \cup D = Left /\ Left' \cap D = {}
<1>1. PICK s, v, p, n : s = region.space /\ v = region.v /\ p = region.p /\ n = region.n
  OBVIOUS
<1>2. v \in Nat /\ p \in Nat /\ n \in Nat /\ m \in 0 .. n /\ k \in 0 .. m
  BY <1>1
<1>3. /\ Pairs(s, v + m, p + m, n - m) \cup Pairs(s, v + k, p + k, m - k)
           = Pairs(s, v + k, p + k, n - k)
      /\ Pairs(s, v + m, p + m, n - m) \cap Pairs(s, v + k, p + k, m - k) = {}
  <2>1. PICK a, b : a = k /\ b = m
    OBVIOUS
  <2>2. b \in 0 .. n /\ a \in 0 .. b
    BY <1>2, <2>1
  <2>3. /\ Pairs(s, v + b, p + b, n - b) \cup Pairs(s, v + a, p + a, b - a)
             = Pairs(s, v + a, p + a, n - a)
        /\ Pairs(s, v + b, p + b, n - b) \cap Pairs(s, v + a, p + a, b - a) = {}
    BY Zenon, <1>2, <2>2, LeftPairs
  <2> QED BY <2>1, <2>3
<1>4. Left = Pairs(s, v + k, p + k, n - k)
  BY <1>1 DEF Left
<1>5. Left' = Pairs(s, v + m, p + m, n - m)
  BY <1>1 DEF Left, Pairs
<1>6. D = Pairs(s, v + k, p + k, m - k)
  BY <1>1
<1> QED BY <1>3, <1>4, <1>5, <1>6

\* Where the walk is in its region.
LEMMA WalkFrom ==
  ASSUME Walking, WalkInv
  PROVE  /\ LeftFrom \in 0 .. walk.pages /\ walk.pages \in 1 .. region.n /\ walk.num \in Nat
         /\ walk.num # 0 => /\ LeftFrom = walk.addr - region.v /\ walk.addr = region.v + LeftFrom
                            /\ walk.phys = region.p + LeftFrom
<1>1. /\ walk.pages \in 1 .. region.n /\ walk.num \in Nat /\ walk.on
      /\ region.n \in Nat /\ region.v \in Nat
  BY TopPlace DEF Walking, PagesInv
<1>2. CASE walk.num = 0
  <2>1. LeftFrom = walk.pages
    BY <1>1, <1>2 DEF LeftFrom
  <2> QED BY <1>1, <1>2, <2>1
<1>3. CASE walk.num # 0
  <2>1. /\ walk.addr \in region.v .. region.v + walk.pages - 1
        /\ walk.phys = region.p + (walk.addr - region.v)
    BY <1>1, <1>3 DEF WalkInv, WalkNumbers
  <2>2. LeftFrom = walk.addr - region.v
    BY <1>1, <1>3 DEF LeftFrom
  <2> QED BY <1>1, <1>3, <2>1, <2>2
<1> QED BY <1>2, <1>3

\* A turn that goes on where it was, in the same tables.
LEMMA SameWalkMap ==
  ASSUME MapInv, pc = "map", pc' = "map", UNCHANGED <<asked, given_up, region>>,
         SpacesMade' = SpacesMade, LeftFrom' = LeftFrom,
         Translations(SpacesMade)' = Translations(SpacesMade)
  PROVE  MapInv' /\ Grown
<1>1. Left' = Left
  <2>1. PICK k : k = LeftFrom
    OBVIOUS
  <2>2. Left = IF region.n # 0 THEN Pairs(region.space, region.v + k, region.p + k, region.n - k)
               ELSE {}
    BY <2>1 DEF Left
  <2>3. Left' = IF region'.n # 0
                THEN Pairs(region'.space, region'.v + k, region'.p + k, region'.n - k)
                ELSE {}
    BY <2>1 DEF Left, Pairs
  <2> QED BY <2>2, <2>3
<1> QED BY <1>1, QuietMap

\* The same tables, the same translations.
LEMMA KeptTables ==
  ASSUME SpacesMade' = SpacesMade, tables' = tables
  PROVE  Translations(SpacesMade)' = Translations(SpacesMade)
<1>1. \A s \in SpacesMade, x \in 0 .. Size[4] - 1 : Leaf(s, x)' = Leaf(s, x)
  BY DEF Leaf, Root, Index
<1> QED BY <1>1, SameTranslations

\* A walk begins: nothing is mapped, and one of no pages is given up.
LEMMA MapFpageMap ==
  ASSUME BInv, MapInv, MapTurn, NEW guess \in Sizes, MapFpage(guess)
  PROVE  MapInv' /\ Grown
<1>1. TurnRest /\ pc = "map" /\ pc' = "map" /\ UNCHANGED asked /\ SpacesMade' = SpacesMade
  BY DEF MapTurn, TurnRest, SystemStays, replay, system, SpacesMade
<1>2. /\ ~walk.on /\ region.n > 0 /\ tables' = tables /\ region' = region
  BY DEF MapFpage
<1>3. Walks' /\ walk'.on
  BY <1>1, MapFpageWalks
<1>4. /\ region.n \in Nat /\ region.n # 0 /\ region.v \in Nat /\ region.p \in Nat
  BY <1>1, <1>2 DEF BInv, Walks, RegionInv
<1>5. walk'.pages \in 1 .. region.n /\ walk'.addr = region.v
  <2>1. walk'.addr = region.v
    BY DEF MapFpage
  <2> QED BY <1>2, <1>3, <2>1 DEF Walks, PagesInv
<1>6. Translations(SpacesMade)' = Translations(SpacesMade)
  BY <1>1, <1>2, KeptTables
<1>7. LeftFrom = 0 /\ LeftFrom' = IF walk'.num = 0 THEN walk'.pages ELSE 0
  <2>1. LeftFrom' = IF walk'.num = 0 THEN walk'.pages ELSE walk'.addr - region'.v
    BY <1>3 DEF LeftFrom
  <2>2. walk'.addr - region'.v = 0
    BY <1>2, <1>4, <1>5
  <2> QED BY <1>2, <2>1, <2>2 DEF LeftFrom
<1>8. CASE walk'.num # 0
  <2>1. given_up' = given_up
    BY <1>2, <1>4, <1>8 DEF MapTurn
  <2> QED BY <1>1, <1>2, <1>6, <1>7, <1>8, <2>1, SameWalkMap
<1>9. CASE walk'.num = 0
  <2>1. PICK m, D : m = walk'.pages /\ D = Pairs(region.space, region.v, region.p, m)
    OBVIOUS
  <2>2. given_up' = given_up \cup D
    BY <1>2, <1>3, <1>9, <2>1 DEF MapTurn, Pairs
  <2>3. D = Pairs(region.space, region.v + 0, region.p + 0, m - 0) /\ m \in 0 .. region.n
    <3>1. region.v + 0 = region.v /\ region.p + 0 = region.p /\ m - 0 = m
      BY <1>4, <1>5, <2>1
    <3> QED BY <1>5, <2>1, <3>1
  <2>4. Left' \cup D = Left /\ Left' \cap D = {}
    <3>1. m = LeftFrom' /\ 0 = LeftFrom /\ 0 \in 0 .. m
      BY <1>5, <1>7, <1>9, <2>1
    <3> QED BY <1>1, <1>2, <1>4, <2>3, <3>1, LeftSplit
  <2> QED BY <1>1, <1>6, <2>2, <2>4, LessLeft
<1> QED BY <1>8, <1>9

\* A walk ends: what was left of the region is the region.
LEMMA FpageDoneMap ==
  ASSUME BInv, MapInv, MapTurn, FpageDone
  PROVE  MapInv' /\ Grown
<1>1. TurnRest /\ pc = "map" /\ pc' = "map" /\ UNCHANGED asked /\ SpacesMade' = SpacesMade
  BY DEF MapTurn, TurnRest, SystemStays, replay, system, SpacesMade
<1>2. PICK k : k = walk.pages
  OBVIOUS
<1>3. /\ walk.on /\ walk.num = 0 /\ walk' = NoWalk /\ tables' = tables
      /\ region' = [region EXCEPT !.v = @ + k, !.p = @ + k, !.n = @ - k]
  BY <1>2 DEF FpageDone
<1>4. ~walk'.on
  BY <1>3 DEF NoWalk
<1>5. given_up' = given_up
  BY <1>3, <1>4 DEF MapTurn
<1>6. /\ region.n # 0 /\ DOMAIN region = {"space", "v", "p", "n"}
      /\ region.v \in Nat /\ region.p \in Nat /\ region.n \in Nat /\ k \in 1 .. region.n
  BY <1>1, <1>2, <1>3 DEF BInv, Walks, RegionInv, PagesInv
<1>7. PICK s, v, p, n : s = region.space /\ v = region.v + k /\ p = region.p + k /\ n = region.n - k
  OBVIOUS
<1>8. region'.space = s /\ region'.v = v /\ region'.p = p /\ region'.n = n
  BY <1>3, <1>6, <1>7
<1>9. Left = Pairs(s, v, p, n)
  <2>1. LeftFrom = k
    BY <1>2, <1>3 DEF LeftFrom
  <2> QED BY <1>1, <1>6, <1>7, <2>1 DEF Left
<1>10. Left' = Pairs(s, v, p, n)
  <2>1. LeftFrom' = 0
    BY <1>4 DEF LeftFrom
  <2>2. CASE n = 0
    <3>1. Left' = {}
      BY <1>8, <2>2 DEF Left
    <3>2. 0 .. n - 1 = {}
      BY <2>2
    <3> QED BY <3>1, <3>2 DEF Pairs
  <2>3. CASE n # 0
    <3>1. PICK x, y, z : x = region'.v + 0 /\ y = region'.p + 0 /\ z = region'.n - 0
      OBVIOUS
    <3>2. x = v /\ y = p /\ z = n
      BY <1>6, <1>7, <1>8, <3>1
    <3>3. Left' = Pairs(region'.space, x, y, z)
      BY <1>1, <1>8, <2>1, <2>3, <3>1 DEF Left, Pairs
    <3> QED BY <1>8, <3>2, <3>3
  <2> QED BY <2>2, <2>3
<1> QED BY <1>1, <1>3, <1>5, <1>9, <1>10, QuietTables

\* A turn that enters the table below maps nothing.
LEMMA RecurseMap ==
  ASSUME BInv, MapInv, MapTurn, Recurse
  PROVE  MapInv' /\ Grown
<1>1. TurnRest /\ pc = "map" /\ pc' = "map" /\ UNCHANGED asked /\ SpacesMade' = SpacesMade
  BY DEF MapTurn, TurnRest, SystemStays, replay, system, SpacesMade
<1>2. /\ walk.on /\ walk.num > 0 /\ walk.size <= walk.pgsize /\ Recurses
      /\ tables' = tables /\ region' = region
  BY DEF Recurse
<1>3. Walking /\ WalkInv /\ region.n # 0 /\ walk.num # 0
  BY <1>2 DEF BInv, Memory, Walks, Walking, PagesInv
<1>4. given_up' = given_up
  BY <1>2, <1>3 DEF MapTurn
<1>5. PICK k, q : k = TableSize(walk.size - 1) /\ q = Subtree(walk.at, walk.size)
  OBVIOUS
<1>6. walk' = Below([Remembered(walk) EXCEPT !.num = k], q)
  BY <1>5 DEF Recurse
<1>7. SameLocals(walk', walk) /\ walk'.num = k
  BY Zenon, <1>3, <1>6, RecursedIs
<1>8. k # 0
  <2>1. walk.size \in 0 .. 2
    BY <1>2, <1>3 DEF WalkInv, WalkNumbers
  <2>2. walk.size # 0
    BY <1>2 DEF Recurses, IsSubtree
  <2>3. walk.size - 1 \in 0 .. 3
    BY <2>1, <2>2
  <2>4. TableSize(walk.size - 1) \in Nat \ {0}
    BY <2>3, SizeFacts
  <2> QED BY <1>5, <2>4
<1>9. LeftFrom' = LeftFrom
  BY <1>2, <1>3, <1>7, <1>8 DEF LeftFrom, SameLocals
<1> QED BY <1>1, <1>2, <1>4, <1>9, KeptTables, SameWalkMap
-----------------------------------------------------------------------------
(* The walk goes down, and a table may be made.                              *)

\* A new table hangs where nothing was found before, and nothing is in it.
LEMMA HungMap ==
  ASSUME ShapeInv, SpacesMade' = SpacesMade, NEW x, NEW i, NEW t, NEW d, NEW n, Hung(x, i, t, d, n),
         x \in DOMAIN tables, i \in DOMAIN tables[x], tables[x][i] = Nil,
         (t = 3 /\ x.level = 3) \/ (t = 2 /\ x.level = 2)
  PROVE  Translations(SpacesMade)' = Translations(SpacesMade)
<1>1. Rewritten(x, i)
  BY DEF Rewritten, Hung
<1>2. ASSUME NEW s \in SpacesMade, NEW b \in 0 .. Size[4] - 1
      PROVE  Leaf(s, b)' = Leaf(s, b)
  <2>1. CASE ~Visits(s, b, x, i)
    BY <1>1, <2>1, LeafKept
  <2>2. CASE Visits(s, b, x, i)
    <3>1. PICK r, j, k, l : r = Root(s) /\ j = Index(3, b) /\ k = Index(2, b) /\ l = b % Size[2]
      OBVIOUS
    <3>2. /\ tables'[x][i] = Pointer(n) /\ n \notin DOMAIN tables
          /\ DOMAIN tables'[n] = 0 .. Entries(t) - 1
          /\ \A o \in DOMAIN tables'[n] : tables'[n][o] = Nil
          /\ \A y \in DOMAIN tables : y # x => tables'[y] = tables[y]
      BY DEF Hung
    <3>3. Leaf(s, b)' = LET e3 == tables'[r][j]
                            e2 == IF e3 = Nil THEN Nil ELSE tables'[e3.to][k]
                        IN IF e2.kind = "table" THEN tables'[e2.to][l] ELSE e2
      BY <3>1 DEF Leaf, Root, Index
    <3>4. r.level = 3 /\ b \in Nat /\ k \in 0 .. TableSize(2) - 1 /\ l \in 0 .. Size[2] - 1
      <4>1. r.level = 3 /\ b \in Nat
        BY <3>1, Kinds, LeafWalk
      <4>2. 2 \in 0 .. 3 /\ 2 \in 0 .. 4
        OBVIOUS
      <4>3. Size[2] \in Nat \ {0}
        BY <4>2, SizeFacts
      <4> QED BY Zenon, <3>1, <4>1, <4>2, <4>3, IndexRange, Division
    <3>5. CASE t = 3
      <4>1. x = r /\ i = j
        BY <2>2, <3>1, <3>4, <3>5 DEF Visits, Through, Down
      <4>2. Leaf(s, b) = Nil
        <5>1. ~Through(s, b, x) /\ \A y : ~Through(s, b, y) /\ \A z : ~Down(s, b, y, z)
          BY <3>1, <4>1, Kinds DEF Through, Down, Hangs
        <5> QED BY <5>1, LeafWalk
      <4>3. tables'[n][k] = Nil
        BY <3>2, <3>4, <3>5 DEF Entries
      <4>4. tables'[r][j] = Pointer(n) /\ Pointer(n).kind = "table" /\ Pointer(n).to = n
        BY <3>2, <4>1, Kinds
      <4>5. Pointer(n) # Nil /\ Nil.kind # "table"
        BY Kinds
      <4> QED BY <3>3, <4>2, <4>3, <4>4, <4>5
    <3>6. CASE t = 2
      <4>1. PICK y : Through(s, b, y) /\ x = y /\ i = k
        BY <2>2, <3>1, <3>4, <3>6 DEF Visits, Through, Down
      <4>2. tables[r][j] = Pointer(x) /\ r \in DOMAIN tables /\ r # x
        BY <3>1, <3>4, <3>6, <4>1 DEF Through, Hangs
      <4>3. Leaf(s, b) = Nil
        <5>1. Leaf(s, b) = LET e3 == tables[r][j]
                               e2 == IF e3 = Nil THEN Nil ELSE tables[e3.to][k]
                           IN IF e2.kind = "table" THEN tables[e2.to][l] ELSE e2
          BY <3>1 DEF Leaf
        <5> QED BY <4>1, <4>2, <5>1, Kinds
      <4>4. tables'[r][j] = Pointer(x)
        BY <3>2, <4>2
      <4>5. tables'[n][l] = Nil
        BY <3>2, <3>4, <3>6 DEF Entries
      <4> QED BY <3>2, <3>3, <4>1, <4>3, <4>4, <4>5, Kinds
    <3> QED BY <3>5, <3>6
  <2> QED BY <2>1, <2>2
<1> QED BY <1>2, SameTranslations

\* A turn that goes down maps nothing; with no memory for a table the rest is given up.
LEMMA DescendMap ==
  ASSUME BInv, MapInv, MapTurn, Descend
  PROVE  MapInv' /\ Grown
<1>1. TurnRest /\ pc = "map" /\ pc' = "map" /\ UNCHANGED asked /\ SpacesMade' = SpacesMade
  BY DEF MapTurn, TurnRest, SystemStays, replay, system, SpacesMade
<1>2. PICK w, z : w = Remembered(walk) /\ z = walk.size
  OBVIOUS
<1>3. /\ walk.on /\ walk.num > 0 /\ walk.size > walk.pgsize /\ NextLevel(w)
  BY <1>2 DEF Descend
<1>4. Walking /\ WalkInv /\ walk.num # 0 /\ region.n # 0 /\ region.n \in Nat
      /\ region.v \in Nat /\ region.p \in Nat
  <2>1. Walking /\ WalkInv /\ walk.num # 0 /\ region.n # 0
    BY <1>3 DEF BInv, Memory, Walks, Walking, PagesInv
  <2> QED BY <2>1, TopPlace
<1>5. z \in 1 .. 3 /\ w.size + 1 = z /\ w.at = walk.at /\ SameLocals(w, walk) /\ w.num = walk.num
  <2>1. z \in 1 .. 3
    BY <1>2, <1>3, <1>4 DEF WalkInv, WalkNumbers, Walking
  <2>2. w.size = walk.size - 1 /\ w.at = walk.at /\ SameLocals(w, walk) /\ w.num = walk.num
    BY Zenon, <1>2, <1>4, RememberedIs DEF Walking, PagesInv
  <2> QED BY <1>2, <2>1, <2>2
<1>6. ASSUME SameLocals(walk', w), walk'.num = w.num, region' = region
      PROVE  LeftFrom' = LeftFrom /\ given_up' = given_up
  <2>1. walk'.on /\ walk'.num = walk.num /\ walk'.addr = walk.addr /\ walk'.pages = walk.pages
    BY <1>3, <1>5, <1>6 DEF SameLocals
  <2>2. LeftFrom' = LeftFrom
    BY <1>3, <1>6, <2>1 DEF LeftFrom
  <2> QED BY <1>3, <1>4, <1>6, <2>2 DEF MapTurn
<1>7. \A q : walk' = Below(w, q) => SameLocals(walk', w) /\ walk'.num = w.num
  <2> SUFFICES ASSUME NEW q, walk' = Below(w, q) PROVE SameLocals(walk', w) /\ walk'.num = w.num
    OBVIOUS
  <2>1. DOMAIN w = Locals
    BY <1>5 DEF SameLocals
  <2> QED BY <2>1, BelowIs
<1>8. CASE /\ ~IsValid(w.at, z) /\ Heap!Alloc(TableBytes[z])
           /\ \E b \in blocks' \ blocks :
                /\ tables' = WithTable(w.at, z, b.base)
                /\ walk' = Below(w, [table |-> Table(z, b.base), idx |-> 0])
           /\ UNCHANGED region
  <2>1. z \in {2, 3} /\ Entry(walk.at) = Nil
    BY <1>5, <1>8 DEF IsValid
  <2>2. Bytes(TableBytes[z])
    BY <1>1, <1>8 DEF Bytes, TurnRest
  <2>3. /\ \A b \in blocks' \ blocks : b.base = Base
        /\ Base \notin Bases
    <3>1. TableBytes[z] \in Nat
      BY <2>1, PageTableAssumption
    <3> QED BY <2>2, <3>1, BytesTaken DEF BInv
  <2>4. PICK d, n : /\ d = Base /\ n = Table(z, d)
                    /\ tables' = WithTable(walk.at, z, d)
                    /\ walk' = Below(w, [table |-> n, idx |-> 0])
    BY <1>5, <1>8, <2>3
  <2>5. PICK x, i : x = walk.at.table /\ i = walk.at.idx
    OBVIOUS
  <2>6. x \in DOMAIN tables /\ i \in DOMAIN tables[x] /\ x.level = z
    <3>1. CASE z = 3
      <4>1. x = Root(region.space) /\ i = Index(3, region.v)
        BY <1>2, <1>4, <2>5, <3>1, EntryAt
      <4> QED BY Zenon, <1>4, <3>1, <4>1, TopPlace, Kinds
    <3>2. CASE z = 2
      <4>1. x = Upper.to /\ i = Index(2, region.v) /\ Upper.kind = "table"
        BY <1>2, <1>4, <2>5, <3>2, EntryAt
      <4> QED BY Zenon, <1>4, <3>2, <4>1, MiddlePlace
    <3> QED BY <2>1, <3>1, <3>2
  <2>7. tables[x][i] = Nil
    BY <2>1, <2>5 DEF Entry
  <2>8. Hung(x, i, z, d, n)
    BY <1>4, <2>1, <2>3, <2>4, <2>5, <2>6, WithTableIs DEF Walking
  <2>9. Translations(SpacesMade)' = Translations(SpacesMade)
    BY <1>1, <1>4, <2>1, <2>6, <2>7, <2>8, HungMap DEF Walking
  <2> QED BY Zenon, <1>1, <1>6, <1>7, <1>8, <2>4, <2>9, SameWalkMap
<1>9. CASE walk' = NoWalk /\ region' = NoRegion /\ UNCHANGED tables
  <2>1. PICK k, D : /\ k = LeftFrom
                    /\ D = Pairs(region.space, region.v + k, region.p + k, region.n - k)
    OBVIOUS
  <2>2. Left = D /\ Left' = {}
    <3>1. region'.n = 0
      BY <1>9 DEF NoRegion
    <3> QED BY <1>1, <1>4, <2>1, <3>1 DEF Left
  <2>3. given_up' = given_up \cup D
    <3>1. ~walk'.on /\ region'.n = 0 /\ region.n > 0
      BY <1>4, <1>9 DEF NoWalk, NoRegion
    <3>2. given_up' = given_up \cup Pairs(region.space, walk.addr, walk.phys,
                                          region.v + region.n - walk.addr)
      BY <1>3, <3>1 DEF MapTurn
    <3>3. /\ k \in 0 .. region.n /\ walk.addr = region.v + k /\ walk.phys = region.p + k
      BY <1>4, <2>1, WalkFrom
    <3>4. region.v + region.n - walk.addr = region.n - k
      BY <1>4, <3>3
    <3> QED BY <2>1, <3>2, <3>3, <3>4
  <2>4. Left' \cup D = Left /\ Left' \cap D = {}
    BY <2>2
  <2>5. Translations(SpacesMade)' = Translations(SpacesMade)
    BY <1>1, <1>9, KeptTables
  <2> QED BY <1>1, <2>3, <2>4, <2>5, LessLeft
<1>10. CASE /\ walk' = IF IsSubtree(w.at, z) THEN Below(w, Subtree(w.at, z))
                       ELSE [w EXCEPT !.size = z]
            /\ UNCHANGED <<avail, blocks, tables, region>>
  <2>1. SameLocals(walk', w) /\ walk'.num = w.num
    <3>1. CASE IsSubtree(w.at, z)
      BY <1>7, <1>10, <3>1
    <3>2. CASE ~IsSubtree(w.at, z)
      <4>1. walk' = [w EXCEPT !.size = z] /\ DOMAIN w = Locals
        BY <1>5, <1>10, <3>2 DEF SameLocals
      <4> QED BY <4>1 DEF Locals, SameLocals
    <3> QED BY <3>1, <3>2
  <2> QED BY <1>1, <1>6, <1>10, <2>1, KeptTables, SameWalkMap
<1> QED BY <1>3, <1>5, <1>8, <1>9, <1>10 DEF NextLevel
-----------------------------------------------------------------------------
(* An entry is written.                                                      *)

\* The page and the frame it is entered with, by the size of the entry.
LEMMA WrittenFrame ==
  ASSUME Walking, WalkInv, SetEntry, NEW x, NEW i, NEW t, NEW f, Writes(x, i, t, f)
  PROVE  /\ t \in {0, 2} /\ f = walk.phys
         /\ t = 2 => walk.addr = region.v /\ region.v % Size[2] = 0 /\ walk.pages = Size[2]
<1>1. /\ walk.num # 0 /\ walk.size <= walk.pgsize /\ t \in {0, 2} /\ t = walk.size
      /\ f = walk.phys - (walk.phys % Size[t])
  BY DEF SetEntry, Walking, PagesInv, Writes
<1>2. /\ walk.addr \in region.v .. region.v + walk.pages - 1 /\ walk.pgsize \in 0 .. 2
      /\ walk.phys = region.p + (walk.addr - region.v)
  BY <1>1 DEF WalkInv, WalkNumbers, Walking
<1>3. region.v \in Nat /\ region.p \in Nat /\ walk.addr \in Nat /\ Size[2] \in Nat \ {0}
  <2>1. 2 \in 0 .. 4
    OBVIOUS
  <2> QED BY Zenon, <1>2, <2>1, SizeFacts, TopPlace, PagesInTable
<1>4. CASE t = 0
  <2>1. PICK p : p = walk.phys
    OBVIOUS
  <2>2. p \in Nat /\ Size[0] = 1
    BY <1>2, <1>3, <2>1, SizeFacts
  <2>3. p % 1 \in 0 .. 1 - 1
    BY <2>2, Division
  <2> QED BY <1>1, <1>4, <2>1, <2>2, <2>3
<1>5. CASE t = 2
  <2>1. walk.addr = region.v /\ walk.pages = Size[2]
    <3>1. walk.pgsize = 2
      BY <1>1, <1>2, <1>5
    <3> QED BY <1>1, <1>5, <3>1 DEF WalkInv, WalkPlaces, Walking
  <2>2. region.v % Size[2] = 0 /\ region.p % Size[2] = 0
    BY <2>1 DEF Walking, PagesInv
  <2>3. walk.phys = region.p
    BY <1>2, <1>3, <2>1
  <2> QED BY <1>1, <1>3, <1>5, <2>1, <2>2, <2>3
<1> QED BY <1>1, <1>4, <1>5

\* What the entries above it say does not change.
LEMMA AboveStay ==
  ASSUME Walking, NEW x, NEW i, NEW t, NEW f, Writes(x, i, t, f), region' = region
  PROVE  /\ Upper = Pointer(Upper.to) /\ Upper.to \in DOMAIN tables /\ Upper.to.level = 2
         /\ tables'[Root(region.space)][Index(3, region.v)] = Upper
         /\ t = 0 => tables'[Upper.to][Index(2, region.v)] = Middle /\ Middle = Pointer(x)
         /\ tables'[x][i] = PageEntry(t, f)
<1>1. /\ Upper.kind = "table" /\ x \in DOMAIN tables /\ i \in DOMAIN tables[x]
      /\ (t = 2 /\ x.level = 2) \/ (t = 0 /\ x.level = 1 /\ Middle.kind = "table" /\ x = Middle.to)
      /\ tables' = [tables EXCEPT ![x] = [tables[x] EXCEPT ![i] = PageEntry(t, f)]]
  BY DEF Writes
<1>2. PICK r, y, e : r = Root(region.space) /\ y = Upper.to /\ e = PageEntry(t, f)
  OBVIOUS
<1>3. r \in DOMAIN tables /\ r.level = 3 /\ y \in DOMAIN tables /\ y.level = 2 /\ Upper = Pointer(y)
  BY <1>1, <1>2, TopPlace, MiddlePlace, Kinds
<1>4. tables'[r] = tables[r]
  BY <1>1, <1>3
<1>5. tables'[r][Index(3, region.v)] = Upper
  BY <1>2, <1>4 DEF Upper
<1>6. t = 0 => tables'[y] = tables[y]
  BY <1>1, <1>3
<1>7. t = 0 => tables'[y][Index(2, region.v)] = Middle /\ Middle = Pointer(x)
  <2> SUFFICES ASSUME t = 0
               PROVE  tables'[y][Index(2, region.v)] = Middle /\ Middle = Pointer(x)
    OBVIOUS
  <2>1. Middle = Pointer(x)
    BY <1>1, LowPlace
  <2>2. tables[y][Index(2, region.v)] = Middle
    BY <1>2 DEF Middle
  <2> QED BY <1>6, <2>1, <2>2
<1>8. tables'[x][i] = e
  BY <1>1, <1>2
<1> QED BY <1>2, <1>3, <1>5, <1>7, <1>8

\* Only the pages of the entry are reached through it.
LEMMA OnlyItsPages ==
  ASSUME BInv, Walking, WalkInv, SetEntry, NEW x, NEW i, NEW t, NEW f, Writes(x, i, t, f),
         NEW s \in SpacesMade, NEW b \in 0 .. Size[4] - 1, Visits(s, b, x, i)
  PROVE  s = region.space /\ b \in walk.addr .. walk.addr + Size[t] - 1
<1>1. PICK c, v, a : c = region.space /\ v = region.v /\ a = walk.addr
  OBVIOUS
<1>2. /\ t \in {0, 2} /\ (t = 2 => a = v /\ v % Size[2] = 0)
  BY <1>1, WrittenFrame
<1>3. /\ a \in v .. v + walk.pages - 1
  BY <1>1 DEF SetEntry, Walking, PagesInv, WalkInv, WalkNumbers
<1>4. /\ a \in Nat /\ a < Size[4] /\ v \in Nat /\ v < Size[4] /\ b \in Nat /\ b < Size[4]
      /\ a \div Size[2] = v \div Size[2] /\ a % Size[2] = a - Section
      /\ Size[2] \in Nat \ {0} /\ Size[0] = 1
  <2>1. 2 \in 0 .. 4 /\ 4 \in 0 .. 4
    OBVIOUS
  <2>2. Size[2] \in Nat \ {0} /\ Size[4] \in Nat \ {0} /\ Size[0] = 1
    BY <2>1, SizeFacts
  <2>3. v \in Nat /\ walk.pages \in Nat \ {0}
    BY <1>1, TopPlace, PagesInTable
  <2>4. v \in v .. v + walk.pages - 1
    BY <2>3
  <2>5. v < Size[4]
    BY <1>1, <2>4, PagesInTable
  <2> QED BY <1>1, <1>3, <2>2, <2>3, <2>5, PagesInTable
<1>5. /\ Upper.kind = "table" /\ x \in DOMAIN tables
      /\ \/ t = 2 /\ x.level = 2 /\ x = Upper.to /\ i = Index(2, v)
         \/ t = 0 /\ x.level = 1 /\ Middle.kind = "table" /\ x = Middle.to /\ i = a - Section
  BY <1>1 DEF Writes
<1>6. PICK r, j, y : r = Root(c) /\ j = Index(3, v) /\ y = Upper.to
  OBVIOUS
<1>7. Hangs(r, j, y) /\ r \in DOMAIN tables /\ j \in DOMAIN tables[r]
      /\ y \in DOMAIN tables /\ y.level = 2
  <2>1. r \in DOMAIN tables /\ j \in DOMAIN tables[r] /\ Upper = tables[r][j]
    BY Zenon, <1>1, <1>6, TopPlace DEF Upper
  <2>2. y \in DOMAIN tables /\ y.level = 2 /\ Upper = Pointer(y)
    BY <1>5, <1>6, MiddlePlace
  <2> QED BY <2>1, <2>2 DEF Hangs
<1>8. \A q \in DOMAIN tables : q.level < 3 => OneParent(q)
  BY DEF BInv, Memory, TreeInv
<1>9. Root(s).level = 3 /\ Root(s) \in DOMAIN tables
  BY Kinds DEF BInv, Memory, ShapeInv
<1>10. ASSUME Hangs(Root(s), Index(3, b), y), Index(2, b) = Index(2, v)
       PROVE  s = c /\ b \div Size[2] = v \div Size[2]
  <2>1. Root(s) = r /\ Index(3, b) = j
    BY <1>7, <1>8, <1>9, <1>10 DEF OneParent, Hangs
  <2>2. s = c
    <3>1. Root(s).at = s /\ Root(c).at = c
      BY Kinds
    <3> QED BY <1>6, <2>1, <3>1
  <2> QED BY <1>4, <1>6, <1>10, <2>1, <2>2, SectionIndex
<1>11. CASE t = 2
  <2>1. Hangs(Root(s), Index(3, b), y) /\ Index(2, b) = Index(2, v)
    BY <1>5, <1>6, <1>9, <1>11 DEF Visits, Through, Down
  <2>2. s = c /\ b \div Size[2] = v \div Size[2]
    BY <1>10, <2>1
  <2>3. PICK n, q : n = Size[2] /\ q = v \div n
    OBVIOUS
  <2>4. v = n * q + (v % n) /\ b = n * q + (b % n) /\ b % n \in 0 .. n - 1 /\ q \in Nat
    BY Zenon, <1>4, <2>2, <2>3, Division
  <2>5. v % n = 0 /\ a = v
    BY <1>2, <1>11, <2>3
  <2>6. PICK k : k = n * q
    OBVIOUS
  <2>7. k \in Nat
    <3>1. n \in Nat /\ q \in Nat
      BY <1>4, <2>3, <2>4
    <3>2. n * q \in Nat
      BY <3>1
    <3> QED BY <2>6, <3>2
  <2>8. b \in v .. v + n - 1
    <3>1. PICK l : l = b % n
      OBVIOUS
    <3>2. v = k + 0 /\ b = k + l /\ l \in 0 .. n - 1 /\ n \in Nat
      BY <1>4, <2>3, <2>4, <2>5, <2>6, <3>1
    <3> QED BY <2>7, <3>2
  <2> QED BY <1>1, <1>11, <2>2, <2>3, <2>5, <2>8
<1>12. CASE t = 0
  <2>1. PICK z : Down(s, b, z, x) /\ i = b % Size[2]
    BY <1>5, <1>9, <1>12 DEF Visits, Through, Down
  <2>2. /\ Hangs(z, Index(2, b), x) /\ Hangs(Root(s), Index(3, b), z) /\ z \in DOMAIN tables
    BY <2>1 DEF Down, Through
  <2>3. Hangs(y, Index(2, v), x)
    <3>1. PICK m : m = Index(2, v)
      OBVIOUS
    <3>2. m \in DOMAIN tables[y] /\ Middle = tables[y][m]
      BY Zenon, <1>1, <1>5, <1>6, <3>1, MiddlePlace DEF Middle
    <3>3. Middle = Pointer(x)
      BY <1>5, <1>12, LowPlace
    <3> QED BY <1>7, <3>1, <3>2, <3>3 DEF Hangs
  <2>4. z = y /\ Index(2, b) = Index(2, v)
    <3>1. OneParent(x)
      BY <1>5, <1>8, <1>12
    <3> QED BY <2>2, <2>3, <3>1 DEF OneParent, Hangs
  <2>5. s = c /\ b \div Size[2] = v \div Size[2]
    BY <1>10, <2>2, <2>4
  <2>6. b % Size[2] = a % Size[2] /\ b \div Size[2] = a \div Size[2]
    BY <1>4, <1>5, <1>12, <2>1, <2>5
  <2>7. b = a
    <3>1. PICK n : n = Size[2]
      OBVIOUS
    <3>2. b = n * (b \div n) + (b % n) /\ a = n * (a \div n) + (a % n)
      BY Zenon, <1>4, <3>1, Division
    <3> QED BY <2>6, <3>1, <3>2
  <2> QED BY <1>1, <1>4, <1>12, <2>5, <2>7
<1> QED BY <1>2, <1>11, <1>12

\* They are found through it.
LEMMA ItsPages ==
  ASSUME BInv, Walking, WalkInv, SetEntry, NEW x, NEW i, NEW t, NEW f, Writes(x, i, t, f),
         NEW b \in walk.addr .. walk.addr + Size[t] - 1
  PROVE  /\ b \in 0 .. Size[4] - 1
         /\ Leaf(region.space, b)' = PageEntry(t, f)
         /\ f + (b % Size[t]) = walk.phys + (b - walk.addr)
<1>1. PICK c, v, a, r, y : /\ c = region.space /\ v = region.v /\ a = walk.addr
                           /\ r = Root(c) /\ y = Upper.to
  OBVIOUS
<1>2. /\ t \in {0, 2} /\ f = walk.phys
      /\ t = 2 => a = v /\ v % Size[2] = 0 /\ walk.pages = Size[2]
  BY <1>1, WrittenFrame
<1>3. a \in v .. v + walk.pages - 1 /\ region' = region
  BY <1>1 DEF SetEntry, Walking, PagesInv, WalkInv, WalkNumbers
<1>4. v \in Nat /\ Size[2] \in Nat \ {0} /\ Size[0] = 1 /\ Size[4] \in Nat \ {0}
      /\ region.p \in Nat
  <2>1. 2 \in 0 .. 4 /\ 4 \in 0 .. 4
    OBVIOUS
  <2> QED BY <1>1, <2>1, SizeFacts, TopPlace
<1>5. b \in v .. v + walk.pages - 1
  BY <1>1, <1>2, <1>3, <1>4
<1>6. /\ b \in Nat /\ b < Size[4] /\ b \div Size[2] = v \div Size[2] /\ b % Size[2] = b - Section
  BY <1>1, <1>5, PagesInTable
<1>7. Index(2, b) = Index(2, v) /\ Index(3, b) = Index(3, v)
  BY <1>4, <1>6, SectionIndex
<1>8. /\ Upper = Pointer(y) /\ tables'[r][Index(3, v)] = Upper
      /\ t = 0 => tables'[y][Index(2, v)] = Middle /\ Middle = Pointer(x)
      /\ tables'[x][i] = PageEntry(t, f)
  BY <1>1, <1>3, AboveStay
<1>9. /\ \/ t = 2 /\ x = y /\ i = Index(2, v)
         \/ t = 0 /\ x = Middle.to /\ i = a - Section
  BY <1>1 DEF Writes
<1>10. PICK j, k, l : j = Index(3, b) /\ k = Index(2, b) /\ l = b % Size[2]
  OBVIOUS
<1>11. /\ j = Index(3, v) /\ k = Index(2, v)
       /\ Leaf(c, b)' = LET e3 == tables'[r][j]
                            e2 == IF e3 = Nil THEN Nil ELSE tables'[e3.to][k]
                        IN IF e2.kind = "table" THEN tables'[e2.to][l] ELSE e2
  <2>1. j = Index(3, v) /\ k = Index(2, v)
    BY <1>7, <1>10
  <2>2. PICK z : z = c
    OBVIOUS
  <2>3. r = Root(z)
    BY <1>1, <2>2
  <2>4. Leaf(c, b)' = Leaf(z, b)'
    BY <2>2
  <2>5. Leaf(z, b)' = LET e3 == tables'[r][j]
                          e2 == IF e3 = Nil THEN Nil ELSE tables'[e3.to][k]
                      IN IF e2.kind = "table" THEN tables'[e2.to][l] ELSE e2
    BY <1>10, <2>3 DEF Leaf, Root, Index
  <2> QED BY <2>1, <2>4, <2>5
<1>12. Leaf(c, b)' = PageEntry(t, f)
  <2>1. CASE t = 2
    <3>1. tables'[y][k] = PageEntry(t, f) /\ tables'[r][j] = Pointer(y)
      <4>1. x = y /\ i = k
        <5>1. x = y /\ i = Index(2, v)
          BY <1>9, <2>1
        <5> QED BY <1>11, <5>1
      <4>2. tables'[r][j] = Upper
        BY <1>8, <1>11
      <4> QED BY <1>8, <4>1, <4>2
    <3> QED BY <1>11, <3>1, Kinds
  <2>2. CASE t = 0
    <3>1. b = a
      BY <1>1, <1>3, <1>4, <2>2
    <3>2. l = i
      BY <1>6, <1>9, <1>10, <2>2, <3>1
    <3>3. tables'[y][k] = Pointer(x) /\ tables'[x][l] = PageEntry(t, f)
      <4>1. tables'[y][k] = Middle /\ Middle = Pointer(x)
        BY <1>8, <1>11, <2>2
      <4> QED BY <1>8, <3>2, <4>1
    <3>4. tables'[r][j] = Pointer(y)
      BY <1>8, <1>11
    <3> QED BY <1>11, <3>3, <3>4, Kinds
  <2> QED BY <1>2, <2>1, <2>2
<1>13. b % Size[t] = b - a
  <2>1. CASE t = 2
    <3>1. Section = v
      BY <1>1, <1>2, <1>4, <2>1 DEF Section
    <3> QED BY <1>2, <1>6, <2>1, <3>1
  <2>2. CASE t = 0
    <3>1. b = a
      BY <1>1, <1>3, <1>4, <2>2
    <3>2. b % 1 \in 0 .. 1 - 1
      BY <1>6, Division
    <3> QED BY <1>4, <1>6, <2>2, <3>1, <3>2
  <2> QED BY <1>2, <2>1, <2>2
<1>14. Leaf(region.space, b)' = PageEntry(t, f)
  <2>1. Leaf(region.space, b)' = Leaf(c, b)'
    BY <1>1, <1>3 DEF Leaf, Root, Index
  <2> QED BY <1>12, <2>1
<1> QED BY <1>1, <1>2, <1>4, <1>6, <1>13, <1>14

\* The pages of an entry are found, and no other page is touched.
Found(s, b, f) == Leaf(s, b) # Nil /\ Leaf(s, b).frame + (b % Size[Leaf(s, b).size]) = f

\* A page that finds a frame after a step is a translation then.
LEMMA FoundThen ==
  ASSUME SpacesMade' = SpacesMade, NEW s \in SpacesMade, NEW b \in 0 .. Size[4] - 1, NEW f,
         Found(s, b, f)'
  PROVE  <<s, b, f>> \in Translations(SpacesMade)'
<1>1. Leaf(s, b)' # Nil /\ Leaf(s, b)'.frame + (b % Size[Leaf(s, b)'.size]) = f
  BY DEF Found
<1> QED BY <1>1, TranslationsThen

\* A run of pages that find their frames, all others what they found.
LEMMA EntryTranslations ==
  ASSUME MapInv, SpacesMade' = SpacesMade, NEW c \in SpacesMade, NEW a \in Nat, NEW p \in Nat,
         NEW n \in Int, Pairs(c, a, p, n) \subseteq Left,
         \A s \in SpacesMade, b \in 0 .. Size[4] - 1 :
           ~(s = c /\ b \in a .. a + n - 1) => Leaf(s, b)' = Leaf(s, b),
         \A b \in a .. a + n - 1 : b \in 0 .. Size[4] - 1 /\ Found(c, b, p + (b - a))'
  PROVE  Translations(SpacesMade)' = Translations(SpacesMade) \cup Pairs(c, a, p, n)
<1>1. \A o : o \in Pairs(c, a, p, n) <=> PairOf(o, c, a, p, n)
  BY PairsAre
<1>2. ASSUME NEW o \in Pairs(c, a, p, n) PROVE o \in Translations(SpacesMade)'
  <2>1. PICK b \in a .. a + n - 1 : o = <<c, b, p + (b - a)>>
    BY <1>1 DEF PairOf
  <2>2. PICK f : f = p + (b - a)
    OBVIOUS
  <2>3. b \in 0 .. Size[4] - 1 /\ Found(c, b, f)'
    BY <2>2
  <2> QED BY <2>1, <2>2, <2>3, FoundThen
<1>3. ASSUME NEW o \in Translations(SpacesMade)'
      PROVE  o \in Translations(SpacesMade) \cup Pairs(c, a, p, n)
  <2>1. PICK s \in SpacesMade : \E x \in 0 .. Size[4] - 1 :
               /\ Leaf(s, x)' # Nil
               /\ o = <<s, x, Leaf(s, x)'.frame + (x % Size[Leaf(s, x)'.size])>>
    BY TranslationsThen
  <2>2. PICK x \in 0 .. Size[4] - 1 :
               /\ Leaf(s, x)' # Nil
               /\ o = <<s, x, Leaf(s, x)'.frame + (x % Size[Leaf(s, x)'.size])>>
    BY <2>1
  <2>3. CASE s = c /\ x \in a .. a + n - 1
    <3>1. PICK f : f = p + (x - a)
      OBVIOUS
    <3>2. Found(c, x, f)'
      BY <2>3, <3>1
    <3>3. Leaf(c, x)'.frame + (x % Size[Leaf(c, x)'.size]) = f
      BY <3>2 DEF Found
    <3>4. o = <<c, x, f>>
      BY <2>2, <2>3, <3>3
    <3> QED BY <1>1, <2>3, <3>1, <3>4 DEF PairOf
  <2>4. CASE ~(s = c /\ x \in a .. a + n - 1)
    <3>1. Leaf(s, x)' = Leaf(s, x)
      BY <2>4
    <3>2. Finds(s, x, o)
      BY <2>2, <3>1 DEF Finds
    <3> QED BY <3>2, TranslationsAre
  <2> QED BY <2>3, <2>4
<1>4. ASSUME NEW o \in Translations(SpacesMade) PROVE o \in Translations(SpacesMade)'
  <2>1. PICK s \in SpacesMade : \E x \in 0 .. Size[4] - 1 : Finds(s, x, o)
    BY TranslationsAre
  <2>2. PICK x \in 0 .. Size[4] - 1 : Finds(s, x, o)
    BY <2>1
  <2>3. CASE s = c /\ x \in a .. a + n - 1
    <3>1. PICK u : u = <<c, x, p + (x - a)>>
      BY Zenon
    <3>2. u \in Left
      BY <1>1, <2>3, <3>1 DEF PairOf
    <3>3. o \notin Left /\ o \in asked /\ u \in asked /\ Single(asked)
      BY <3>2 DEF MapInv
    <3>4. o[1] = u[1] /\ o[2] = u[2]
      BY <2>2, <2>3, <3>1 DEF Finds
    <3>5. o = u
      BY <3>3, <3>4 DEF Single, Map!Single
    <3> QED BY <3>2, <3>3, <3>5
  <2>4. CASE ~(s = c /\ x \in a .. a + n - 1)
    <3>1. Leaf(s, x)' = Leaf(s, x)
      BY <2>4
    <3>2. /\ Leaf(s, x)' # Nil
          /\ o = <<s, x, Leaf(s, x)'.frame + (x % Size[Leaf(s, x)'.size])>>
      BY <2>2, <3>1 DEF Finds
    <3> QED BY <3>2, TranslationsThen
  <2> QED BY <2>3, <2>4
<1> QED BY <1>2, <1>3, <1>4

\* A turn that sets an entry maps what the entry stands for, and that was left.
LEMMA SetEntryMap ==
  ASSUME BInv, MapInv, MapTurn, SetEntry
  PROVE  MapInv' /\ Grown
<1>1. TurnRest /\ pc = "map" /\ pc' = "map" /\ UNCHANGED asked /\ SpacesMade' = SpacesMade
  BY DEF MapTurn, TurnRest, SystemStays, replay, system, SpacesMade
<1>2. /\ Walking /\ WalkInv /\ walk.num # 0 /\ region' = region /\ walk.on /\ region.n # 0
  BY DEF SetEntry, BInv, Memory, Walks, Walking, PagesInv
<1>3. given_up' = given_up
  BY <1>2 DEF MapTurn
<1>4. ShapeInv
  BY DEF BInv, Memory
<1>5. PICK x, i, t, f : Writes(x, i, t, f)
  BY <1>2, SetEntryWrites
<1>6. PICK c, v, a, p, n, k, m : /\ c = region.space /\ v = region.v /\ a = walk.addr
                                 /\ p = walk.phys /\ n = Size[t] /\ k = LeftFrom /\ m = LeftFrom'
  OBVIOUS
<1>7. t = walk.size /\ t \in {0, 2} /\ f = p
  <2>1. t \in {0, 2} /\ f = walk.phys
    BY <1>2, <1>5, WrittenFrame
  <2>2. t = walk.size
    BY <1>5 DEF Writes
  <2> QED BY <1>6, <2>1, <2>2
<1>8. n \in Nat \ {0}
  <2>1. t \in 0 .. 4
    BY <1>7
  <2> QED BY <1>6, <2>1, SizeFacts
<1>9. /\ c \in SpacesMade /\ v \in Nat /\ region.p \in Nat /\ region.n \in Nat
  BY <1>2, <1>6, TopPlace
<1>10. /\ k \in 0 .. walk.pages /\ walk.pages \in 1 .. region.n
       /\ a = v + k /\ p = region.p + k
  BY <1>2, <1>6, WalkFrom
<1>11. /\ walk'.on /\ walk'.pages = walk.pages /\ walk'.addr = a + n
       /\ walk'.num = 0 => a + n = v + walk.pages
  BY <1>2, <1>6, <1>7, SetEntryGoes
<1>12. m = k + n /\ m \in 0 .. region.n
  <2>1. m = IF walk'.num = 0 THEN walk'.pages ELSE walk'.addr - v
    BY <1>2, <1>6, <1>11 DEF LeftFrom
  <2>2. m = k + n
    BY <1>8, <1>9, <1>10, <1>11, <2>1
  <2>3. m <= walk.pages
    <3>1. CASE walk'.num = 0
      <4>1. m = walk.pages /\ walk.pages \in Nat
        BY <1>9, <1>10, <1>11, <2>1, <3>1
      <4> QED BY <4>1
    <3>2. CASE walk'.num # 0
      <4>1. WalkInv'
        BY <1>2, SetEntryWalks
      <4>2. a + n \in v .. v + walk.pages - 1
        BY <1>2, <1>6, <1>11, <3>2, <4>1 DEF WalkInv, WalkNumbers
      <4>3. a = v + k /\ k \in Nat /\ walk.pages \in Nat
        BY <1>9, <1>10
      <4> QED BY <1>8, <1>9, <2>2, <4>2, <4>3
    <3> QED BY <3>1, <3>2
  <2> QED BY <1>8, <1>9, <1>10, <2>2, <2>3
<1>13. PICK D : D = Pairs(c, a, p, n)
  OBVIOUS
<1>14. Left' \cup D = Left /\ Left' \cap D = {}
  <2>1. D = Pairs(region.space, region.v + k, region.p + k, m - k)
    <3>1. m - k = n
      BY <1>8, <1>10, <1>12
    <3> QED BY <1>6, <1>10, <1>13, <3>1
  <2>2. k \in 0 .. m
    BY <1>8, <1>10, <1>12
  <2>3. k = LeftFrom /\ m = LeftFrom' /\ m \in 0 .. region.n
    BY <1>6, <1>12
  <2>4. region.v \in Nat
    BY <1>6, <1>9
  <2> QED BY <1>1, <1>2, <1>9, <2>1, <2>2, <2>3, <2>4, LeftSplit
<1>15. ASSUME NEW s \in SpacesMade, NEW b \in 0 .. Size[4] - 1,
              ~(s = c /\ b \in a .. a + n - 1)
       PROVE  Leaf(s, b)' = Leaf(s, b)
  <2>1. ~Visits(s, b, x, i)
    BY <1>2, <1>5, <1>6, <1>15, OnlyItsPages
  <2>2. Rewritten(x, i)
    BY <1>5 DEF Writes, Rewritten
  <2> QED BY <1>4, <2>1, <2>2, LeafKept
<1>16. ASSUME NEW b \in a .. a + n - 1
       PROVE  b \in 0 .. Size[4] - 1 /\ Found(c, b, p + (b - a))'
  <2>1. b \in walk.addr .. walk.addr + Size[t] - 1
    BY <1>6
  <2>2. /\ b \in 0 .. Size[4] - 1
        /\ Leaf(region.space, b)' = PageEntry(t, f)
        /\ f + (b % Size[t]) = walk.phys + (b - walk.addr)
    BY <1>2, <1>5, <2>1, ItsPages
  <2>3. PICK g, e : g = p + (b - a) /\ e = PageEntry(t, f)
    OBVIOUS
  <2>4. e # Nil /\ e.frame = f /\ e.size = t
    BY <2>3, Kinds DEF PageEntry
  <2>5. Leaf(c, b)' = e
    <3>1. Leaf(region.space, b)' = Leaf(c, b)'
      BY <1>2, <1>6 DEF Leaf, Root, Index
    <3> QED BY <2>2, <2>3, <3>1
  <2>6. f + (b % Size[t]) = g
    BY <1>6, <2>2, <2>3
  <2>7. Found(c, b, g)'
    BY <2>4, <2>5, <2>6 DEF Found
  <2> QED BY <2>2, <2>3, <2>7
<1>17. Translations(SpacesMade)' = Translations(SpacesMade) \cup D
  <2>1. a \in Nat /\ p \in Nat /\ n \in Int
    BY <1>8, <1>9, <1>10
  <2>2. Pairs(c, a, p, n) \subseteq Left
    BY <1>13, <1>14
  <2>3. Translations(SpacesMade)' = Translations(SpacesMade) \cup Pairs(c, a, p, n)
    BY Zenon, <1>1, <1>9, <1>15, <1>16, <2>1, <2>2, EntryTranslations
  <2> QED BY <1>13, <2>3
<1> QED BY <1>1, <1>3, <1>14, <1>17, LessLeft

\* Every turn maps what it leaves behind.
LEMMA MapTurnMap == ASSUME BInv, MapInv, MapTurn PROVE MapInv' /\ Grown
<1>1. CASE \E guess \in Sizes : MapFpage(guess)
  BY <1>1, MapFpageMap
<1>2. CASE Descend
  BY <1>2, DescendMap
<1>3. CASE Recurse
  BY <1>3, RecurseMap
<1>4. CASE SetEntry
  BY <1>4, SetEntryMap
<1>5. CASE FpageDone
  BY <1>5, FpageDoneMap
<1> QED BY <1>1, <1>2, <1>3, <1>4, <1>5 DEF MapTurn, Step

\* A mapping asks for what nobody asked for, and all of it is left to do.
LEMMA MapMemoryMap ==
  ASSUME BInv, Replayable, MapInv, MapMemory
  PROVE  MapInv' /\ asked \subseteq asked' /\ Translations(SpacesMade)' = Translations(SpacesMade)
<1>1. /\ pc = "op" /\ ~undefined /\ Op.op = "MAP" /\ pc' = "map"
      /\ region' = [space |-> Current, v |-> Op.args[2],
                    p |-> spaces[Current].segs[Op.args[1] + 1], n |-> Op.args[3]]
      /\ asked' = asked \cup Pairs(region'.space, region'.v, region'.p, region'.n)
      /\ UNCHANGED <<tables, walk, spaces, given_up>>
  BY DEF MapMemory, BeginOp, Op, system
<1>2. PICK s, v, p, n : s = Current /\ v = Op.args[2] /\ n = Op.args[3]
                        /\ p = spaces[Current].segs[Op.args[1] + 1]
  OBVIOUS
<1>3. /\ v \in Nat /\ n \in Nat /\ p \in Nat /\ v + n <= Size[4] /\ spaces # <<>>
      /\ \A o \in asked : o[1] = s => o[2] \notin v .. v + n - 1
  BY <1>1, <1>2 DEF Replayable
<1>4. region'.space = s /\ region'.v = v /\ region'.p = p /\ region'.n = n
  BY <1>1, <1>2
<1>5. ~walk'.on /\ LeftFrom' = 0
  <2>1. ~walk.on
    BY <1>1, NotMapping DEF BInv
  <2> QED BY <1>1, <2>1 DEF LeftFrom
<1>6. s \in SpacesMade /\ SpacesMade' = SpacesMade /\ Size[4] \in Nat
  <2>1. s \in SpacesMade
    BY <1>2, <1>3, TheLast DEF BInv, Memory, ShapeInv, SpacesMade, Current
  <2>2. 4 \in 0 .. 4
    OBVIOUS
  <2> QED BY <1>1, <2>1, <2>2, SizeFacts DEF SpacesMade
<1>7. PICK D : D = Pairs(s, v, p, n)
  OBVIOUS
<1>8. \A o : o \in D <=> PairOf(o, s, v, p, n)
  BY <1>3, <1>7, PairsAre
<1>9. asked' = asked \cup D
  BY <1>1, <1>4, <1>7
<1>10. Left' = D
  <2>1. CASE n = 0
    <3>1. Left' = {}
      BY <1>4, <2>1 DEF Left
    <3>2. 0 .. n - 1 = {}
      BY <2>1
    <3> QED BY <1>7, <3>1, <3>2 DEF Pairs
  <2>2. CASE n # 0
    <3>1. PICK x, y, z : x = region'.v + 0 /\ y = region'.p + 0 /\ z = region'.n - 0
      OBVIOUS
    <3>2. x = v /\ y = p /\ z = n
      BY <1>3, <1>4, <3>1
    <3>3. Left' = Pairs(region'.space, x, y, z)
      BY <1>1, <1>4, <1>5, <2>2, <3>1 DEF Left, Pairs
    <3> QED BY <1>4, <1>7, <3>2, <3>3
  <2> QED BY <2>1, <2>2
<1>11. Left = {}
  BY <1>1 DEF Left
<1>12. asked \cap D = {}
  <2> SUFFICES ASSUME NEW o \in asked, o \in D PROVE FALSE
    OBVIOUS
  <2>1. PICK a \in v .. v + n - 1 : o = <<s, a, p + (a - v)>>
    BY <1>8 DEF PairOf
  <2> QED BY <1>3, <2>1
<1>13. Translations(SpacesMade)' = Translations(SpacesMade)
  BY <1>1, <1>6, KeptTables
<1>14. \A o \in asked' : /\ o = <<o[1], o[2], o[3]>> /\ o[1] \in SpacesMade'
                         /\ o[2] \in 0 .. Size[4] - 1 /\ o[3] \in Nat
  <2>1. ASSUME NEW o \in D
        PROVE  o = <<o[1], o[2], o[3]>> /\ o[1] \in SpacesMade /\ o[2] \in 0 .. Size[4] - 1
               /\ o[3] \in Nat
    <3>1. PICK a \in v .. v + n - 1 : o = <<s, a, p + (a - v)>>
      BY <1>8, <2>1 DEF PairOf
    <3>2. a \in 0 .. Size[4] - 1 /\ p + (a - v) \in Nat
      BY <1>3, <1>6
    <3> QED BY <1>6, <3>1, <3>2
  <2> QED BY <1>6, <1>9, <2>1 DEF MapInv
<1>15. Single(asked')
  <2>1. ASSUME NEW x \in D, NEW y \in D, x[2] = y[2] PROVE x = y
    <3>1. PICK a \in v .. v + n - 1 : x = <<s, a, p + (a - v)>>
      BY <1>8, <2>1 DEF PairOf
    <3>2. PICK b \in v .. v + n - 1 : y = <<s, b, p + (b - v)>>
      BY <1>8, <2>1 DEF PairOf
    <3> QED BY <2>1, <3>1, <3>2
  <2>2. ASSUME NEW x \in asked, NEW y \in D, x[1] = y[1], x[2] = y[2] PROVE FALSE
    <3>1. PICK b \in v .. v + n - 1 : y = <<s, b, p + (b - v)>>
      BY <1>8, <2>2 DEF PairOf
    <3> QED BY <1>3, <2>2, <3>1
  <2>3. \A x, y \in asked : x[1] = y[1] /\ x[2] = y[2] => x = y
    BY DEF MapInv, Single, Map!Single
  <2> QED BY <1>9, <2>1, <2>2, <2>3 DEF Single, Map!Single
<1>16. /\ given_up' \subseteq asked' /\ Left' \subseteq asked' \ given_up'
       /\ Translations(SpacesMade)' = (asked' \ given_up') \ Left'
  <2>1. PICK A, G, T : A = asked /\ G = given_up /\ T = Translations(SpacesMade)
    OBVIOUS
  <2>2. G \subseteq A /\ T = A \ G
    BY <1>11, <2>1 DEF MapInv
  <2>3. given_up' = G /\ asked' = A \cup D /\ A \cap D = {} /\ Left' = D
        /\ Translations(SpacesMade)' = T
    BY <1>1, <1>9, <1>10, <1>12, <1>13, <2>1
  <2> QED BY <2>2, <2>3
<1>17. MapInv'
  BY <1>14, <1>15, <1>16 DEF MapInv, Single, Map!Single
<1> QED BY <1>9, <1>13, <1>17

\* One step of a boot.  What was asked is never less, what is mapped neither;
\* and only a mapping asks.
LEMMA NextMap ==
  ASSUME BInv, Replayable, MapInv, [BootNext]_vars
  PROVE  MapInv' /\ (MapMemory \/ Grown)
<1>1. ASSUME UNCHANGED bvars PROVE MapInv' /\ Grown
  <2>1. UNCHANGED <<pc, walk, region, asked, given_up, tables, spaces>>
    BY <1>1 DEF bvars, heap, pools, paging, replay, system, history
  <2>2. SpacesMade' = SpacesMade
    BY <2>1 DEF SpacesMade
  <2>3. Left' = Left
    <3>1. LeftFrom' = LeftFrom
      BY <2>1 DEF LeftFrom
    <3> QED BY <2>1, <3>1 DEF Left, Pairs
  <2> QED BY <2>1, <2>2, <2>3, QuietTables
<1>2. CASE \/ Load \/ CreateHeap \/ Skip \/ CreateSpace \/ SegmentList
           \/ KernelTable("utcb_page", "vectors") \/ KernelTable("vectors", "idle")
           \/ IdleTcb \/ CreateSegment \/ Mapped \/ CreateThread \/ NoUtcbLeft
           \/ UtcbInPage \/ UtcbNoPage \/ Enqueue \/ Schedule
  BY <1>2, AwaySteps, AwayKeeps
<1>3. CASE PageDirectory
  BY <1>3, PageDirectoryMap
<1>4. CASE MapUtcb
  BY <1>4, MapUtcbMap
<1>5. CASE MapTurn
  BY <1>5, MapTurnMap
<1>6. CASE MapMemory
  BY <1>6, MapMemoryMap
<1>7. CASE (W!Next /\ UNCHANGED bvars) \/ UNCHANGED vars
  <2>1. UNCHANGED bvars
    BY <1>7 DEF vars
  <2> QED BY <1>1, <2>1
<1> QED BY <1>2, <1>3, <1>4, <1>5, <1>6, <1>7 DEF BootNext, Boot

\* Without spaces there is no translation.
LEMMA NoTables == ASSUME SpacesMade = {} PROVE Translations(SpacesMade) = {}
BY TranslationsAre

\* Before the boot nothing is asked and nothing mapped.
LEMMA InitMap == ASSUME BootInit PROVE MapInv /\ Map!Init
<1>1. spaces = <<>> /\ asked = {} /\ given_up = {} /\ pc = "off"
  BY DEF BootInit, Init
<1>2. SpacesMade = {}
  BY <1>1 DEF SpacesMade
<1>3. Translations(SpacesMade) = {}
  BY <1>2, NoTables
<1>4. Left = {}
  BY <1>1 DEF Left
<1> QED BY <1>1, <1>3, <1>4 DEF MapInv, Single, Map!Single, Map!Init

\* The invariant implies that nothing asked is missing but what was given up.
LEMMA MappedFollows == ASSUME MapInv PROVE MappedWhole
<1>1. Single(asked) /\ Translations(SpacesMade) = (asked \ given_up) \ Left
  BY DEF MapInv
<1>2. pc # "map" \/ region.n = 0 => Left = {}
  BY DEF Left
<1> QED BY <1>1, <1>2 DEF MappedWhole

\* Every step of a replayable boot is one of the map, or none.
LEMMA MapStep ==
  ASSUME BInv, Replayable, MapInv, [BootNext]_vars
  PROVE  [Map!Next]_(Map!amvars)
<1>1. MapInv'
  BY NextMap
<1>2. CASE MapMemory
  <2>1. asked \subseteq asked' /\ Translations(SpacesMade)' = Translations(SpacesMade)
    BY <1>2, MapMemoryMap
  <2>2. Map!Single(asked')
    BY <1>1 DEF MapInv, Single
  <2> QED BY <2>1, <2>2 DEF Map!Next, Map!Ask
<1>3. CASE Grown
  <2>1. asked' = asked /\ Translations(SpacesMade) \subseteq Translations(SpacesMade)'
    BY <1>3 DEF Grown
  <2>2. Translations(SpacesMade)' \subseteq asked
    BY <1>1, <2>1 DEF MapInv
  <2> QED BY <2>1, <2>2 DEF Map!Next, Map!Enter
<1> QED BY <1>2, <1>3, NextMap

\* And between two calls of map_region the translations are exactly those the
\* mappings asked for, less what was given up for want of memory
\* (space_t::map_fpage, the walk with its remembered levels).
THEOREM BootMappedWhole == BootSpec /\ []Replayable => []MappedWhole
<1> QED
  BY InitBInv, NextBInv, InitMap, NextMap, MappedFollows, PTL DEF BootSpec

\* The replay implements the abstract map: a translation exists only because a
\* mapping asked for it, no page gets two frames, none is taken away.
THEOREM BootImplementsAddressMap == BootSpec /\ []Replayable => ImplementsAddressMap
<1> QED
  BY InitBInv, NextBInv, InitMap, NextMap, MapStep, PTL
     DEF BootSpec, ImplementsAddressMap, Map!Spec
=============================================================================
