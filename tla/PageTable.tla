----------------------------- MODULE PageTable ------------------------------
(***************************************************************************)
(* Page tables of the ARMv5 kernel (arch v5 pgent.h) and the loops that     *)
(* fill them: map_region (space.cc) cuts a region into hardware pages, and  *)
(* map_fpage (linear_ptab_walker.cc) walks one of them in.  One action is   *)
(* one turn of a loop.  Page sizes are numbered as pgsize_e numbers them:   *)
(* 0 4k, 1 64k, 2 1m, 3 level0, 4 4g.  Addresses are 4k page numbers; what  *)
(* elfweaver writes is aligned to them.                                     *)
(***************************************************************************)
EXTENDS Integers, FiniteSets

CONSTANTS
  Chunks, ChunkSize, MaxSize,  \* the heap, as in HeapSpec
  Size,        \* 4k pages in a page of each size (HW_PGSHIFTS)
  TableBytes   \* TableBytes[t]: heap bytes of the table an entry of size t
               \* points to (ARM_L2_SIZE_NORMAL for 2, ARM_L1_SIZE for 3)

ASSUME PageTableAssumption ==
  /\ Chunks \in Nat /\ ChunkSize \in Nat \ {0}
  /\ Size \in [0 .. 4 -> Nat \ {0}] /\ Size[0] = 1
  /\ \A t \in 0 .. 3 : Size[t + 1] % Size[t] = 0
  /\ TableBytes \in [{2, 3} -> Nat \ {0}]

VARIABLES
  avail, blocks,  \* the heap
  tables,  \* the entries of each table that exists
  region,  \* what map_region has left: pages from v, to frames from p
  walk     \* the locals of map_fpage

Heap == INSTANCE HeapSpec

Nil == [kind |-> "nil"]
Sizes == 0 .. 4
-----------------------------------------------------------------------------
(* pgent_t.  An entry is Nil, a pointer to a table or a page; a place is a  *)
(* table and an index in it.                                                *)
TableSize(t)   == Size[t + 1] \div Size[t]
Index(t, addr) == (addr \div Size[t]) % TableSize(t)

Root(s)   == [level |-> 3, at |-> s]
Table(t, base) == [level |-> t - 1, at |-> base]
Entries(t) == IF t = 2 THEN Size[2] ELSE TableSize(t - 1)
Empty(t)   == [i \in 0 .. Entries(t) - 1 |-> Nil]

IsPage(e, t) == e.kind = "page" /\ e.size = t
Entry(pg)    == tables[pg.table][pg.idx]

\* A 64k entry is Size[1] entries of the 4k table: next steps over them all.
Stride(t)      == IF t = 1 THEN Size[1] ELSE 1
After(pg, t, n) == [pg EXCEPT !.idx = @ + n * Stride(t)]

IsValid(pg, t) ==
  \/ t \in {2, 3} /\ Entry(pg) # Nil
  \/ t = 1
  \/ t = 0 /\ IsPage(Entry(pg), 0)
IsSubtreeLow(pg, t) ==  \* seeded fault: no case for level 0
  \/ t = 2 /\ Entry(pg).kind = "table"
  \/ t = 1 /\ ~IsPage(Entry(pg), 1)
IsSubtree(pg, t) ==
  \/ t \in {2, 3} /\ Entry(pg).kind = "table"
  \/ t = 1 /\ ~IsPage(Entry(pg), 1)
Subtree(pg, t) == IF t = 1 THEN pg ELSE [table |-> Entry(pg).to, idx |-> 0]

WithEntry(pg, t, phys) ==
  [tables EXCEPT ![pg.table] =
     [i \in DOMAIN @ |->
        IF i \in pg.idx .. pg.idx + Stride(t) - 1
        THEN [kind |-> "page", size |-> t, frame |-> phys - (phys % Size[t])]
        ELSE @[i]]]

WithTable(pg, t, base) ==
  [x \in DOMAIN tables \cup {Table(t, base)} |->
     IF x = Table(t, base) THEN Empty(t)
     ELSE IF x = pg.table
     THEN [tables[x] EXCEPT ![pg.idx] = [kind |-> "table", to |-> Table(t, base)]]
     ELSE tables[x]]
-----------------------------------------------------------------------------
(* map_fpage.                                                               *)
NoWalk == [on |-> FALSE]

\* A region is v, p and n pages of a space; none is left when n = 0.
NoRegion == [space |-> 0, v |-> 0, p |-> 0, n |-> 0]

\* The next hardware page of the region: the largest that fits and to whose
\* size both addresses are aligned.
BiggestByV(r) ==  \* seeded fault: the frames need no alignment
  CHOOSE t \in 0 .. 2 :
    /\ Size[t] <= r.n /\ r.v % Size[t] = 0
    /\ \A u \in t + 1 .. 2 : r.n < Size[u] \/ r.v % Size[u] # 0
Biggest(r) ==
  CHOOSE t \in 0 .. 2 :
    /\ Size[t] <= r.n /\ r.v % Size[t] = 0 /\ r.p % Size[t] = 0
    /\ \A u \in t + 1 .. 2 :
         r.n < Size[u] \/ r.v % Size[u] # 0 \/ r.p % Size[u] # 0

\* map_fpage never sets pgsize: the walk uses whatever the stack holds, here
\* any page size.  A size above the page's shifts by a negative count, which
\* the processor answers with 0.
MapFpage(guess) ==
  /\ ~walk.on /\ region.n > 0
  /\ LET t == Biggest(region) IN
     walk' = [on |-> TRUE, pgsize |-> guess, size |-> 3,
              num |-> IF guess <= t THEN Size[t] \div Size[guess] ELSE 0,
              addr |-> region.v, phys |-> region.p, pages |-> Size[t],
              at |-> [table |-> Root(region.space), idx |-> Index(3, region.v)],
              r_tpg |-> [u \in 0 .. 2 |-> Nil], r_tnum |-> [u \in 0 .. 2 |-> 0]]
  /\ UNCHANGED <<avail, blocks, tables, region>>

\* map_next_level: w is about to leave an entry of size w.size + 1, for the
\* table below it.
Below(w, pg) == [w EXCEPT !.at = After(pg, w.size, Index(w.size, w.addr))]

\* Without memory for a table map_fpage fails, and map_region gives up the
\* rest.  A page in the way would stay there: clear does nothing.
NextLevel(w) ==
  LET t == w.size + 1 IN
  \/ /\ ~IsValid(w.at, t)
     /\ Heap!Alloc(TableBytes[t])
     /\ \E b \in blocks' \ blocks :
          /\ tables' = WithTable(w.at, t, b.base)
          /\ walk' = Below(w, [table |-> Table(t, b.base), idx |-> 0])
     /\ UNCHANGED region
  \/ /\ ~IsValid(w.at, t)
     /\ Heap!AllocNull(TableBytes[t])
     /\ walk' = NoWalk /\ region' = NoRegion
     /\ UNCHANGED tables
  \/ /\ IsValid(w.at, t)
     /\ walk' = IF IsSubtree(w.at, t) THEN Below(w, Subtree(w.at, t))
                ELSE [w EXCEPT !.size = t]
     /\ UNCHANGED <<avail, blocks, tables, region>>

\* The entry to leave is remembered, with what there is to do behind it.
RememberedHere(w) ==  \* seeded fault: comes back to the entry it leaves
  [w EXCEPT !.size = @ - 1,
            !.r_tpg[w.size - 1] = w.at,
            !.r_tnum[w.size - 1] = w.num - 1]
Remembered(w) ==
  [w EXCEPT !.size = @ - 1,
            !.r_tpg[w.size - 1] = After(w.at, w.size, 1),
            !.r_tnum[w.size - 1] = w.num - 1]

\* The lowest remembered level with something left to do, or the last.
Climbed(w) ==
  LET left == {u \in w.size .. w.pgsize - 1 : w.r_tnum[u] > 0}
      u == IF left = {} THEN w.pgsize - 1
           ELSE CHOOSE x \in left : \A y \in left : x <= y
  IN [w EXCEPT !.at = w.r_tpg[u], !.num = w.r_tnum[u], !.size = u + 1]

\* map_next_pgentry.
NextEntry(w) ==
  LET m == [w EXCEPT !.addr = @ + Size[w.size], !.phys = @ + Size[w.size],
                     !.num = @ - 1]
  IN IF m.num > 0 THEN [m EXCEPT !.at = After(@, m.size, 1)]
     ELSE IF m.size < m.pgsize THEN Climbed(m) ELSE m

\* A turn of the loop.
Descend ==
  /\ walk.on /\ walk.num > 0 /\ walk.size > walk.pgsize
  /\ NextLevel(Remembered(walk))

\* An entry that is a table already, as each 64k entry is until a large page
\* is written: its level is filled from the one below.
Recurses == IsValid(walk.at, walk.size) /\ IsSubtree(walk.at, walk.size)

Recurse ==
  /\ walk.on /\ walk.num > 0 /\ walk.size <= walk.pgsize /\ Recurses
  /\ LET w == [Remembered(walk) EXCEPT !.num = TableSize(walk.size - 1)]
     IN walk' = Below(w, Subtree(walk.at, walk.size))
  /\ UNCHANGED <<avail, blocks, tables, region>>

SetEntry ==
  /\ walk.on /\ walk.num > 0 /\ walk.size <= walk.pgsize /\ ~Recurses
  /\ tables' = WithEntry(walk.at, walk.size, walk.phys)
  /\ walk' = NextEntry(walk)
  /\ UNCHANGED <<avail, blocks, region>>

\* map_fpage returns true, and map_region goes on behind the page.
FpageDone ==
  /\ walk.on /\ walk.num = 0
  /\ walk' = NoWalk
  /\ region' = [region EXCEPT !.v = @ + walk.pages, !.p = @ + walk.pages,
                              !.n = @ - walk.pages]
  /\ UNCHANGED <<avail, blocks, tables>>

Step ==
  \/ \E guess \in Sizes : MapFpage(guess)
  \/ Descend \/ Recurse \/ SetEntry \/ FpageDone
-----------------------------------------------------------------------------
(* What the processor finds for a page: a walk of its own, of two or three  *)
(* tables.                                                                  *)
Leaf(s, v) ==
  LET e3 == tables[Root(s)][Index(3, v)]
      e2 == IF e3 = Nil THEN Nil ELSE tables[e3.to][Index(2, v)]
  IN IF e2.kind = "table" THEN tables[e2.to][v % Size[2]] ELSE e2

Translations(S) ==
  UNION {{<<s, v, Leaf(s, v).frame + (v % Size[Leaf(s, v).size])>> :
            v \in {x \in 0 .. Size[4] - 1 : Leaf(s, x) # Nil}} : s \in S}
=============================================================================
