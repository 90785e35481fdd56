----------------------------- MODULE InitScript -----------------------------
(***************************************************************************)
(* The kernel's boot: init_memory (arch init.cc) replays the init script    *)
(* (init_script.cc) in two phases, with the kernel's own set up in between, *)
(* and starts the first thread.  An operation of the script is one action,  *)
(* or one per allocation it makes.  Composed with the page tables, the      *)
(* small-object pools and the kernel heap.                                  *)
(***************************************************************************)
EXTENDS PageTable, Sequences, SequencesExt

CONSTANTS
  BlockSize, WordBits, ObjSize,  \* the pools, as in SmallAlloc
  PageChunks,    \* heap chunks in a page
  UtcbBytes,     \* UTCB_AREA_PAGESIZE
  UtcbsPerPage,
  UtcbBitmap,    \* UTCB_BITMAP_LENGTH
  ListBytes(_)   \* heap bytes asked for a list of n physical segments

VARIABLES
  first_free, bitmap, objects, undefined,  \* the pools
  mem,      \* the script in memory: the operation, or what replaced it, at an offset
  pc,       \* what runs next
  phase, cur, cur_saved,  \* of run_init_script
  page,     \* the page allocate_utcb is about to map
  kernel,   \* the tables of the kernel's own mappings, 0 where there is none
  spaces,   \* global_spaces_list without the kernel's space
  threads,  \* in the order of their creation
  ready,    \* the ready queue: head and the links of each thread
  cpd,      \* the UTCB section of the processor's page directory
  running   \* whom schedule chose: a thread, 0 the idle thread

\* What only the properties read.
VARIABLES
  ran,       \* the offsets of the operations that ran
  asked,     \* the translations the script asked for
  given_up,  \* those that map_region reported missing, or never tried
  zeroed     \* the (owner, page) of each UTCB cleared in place

heap   == <<avail, blocks>>
pools  == <<first_free, bitmap, objects, undefined>>
paging == <<tables, region, walk>>
replay == <<mem, pc, phase, cur, cur_saved>>
system == <<page, kernel, spaces, threads, ready, cpd, running>>
history == <<ran, asked, given_up, zeroed>>
bvars == <<heap, pools, paging, replay, system, history>>

SA == INSTANCE SmallAlloc WITH Pools <- {"space", "tcb", "l0"}

\* A block holds an object and its header; the bitmap is no longer than the
\* table for UTCBs; a table fits wherever a page of UTCBs does.
ASSUME BootAssumption ==
  /\ SA!PoolAssumption
  /\ \A p \in DOMAIN ObjSize : SA!ObjsPerBlock(ObjSize[p]) >= 1
  /\ PageChunks \in Nat \ {0} /\ UtcbBytes \in Nat \ {0}
  /\ UtcbsPerPage \in Nat \ {0} /\ UtcbBitmap \in 0 .. UtcbsPerPage * Size[2]
  /\ Heap!ChunksNeeded(TableBytes[2]) <= Heap!ChunksNeeded(UtcbBytes)
  /\ \A c \in 1 .. Chunks : Heap!Aligned(c, Heap!ChunksNeeded(UtcbBytes)) =>
       Heap!Aligned(c, Heap!ChunksNeeded(TableBytes[2]))

None == 0
NoUtcb == -1
NoPage == [base |-> None, pos |-> NoUtcb]
Unset == [kind |-> "none"]
SpacesMade == DOMAIN spaces
Current == Len(spaces)
-----------------------------------------------------------------------------
(* kmem_resource_t::alloc of a small object and of a size.                  *)
Small(p) == SA!Allocate(p) \/ SA!AllocateBlock(p) \/ SA!AllocateNoBlock(p)
Given    == CHOOSE o \in objects' : o \notin objects

Bytes(size) == Heap!Alloc(size) /\ UNCHANGED pools
NoBytes(size) == Heap!AllocNull(size) /\ UNCHANGED pools
Base        == (CHOOSE b \in blocks' : b \notin blocks).base

\* run_init_script goes on behind the operation it saved.
BehindStored(op) ==  \* seeded fault: reads the header a thread replaced
  /\ cur' = cur + IF op.op = "THREAD" THEN 1 ELSE op.size
  /\ ran' = Append(ran, cur)
  /\ pc' = IF ~op.eop THEN "op" ELSE IF phase = 1 THEN "utcb_page" ELSE "schedule"
  /\ UNCHANGED <<phase, cur_saved>>
Behind(op) ==
  /\ cur' = cur + op.size
  /\ ran' = Append(ran, cur)
  /\ pc' = IF ~op.eop THEN "op" ELSE IF phase = 1 THEN "utcb_page" ELSE "schedule"
  /\ UNCHANGED <<phase, cur_saved>>

BeginOp(name) == pc = "op" /\ ~undefined /\ mem[cur].op = name
Op == mem[cur]
-----------------------------------------------------------------------------
Init ==
  /\ avail = {} /\ blocks = {}
  /\ first_free = [p \in {"space", "tcb", "l0"} |-> 0]
  /\ bitmap = [c \in 1 .. Chunks |-> {}]
  /\ objects = {} /\ undefined = FALSE
  /\ tables = << >> /\ region = NoRegion /\ walk = NoWalk
  /\ mem = << >> /\ pc = "off" /\ phase = 1 /\ cur = 0 /\ cur_saved = Unset
  /\ page = NoPage /\ kernel = <<>> /\ spaces = <<>> /\ threads = <<>>
  /\ ready = [head |-> None, next |-> <<>>, prev |-> <<>>]
  /\ cpd = Unset /\ running = None
  /\ ran = <<>> /\ asked = {} /\ given_up = {} /\ zeroed = {}

\* ki_create_heap.  The resource's own structure takes the first chunk.  Bound:
\* one cell, so this is the only heap, and the kernel's.
CreateHeap ==
  /\ BeginOp("HEAP")
  /\ avail' = LET from == Op.args[1] * PageChunks
              IN from + 1 .. from + Op.args[2] * PageChunks - 1
  /\ first_free' = [p \in DOMAIN first_free |-> 0]
  /\ Behind(Op)
  /\ UNCHANGED <<blocks, bitmap, objects, undefined, paging, mem, system,
                 asked, given_up, zeroed>>

\* An operation the switch has no case for.
Skip ==
  /\ pc = "op" /\ ~undefined
  /\ Op.op \notin {"HEAP", "SPACE", "THREAD", "SEGMENT", "MAP"}
  /\ Behind(Op)
  /\ UNCHANGED <<heap, pools, paging, mem, system, asked, given_up, zeroed>>

\* init_memory maps the UTCB reference page and init_arm_interrupts the
\* vector page into the kernel's space; a failure is not looked at.
KernelTable(at, then) ==
  /\ pc = at /\ pc' = then
  /\ \/ Bytes(TableBytes[2]) /\ kernel' = Append(kernel, Base)
     \/ NoBytes(TableBytes[2]) /\ kernel' = Append(kernel, None)
  /\ UNCHANGED <<paging, mem, phase, cur, cur_saved, page, spaces, threads,
                 ready, cpd, running, history>>

\* init_idle_tcb, and run_init_script again.
IdleTcb ==
  /\ pc = "idle" /\ pc' = "op" /\ phase' = 2
  /\ Small("tcb")
  /\ UNCHANGED <<paging, mem, cur, cur_saved, system, history>>
-----------------------------------------------------------------------------
(* ki_create_space.                                                         *)
CreateSpace ==
  /\ BeginOp("SPACE") /\ cur_saved' = Op /\ pc' = "pdir"
  /\ Small("space")
  /\ UNCHANGED <<paging, mem, phase, cur, system, history>>

\* space_t::init claims the UTCB section of the processor's directory: every
\* space has number 0, so it is the same one.
ClaimedOnce(s) ==  \* seeded fault: an entry in use is kept
  IF cpd = Unset THEN [kind |-> "space", space |-> s] ELSE cpd
Claimed(s) == [kind |-> "space", space |-> s]

\* allocate_page_directory, the rest of allocate_space, and space_t::init.
PageDirectory ==
  /\ pc = "pdir" /\ ~undefined
  /\ Small("l0")
  /\ LET s == Current + 1 IN
     /\ spaces' = Append(spaces, [utcb |-> Nil, free |-> 0 .. UtcbBitmap - 1,
                                  list |-> None, segs |-> <<>>])
     /\ tables' = [x \in DOMAIN tables \cup {Root(s)} |->
                     IF x = Root(s) THEN [i \in 0 .. TableSize(3) - 1 |-> Nil]
                     ELSE tables[x]]
     /\ cpd' = Claimed(s)
  /\ IF cur_saved.args[2] = 0 THEN Behind(cur_saved)
     ELSE pc' = "segments" /\ UNCHANGED <<phase, cur, cur_saved, ran>>
  /\ UNCHANGED <<region, walk, mem, page, kernel, threads, ready, running,
                 asked, given_up, zeroed>>

\* The list of segments is filled in without looking whether there is one.
SegmentList ==
  /\ pc = "segments" /\ ~undefined
  /\ LET n == cur_saved.args[2] IN
     \/ /\ Bytes(ListBytes(n))
        /\ spaces' = [spaces EXCEPT ![Current].list = Base,
                                    ![Current].segs = [i \in 1 .. n |-> 0]]
        /\ Behind(cur_saved)
     \/ /\ Heap!AllocNull(ListBytes(n)) /\ undefined' = TRUE
        /\ UNCHANGED <<first_free, bitmap, objects, spaces, pc, phase, cur,
                       cur_saved, ran>>
  /\ UNCHANGED <<paging, mem, page, kernel, threads, ready, cpd, running,
                 asked, given_up, zeroed>>

\* ki_create_segment; lookup_segment answers NULL to a number above the list.
CreateSegment ==
  /\ BeginOp("SEGMENT")
  /\ LET n == Op.args[1] + 1 known == n \in DOMAIN spaces[Current].segs IN
     /\ undefined' = ~known
     /\ spaces' = IF known THEN [spaces EXCEPT ![Current].segs[n] = Op.args[2]] ELSE spaces
  /\ Behind(Op)
  /\ UNCHANGED <<heap, first_free, bitmap, objects, paging, mem, page, kernel,
                 threads, ready, cpd, running, asked, given_up, zeroed>>
-----------------------------------------------------------------------------
(* ki_map_memory.                                                           *)
Pairs(s, v, p, n) == {<<s, v + i, p + i>> : i \in 0 .. n - 1}

MapMemory ==
  /\ BeginOp("MAP") /\ cur_saved' = Op /\ pc' = "map"
  /\ LET r == [space |-> Current, v |-> Op.args[2],
               p |-> spaces[Current].segs[Op.args[1] + 1], n |-> Op.args[3]] IN
     /\ region' = r
     /\ asked' = asked \cup Pairs(r.space, r.v, r.p, r.n)
  /\ UNCHANGED <<heap, pools, tables, walk, mem, phase, cur, system, ran,
                 given_up, zeroed>>

\* A turn of a loop of map_region.  Its history: the pages of a walk that has
\* nothing to do from the start, and of a region that is given up.
MapTurn ==
  /\ pc = "map" /\ Step
  /\ given_up' = given_up \cup
       (IF walk'.on /\ ~walk.on /\ walk'.num = 0
        THEN Pairs(region.space, region.v, region.p, walk'.pages)
        ELSE IF region.n > 0 /\ region'.n = 0 /\ walk.num > 0
        THEN Pairs(region.space, walk.addr, walk.phys, region.v + region.n - walk.addr)
        ELSE {})
  /\ UNCHANGED <<pools, replay, system, ran, asked, zeroed>>

\* The result of map_region is dropped.
Mapped ==
  /\ pc = "map" /\ region.n = 0 /\ ~walk.on
  /\ Behind(cur_saved)
  /\ UNCHANGED <<heap, pools, paging, mem, system, asked, given_up, zeroed>>
-----------------------------------------------------------------------------
(* ki_create_thread.                                                        *)
CreateThread ==
  /\ BeginOp("THREAD") /\ cur_saved' = Op /\ pc' = "utcb"
  /\ Small("tcb")
  /\ threads' = IF undefined' /\ objects' = objects THEN threads
                ELSE Append(threads, [space |-> Current, tcb |-> Given, utcb |-> NoUtcb])
  /\ UNCHANGED <<paging, mem, phase, cur, page, kernel, spaces, ready, cpd,
                 running, history>>

Lowest(S) == CHOOSE i \in S : \A j \in S : i <= j

\* A UTCB's page in the table for UTCBs; what is mapped there.
PageOf(pos) == pos \div UtcbsPerPage
UtcbEntry(entry, pos) ==
  IF entry = Nil THEN Nil ELSE tables[entry.to][PageOf(pos)]

\* allocate_utcb: the lowest free bit is taken.  It is not given back when
\* there is no page for it.
UtcbsLeft == spaces[Current].free
Pos       == Lowest(UtcbsLeft)
TakeBit   == spaces' = [spaces EXCEPT ![Current].free = @ \ {Pos}]
SetUtcb(pos) == threads' = [threads EXCEPT ![Len(threads)].utcb = pos]

NoUtcbLeft ==
  /\ pc = "utcb" /\ ~undefined /\ UtcbsLeft = {}
  /\ pc' = "enqueue"
  /\ UNCHANGED <<heap, pools, paging, mem, phase, cur, cur_saved, system, history>>

\* The page is there: the UTCB is cleared through its address, which the
\* fault handler resolves for the space that claimed the section.
UtcbInPage ==
  /\ pc = "utcb" /\ ~undefined /\ UtcbsLeft # {}
  /\ UtcbEntry(spaces[Current].utcb, Pos) # Nil
  /\ LET entry == IF cpd.kind = "space" THEN spaces[cpd.space].utcb ELSE cpd
     IN /\ cpd' = entry
        /\ zeroed' = zeroed \cup {[space |-> Current, at |-> UtcbEntry(entry, Pos)]}
  /\ TakeBit /\ SetUtcb(Pos)
  /\ pc' = "enqueue"
  /\ UNCHANGED <<heap, pools, paging, mem, phase, cur, cur_saved, page, kernel,
                 ready, running, ran, asked, given_up>>

UtcbNoPage ==
  /\ pc = "utcb" /\ ~undefined /\ UtcbsLeft # {}
  /\ UtcbEntry(spaces[Current].utcb, Pos) = Nil
  /\ TakeBit
  /\ \/ Bytes(UtcbBytes) /\ pc' = "utcb_map" /\ page' = [base |-> Base, pos |-> Pos]
     \/ NoBytes(UtcbBytes) /\ pc' = "enqueue" /\ UNCHANGED page
  /\ UNCHANGED <<paging, mem, phase, cur, cur_saved, kernel, threads, ready,
                 cpd, running, history>>

\* add_mapping of the page, from the space's own entry for UTCBs.  Without
\* memory for a table the page is lost with the bit: kmem_resource_t::free
\* is empty.
MapUtcb ==
  /\ pc = "utcb_map" /\ pc' = "enqueue" /\ page' = NoPage
  /\ LET entry == spaces[Current].utcb
         mine  == [kind |-> "page", size |-> 0, frame |-> page.base]
         at    == PageOf(page.pos)
     IN \/ /\ entry = Nil /\ Bytes(TableBytes[2])
           /\ tables' = [x \in DOMAIN tables \cup {Table(2, Base)} |->
                           IF x = Table(2, Base) THEN [Empty(2) EXCEPT ![at] = mine]
                           ELSE tables[x]]
           /\ spaces' = [spaces EXCEPT ![Current].utcb =
                           [kind |-> "table", to |-> Table(2, Base)]]
           /\ SetUtcb(page.pos)
        \/ /\ entry = Nil /\ NoBytes(TableBytes[2])
           /\ UNCHANGED <<tables, spaces, threads>>
        \/ /\ entry # Nil
           /\ tables' = [tables EXCEPT ![entry.to][at] = mine]
           /\ SetUtcb(page.pos)
           /\ UNCHANGED <<heap, pools, spaces>>
  /\ UNCHANGED <<region, walk, mem, phase, cur, cur_saved, kernel, ready, cpd,
                 running, history>>

\* ENQUEUE_LIST_TAIL: t goes between the last and the head.
EnqueuedOneWay(t) ==  \* seeded fault: the head's prev is kept
  LET last == ready.prev[ready.head] IN
  IF ready.head = None
  THEN [head |-> t, next |-> <<t>>, prev |-> <<t>>]
  ELSE [head |-> ready.head,
        next |-> [Append(ready.next, ready.head) EXCEPT ![last] = t],
        prev |-> Append(ready.prev, last)]
Enqueued(t) ==
  LET last == ready.prev[ready.head] IN
  IF ready.head = None
  THEN [head |-> t, next |-> <<t>>, prev |-> <<t>>]
  ELSE [head |-> ready.head,
        next |-> [Append(ready.next, ready.head) EXCEPT ![last] = t],
        prev |-> [Append(ready.prev, last) EXCEPT ![ready.head] = t]]

\* The thread is queued without a look at what activate got, and its address
\* is stored over the operation, where the caps will find it.
Enqueue ==
  /\ pc = "enqueue"
  /\ ready' = Enqueued(Len(threads))
  /\ mem' = [mem EXCEPT ![cur] = [op |-> "tcb", size |-> 1, eop |-> TRUE,
                                  args |-> <<Len(threads)>>]]
  /\ Behind(cur_saved)
  /\ UNCHANGED <<heap, pools, paging, page, kernel, spaces, threads, cpd,
                 running, asked, given_up, zeroed>>

\* schedule: current_runnable is never set.  No priority is ever stored, so
\* the idle thread's equals the highest, and it goes on if it is thought
\* runnable.
Schedule ==
  /\ pc = "schedule" /\ pc' = "running"
  /\ \E current_runnable \in BOOLEAN :
       running' = IF current_runnable THEN None ELSE ready.head
  /\ UNCHANGED <<heap, pools, paging, mem, phase, cur, cur_saved, page, kernel,
                 spaces, threads, ready, cpd, history>>

Boot ==
  \/ CreateHeap \/ Skip \/ CreateSpace \/ PageDirectory \/ SegmentList
  \/ KernelTable("utcb_page", "vectors") \/ KernelTable("vectors", "idle")
  \/ IdleTcb \/ CreateSegment \/ MapMemory \/ MapTurn \/ Mapped
  \/ CreateThread \/ NoUtcbLeft \/ UtcbInPage \/ UtcbNoPage \/ MapUtcb
  \/ Enqueue \/ Schedule
=============================================================================
