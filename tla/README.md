# A verification project for oktest

oktest is a small OKL4-style system for ARM: a microkernel (`pistachio`, `arch/arm`), the
libraries and drivers its cells are linked with (`libs`, `drivers`), and *elfweaver*
(`tools/pyelf/weaver`), the Python program that lays out kernel and cells in memory and writes the
boot image.  This directory holds TLA+ modules of its core logic, the TLC configurations that
check them on small instances, and TLAPS proofs, for every instance, about the kernel heap, the
memory, page tables and ready queue after a boot, the timer driver, the packet lists, the UART driver, the serial library,
the handlers of the standard files, the weaver's allocator and its memory pools.

    tlc -config KMem.cfg KMem.tla          # a run: module and cfg as in PROJECT.json
    tlapm HeapProofs.tla                   # proofs: every module *Proofs and *Lemmas

`PROJECT.json` lists every run with its properties, maps each definition to the source lines it
stands for, names for each property a fault that breaks it, and lists the hazards and findings.

## 1. Inventory

| Part | State it keeps | Operations | Hard behaviour |
|---|---|---|---|
| kernel heap `kmem_t` | free list threaded through free chunks, `free_chunks` | `init`, `alloc`, `free` | long sequences of calls; adjacency found only in a sorted list; rounding and alignment |
| small-object pools `small_alloc_t` | current block, bitmap in the block | `init`, `allocate` | room for the header; what happens when a block is full |
| packet streams `stream.h`, `serial.c` | `next` of each packet, four ends per stream, free list | allocate, add, switch head, reclaim | one link field for all lists; different tests for emptiness |
| PL011 UART driver | position in packets, device registers | interrupt, transmit and receive loops, sync | characters arrive while a loop runs; two interrupt sources, one handler |
| serial library | the device, its packets | `serial_init`, `serial_write`, `serial_read` | loops that poll a driver that does nothing when polled; failed `malloc` |
| stdio | a handler for each of three files | first use, later use | the set-up of the device may print |
| C heap (`malloc.c`, `free.c`, `sys_morecore.c`) | ring of free blocks, `freep`, `__malloc_bss` | `malloc`, `free`, `morecore` | search from a moving start; joining both neighbours |
| SP804 timer driver | long tick count, last reading, armed timeout | get and set ticks, timeout, interrupt, enable, disable | counter wraps and runs on between register accesses |
| weaver allocator | free and full list | `add_memory`, `mark`, `alloc`, `mark_window` | groups with a distance that start over; inclusive and exclusive ends; partial pages |
| weaver pools and tracker | an allocator per pool, four trackers, two flags, the windows of zones | add memory, direct memory, mark, allocate, prime | a flag meant for "the next call"; several pools for one range; windows the tracker is not told of |
| image layout | segments and their groups | collect, prepare, layout | phases that must come in order |
| init script, elfweaver | cells, spaces, the section for the script | size, lay out, compose | composed twice with a layout in between; offsets that later operations name |
| init script, kernel | position, phase, the operation saved | one handler per operation | implicit arguments; results not looked at; an operation overwritten by a pointer |
| kernel spaces | page tables, UTCB bitmap, the processor's directory | `map_region`, `map_fpage`, `add_mapping`, `allocate_utcb` | loops over several page sizes; failures halfway; an uninitialised size |
| kernel threads, scheduling | ready queue | `allocate_tcb`, `activate`, `enqueue`, `schedule` | a ring linked by four writes; an uninitialised thread |
| the rest | — | ELF library, linking, cell XML, driver language, build scripts, third-party tools | — |

How they interact.  A cell's `printf` goes through a `stdio` handler to `serial_write`, which takes
a packet off the free list, queues it on the transmit stream and thereby calls the UART driver
(`stream_sync`); the driver moves finished packets to the completed list, from which a later
`serial_write` reclaims them.  `malloc` serves both the device structure and the buffers of
`serial_write`.  In the kernel, the pools take whole blocks from the heap and share it with page
tables, UTCBs and segment lists; all of them are filled by the replay of the init script, which
elfweaver composes from the description of the system and whose threads end up in the ready queue.
In the weaver, the image objects declare their fixed addresses to the pools
(`mark_*`) and then allocate the rest (`alloc_*`); each pool is an allocator, and a tracker that
all virtual pools share looks for overlaps.  A zone is a pool without memory of its own; it takes
windows of a megabyte from another pool.

What makes each part correct is stated with its run in section 4; what can go wrong and is hard to
test is listed, line by line, under `hazards` in `PROJECT.json`.

## 2. Modules

Every state variable carries the name of the field it stands for, every action the name of the
function.  Variables marked *history* in the declarations do not exist in the code: they remember
what a property speaks about and no guard of a system action reads them, except where a bound
is named.

**Kernel heap.** `HeapSpec` is what callers may rely on: a set of available chunks, from which
`Alloc` takes the lowest aligned run that leaves some chunk above it.  `KMem` is `kmem_t`: the list
as a sequence of chunk numbers, `Alloc` its first fit, `Free` the splice by address.  Two facts of
the code show in both: the run loop must stop on a list node, so the topmost chunk is never handed
out; and the alignment test is an AND with size - 1, which for sizes that are no power of two
is not divisibility (`Aligned`).  `kmem_resource_t::init` puts the heap one chunk behind the
structure itself, hence chunk numbers from 1.

**Small-object pools.** `SmallAlloc` instantiates `HeapSpec` as its heap, not `KMem`: that `KMem`
implements it is proved.  Sizes are counted in words.  Where the code follows `block->next`, which
nobody ever sets, or uses a NULL block, the model sets `undefined` and stops.

**Boot.** Five modules, each on top of the one before it:

* `PageTable` has the tables of an ARMv5 space as functions from indices to entries, over
  `HeapSpec`.  One action is one turn of the loop of `map_region` (`MapFpage`, `FpageDone`) or of
  `map_fpage` (`Descend`, `Recurse`, `SetEntry`); `walk` holds the locals of the latter.  The
  variable that `map_fpage` never sets is a choice among all page sizes.  `Leaf` is the processor's
  own walk, which says what a table means.
* `AddressMap` says what a mapping may do, without tables.
* `InitScript` is the kernel: `run_init_script` with an action per operation, or per allocation of
  one, the kernel's set-up between the two phases, and `schedule`.  It instantiates `SmallAlloc`
  for its three pools.  The script is in `mem`, by offset, since a created thread's address replaces
  its operation there.  A pointer that is used unset, or NULL, sets `undefined`, and the boot stops.
* `InitScriptWriter` is elfweaver: `CreateSegment` composes a script to size its section, `Layout`
  gives addresses to sections that have none, `Generate` composes it again.  Offsets are words.
* `Boot` joins the two by `Load` and has the properties, which compare what the kernel made with
  what was described.

**Packets.** `PacketLists` has queues; `StreamLists` has the pointers and is shown to implement it.
`Uart` extends `PacketLists` with the driver, one step per turn of a driver loop, and with the
device: `Arrive`, `ReceiveTimeout` and the raw interrupt bits.  `Serial` extends `Uart` with the
calls of `serial.c`; there, no interrupt is delivered since `resource_init` asks for none.
A byte that nobody has written holds the character `Junk`.

**Stdio** is a stack of `serial_init` calls in progress, because the driver's complaint about a
missing resource is itself printed through `stdout`.

**C heap.** `KRMalloc` counts memory in header units.  The ring is kept as the `ptr` and `size`
fields of the units that are headers; both loops are the first of the link counts that satisfies
their exit condition.  The headers of a block that was joined to another are zeroed in the model,
so that nothing can depend on them; the code leaves the old values there.

**Timer.** `Sp804Timer` lets the counter fall between any two register accesses of the driver.  The
handler is three steps: read and decide, load, acknowledge.  Registers keep their widths by
reduction modulo `Full` (the values of the counter), the count modulo `Epoch`.

**Weaver allocator.** `Regions` has the operators on sorted region lists (a sorted list is a set of
regions), `Allocator` the algorithm: `Alloc` starts a group, `PlaceItem` and `FixedItem` are the
turns of `__group_alloc`, `Pop` is the retry without the first region, `Finish` joins the three
lists and drops partial pages, `Grow` is `Zone.alloc`.  `job` holds the locals of `alloc`.

**Weaver pools.** `Pools` has a free and full list per pool, both built with `Regions`, the tracker
and its flag `marking_direct`, and for a zone its fixed segments and its windows.  `Prime` takes the
windows of a zone's segments from its pool: `Filled` is the walk of `mark_window`, `ZoneAlloc` the
window fetched when an allocation has failed.  `phase` is the order in which `merge.py` calls.  Any
exception ends the merge.  Physical pools run through the same code without zones and without a
direct pool.

Modules that begin with `MC` define the inputs of the runs; a cfg takes them over with `<-`.
Definitions under the comment *seeded fault* are not part of a model: each is a plausible error in
the definition that follows, and the property it is listed with in `PROJECT.json` is violated when
it is put in that definition's place.

## 3. Abstract specifications

| Abstract | Detailed | How |
|---|---|---|
| `HeapSpec!Spec` | `KMem!Spec` | `avail <- FreeSet`; checked (`ImplementsHeap`) and proved (`HeapImplementation`) |
| `PacketLists!ListsSpec` | `StreamLists!Spec` | each queue is the list from its first pointer; checked (`ImplementsQueues`) and proved (`StreamListsImplementQueues`) |
| `AddressMap!Spec` | `Boot!BootSpec` | `mapped` is what the processor's walk finds in the tables; checked (`ImplementsAddressMap`) and proved of scripts that can be replayed (`BootImplementsAddressMap`) |

## 4. Runs

Runs that pass.  Every module defines a type invariant (`TypeOK`, with the
module's name in `KRMalloc`, `Uart`, `Serial`, `Stdio` and `Sp804Timer`), which documents its variables and holds on every instance below; the runs list
it for the kernel heap only, whose proofs rest on it, and spend the others on what is at stake.

| Run | Instance | States | What it shows |
|---|---|---|---|
| `kmem` | 8 chunks, requests of 0 to 4 chunks | 330 | list sorted, nothing lost or given twice, counter exact, implements the lowest-fit heap |
| `stream_lists` | 4 packets, 2 streams | 8 865 | the pointers, with their one link field and different tests for emptiness, implement queues |
| `uart` | 2 packets of up to 2 characters, FIFO of 2, 3 arrivals, 2 sent | 196 935 | no character outside a packet's buffer; a stream that is idle has empty packets and a transmitter that is off; wire in order; FIFO served |
| `serial` | 3 packets, writes of one character, 3 reads, 2 arrivals | 283 678 | every packet accounted for, writes starve only because of reads, the wire gets exactly the text, writes return |
| `stdio` | heap for 0 to 6 devices, a message of 4 characters | 274 | handlers match the result however deep the set-up nested; a transfer returns |
| `sp804` | counter of 8 values (`Full`), count of 16 (`Epoch`), timeouts 0, 1, 2 and 5 ahead | 271 069 | honest count over wrap-around, timeouts neither early nor late beyond latency and reload loss, and they expire |
| `allocator` | pages of 4 bytes, four regions, five marks, six groups, a window, see `MCAllocator` | 92 589 | free, marked and placed memory apart, nothing lost, groups together, lowest fit, `alloc` returns; all this also when a zone fails, fetches a window and tries again |
| `pools` | 2 pools, `direct` and 2 zones with up to 2 fixed segments, windows of two pages, see `MCPools` | 413 384 | no byte free in two pools, no byte given to two segments, tracker complete, no stranger in a zone's window |
| `kr_malloc` | 24 units, requests of 1 to 3 data units, 3 blocks in use | 92 020 | blocks free and in use tile what was taken, headers intact, NULL only when nothing fits |
| `boot` | 20 descriptions with heaps of 2 to 28 chunks, see `MCBoot` | 8 028 | the script is replayed in step, page tables implement the map, a mapping loses at most its tail, UTCBs apart, ready queue a ring, heap blocks apart, the boot ends |

Why the bounds are enough.  The heap needs a run between two blocks in use and one at either end:
eight chunks give several of each, with runs of every size up to four.  Four packets make
lists of zero, one, two and more elements on two streams at once.  In `uart`, three arrivals
overflow a FIFO of two and cross a packet boundary.  The timer's counter of 8 values has a `TIME_MAX` of
3, so a delay of 5 needs a reload and the count of 16 wraps.  In `allocator`, items are
smaller than, equal to and larger than a page, on regions that are adjacent or apart; the window
touches the last page, so that adding it merges.  Rings of
`kr_malloc` have up to four free blocks around three in use, and 24 units are enough for
`morecore` to be called twice and refuse the third time.  In `pools`, one segment of a zone lies in
each of two windows and one over the border between them; other segments and direct regions fall
into the same windows, and the two zones compete for them.  The two zones are interchangeable, hence
the symmetry.

`boot` shrinks the geometry: pages of 4k, 64k, 1m, a level-0 entry and the space have sizes 1, 2, 4,
8 and 16 where the processor has 1, 16, 256, 4096 and 2^20, so that each is a proper part of the
next and a mapping of ten pages uses three of them; the choice for the variable never set ranges over all five page sizes.
A page is two chunks, a UTCB page has two UTCBs and the bitmap three bits, so that a space runs out of
either.  The heaps go from too small for the first table to large enough for everything, in steps of a
page: each allocation of the boot fails in some of them.  Descriptions have one cell, since the
kernel keeps one heap per cell and the second is never used for anything the first is; two spaces,
caps in both directions, mappings that are aligned, misaligned, over a border, and absent.

Runs that end in a violation, each with a finding that quotes the line of the repository that says
otherwise:

| Run | What the code does |
|---|---|
| `serial_read_hang` | `serial_read` never returns when its packet is complete before the polling loop starts |
| `script_size` | the script that is written is longer than the section sized for it, when the layout gives addresses to enough sections; an assertion ends the merge |

Further configurations, not in `PROJECT.json`, show other places where the code does less than its
comments say.  Each ends in a violation of the one property it names; run it with
`tlc -config <cfg> <module>`:

| Configuration, module | Property | What the code does |
|---|---|---|
| `SerialReadData.cfg`, `Serial` | `ReadGotPacket` | `serial_read` returns before anything is read: its loop (serial.c:125) ends when its own packet is queued; "poll device until we read a packet" (124) |
| `UartZero.cfg`, `Uart` | `InBuffer` | a packet of length 0 is never full, as its count is compared with its length after the first character (uart.c:240, 272) |
| `SerialWriteLong.cfg`, `Serial` | `WriteIsExact` | a text of two or more characters that ends in a newline is sent as garbage, as only the last two bytes of the copy are written (serial.c:71) |
| `Sp804LostAck.cfg`, `Sp804Timer` | `CountHonest` | acknowledging after the reload (sp804_timer.c:187) clears the new interrupt, if the reload was shorter than the gap between the two |
| `HeapSize.cfg`, `MCInitScriptWriter` | `HeapWhole` | a heap of exactly the limit of its field reaches the kernel as one of size 0 (kernel_micro_elf.py:213); "Size is not modified" (211) |
| `SmallAllocUnlimited.cfg`, `MCSmallAlloc` | `Unlimited` | a pool never gets a second block (smallalloc.cc:27); "max = 0 means unlimited" (smallalloc.h:14) |
| `AllocatorMarkTail.cfg`, `MCAllocator` | `TakenNotFree` | `mark` forgets the last page of a region whose last byte is the first of that page (allocator.py:397) |
| `AllocatorNested.cfg`, `MCAllocator` | `FreeApart` | `add_memory` accepts a region that encloses an older one (allocator.py:359) |
| `AllocatorFixedTop.cfg`, `MCAllocator` | `HeapNearKernel` | a heap far below a kernel that is fixed above all free memory satisfies any distance (allocator.py:695) |
| `AllocatorRights.cfg`, `MCAllocator` | `RightsKept` | merging regions forgets the cache rights of the upper one (allocator.py:314) |
| `PoolsDirect.cfg`, `MCPools` | `SegmentsApart` | a direct region outside every pool hides the next segment from the tracker, and a later one may overlap it (pools.py:415) |
| `PoolsNested.cfg`, `MCPools` | `SegmentsApart` | the tracker accepts a range that encloses a tracked one (pools.py:319) |
| `PoolsAgain.cfg`, `MCPools` | `SegmentsApart` | after a segment that is part of a page, one that is all of that page passes for the same segment (pools.py:317): what is tracked is the page |
| `PoolsSpan.cfg`, `MCPools` | `PoolsApart` | a direct region that spans two pools is removed from one (pools.py:418) |

The passing runs leave those cases out, and say so: `uart` has packets of at least one character
(`MinLength`, which the theorems about the driver assume as well), `serial` writes one character at a time,
`sp804` has no tick between load and acknowledgement (`AckDelay = 0`), the regions of
`allocator` do not enclose one another, its marks of two or more bytes do not end on the first byte
of a page, no region lies directly above one that allows more cache policies, groups of several
items with a distance do not go to a zone (`InZone`: they are the kernel with its heap and with its
init script), `pools` has direct regions inside one region of one pool (`Within`), no region lies
around another, no segment encloses another or is the whole page that another one is a part of, and the fixed segments of zones are of whole pages or end inside one.  `boot`
has heaps below the limit of their field.  `SmallAlloc.cfg` (module `MCSmallAlloc`), which passes,
checks the object pools alone under any order of calls.  `kr_malloc` has a segment with six odd bytes, the most for which the extra byte
of `__malloc_top` is harmless.

`CHECK_DEADLOCK FALSE` stands where the system may stop: bounded counters used up (`uart`,
`serial`), an exception that ends the merge (`allocator`, `pools`, `script_size`), a system that
has booted or a pointer used unset (`boot`).

## 5. Fairness

* `uart`: weak fairness of the driver loops (the thread in them goes on), of interrupt delivery
  and of the device's receive timeout.  Arrivals and client calls are not fair.
* `serial`: weak fairness of the steps of a call in progress and of the driver loops inside it; no
  call need ever be made.
* `stdio`, `allocator`: weak fairness of straight-line code that has begun.
* `boot`: weak fairness of the kernel's own steps.  It boots with interrupts off and waits for
  nothing.
* `sp804`: strong fairness of `Tick`, since the counter never stops and what holds it back is
  only a bound of the model (`Latency`, `MaxGap`); strong fairness of `TimerInterrupt`, which is enabled
  only between client calls, and the thread that makes those takes an interrupt that is pending
  sooner or later.
* The heaps, pools and packet lists have no liveness to speak of: each operation is one step.

## 6. Proofs

Each theorem holds for every value of the constants that the module's assumption admits, and under
the hypotheses named here where there are any.  The listed properties are those that the runs check on
small instances; the inductive invariants were model-checked as well before they were proved.

**Kernel heap.** `HeapProofs` proves, for every number of chunks, chunk size and request bound
(assumed to be natural numbers, the first two positive), that the five invariants of the run and
`TopReserved` (the topmost chunk is never handed out) hold in every behaviour of `KMem!Spec` and
that it implements `HeapSpec!Spec`.

The inductive invariant `IInv` is the conjunction of all six, because none is inductive alone.
`Sorted` after `free` needs `Disjoint`: the chunks of the freed block differ from their neighbours
on the list.  `Disjoint` after `alloc` needs `Sorted`: the run taken off the list occurs in it once.
`NoneLost` needs the exact set of chunks that unlinking and linking change (`UnlinkRun`,
`LinkRun`), which are lemmas about sequences on which both action lemmas (`AllocInv`, `FreeInv`) rest.
The refinement needs `Sorted` too: positions that fit along the list are the places of `HeapSpec`
(`FitsArePlaces`, with `RunIsRun` for the run loop), and the first of them is the lowest since list
order is address order.  `ListLemmas` has the least element of a set of naturals and what
appending, taking the head and turning over do to a list without repetition.

**C heap.** `HeapProofs` also proves `Tiled` and `HonestNull` of `KRMalloc`, for every size of the segment,
all requests and any number of blocks, under `Odd < 7`: `TopByte` is two bytes behind the last one of the
segment, so a segment with seven bytes left over would be given a unit it does not have.  A heap
segment is whole pages, and `Odd` is 0 there.  In the invariant, `MallocInv`, `Good` says three
things of the ring and the blocks in use: each free block links to the next one in ascending order and
the last one to base (`Ringed`); both kinds of blocks lie side by side and fill what `morecore` has given
out (`Tiles`); and only headers hold a size (`Clean`).  `Parted` adds that no free blocks touch.
That a walk along the links comes back, having passed every block, follows from the order alone
(`Returns`, `Covered`: a set of blocks that the links do not leave is the whole ring, `Closed`), and so do
the places at which the loops of `malloc` and `free` end (`HitsNone`, `CutIs`, `BehindIs`); the
recursive function behind `Node` enters by its equation only (`NodeStep`).  `free` is taken in three
steps, each of which leaves a ring and a tiling: `bp` is put in, joined to the block above, joined to the
one below (`Inserted`, `JoinLinks`, `FreeLinks`).  `Parted` needs both joins, and gives two things
back: `FewFree`, that there are at most two more free blocks than blocks in use, base included, which
is why `Longest` is no bound on the model; and `HonestNull`, since the free block over the first unit of
a free run that was long enough would end within it and touch the next one (`NextStarts`).

**Standard files.** `DriverProofs`, which has the proofs about the UART driver, the serial library and
the timer as well, proves `HandlersFollowResult` for every heap and every length of
the message (natural numbers).  The run bounds both, and with them how deep the set-up nests; the
proof does not.  `StdioInv` says why depth does no harm: only a set-up that has failed prints, so calls
nest only where there is no segment, and there the result is never "ok"; and a call that is about
to return has a result.  Hence the handlers that an inner call installed are those that the
outer ones install again.

**Ready queue.** `BootProofs` proves `ReadyRing` for every description, heap, geometry of page tables
and number of UTCBs; the proof uses no assumption about the constants.  The invariant has the shape of
the ring and, since `ReadyRing` speaks of the queue only between operations, how many threads are ahead
of it: one from `CreateThread` to `Enqueue`, none otherwise, and none as well when the thread's object
could not be had, where the boot stops.  `EnqueuedRing` is the lemma about `ENQUEUE_LIST_TAIL`, with
one member and with more.

**Boot.** `BootProofs` also proves `UtcbsApart`, `MemoryApart`, `MappedWhole` and the refinement
`ImplementsAddressMap`, for every description, heap and geometry.  Of the constants,
`PageTableAssumption` says that each page size is a multiple of the one below, and `BootAssumption`
that an object of each pool fits into its block, that the bitmap of a space is no longer than its table
for UTCBs, and that a table of that kind fits wherever a page of UTCBs does (in the kernel 1k against
4k).  The hypothesis `[]Replayable` is about the script: the heap is created first and lies in memory,
what belongs to a space comes after it, a mapping is of a segment that was given, lies in
the space and is of pages that no mapping of the space asked for before.  The order is that in
which `InitScriptWriter` composes, and mappings are disjoint because elfweaver allocates or checks
them in the pool of their space.  Deriving it would take an induction over the folds that compose the
script, so it stays with TLC: `ScriptInStep`, which the run `boot` checks, has it as a conjunct.

The inductive invariant of the first two, `BInv`, has three parts.

* `Memory`: every block of the heap is apart from the others (`HeapInv`); tables have the shape of their
  level (`ShapeInv`) and each but the roots hangs in exactly one place, an entry above it or
  a space's entry for UTCBs (`TreeInv`); each block has one owner (`OwnersInv`, where an owner is a kind
  and a name: a table, a page in a certain UTCB entry, a segment list, a pool, a kernel table, the page
  just allocated); a pool's bitmap is the complement of its objects (`PoolInv`).
* `Utcbs`: threads of a space have different bits, each with its page (`ThreadInv`, `PageInv`); the
  section of the directory is the current space's or claimed by it (`SectionInv`); a bit
  without a thread was lost for want of a page (`LostInv`).
* `Walks`: what `r_tpg` and `r_tnum` remember is what the levels above still owe (`WalkInv`).  A walk
  over 64k entries is the difficult case: each of them is a table already, so the walk goes down to single
  pages, and each time it climbs it must find the entry after the one it left, and just as many as are
  missing.  Without this,
  an entry of another region could be overwritten, and with it the tree and the owners.

`MapInv` adds what is mapped: the translations the processor finds are those asked for, less those
given up, less what is `Left` of the region in progress.  A turn of the walk that writes an entry takes
the pages of that entry from `Left` and no page else finds something new: `OnlyItsPages` (only its pages
are reached through it, since tables form a tree) and `ItsPages` (they find the frames they were to
get).  A new table changes nothing (`HungMap`), the table for UTCBs is on no page's way (`MapUtcbMap`).
`MappedWhole` is `MapInv` where nothing is left, and each step is `Ask`, `Enter` or a stutter of
`AddressMap` (`MapStep`).  The variable `map_fpage` never sets is any of the page sizes in the proofs as
well.

**Timer.** `DriverProofs` proves `TimerTypeOK`, `CountHonest`, `Punctual` and `NeverEarly` for every `Full`
and `Epoch`, so for the 32 and 64 bits of the device too, under `Timing`: an interrupt is taken
before the counter comes round (`TIME_MAX + Latency < Full`), the reload comes within a round of the
reading, both together within half the range of the count, and `AckDelay = 0`.  These are conditions
on the hardware, of which sp804_timer.c:84-94 states the first; the run's instance satisfies them,
and `Sp804LostAck.cfg` shows that `CountHonest` fails without the last.  `CountedTicks` bounds the ticks
since the last reading by what each step of the handler may wait, so that the difference modulo
`Full` is exact; `Due` relates the driver's idea of the remaining time to the true one: never less,
and not more than the ticks lost in reloads.  `Punctual` and `NeverEarly` speak of the true deadline
and follow from the two together.

**Packet lists.** `StreamProofs` proves `ImplementsQueues` for any number of packets and streams.
The queue behind a pointer is defined without recursion: `Linked` says that a sequence is spelt
out by the links from a pointer, and `ListFrom` chooses such a sequence.  Two lists that one
pointer starts agree packet by packet (`SamePrefix`, from the least place at which they differ), so
there is at most one (`OneList`), and a list without repetition is short enough to be found
(`NoLonger`).  `StreamInv` says that each pointer starts a list without repetition, that no two
lists share a packet and that the two ends of a list agree.  Each operation changes the links of
two packets at most, or of one list: the lists it does not touch stay (`Untouched`), and the ones it
does are an append, a tail or a reversal (`LinkedAppend`, `LinkedTail`, `LinkedBack`).  Without
`Apart` the first is false, without `EndsMeet` an append to what looks like an empty list loses one.

**UART driver.** `DriverProofs` proves `InBuffer`, `IdleIsClean`, `WireInOrder` and that each packet is
in one place, for any packets of at least one character (`MinLength >= 1`), FIFO, buffers and traffic.  `WireInOrder` alone says nothing of
a packet half sent: `Sent` says that what was handed over is on the wire or is the rest of the packet
at the head, and this needs `LoopAtHead`, that the loop works on the head and that the queue has no
second packet, and `Progress`, how far each packet has got.  `Homes` (a packet is on one
queue, once) is what makes an update of one packet leave the other queues alone.  Every step is
shown to keep the invariant by itself, whoever calls it.

**Serial library.** The same module puts `serial_write` and `serial_read` in the place of the driver's
client and keeps `UartInv` by those lemmas.  `Counted` counts the packets on all the queues and in
hands by `Cardinality` and lengths; a packet that no call and no queue has is one that a failed
`malloc` lost, which gives `PacketsAccounted` and `StarvedByReadsOnly`.  `WireGetsBuffer` holds for
writes of any length; `WriteIsExact` is proved for writes of one character (`Counts \subseteq {1}`),
the only ones `stdio` makes, and `SerialWriteLong.cfg` shows that it fails for longer ones.

**Allocator.** `AllocatorProofs` proves `FreeApart`, `TakenApart`, `NothingLost`, `Together` and
`LowestFit` for every page size above one byte, every set of regions, marks, groups and windows, with
three hypotheses about the callers:

* `NoneAround`: no region that is added lies around another.  `add_memory` looks up the ends of
  the new region only; `AllocatorNested.cfg` shows `FreeApart` broken without it.
* `MarksWhole`: no mark of two or more bytes ends on the first byte of a page, for `TakenApart` only;
  `AllocatorMarkTail.cfg` shows why.
* `WindowsUnmarked`: what a zone gets from its pool touches no mark, for `TakenApart` only.  A zone's
  windows are allocated by its pool, whose own marks are off its free list, and the segments of the
  zone are taken out of them by `mark_window` (`Pools`).

The properties that speak of regions are not inductive, as merging, cutting and rounding replace
every region; the invariant `AInv` therefore speaks of bytes (`Has`) and of the pages they lie on
(`Touch`, `Covers`).  `ListsSound` says that regions on a list neither overlap nor are adjacent, that
they are whole pages and that what is free was added; `PiecesSound` that the pieces
`__group_alloc` has cut them into come from what is free; `SpansTaken` and `PagesLeft` that a byte
of the free list is in a piece unless an item of the group in progress is on its page, and that no
piece has a byte of an item.  Only then can rounding at `Finish` be shown to lose no page and to free
none: a page is left whole in one piece, or an item touches it.  `TakenKept` and `FreeKept` are
the result for what is placed and marked.  `JobRises` is the reason for `Together`, since the search
goes on above the item just placed; `FirstFit` that of `LowestFit`: every candidate lies in one
region, as regions are separate (`OneRegion`), and `Start` is the least candidate in its region
(`StartInRegion`).

**Region lists.** What both the allocator and the pools rest on is in `RegionLemmas`: which bytes are on
a list after merging, cutting and rounding (`MergedList`, `PartsSound`, `UnmarkedList`,
`WholePagesList`), which windows the walk of `mark_window` accepts and what it leaves (`FilledWindow`),
and that taking any finite number of windows off a list takes their bytes and no other
(`WindowsFold`, about a fold over a set, by the least number of windows for which it would fail).

**Weaver pools.** `PoolsProofs` proves `PoolsApart`, `SegmentsApart`, `TrackerKnows` and `WindowsKept`
for every page size, every finite set of pools and zones, all regions, segments and windows, under
`Orderly`, what the specification file owes:

* `Within`: a direct region lies inside one region of one pool.  `PoolsSpan.cfg` and `PoolsDirect.cfg`
  show `PoolsApart` and `SegmentsApart` broken without it.
* `NoneAround`: no region of memory lies around another one; the tests for overlaps look at the ends of
  the newer range only.  `AllocatorNested.cfg` has the case.
* `MarksWhole`, as for the allocator: the page that `mark` forgets would be free and in a segment.
* `SegmentsNested`: the pages of a segment do not lie around those of another (`PoolsNested.cfg`),
  and no segment is all of the pages that another one lies in (`PoolsAgain.cfg`).

The run `pools` is an instance that satisfies all four.  The inductive invariant `PInv` speaks of
bytes: `ListsOk` (lists are whole separate pages, free is given), `FreeApart` (a byte is free in
one pool at most), `SegsOk` (a segment touches no free byte, two segments no common byte of a pool, and
the tracker knows what touches a pool), `WindowsOk` (a window's bytes are free in its zone or on a page
of one of the zone's segments, and all memory of a zone is in windows).  None of this
would survive a step without knowing what the phases before have done: a mark outside every pool may
trust the tracker only because all that was ever given is free or tracked (`MarksStage`); a
direct region is compared with nothing, and is apart from the segments only because there are none
yet (`DirectStage`); the pools are kept apart by a set of extents that is compared when a region
comes and never again (`PoolsStage`); and a zone owns nothing before it is primed (`ZonesStage`).
Allocation rests on less than the code suggests: an item comes from free bytes, which are in one
pool and under no segment, and the proof makes no use of the tracker's test of it.
A window is not tracked at all, and `WindowsKept` holds because the walk accepts only a window whose
bytes outside the zone's own segments are free.

**Model-checked only.** Out of reach for the provers are the liveness properties (`WriteReturns`,
`ReadReturns`, `TransferReturns`, `Expires`, `FifoServed`, `AllocReturns`, `BootEnds`) and
`ScriptInStep` of `Boot`, whose offsets are folds over the script and need induction over data.

## 7. Not modelled

* On the kernel side of the boot: the heap of a second cell (elfweaver's side has any number of
  cells), mappings of frames for which `is_mappable` is false, access rights and cache attributes,
  the faults of user mode (`arm_memory_abort` in exception.cc), as the model ends where a thread is
  switched to; of its faults in the kernel it has the one on a section of UTCBs.  Mappings of one
  space do not overlap, as elfweaver checks them (`Pools`), so the branches of `map_fpage` for a page in the way
  of a table are not reached; `add_mapping` without a table for UTCBs is reached, with one for a
  different section is not.  The operations that `run_init_script` has no case for are skipped, as
  there.
* After the boot: nothing in this tree blocks, dequeues or switches threads again.
* `next_avail` of the allocator, which only reports.
* What the data is: text formatting, ELF contents, register layouts, XML.  Cache attributes
  appear only as the rights that the allocator compares.
* The objects of `image.py`: which pool and group a section belongs to.  The order of the phases is
  in `Pools` and `InitScriptWriter`, and which address a section gets is a choice there.
* `image.py:517` calls `mark_virtual` without its cache policy, which is a `TypeError` for direct
  memory sections: nothing to explore.
* `set_ticks` of the timer while a timeout is armed: no text says what the timeout then means, so the
  model lets its deadline lapse.
* Third-party and generated code, build scripts, report generators.  They are most of the lines of
  the tree (SCons, pexpect, antlr, the parsers, iguana's boot information), and none of them is part
  of what the image runs.

## 8. Plan

1. *Done*: kernel heap with proofs, pools of objects, streams, UART, serial, stdio, C heap, timer,
   allocator, pools with zones, and the boot from description to the first thread.
2. *Done*: proofs about both heaps, standard files, ready queue, timer, packet lists, UART, serial
   library, allocator, pools and boot: every safety property of the passing runs but `ScriptInStep`.
3. `Layout`: the groups of `image.py` over `Pools` and `Allocator`, as a choice of addresses for
   `InitScriptWriter`.
4. A second cell on the kernel's side, with its own heap.
