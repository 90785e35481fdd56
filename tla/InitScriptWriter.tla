-------------------------- MODULE InitScriptWriter --------------------------
(***************************************************************************)
(* How elfweaver writes the kernel's init script (weaver/kernel.py,         *)
(* kernel_micro.py, kernel_micro_elf.py; order of the calls: merge.py).     *)
(* The script is composed twice: before the image is laid out, to size the  *)
(* memory section that will hold it, and after, to fill that section.       *)
(* Addresses are in pages, heap sizes in chunks, the script in words.       *)
(*                                                                          *)
(* A description is a sequence of cells, a cell a heap size and a sequence  *)
(* of spaces, a space [threads, plat, irqs, mutexes, caps, maps]: caps are  *)
(* the (space, thread) its ipc caps name within the cell, maps are records  *)
(* [phys, virt, pages, mapped], phys = Unplaced when layout decides it.     *)
(***************************************************************************)
EXTENDS Integers, Sequences, SequencesExt

CONSTANTS
  Descriptions,  \* bound: the systems woven
  Layouts,       \* bound: where layout may put the first unplaced section
  PageWords,     \* words in a page
  PageChunks,    \* the unit of heap sizes, kernel heap chunks, in a page
  SizeLimit      \* 2^SHIFT_4K: pages beyond what the size field of a heap holds

VARIABLES
  description, stage,
  init_ms,       \* words of the memory section made for the script
  script         \* its operations

wvars == <<description, stage, init_ms, script>>

Unplaced == -1
-----------------------------------------------------------------------------
(* kernel_micro_elf.py: words of an encoded operation with its header, whose *)
(* size field holds the same number.                                        *)
Words == [HEAP |-> 2, INIT_IDS |-> 3, HANDLES |-> 2, CLIST |-> 2, SPACE |-> 7,
          PLAT |-> 1, IRQ |-> 2, THREAD |-> 6, MUTEX |-> 2, SEGMENT |-> 4,
          MAP |-> 4, IPC_CAP |-> 3]
HeaderWords == 2

Op(name, args) == [op |-> name, size |-> Words[name], args |-> args, eop |-> FALSE]

Length(ops) == FoldLeft(LAMBDA n, o : n + o.size, HeaderWords, ops)
OffsetOf(ops, i) == Length(SubSeq(ops, 1, i - 1))
SetEop(ops) == [ops EXCEPT ![Len(ops)].eop = TRUE]

Collect(s, F(_)) == FlattenSeq([i \in DOMAIN s |-> F(i)])
Times(n, o) == [i \in 1 .. n |-> o]
Before(n, s, F(_)) == FoldLeft(LAMBDA a, i : a + F(s[i]), 0, [i \in 1 .. n - 1 |-> i])

\* layout_cells_pre: one id per space, one slot per thread of the cell, the
\* ipc caps of a space behind its threads.
SpaceId(d, c, i) ==
  Before(c, d, LAMBDA x : Len(x.spaces)) + i - 1
Slots(s) == s.threads + Len(s.caps)
ThreadSlot(cell, i, t) == Before(i, cell.spaces, Slots) + t - 1
CapSlot(cell, i, k) == Before(i, cell.spaces, Slots) + cell.spaces[i].threads + k - 1

\* layout_cells_post, and the encoding of a heap: the base loses what is
\* below a page, the size is rounded up to one and cut to its field.
HeapBase(d, c) == Before(c, d, LAMBDA x : x.heap)
HeapPages(d, c) == (d[c].heap + PageChunks - 1) \div PageChunks
HeapOp(d, c) == Op("HEAP", <<HeapBase(d, c) \div PageChunks,
                             HeapPages(d, c) % SizeLimit>>)

\* encode_base_and_size raises an exception for a size above the limit.
Encodable(d) == \A c \in DOMAIN d : HeapPages(d, c) <= SizeLimit

\* The operations of a mapping: a segment if it has a physical address, and
\* the mapping of that segment if it needs one.
MapOps(maps) ==
  Collect(maps, LAMBDA k :
    (IF maps[k].phys = Unplaced THEN <<>>
     ELSE <<Op("SEGMENT", <<k - 1, maps[k].phys>>)>>)
    \o (IF maps[k].mapped
        THEN <<Op("MAP", <<k - 1, maps[k].virt, maps[k].pages>>)>> ELSE <<>>))

SpaceOps(d, c, i) ==
  LET s == d[c].spaces[i] IN
  <<Op("SPACE", <<SpaceId(d, c, i), Len(s.maps)>>)>>
  \o (IF s.plat THEN <<Op("PLAT", <<>>)>> ELSE <<>>)
  \o Times(s.irqs, Op("IRQ", <<>>))
  \o [t \in 1 .. s.threads |->
        Op("THREAD", <<ThreadSlot(d[c], i, t), <<c, i, t>>>>)]
  \o Times(s.mutexes, Op("MUTEX", <<>>))
  \o MapOps(s.maps)

CellOps(d, c) ==
  (IF c = 1 THEN <<>> ELSE <<HeapOp(d, c)>>)
  \o <<Op("CLIST", <<c - 1>>)>>
  \o Collect(d[c].spaces, LAMBDA i : SpaceOps(d, c, i))

FirstPhase(d) ==
  SetEop(<<HeapOp(d, 1), Op("INIT_IDS", <<>>), Op("HANDLES", <<>>)>>)

\* The caps come last: each names its clist and its thread by the offset
\* where the operation that creates it was added.
AddedAt(ops, Is(_)) == OffsetOf(ops, CHOOSE k \in DOMAIN ops : Is(ops[k]))
CapOps(d, ops) ==
  Collect(d, LAMBDA c : Collect(d[c].spaces, LAMBDA i :
    LET caps == d[c].spaces[i].caps IN
    [k \in DOMAIN caps |->
       Op("IPC_CAP", <<AddedAt(ops, LAMBDA o : o.op = "CLIST" /\ o.args = <<c - 1>>),
                       CapSlot(d[c], i, k),
                       AddedAt(ops, LAMBDA o : o.op = "THREAD"
                                               /\ o.args[2] = <<c>> \o caps[k])>>)]))

\* create_ops.
CreateOps(d) ==
  LET ops == FirstPhase(d) \o Collect(d, LAMBDA c : CellOps(d, c))
  IN SetEop(ops \o CapOps(d, ops))

Pages(words) == (words + PageWords - 1) \div PageWords
-----------------------------------------------------------------------------
Init ==
  /\ description \in Descriptions
  /\ stage = "parsed" /\ init_ms = 0 /\ script = <<>>

\* create_dynamic_segments.
CreateSegment ==
  /\ stage = "parsed" /\ stage' = "sized" /\ Encodable(description)
  /\ init_ms' = Pages(Length(CreateOps(description))) * PageWords
  /\ UNCHANGED <<description, script>>

\* image.layout: every section without a physical address gets one; they
\* follow each other from a place the pools choose.
Place(base) ==
  LET Unset(m) == IF m.phys = Unplaced THEN m.pages ELSE 0
      Placed(maps, from) ==
        [k \in DOMAIN maps |->
           IF maps[k].phys # Unplaced THEN maps[k]
           ELSE [maps[k] EXCEPT !.phys = from + Before(k, maps, Unset)]]
      Need(s) == FoldLeft(LAMBDA a, m : a + Unset(m), 0, s.maps)
      NeedCell(cell) == FoldLeft(LAMBDA a, s : a + Need(s), 0, cell.spaces)
  IN [c \in DOMAIN description |->
        [description[c] EXCEPT !.spaces =
           [i \in DOMAIN @ |->
              [@[i] EXCEPT !.maps =
                 Placed(@, base + Before(c, description, NeedCell)
                                + Before(i, description[c].spaces, Need))]]]]

Layout ==
  /\ stage = "sized" /\ stage' = "placed"
  /\ \E base \in Layouts : description' = Place(base)
  /\ UNCHANGED <<init_ms, script>>

\* generate_init_script; its assertion is ScriptFits.
Generate ==
  /\ stage = "placed" /\ stage' = "written"
  /\ script' = CreateOps(description)
  /\ UNCHANGED <<description, init_ms>>

Next == CreateSegment \/ Layout \/ Generate

Spec == Init /\ [][Next]_wvars /\ WF_wvars(Next)
-----------------------------------------------------------------------------
\* kernel_micro.py:251, "assert(dlen <= self.init_ms.get_attrs().size)": the
\* script fits the section that was sized for it before the layout.
ScriptFits == Length(script) <= init_ms \/ stage # "written"

\* kernel_micro_elf.py:211, "Size is not modified": the kernel is told the
\* heap that the cell was given.
HeapWhole ==
  stage = "written" =>
    \A k \in DOMAIN script : script[k].op = "HEAP" =>
      \E c \in DOMAIN description :
        script[k].args[2] = HeapPages(description, c)
=============================================================================
