-------------------------------- MODULE Boot --------------------------------
(***************************************************************************)
(* From a description to a running system: elfweaver writes the init script *)
(* (InitScriptWriter), the kernel replays it (InitScript).  The properties  *)
(* are about both: what the kernel has made is what was described.          *)
(***************************************************************************)
EXTENDS InitScript

CONSTANTS Descriptions, Layouts, PageWords, SizeLimit

VARIABLES description, stage, init_ms, script

weaving == <<description, stage, init_ms, script>>
vars    == <<bvars, weaving>>

W == INSTANCE InitScriptWriter

\* The image is loaded with the script in its section.
Load ==
  /\ pc = "off" /\ stage = "written" /\ W!ScriptFits
  /\ mem' = [at \in {W!OffsetOf(script, k) : k \in DOMAIN script} |->
               script[CHOOSE k \in DOMAIN script : W!OffsetOf(script, k) = at]]
  /\ pc' = "op" /\ cur' = W!HeaderWords
  /\ UNCHANGED <<heap, pools, paging, phase, cur_saved, system, history, weaving>>

BootInit == Init /\ W!Init
BootNext ==
  \/ W!Next /\ UNCHANGED bvars
  \/ Load
  \/ Boot /\ UNCHANGED weaving

\* Interrupts are off and nothing waits: the kernel goes on while it can.
BootSpec == BootInit /\ [][BootNext]_vars /\ WF_bvars(Boot)
-----------------------------------------------------------------------------
Offset(k) == W!OffsetOf(script, k)

\* What the replay asks of the script.  The heap is created before anything
\* is allocated or any space is made, and lies in the memory there is; what
\* belongs to a space follows the operation that makes one; a mapping is of a
\* segment that was given, lies in the address space, and is of pages no
\* mapping of the space asked for before, which the weaver's pools see to.
Replayable ==
  pc = "op" /\ ~undefined =>
    /\ Op.op = "HEAP" =>
         /\ blocks = {} /\ spaces = <<>>
         /\ Op.args[1] \in Nat /\ Op.args[2] \in Nat
         /\ (Op.args[1] + Op.args[2]) * PageChunks <= Chunks + 1
    /\ Op.op = "SPACE" => Op.args[2] \in Nat /\ ListBytes(Op.args[2]) \in Nat
    /\ Op.op \in {"THREAD", "SEGMENT", "MAP"} => spaces # <<>>
    /\ Op.op = "MAP" =>
         /\ Op.args[2] \in Nat /\ Op.args[3] \in Nat
         /\ Op.args[2] + Op.args[3] <= Size[4]
         /\ spaces[Current].segs[Op.args[1] + 1] \in Nat
         /\ \A x \in asked : x[1] = Current =>
              x[2] \notin Op.args[2] .. Op.args[2] + Op.args[3] - 1

\* The operations run in the script's order and once each, though a created
\* thread's address is stored over the header that says how long its
\* operation is and whether the phase ends (init_script.cc:249): the offsets
\* visited are those the weaver counted, the next operation is read where the
\* weaver put it and can be run, and the idle loop is reached only after the
\* last.  A cap names the offset where the kernel left the thread it was
\* described with.
ScriptInStep ==
  /\ Len(ran) <= Len(script)
  /\ \A k \in DOMAIN ran : ran[k] = Offset(k)
  /\ pc = "op" => Len(ran) < Len(script) /\ cur = Offset(Len(ran) + 1)
  /\ pc \in {"schedule", "running"} =>
       /\ Len(ran) = Len(script)
       /\ LET made == SelectSeq(script, LAMBDA o : o.op = "THREAD") IN
          \A c \in DOMAIN description : \A i \in DOMAIN description[c].spaces :
            \A k \in DOMAIN description[c].spaces[i].caps :
              \E o \in Range(script) :
                /\ o.op = "IPC_CAP" /\ o.args[2] = W!CapSlot(description[c], i, k)
                /\ \E n \in DOMAIN made :
                     /\ made[n].args[2] = <<c>> \o description[c].spaces[i].caps[k]
                     /\ mem[o.args[3]] = [op |-> "tcb", size |-> 1, eop |-> TRUE,
                                          args |-> <<n>>]
  /\ Replayable

\* Page tables and the walk through them implement the abstract map: each
\* entry written is a translation that a mapping asked for, for the space
\* that asked, and no table entry of another mapping changes on the way.
Map == INSTANCE AddressMap WITH mapped <- Translations(SpacesMade)
ImplementsAddressMap == Map!Spec

\* Between two calls of map_region, what is missing of all the mappings is
\* exactly what the walk had no memory or a too large pgsize for: the call
\* whose result is dropped (init_script.cc:198) loses a tail, never a part.
MappedWhole ==
  pc # "map" \/ (region.n = 0 /\ ~walk.on) =>
    Translations(SpacesMade) = asked \ given_up

\* Every thread that has a UTCB has one no other thread of the space has, in
\* a page mapped in its own space and in no other; a UTCB cleared in place is
\* in a page of the thread's space, though every space claims the same
\* section of the processor's directory; a bit is lost (space.cc:71) only when
\* the heap has no page: while it has one, it has a table for it as well.
UtcbFrame(th) == UtcbEntry(spaces[th.space].utcb, th.utcb)
UtcbsApart ==
  /\ \A m, n \in DOMAIN threads :
       LET x == threads[m] y == threads[n] IN
       m # n /\ x.utcb # NoUtcb /\ y.utcb # NoUtcb =>
         /\ UtcbFrame(x) # Nil
         /\ IF x.space = y.space THEN x.utcb # y.utcb ELSE UtcbFrame(x) # UtcbFrame(y)
  /\ \A z \in zeroed : \E e \in Range(tables[spaces[z.space].utcb.to]) : e = z.at
  /\ \A s \in SpacesMade : spaces[s].utcb = Nil \/
       \A pos \in (0 .. UtcbBitmap - 1) \ spaces[s].free :
         \/ \E n \in DOMAIN threads : threads[n].space = s /\ threads[n].utcb = pos
         \/ pc = "utcb_map" /\ s = Current /\ page.pos = pos
         \/ Heap!Place(Heap!ChunksNeeded(UtcbBytes)) = {}

\* The ready queue is one ring of all the threads created, in the order of
\* the script, in both directions.
ReadyRing ==
  LET n == Len(ready.next) IN
  /\ Len(ready.prev) = n
  /\ ready.head = IF n = 0 THEN None ELSE 1
  /\ \A t \in 1 .. n : ready.next[t] = (t % n) + 1 /\ ready.prev[(t % n) + 1] = t
  /\ pc \in {"op", "schedule", "running"} => n = Len(threads)

\* Every block of the heap has one use, and the small objects keep to theirs.
TableBlocks == {x.at : x \in {y \in DOMAIN tables : y.level < 3}}
UtcbBlocks  == {e.frame : e \in UNION {
                  {f \in Range(tables[spaces[s].utcb.to]) : f # Nil} :
                    s \in {x \in SpacesMade : spaces[x].utcb # Nil}}}
Lists       == {spaces[s].list : s \in SpacesMade} \ {None}
PoolBlocks  == {o.base : o \in objects}
Kernels     == Range(kernel) \ {None}
Places      == UNION {{<<q, i>> : i \in DOMAIN tables[q]} : q \in DOMAIN tables}
MemoryApart ==
  /\ SA!ObjectsApart
  /\ \A x, y \in blocks : x # y => Heap!Run(x.base, x.n) \cap Heap!Run(y.base, y.n) = {}
  /\ \A p \in DOMAIN tables : p.level < 3 =>
       Cardinality({x \in Places : tables[x[1]][x[2]] = [kind |-> "table", to |-> p]})
       + Cardinality({s \in SpacesMade : spaces[s].utcb = [kind |-> "table", to |-> p]}) = 1
  /\ LET uses == <<TableBlocks, UtcbBlocks, Lists, PoolBlocks, Kernels>> IN
     \A a, b \in DOMAIN uses : a # b => uses[a] \cap uses[b] = {}

\* A boot ends, with whatever thread schedule chose or at the use of a pointer
\* never set: the loops of the walk and of the script come to an end.
BootEnds == pc # "off" ~> pc = "running" \/ undefined
=============================================================================
