---------------------------- MODULE StreamLists ----------------------------
(***************************************************************************)
(* The packet lists of driver/stream.h and libs/serial/src/serial.c at the *)
(* level of their pointers.  Every packet has one "next" field, which      *)
(* links whatever list the packet is on; each stream keeps the two ends of *)
(* its active and of its completed list.  The tail of an empty list is     *)
(* recognised by "end", its head by "start": the functions must keep the   *)
(* two in step, and they do so in different places.                        *)
(***************************************************************************)
EXTENDS Naturals, Sequences, SequencesExt

CONSTANTS NumPackets, \* NUM_PACKETS of serial.h
          Streams     \* the stream interfaces of the device

ASSUME StreamAssumption == NumPackets \in Nat \ {0}

Packets == 1 .. NumPackets
NULL    == 0
Pointer == Packets \cup {NULL}

VARIABLES next,     \* next field of each packet
          freelist, \* serial_device.freelist
          si,       \* the four pointers of each stream_interface
          held      \* history: packets allocated and on no list

vars == <<next, freelist, si, held>>

EmptyStream == [start |-> NULL, end |-> NULL,
                completed_start |-> NULL, completed_end |-> NULL]

(* The array chained into the free list by serial_init; the interfaces of  *)
(* a fresh device.                                                         *)
Init ==
  /\ next = [p \in Packets |-> IF p < NumPackets THEN p + 1 ELSE NULL]
  /\ freelist = 1
  /\ si = [s \in Streams |-> EmptyStream]
  /\ held = {}

(* do_alloc_packet: the packet keeps its stale next pointer.               *)
AllocPacket ==
  /\ freelist # NULL
  /\ freelist' = next[freelist]
  /\ held' = held \cup {freelist}
  /\ UNCHANGED <<next, si>>

(* Seeded fault: the stale next pointer of the packet is not cleared.      *)
AddPacketStale(s, p) ==
  /\ p \in held
  /\ held' = held \ {p}
  /\ IF si[s].end = NULL
       THEN /\ si' = [si EXCEPT ![s].start = p, ![s].end = p]
            /\ next' = next
       ELSE /\ si' = [si EXCEPT ![s].end = p]
            /\ next' = [next EXCEPT ![si[s].end] = p]
  /\ UNCHANGED freelist

(* stream_add_stream_pkt.                                                  *)
AddPacket(s, p) ==
  /\ p \in held
  /\ held' = held \ {p}
  /\ IF si[s].end = NULL
       THEN /\ si' = [si EXCEPT ![s].start = p, ![s].end = p]
            /\ next' = [next EXCEPT ![p] = NULL]
       ELSE /\ si' = [si EXCEPT ![s].end = p]
            /\ next' = [next EXCEPT ![p] = NULL, ![si[s].end] = p]
  /\ UNCHANGED freelist

(* stream_switch_head: the head moves to the tail of the completed list.   *)
SwitchHead(s) ==
  LET old == si[s].start
      new == next[old]
  IN /\ old # NULL
     /\ si' = [si EXCEPT
          ![s].start = new,
          ![s].end = IF new = NULL THEN NULL ELSE @,
          ![s].completed_start = IF si[s].completed_end = NULL THEN old ELSE @,
          ![s].completed_end = old]
     /\ next' = [p \in Packets |->
          IF p = old THEN NULL
          ELSE IF p = si[s].completed_end THEN old ELSE next[p]]
     /\ UNCHANGED <<freelist, held>>

-----------------------------------------------------------------------------
(* q is the list that starts at p when each of its packets points at the   *)
(* one after it and the last at none.                                      *)
Linked(links, q, p) ==
  /\ p = IF q = <<>> THEN NULL ELSE q[1]
  /\ \A i \in DOMAIN q : links[q[i]] = IF i = Len(q) THEN NULL ELSE q[i + 1]

(* That list.  One that loops has no last packet: it shows as longer than  *)
(* any list of packets can be.                                             *)
ListFrom(links, p) ==
  LET lists == BoundedSeq(Packets, NumPackets)
  IN IF \E q \in lists : Linked(links, q, p)
     THEN CHOOSE q \in lists : Linked(links, q, p)
     ELSE [i \in 1 .. NumPackets + 1 |-> p]

Chain(p) == ListFrom(next, p)

(* free_packets: one turn of its loop for each completed packet, which     *)
(* puts it in front of the free list.                                      *)
FreePackets(s) ==
  LET done == Chain(si[s].completed_start)
      n    == Len(done)
  IN /\ next' = [p \in Packets |->
          IF \E i \in 1 .. n : p = done[i]
            THEN LET i == CHOOSE i \in 1 .. n : p = done[i]
                 IN IF i = 1 THEN freelist ELSE done[i - 1]
            ELSE next[p]]
     /\ freelist' = IF n = 0 THEN freelist ELSE done[n]
     /\ si' = [si EXCEPT ![s].completed_start = NULL, ![s].completed_end = NULL]
     /\ UNCHANGED held

Next ==
  \/ AllocPacket
  \/ \E s \in Streams, p \in held : AddPacket(s, p)
  \/ \E s \in Streams : SwitchHead(s) \/ FreePackets(s)

Spec == Init /\ [][Next]_vars

-----------------------------------------------------------------------------
TypeOK ==
  /\ next \in [Packets -> Pointer]
  /\ freelist \in Pointer
  /\ si \in [Streams -> [start : Pointer, end : Pointer,
                         completed_start : Pointer, completed_end : Pointer]]
  /\ held \subseteq Packets

(* The linked lists implement the queues: in particular no packet is on    *)
(* two lists although all lists share one next field, none is lost though  *)
(* add and switch_head each test another end for emptiness, and the driver *)
(* sees packets in the order the client queued them.                       *)
Queues == INSTANCE PacketLists WITH
  pool      <- Chain(freelist),
  active    <- [s \in Streams |-> Chain(si[s].start)],
  completed <- [s \in Streams |-> Chain(si[s].completed_start)]

ImplementsQueues == Queues!ListsSpec
=============================================================================
