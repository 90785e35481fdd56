---------------------------- MODULE PacketLists ----------------------------
(***************************************************************************)
(* The packets that libs/serial and a stream driver hand to each other,    *)
(* as queues: a pool of free packets used as a stack, and for each stream  *)
(* the queue of packets waiting for the driver and the queue of packets    *)
(* the driver has completed.  StreamLists shows that the linked lists of   *)
(* driver/stream.h and serial.c implement it.                              *)
(***************************************************************************)
EXTENDS Naturals, Sequences, SequencesExt

CONSTANTS NumPackets, \* NUM_PACKETS of serial.h
          Streams     \* the stream interfaces of the device

VARIABLES pool,      \* freelist of the serial_device
          active,    \* start .. end of each stream
          completed, \* completed_start .. completed_end of each stream
          held       \* packets off the pool and on no stream

listVars == <<pool, active, completed, held>>

Packets == 1 .. NumPackets

(* Seeded fault: the last packet left off the free list.                   *)
InitListsShort ==
  /\ pool = [i \in 1 .. NumPackets - 1 |-> i]
  /\ active = [s \in Streams |-> <<>>]
  /\ completed = [s \in Streams |-> <<>>]
  /\ held = {}

(* serial_init links the packet array into the free list.                  *)
InitLists ==
  /\ pool = [i \in Packets |-> i]
  /\ active = [s \in Streams |-> <<>>]
  /\ completed = [s \in Streams |-> <<>>]
  /\ held = {}

(* do_alloc_packet, when the free list is not empty.                       *)
AllocPacket(p) ==
  /\ pool # <<>>
  /\ p = Head(pool)
  /\ pool' = Tail(pool)
  /\ held' = held \cup {p}
  /\ UNCHANGED <<active, completed>>

(* stream_add_stream_pkt, without the stream_sync of an empty stream.      *)
AddPacket(s, p) ==
  /\ p \in held
  /\ active' = [active EXCEPT ![s] = Append(@, p)]
  /\ held' = held \ {p}
  /\ UNCHANGED <<pool, completed>>

(* stream_switch_head on a stream with a head.                             *)
SwitchHead(s) ==
  /\ active[s] # <<>>
  /\ active' = [active EXCEPT ![s] = Tail(@)]
  /\ completed' = [completed EXCEPT ![s] = Append(@, Head(active[s]))]
  /\ UNCHANGED <<pool, held>>

(* free_packets: the completed packets go onto the free list one by one,   *)
(* so that the last completed is the next allocated.                       *)
FreePackets(s) ==
  /\ pool' = Reverse(completed[s]) \o pool
  /\ completed' = [completed EXCEPT ![s] = <<>>]
  /\ UNCHANGED <<active, held>>

ListsNext ==
  \/ \E p \in Packets : AllocPacket(p)
  \/ \E s \in Streams, p \in Packets : AddPacket(s, p)
  \/ \E s \in Streams : SwitchHead(s) \/ FreePackets(s)

ListsSpec == InitLists /\ [][ListsNext]_listVars
=============================================================================
