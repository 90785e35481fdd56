---------------------------- MODULE DriverProofs ----------------------------
(***************************************************************************)
(* Proofs about the drivers and what stands on them, each for every value  *)
(* of the constants: the UART driver and the serial library (Serial        *)
(* extends Uart), the standard files, whose set-up is that of the serial   *)
(* device, and the timer driver.  The three share no variable.             *)
(***************************************************************************)
EXTENDS Serial, Stdio, Sp804Timer, ListLemmas

(***************************************************************************)
(* The packet queues, the UART driver and libs/serial over it: for any     *)
(* number of packets, any FIFO, any traffic and any calls.  Each step of   *)
(* the driver is shown to keep its invariant by itself: first next to      *)
(* UartSpec's client, which queues packets at any time, then under         *)
(* libs/serial, each call of which is one of the queue operations.         *)
(***************************************************************************)

\* Every packet is in one place: on one queue, once, or with a client.
OneHome ==
  /\ IsInjective(pool)
  /\ \A s \in Streams : IsInjective(active[s]) /\ IsInjective(completed[s])
  /\ ToSet(pool) \cap held = {}
  /\ \A s \in Streams : (ToSet(pool) \cup held)
                           \cap (ToSet(active[s]) \cup ToSet(completed[s])) = {}
  /\ \A s, t \in Streams : ToSet(active[s]) \cap ToSet(completed[t]) = {}
  /\ \A s, t \in Streams : s # t => /\ ToSet(active[s]) \cap ToSet(active[t]) = {}
                                    /\ ToSet(completed[s]) \cap ToSet(completed[t]) = {}

\* No packet is lost: it is with a client or on a queue.
AllHome ==
  \A p \in Packets : \/ p \in ToSet(pool) \cup held
                     \/ \E s \in Streams : p \in ToSet(active[s]) \cup ToSet(completed[s])

ListsTyped ==
  /\ pool \in Seq(Packets) /\ held \subseteq Packets
  /\ active \in [Streams -> Seq(Packets)]
  /\ completed \in [Streams -> Seq(Packets)]

\* The four queue operations keep the first three.
Homes == ListsTyped /\ OneHome /\ AllHome

BuffersTyped ==
  /\ data \in [Packets -> Seq(Char)]
  /\ length \in [Packets -> Nat] /\ xferred \in [Packets -> Nat]
  /\ rxfifo \in Seq(Char) /\ wire \in Seq(Char) /\ handed \in Seq(Char)
  /\ drv \in {"idle", "xmit", "rx"} /\ txe \in BOOLEAN

\* The loop that runs works on the head of its queue; the transmit queue,
\* which is served to its end by the call that fills it, holds one packet at
\* most and none while another loop or no loop runs.
LoopAtHead ==
  /\ drv = "idle" => cur = NULL
  /\ drv = "xmit" => active["tx"] # <<>> /\ cur = Head(active["tx"])
  /\ drv = "rx" => cur = HeadOf(active["rx"])
  /\ drv # "xmit" => active["tx"] = <<>> /\ ~txe
  /\ Len(active["tx"]) <= 1

\* How far each packet has got.  Only the head of the receive queue holds
\* characters, and only while the receive loop runs.
Progress ==
  /\ \A s \in Streams : \A p \in ToSet(active[s]) : xferred[p] < length[p]
  /\ \A s \in Streams : \A p \in ToSet(completed[s]) : xferred[p] <= length[p]
  /\ \A p \in ToSet(active["tx"]) : Len(data[p]) = length[p]
  /\ \A p \in ToSet(active["rx"]) : xferred[p] > 0 => drv = "rx" /\ p = cur
  /\ \A p \in ToSet(completed["rx"]) : xferred[p] > 0

\* What has been handed over is on the wire or still in the packet at the head.
Sent == handed = IF active["tx"] = <<>> THEN wire
                 ELSE wire \o Rest(Head(active["tx"]))

UartInv ==
  Homes /\ BuffersTyped /\ LoopAtHead /\ Progress /\ Sent
-----------------------------------------------------------------------------
(* Queues.                                                                  *)

LEMMA AllocPacketHomes ==
  ASSUME Homes, NEW p, AllocPacket(p)
  PROVE  Homes' /\ p \in Packets /\ p \notin held /\ Len(pool') = Len(pool) - 1
<1>1. /\ pool # <<>> /\ p = Head(pool) /\ pool' = Tail(pool) /\ held' = held \cup {p}
      /\ active' = active /\ completed' = completed
  BY DEF AllocPacket
<1>2. pool \in Seq(Packets) /\ IsInjective(pool)
  BY DEF Homes, ListsTyped, OneHome
<1>3. /\ pool' \in Seq(Packets) /\ IsInjective(pool') /\ Len(pool') = Len(pool) - 1
      /\ p \in ToSet(pool) /\ ToSet(pool') = ToSet(pool) \ {p}
      /\ p \in Packets
  BY <1>1, <1>2, TailIs, Elements
<1>4. ListsTyped' /\ p \notin held
  BY <1>1, <1>3 DEF Homes, ListsTyped, OneHome
<1>5. OneHome'
  <2>1. ToSet(pool)' \cap held' = {} /\ ToSet(pool)' \cup held' = ToSet(pool) \cup held
    BY <1>1, <1>3 DEF Homes, OneHome
  <2>2. \A t \in Streams : ToSet(active[t])' = ToSet(active[t])
                         /\ ToSet(completed[t])' = ToSet(completed[t])
    BY <1>1
  <2> QED BY <1>1, <1>3, <2>1, <2>2 DEF Homes, OneHome
<1>6. AllHome'
  BY <1>1, <1>3 DEF Homes, AllHome
<1> QED BY <1>3, <1>4, <1>5, <1>6 DEF Homes

LEMMA AddPacketHomes ==
  ASSUME Homes, NEW s \in Streams, NEW p, AddPacket(s, p)
  PROVE  /\ Homes' /\ p \in Packets
         /\ \A t \in Streams : p \notin ToSet(active[t]) \cup ToSet(completed[t])
         /\ active'[s] = Append(active[s], p)
         /\ \A t \in Streams : ToSet(active'[t]) =
              IF t = s THEN ToSet(active[t]) \cup {p} ELSE ToSet(active[t])
         /\ \A t \in Streams : t # s => active'[t] = active[t]
<1>1. /\ p \in held /\ held' = held \ {p} /\ pool' = pool /\ completed' = completed
      /\ active' = [active EXCEPT ![s] = Append(@, p)]
  BY DEF AddPacket
<1>2. /\ active \in [Streams -> Seq(Packets)] /\ p \in Packets /\ p \notin ToSet(pool)
      /\ \A t \in Streams : p \notin ToSet(active[t]) \cup ToSet(completed[t])
  BY <1>1 DEF Homes, ListsTyped, OneHome
<1>3. /\ active[s] \in Seq(Packets) /\ IsInjective(active[s]) /\ p \notin ToSet(active[s])
  BY <1>2 DEF Homes, OneHome
<1>4. /\ Append(active[s], p) \in Seq(Packets) /\ IsInjective(Append(active[s], p))
      /\ ToSet(Append(active[s], p)) = ToSet(active[s]) \cup {p}
  BY <1>2, <1>3, AppendIs
<1>5. active'[s] = Append(active[s], p) /\ \A t \in Streams : t # s => active'[t] = active[t]
  BY <1>1, <1>2
<1>6. \A t \in Streams :
        /\ active'[t] \in Seq(Packets) /\ IsInjective(active'[t])
        /\ ToSet(active'[t]) =
             IF t = s THEN ToSet(active[t]) \cup {p} ELSE ToSet(active[t])
  BY <1>2, <1>4, <1>5 DEF Homes, OneHome
<1>7. ListsTyped'
  BY <1>1, <1>2, <1>4 DEF Homes, ListsTyped
<1>8. OneHome'
  <2>1. /\ IsInjective(pool') /\ ToSet(pool') \cap held' = {}
        /\ \A t \in Streams : IsInjective(active'[t]) /\ IsInjective(completed'[t])
    BY <1>1, <1>2, <1>6 DEF Homes, OneHome
  <2>2. ASSUME NEW t \in Streams
        PROVE  (ToSet(pool') \cup held') \cap (ToSet(active'[t]) \cup ToSet(completed'[t])) = {}
    <3>1. (ToSet(pool) \cup held) \cap (ToSet(active[t]) \cup ToSet(completed[t])) = {}
      BY DEF Homes, OneHome
    <3> QED BY <1>1, <1>2, <1>6, <3>1
  <2>3. ASSUME NEW t \in Streams, NEW u \in Streams
        PROVE  ToSet(active'[t]) \cap ToSet(completed'[u]) = {}
    <3>1. ToSet(active[t]) \cap ToSet(completed[u]) = {}
      BY DEF Homes, OneHome
    <3> QED BY <1>1, <1>2, <1>6, <3>1
  <2>4. ASSUME NEW t \in Streams, NEW u \in Streams, t # u
        PROVE  /\ ToSet(active'[t]) \cap ToSet(active'[u]) = {}
               /\ ToSet(completed'[t]) \cap ToSet(completed'[u]) = {}
    <3>1. /\ ToSet(active[t]) \cap ToSet(active[u]) = {}
          /\ ToSet(completed[t]) \cap ToSet(completed[u]) = {}
      BY <2>4 DEF Homes, OneHome
    <3> QED BY <1>1, <1>2, <1>6, <2>4, <3>1
  <2> QED BY <2>1, <2>2, <2>3, <2>4 DEF OneHome
<1>9. AllHome'
  <2> SUFFICES ASSUME NEW q \in Packets
               PROVE  \/ q \in ToSet(pool') \cup held'
                      \/ \E t \in Streams : q \in ToSet(active'[t]) \cup ToSet(completed'[t])
    BY DEF AllHome
  <2>1. \/ q \in ToSet(pool) \cup held
        \/ \E t \in Streams : q \in ToSet(active[t]) \cup ToSet(completed[t])
    BY DEF Homes, AllHome
  <2>2. CASE q \in ToSet(pool) \cup held
    <3>1. CASE q = p
      BY <1>6, <3>1
    <3>2. CASE q # p
      BY <1>1, <2>2, <3>2
    <3> QED BY <3>1, <3>2
  <2>3. CASE \E t \in Streams : q \in ToSet(active[t]) \cup ToSet(completed[t])
    <3>1. PICK t \in Streams : q \in ToSet(active[t]) \cup ToSet(completed[t])
      BY <2>3
    <3>2. completed'[t] = completed[t]
      BY <1>1
    <3>3. CASE t = s
      <4>1. ToSet(active'[t]) = ToSet(active[t]) \cup {p}
        BY <1>6, <3>3
      <4> QED BY <3>1, <3>2, <4>1
    <3>4. CASE t # s
      <4>1. ToSet(active'[t]) = ToSet(active[t])
        BY <1>6, <3>4
      <4> QED BY <3>1, <3>2, <4>1
    <3> QED BY <3>3, <3>4
  <2> QED BY <2>1, <2>2, <2>3
<1> QED BY <1>2, <1>5, <1>6, <1>7, <1>8, <1>9 DEF Homes

LEMMA SwitchHeadHomes ==
  ASSUME Homes, NEW s \in Streams, SwitchHead(s)
  PROVE  /\ Homes' /\ Head(active[s]) \in ToSet(active[s])
         /\ active'[s] = Tail(active[s])
         /\ completed'[s] = Append(completed[s], Head(active[s]))
         /\ \A t \in Streams : t # s => active'[t] = active[t] /\ completed'[t] = completed[t]
         /\ ToSet(active'[s]) = ToSet(active[s]) \ {Head(active[s])}
         /\ ToSet(completed'[s]) = ToSet(completed[s]) \cup {Head(active[s])}
<1> DEFINE h == Head(active[s])
<1>1. /\ active[s] # <<>> /\ pool' = pool /\ held' = held
      /\ active' = [active EXCEPT ![s] = Tail(@)]
      /\ completed' = [completed EXCEPT ![s] = Append(@, h)]
  BY DEF SwitchHead
<1>2. /\ active \in [Streams -> Seq(Packets)] /\ completed \in [Streams -> Seq(Packets)]
      /\ active[s] \in Seq(Packets) /\ completed[s] \in Seq(Packets)
      /\ IsInjective(active[s]) /\ IsInjective(completed[s])
  BY DEF Homes, ListsTyped, OneHome
<1>3. h \in Packets /\ h \in ToSet(active[s])
  BY <1>1, <1>2, Elements
<1>4. /\ h \notin ToSet(pool) \cup held
      /\ \A t \in Streams : h \notin ToSet(completed[t])
      /\ \A t \in Streams : t # s => h \notin ToSet(active[t])
  BY <1>3 DEF Homes, OneHome
<1>5. /\ Tail(active[s]) \in Seq(Packets) /\ IsInjective(Tail(active[s]))
      /\ ToSet(Tail(active[s])) = ToSet(active[s]) \ {h}
  BY <1>1, <1>2, TailIs
<1>6. /\ Append(completed[s], h) \in Seq(Packets) /\ IsInjective(Append(completed[s], h))
      /\ ToSet(Append(completed[s], h)) = ToSet(completed[s]) \cup {h}
  BY <1>2, <1>3, <1>4, AppendIs
<1>7. /\ active'[s] = Tail(active[s]) /\ completed'[s] = Append(completed[s], h)
      /\ \A t \in Streams : t # s => active'[t] = active[t] /\ completed'[t] = completed[t]
  BY <1>1, <1>2
<1> HIDE DEF h
<1>8. \A t \in Streams :
        /\ IsInjective(active'[t]) /\ IsInjective(completed'[t])
        /\ ToSet(active'[t]) = IF t = s THEN ToSet(active[t]) \ {h} ELSE ToSet(active[t])
        /\ ToSet(completed'[t]) =
             IF t = s THEN ToSet(completed[t]) \cup {h} ELSE ToSet(completed[t])
  BY <1>5, <1>6, <1>7 DEF Homes, OneHome
<1>9. ListsTyped'
  BY <1>1, <1>2, <1>5, <1>6 DEF Homes, ListsTyped
<1>10. OneHome'
  <2>1. /\ IsInjective(pool') /\ ToSet(pool') \cap held' = {}
        /\ \A t \in Streams : IsInjective(active'[t]) /\ IsInjective(completed'[t])
    BY <1>1, <1>4, <1>8 DEF Homes, OneHome
  <2>2. ASSUME NEW t \in Streams
        PROVE  (ToSet(pool') \cup held') \cap (ToSet(active'[t]) \cup ToSet(completed'[t])) = {}
    <3>1. (ToSet(pool) \cup held) \cap (ToSet(active[t]) \cup ToSet(completed[t])) = {}
      BY DEF Homes, OneHome
    <3>2. CASE t = s
      <4>1. /\ ToSet(active'[t]) = ToSet(active[t]) \ {h}
            /\ ToSet(completed'[t]) = ToSet(completed[t]) \cup {h}
        BY <1>8, <3>2
      <4>2. pool' = pool /\ held' = held
        BY <1>1
      <4> QED BY <1>4, <3>1, <4>1, <4>2
    <3>3. CASE t # s
      BY <1>1, <1>8, <3>1, <3>3
    <3> QED BY <3>2, <3>3
  <2>3. ASSUME NEW t \in Streams, NEW u \in Streams
        PROVE  ToSet(active'[t]) \cap ToSet(completed'[u]) = {}
    <3>1. ToSet(active[t]) \cap ToSet(completed[u]) = {}
      BY DEF Homes, OneHome
    <3>2. /\ ToSet(active'[t]) \subseteq ToSet(active[t])
          /\ h \notin ToSet(active'[t])
      BY <1>4, <1>8
    <3>3. ToSet(completed'[u]) \subseteq ToSet(completed[u]) \cup {h}
      BY <1>8
    <3> QED BY <3>1, <3>2, <3>3
  <2>4. ASSUME NEW t \in Streams, NEW u \in Streams, t # u
        PROVE  /\ ToSet(active'[t]) \cap ToSet(active'[u]) = {}
               /\ ToSet(completed'[t]) \cap ToSet(completed'[u]) = {}
    <3>1. /\ ToSet(active[t]) \cap ToSet(active[u]) = {}
          /\ ToSet(completed[t]) \cap ToSet(completed[u]) = {}
      BY <2>4 DEF Homes, OneHome
    <3>2. /\ ToSet(active'[t]) \subseteq ToSet(active[t])
          /\ ToSet(active'[u]) \subseteq ToSet(active[u])
      BY <1>8
    <3>3. CASE t = s
      <4>1. ToSet(completed'[u]) = ToSet(completed[u]) /\ h \notin ToSet(completed[u])
        BY <1>4, <1>8, <2>4, <3>3
      <4>2. ToSet(completed'[t]) = ToSet(completed[t]) \cup {h}
        BY <1>8, <3>3
      <4> QED BY <3>1, <3>2, <4>1, <4>2
    <3>4. CASE t # s
      <4>1. ToSet(completed'[t]) = ToSet(completed[t]) /\ h \notin ToSet(completed[t])
        BY <1>4, <1>8, <3>4
      <4>2. ToSet(completed'[u]) \subseteq ToSet(completed[u]) \cup {h}
        BY <1>8
      <4> QED BY <3>1, <3>2, <4>1, <4>2
    <3> QED BY <3>3, <3>4
  <2> QED BY <2>1, <2>2, <2>3, <2>4 DEF OneHome
<1>11. AllHome'
  <2> SUFFICES ASSUME NEW q \in Packets
               PROVE  \/ q \in ToSet(pool') \cup held'
                      \/ \E t \in Streams : q \in ToSet(active'[t]) \cup ToSet(completed'[t])
    BY DEF AllHome
  <2>1. \/ q \in ToSet(pool) \cup held
        \/ \E t \in Streams : q \in ToSet(active[t]) \cup ToSet(completed[t])
    BY DEF Homes, AllHome
  <2>2. CASE q \in ToSet(pool) \cup held
    BY <1>1, <2>2
  <2>3. CASE \E t \in Streams : q \in ToSet(active[t]) \cup ToSet(completed[t])
    <3>1. PICK t \in Streams : q \in ToSet(active[t]) \cup ToSet(completed[t])
      BY <2>3
    <3>2. q \in ToSet(active'[t]) \cup ToSet(completed'[t])
      BY <1>8, <3>1
    <3> QED BY <3>2
  <2> QED BY <2>1, <2>2, <2>3
<1> QED BY <1>3, <1>7, <1>8, <1>9, <1>10, <1>11 DEF Homes, h

LEMMA FreePacketsHomes ==
  ASSUME Homes, NEW s \in Streams, FreePackets(s)
  PROVE  /\ Homes' /\ active' = active /\ completed'[s] = <<>>
         /\ ToSet(completed'[s]) = {}
         /\ \A t \in Streams : t # s => completed'[t] = completed[t]
         /\ \A t \in Streams : ToSet(completed'[t]) \subseteq ToSet(completed[t])
         /\ Len(pool') = Len(completed[s]) + Len(pool)
<1>1. /\ active' = active /\ held' = held
      /\ pool' = Reverse(completed[s]) \o pool
      /\ completed' = [completed EXCEPT ![s] = <<>>]
  BY DEF FreePackets
<1>2. /\ completed \in [Streams -> Seq(Packets)] /\ completed[s] \in Seq(Packets)
      /\ pool \in Seq(Packets)
      /\ IsInjective(pool) /\ IsInjective(completed[s])
      /\ ToSet(completed[s]) \cap ToSet(pool) = {} /\ ToSet(completed[s]) \cap held = {}
  BY DEF Homes, ListsTyped, OneHome
<1>3. /\ pool' \in Seq(Packets) /\ IsInjective(pool')
      /\ ToSet(pool') = ToSet(completed[s]) \cup ToSet(pool)
      /\ Len(pool') = Len(completed[s]) + Len(pool)
  BY <1>1, <1>2, GiveBackIs
<1>4. /\ completed'[s] = <<>>
      /\ \A t \in Streams : t # s => completed'[t] = completed[t]
  BY <1>1, <1>2
<1>5. \A t \in Streams :
        /\ IsInjective(completed'[t])
        /\ ToSet(completed'[t]) = IF t = s THEN {} ELSE ToSet(completed[t])
  BY <1>4, EmptyQueue DEF Homes, OneHome
<1>6. ListsTyped'
  BY <1>1, <1>2, <1>3 DEF Homes, ListsTyped
<1>7. OneHome'
  <2>1. /\ IsInjective(pool') /\ ToSet(pool') \cap held' = {}
        /\ \A t \in Streams : IsInjective(active'[t]) /\ IsInjective(completed'[t])
    BY <1>1, <1>3, <1>5 DEF Homes, OneHome
  <2>2. ASSUME NEW t \in Streams
        PROVE  (ToSet(pool') \cup held') \cap (ToSet(active'[t]) \cup ToSet(completed'[t])) = {}
    <3>1. /\ (ToSet(pool) \cup held) \cap (ToSet(active[t]) \cup ToSet(completed[t])) = {}
          /\ ToSet(completed[s]) \cap ToSet(active[t]) = {}
          /\ t # s => ToSet(completed[s]) \cap ToSet(completed[t]) = {}
      BY DEF Homes, OneHome
    <3> QED BY <1>1, <1>3, <1>5, <3>1
  <2>3. ASSUME NEW t \in Streams, NEW u \in Streams
        PROVE  ToSet(active'[t]) \cap ToSet(completed'[u]) = {}
    <3>1. ToSet(active[t]) \cap ToSet(completed[u]) = {}
      BY DEF Homes, OneHome
    <3> QED BY <1>1, <1>3, <1>5, <3>1
  <2>4. ASSUME NEW t \in Streams, NEW u \in Streams, t # u
        PROVE  /\ ToSet(active'[t]) \cap ToSet(active'[u]) = {}
               /\ ToSet(completed'[t]) \cap ToSet(completed'[u]) = {}
    <3>1. /\ ToSet(active[t]) \cap ToSet(active[u]) = {}
          /\ ToSet(completed[t]) \cap ToSet(completed[u]) = {}
      BY <2>4 DEF Homes, OneHome
    <3> QED BY <1>1, <1>3, <1>5, <2>4, <3>1
  <2> QED BY <2>1, <2>2, <2>3, <2>4 DEF OneHome
<1>8. AllHome'
  BY <1>1, <1>3, <1>5 DEF Homes, AllHome
<1> QED BY <1>1, <1>3, <1>4, <1>5, <1>6, <1>7, <1>8 DEF Homes
-----------------------------------------------------------------------------
(* Buffers.                                                                 *)

\* One character of the rest of a packet goes over the wire.
LEMMA RestStep ==
  ASSUME NEW S, NEW w \in Seq(S), NEW d \in Seq(S), NEW x \in Nat, x < Len(d)
  PROVE  /\ d[x + 1] \in S /\ Append(w, d[x + 1]) \in Seq(S)
         /\ w \o SubSeq(d, x + 1, Len(d)) =
              Append(w, d[x + 1]) \o SubSeq(d, x + 1 + 1, Len(d))
         /\ x + 1 = Len(d) =>
              w \o SubSeq(d, x + 1, Len(d)) = Append(w, d[x + 1])
<1> DEFINE e == d[x + 1]
           r == SubSeq(d, x + 1 + 1, Len(d))
<1>1. Len(d) \in Nat /\ x + 1 \in 1 .. Len(d) /\ Len(d) \in x + 1 .. Len(d)
  BY LenProperties
<1>2. e \in S
  BY <1>1, ElementOfSeq
<1>3. SubSeq(d, x + 1, Len(d)) = <<e>> \o r
  BY <1>1, SubSeqRecursiveFirst
<1>4. r \in Seq(S)
  <2>1. \A i \in x + 1 + 1 .. Len(d) : d[i] \in S
    BY <1>1, ElementOfSeq
  <2> QED BY <1>1, <2>1, SubSeqProperties
<1>5. x + 1 = Len(d) => r = <<>>
  BY <1>1, SubSeqEmpty
<1>6. <<e>> \in Seq(S) /\ Append(w, e) = w \o <<e>> /\ Append(w, e) \in Seq(S)
  BY <1>2, AppendIsConcat, AppendProperties
<1> HIDE DEF e, r
<1>7. w \o (<<e>> \o r) = (w \o <<e>>) \o r
  BY <1>4, <1>6, ConcatAssociative
<1>8. r = <<>> => Append(w, e) \o r = Append(w, e)
  BY <1>6, ConcatEmptySeq
<1> QED BY <1>2, <1>3, <1>5, <1>6, <1>7, <1>8 DEF e, r

LEMMA HeadIs ==
  ASSUME UartInv, NEW s \in Streams
  PROVE  /\ active[s] = <<>> => HeadOf(active[s]) = NULL
         /\ active[s] # <<>> => /\ HeadOf(active[s]) = Head(active[s])
                                /\ Head(active[s]) \in ToSet(active[s])
                                /\ Head(active[s]) \in Packets
                                /\ Head(active[s]) # NULL
         /\ ToSet(active[s]) \subseteq Packets /\ ToSet(completed[s]) \subseteq Packets
         /\ active[s] = <<>> <=> ToSet(active[s]) = {}
<1>1. active[s] \in Seq(Packets) /\ completed[s] \in Seq(Packets)
  BY DEF UartInv, Homes, ListsTyped
<1>2. \A p \in Packets : p # NULL
  BY UartAssumption DEF Packets, UartAssumption, NULL
<1>3. \A q \in Seq(Packets) :
        /\ ToSet(q) \subseteq Packets
        /\ q # <<>> => Head(q) \in ToSet(q)
        /\ q = <<>> <=> ToSet(q) = {}
  BY Elements
<1>4. HeadOf(active[s]) = IF active[s] = <<>> THEN NULL ELSE Head(active[s])
  BY DEF HeadOf
<1> QED BY <1>1, <1>2, <1>3, <1>4

LEMMA BothStreams == "tx" \in Streams /\ "rx" \in Streams /\ \A s \in Streams : s = "tx" \/ s = "rx"
BY UartAssumption DEF UartAssumption

\* What the invariant does not look at.
LEMMA DeviceOnly ==
  ASSUME UartInv, rxfifo' \in Seq(Char),
         UNCHANGED <<listVars, dataVars, txe, drv, cur, wire, handed>>
  PROVE  UartInv'
<1>1. Homes'
  BY DEF UartInv, Homes, ListsTyped, OneHome, AllHome, listVars
<1>2. BuffersTyped' /\ LoopAtHead' /\ Progress' /\ Sent'
  BY DEF UartInv, BuffersTyped, LoopAtHead, Progress, Sent, Rest, listVars, dataVars
<1> QED BY <1>1, <1>2 DEF UartInv

LEMMA ArriveInv == ASSUME UartInv, NEW c \in Char, Arrive(c) PROVE UartInv'
<1>1. rxfifo' \in Seq(Char)
  BY AppendProperties DEF UartInv, BuffersTyped, Arrive
<1> QED BY <1>1, DeviceOnly DEF Arrive

LEMMA ReceiveTimeoutInv == ASSUME UartInv, ReceiveTimeout PROVE UartInv'
BY DeviceOnly DEF ReceiveTimeout, UartInv, BuffersTyped

\* do_xmit_work sends one character of the only packet in its queue.
LEMMA XmitInv == ASSUME UartInv, XmitStep PROVE UartInv'
<1> DEFINE q == active["tx"]
           x == xferred[cur]
<1>1. /\ drv = "xmit" /\ q # <<>> /\ cur = Head(q) /\ cur \in ToSet(q)
      /\ cur \in Packets /\ cur # NULL /\ "tx" \in Streams
  BY BothStreams, HeadIs DEF UartInv, LoopAtHead, XmitStep
<1>2. /\ data \in [Packets -> Seq(Char)] /\ length \in [Packets -> Nat]
      /\ xferred \in [Packets -> Nat] /\ wire \in Seq(Char) /\ handed \in Seq(Char)
      /\ rxfifo \in Seq(Char)
  BY DEF UartInv, BuffersTyped
<1>3. x \in Nat /\ x < length[cur] /\ length[cur] = Len(data[cur]) /\ length[cur] \in Nat
  BY <1>1, <1>2 DEF UartInv, Progress
<1>4. /\ wire' = Append(wire, data[cur][x + 1])
      /\ xferred' = [xferred EXCEPT ![cur] = x + 1]
      /\ drv' = IF cur' = NULL THEN "idle" ELSE "xmit"
      /\ txe' = (cur' # NULL)
      /\ UNCHANGED <<data, length, rxfifo, handed>>
  BY DEF XmitStep
<1>5. /\ xferred' \in [Packets -> Nat] /\ xferred'[cur] = x + 1
      /\ \A p \in Packets : p # cur => xferred'[p] = xferred[p]
  BY <1>1, <1>2, <1>3, <1>4
<1>6. /\ wire' \in Seq(Char)
      /\ handed = wire \o SubSeq(data[cur], x + 1, Len(data[cur]))
      /\ handed = wire' \o SubSeq(data[cur], x + 1 + 1, Len(data[cur]))
      /\ x + 1 = Len(data[cur]) => handed = wire'
  <2>1. handed = wire \o SubSeq(data[cur], x + 1, Len(data[cur]))
    BY <1>1, <1>3 DEF UartInv, Sent, Rest
  <2> DEFINE d == data[cur]
  <2>2. d \in Seq(Char) /\ x < Len(d) /\ wire' = Append(wire, d[x + 1])
    BY <1>1, <1>2, <1>3, <1>4
  <2> HIDE DEF d, x
  <2>3. /\ Append(wire, d[x + 1]) \in Seq(Char)
        /\ wire \o SubSeq(d, x + 1, Len(d)) =
              Append(wire, d[x + 1]) \o SubSeq(d, x + 1 + 1, Len(d))
        /\ x + 1 = Len(d) =>
              wire \o SubSeq(d, x + 1, Len(d)) = Append(wire, d[x + 1])
    <3>1. wire \in Seq(Char) /\ d \in Seq(Char) /\ x \in Nat /\ x < Len(d)
      BY <1>2, <1>3, <2>2
    <3> QED BY <3>1, RestStep, Zenon
  <2>4. handed = wire \o SubSeq(d, x + 1, Len(d))
    BY <2>1 DEF d
  <2>5. /\ wire' \in Seq(Char)
        /\ handed = wire' \o SubSeq(d, x + 1 + 1, Len(d))
        /\ x + 1 = Len(d) => handed = wire'
    BY <2>2, <2>3, <2>4
  <2> QED BY <2>1, <2>5 DEF d
<1>7. BuffersTyped'
  BY <1>2, <1>4, <1>5, <1>6 DEF BuffersTyped
<1>8. \A s \in Streams : ToSet(active[s]) \subseteq Packets /\ ToSet(completed[s]) \subseteq Packets
  BY HeadIs
<1>9. /\ \A s \in Streams : cur \notin ToSet(completed[s])
      /\ cur \notin ToSet(active["rx"])
  BY <1>1, BothStreams DEF UartInv, Homes, OneHome
<1> HIDE DEF x
<1>10. CASE x + 1 # length[cur]
  <2>1. UNCHANGED <<pool, active, completed, held, cur>>
    BY <1>10 DEF XmitStep, listVars, x
  <2>2. Homes'
    BY <2>1 DEF UartInv, Homes, ListsTyped, OneHome, AllHome
  <2>3. LoopAtHead'
    BY <1>1, <1>4, <2>1 DEF UartInv, LoopAtHead
  <2>4. Progress'
    <3>1. ASSUME NEW s \in Streams, NEW p \in ToSet(active[s]) PROVE xferred'[p] < length[p]
      <4>1. CASE p = cur
        BY <1>3, <1>5, <1>10, <4>1
      <4>2. CASE p # cur
        BY <1>5, <1>8, <4>2 DEF UartInv, Progress
      <4> QED BY <4>1, <4>2
    <3>2. ASSUME NEW s \in Streams, NEW p \in ToSet(completed[s])
          PROVE  xferred'[p] = xferred[p]
      BY <1>5, <1>8, <1>9
    <3>3. ASSUME NEW p \in ToSet(active["rx"]) PROVE xferred'[p] = xferred[p]
      BY <1>5, <1>8, <1>9, BothStreams
    <3> QED BY <1>1, <1>4, <2>1, <3>1, <3>2, <3>3, BothStreams DEF UartInv, Progress
  <2>5. Sent'
    BY <1>1, <1>3, <1>4, <1>5, <1>6, <2>1 DEF Sent, Rest
  <2> QED BY <1>7, <2>2, <2>3, <2>4, <2>5 DEF UartInv
<1>11. CASE x + 1 = length[cur]
  <2>1. SwitchHead("tx") /\ cur' = HeadOf(active'["tx"])
    BY <1>11 DEF XmitStep, x
  <2>2. /\ Homes' /\ active'["tx"] = Tail(q)
        /\ active'["rx"] = active["rx"] /\ completed'["rx"] = completed["rx"]
        /\ ToSet(completed'["tx"]) = ToSet(completed["tx"]) \cup {cur}
    BY <1>1, <2>1, BothStreams, SwitchHeadHomes DEF UartInv
  <2>3. active'["tx"] = <<>> /\ Len(active'["tx"]) = 0
    <3>1. q \in Seq(Packets) /\ Len(q) <= 1
      BY <1>1 DEF UartInv, Homes, ListsTyped, LoopAtHead
    <3> QED BY <1>1, <2>2, <3>1, LastTail
  <2>4. cur' = NULL /\ drv' = "idle" /\ txe' = FALSE
    BY <1>4, <2>1, <2>3 DEF HeadOf
  <2>5. LoopAtHead'
    BY <2>3, <2>4 DEF LoopAtHead
  <2>6. Progress'
    <3>1. ToSet(active'["tx"]) = {}
      BY <2>3, EmptyQueue
    <3>2. ASSUME NEW p \in ToSet(active["rx"])
          PROVE  xferred'[p] = 0 /\ xferred'[p] < length[p]
      <4>1. xferred'[p] = xferred[p] /\ xferred[p] \in Nat
        BY <1>2, <1>5, <1>8, <1>9, BothStreams
      <4>2. ~(xferred[p] > 0) /\ xferred[p] < length[p]
        BY <1>1, BothStreams DEF UartInv, Progress
      <4> QED BY <4>1, <4>2
    <3>3. ASSUME NEW s \in Streams, NEW p \in ToSet(completed[s])
          PROVE  xferred'[p] = xferred[p]
      BY <1>5, <1>8, <1>9
    <3>4. ASSUME NEW s \in Streams, NEW p \in ToSet(completed'[s])
          PROVE  xferred'[p] <= length[p] /\ (s = "rx" => xferred'[p] > 0)
      <4>1. CASE p = cur
        <5>1. s = "tx"
          BY <1>9, <2>2, <4>1, BothStreams
        <5> QED BY <1>3, <1>5, <1>11, <4>1, <5>1
      <4>2. CASE p # cur
        <5>1. p \in ToSet(completed[s])
          BY <2>2, <4>2, BothStreams
        <5> QED BY <3>3, <5>1 DEF UartInv, Progress
      <4> QED BY <4>1, <4>2
    <3> QED BY <1>4, <2>2, <3>1, <3>2, <3>4, BothStreams DEF Progress
  <2>7. Sent'
    BY <1>3, <1>4, <1>6, <1>11, <2>3 DEF Sent
  <2> QED BY <1>7, <2>2, <2>5, <2>6, <2>7 DEF UartInv
<1> QED BY <1>10, <1>11

\* do_rx_work takes one character out of the FIFO.
LEMMA RxCharInv == ASSUME UartInv, RxChar PROVE UartInv'
<1> DEFINE q == active["rx"]
           x == xferred[cur]
<1>1. /\ drv = "rx" /\ rxfifo # <<>> /\ rxfifo' = Tail(rxfifo)
      /\ UNCHANGED <<txe, drv, wire, handed>>
  BY DEF RxChar, PopRx
<1>2. /\ data \in [Packets -> Seq(Char)] /\ length \in [Packets -> Nat]
      /\ xferred \in [Packets -> Nat] /\ rxfifo \in Seq(Char)
  BY DEF UartInv, BuffersTyped
<1>3. rxfifo' \in Seq(Char) /\ Head(rxfifo) \in Char
  BY <1>1, <1>2, HeadTailProperties
<1>4. CASE Head(rxfifo) = CtrlK \/ cur = NULL
  <2>1. UNCHANGED <<listVars, dataVars, cur>>
    BY <1>4 DEF RxChar
  <2> QED BY <1>1, <1>3, <2>1, DeviceOnly
<1>5. CASE ~(Head(rxfifo) = CtrlK \/ cur = NULL)
  <2>1. /\ data' = [data EXCEPT ![cur] = Append(@, Head(rxfifo))]
        /\ xferred' = [xferred EXCEPT ![cur] = x + 1]
        /\ length' = length
        /\ IF x + 1 = length[cur]
             THEN SwitchHead("rx") /\ cur' = HeadOf(active'["rx"])
             ELSE UNCHANGED <<listVars, cur>>
    BY <1>5 DEF RxChar
  <2>2. /\ q # <<>> /\ cur = Head(q) /\ cur \in ToSet(q) /\ cur \in Packets
        /\ active["tx"] = <<>> /\ ~txe /\ ToSet(active["tx"]) = {}
    BY <1>1, <1>5, BothStreams, HeadIs DEF UartInv, LoopAtHead
  <2>3. x \in Nat /\ x < length[cur] /\ length[cur] \in Nat
    BY <1>2, <2>2, BothStreams DEF UartInv, Progress
  <2>4. /\ xferred' \in [Packets -> Nat] /\ xferred'[cur] = x + 1
        /\ \A p \in Packets : p # cur => xferred'[p] = xferred[p]
    BY <1>2, <2>1, <2>2, <2>3
  <2>5. data' \in [Packets -> Seq(Char)]
    <3>1. Append(data[cur], Head(rxfifo)) \in Seq(Char)
      BY <1>2, <1>3, <2>2, AppendProperties
    <3> QED BY <1>2, <2>1, <3>1
  <2>6. BuffersTyped'
    BY <1>1, <1>3, <2>1, <2>4, <2>5 DEF UartInv, BuffersTyped
  <2>7. \A s \in Streams : ToSet(active[s]) \subseteq Packets /\ ToSet(completed[s]) \subseteq Packets
    BY HeadIs
  <2>8. \A s \in Streams : cur \notin ToSet(completed[s])
    BY <2>2, BothStreams DEF UartInv, Homes, OneHome
  <2>9. ASSUME NEW s \in Streams, NEW p \in ToSet(completed[s])
        PROVE  xferred'[p] <= length[p] /\ (s = "rx" => xferred'[p] > 0)
    <3>1. xferred'[p] = xferred[p]
      BY <2>4, <2>7, <2>8
    <3> QED BY <3>1 DEF UartInv, Progress
  <2>10. ASSUME NEW p \in ToSet(q), p # cur
         PROVE  xferred'[p] = 0 /\ xferred'[p] < length[p]
    <3>1. xferred'[p] = xferred[p] /\ xferred[p] \in Nat
      BY <1>2, <2>4, <2>7, <2>10, BothStreams
    <3>2. ~(xferred[p] > 0) /\ xferred[p] < length[p]
      BY <2>10, BothStreams DEF UartInv, Progress
    <3> QED BY <3>1, <3>2
  <2> HIDE DEF x
  <2>11. CASE x + 1 # length[cur]
    <3>1. UNCHANGED <<pool, active, completed, held, cur>>
      BY <2>1, <2>11 DEF listVars
    <3>2. Homes'
      BY <3>1 DEF UartInv, Homes, ListsTyped, OneHome, AllHome
    <3>3. LoopAtHead' /\ Sent'
      BY <1>1, <2>2, <3>1 DEF UartInv, LoopAtHead, Sent
    <3>4. xferred'[cur] < length[cur]
      BY <2>3, <2>4, <2>11
    <3>5. \A p \in ToSet(q) : xferred'[p] < length[p] /\ (xferred'[p] > 0 => p = cur)
      BY <2>10, <3>4
    <3>6. Progress'
      BY <1>1, <2>1, <2>2, <2>9, <3>1, <3>5, BothStreams DEF Progress
    <3> QED BY <2>6, <3>2, <3>3, <3>6 DEF UartInv
  <2>12. CASE x + 1 = length[cur]
    <3>1. SwitchHead("rx") /\ cur' = HeadOf(active'["rx"])
      BY <2>1, <2>12
    <3>2. /\ Homes' /\ active'["tx"] = active["tx"] /\ completed'["tx"] = completed["tx"]
          /\ ToSet(active'["rx"]) = ToSet(q) \ {cur}
          /\ ToSet(completed'["rx"]) = ToSet(completed["rx"]) \cup {cur}
      BY <2>2, <3>1, BothStreams, SwitchHeadHomes DEF UartInv
    <3>3. LoopAtHead' /\ Sent'
      BY <1>1, <2>2, <3>1, <3>2 DEF UartInv, LoopAtHead, Sent
    <3>4. xferred'[cur] <= length[cur] /\ xferred'[cur] > 0
      BY <2>3, <2>4, <2>12
    <3>5. Progress'
      <4>1. ToSet(active'["tx"]) = {}
        BY <2>2, <3>2
      <4>2. \A p \in ToSet(active'["rx"]) : xferred'[p] < length'[p] /\ ~(xferred'[p] > 0)
        BY <2>1, <2>10, <3>2
      <4>3. \A p \in ToSet(completed'["tx"]) : xferred'[p] <= length'[p]
        BY <2>1, <2>9, <3>2, BothStreams
      <4>4. \A p \in ToSet(completed'["rx"]) : xferred'[p] <= length'[p] /\ xferred'[p] > 0
        <5>1. \A p \in ToSet(completed["rx"]) : xferred'[p] <= length[p] /\ xferred'[p] > 0
          BY <2>9, BothStreams
        <5> QED BY <2>1, <3>2, <3>4, <5>1
      <4> QED BY <4>1, <4>2, <4>3, <4>4, BothStreams DEF Progress
    <3> QED BY <2>6, <3>2, <3>3, <3>5 DEF UartInv
  <2> QED BY <2>11, <2>12
<1> QED BY <1>4, <1>5

\* The end of do_rx_work leaves no characters in a queued packet.
LEMMA RxEndInv == ASSUME UartInv, RxEnd PROVE UartInv'
<1>1. /\ drv = "rx" /\ drv' = "idle" /\ cur' = NULL
      /\ UNCHANGED <<data, length, xferred, rxfifo, txe, wire, handed>>
  BY DEF RxEnd, dataVars, hwVars
<1>2. /\ cur = HeadOf(active["rx"]) /\ active["tx"] = <<>> /\ ~txe
      /\ ToSet(active["tx"]) = {}
  BY <1>1, EmptyQueue DEF UartInv, LoopAtHead
<1>3. BuffersTyped'
  BY <1>1 DEF UartInv, BuffersTyped
<1>4. \A p \in ToSet(active["rx"]) : xferred[p] > 0 => p = cur /\ cur # NULL
  <2> SUFFICES ASSUME NEW p \in ToSet(active["rx"]), xferred[p] > 0
               PROVE  p = cur /\ cur # NULL
    OBVIOUS
  <2>1. p = cur
    BY DEF UartInv, Progress
  <2>2. active["rx"] # <<>>
    BY EmptyQueue
  <2> QED BY <1>2, <2>1, <2>2, BothStreams, HeadIs
<1>5. CASE cur # NULL /\ xferred[cur] > 0
  <2>1. SwitchHead("rx")
    BY <1>5 DEF RxEnd
  <2>2. cur = Head(active["rx"]) /\ cur \in ToSet(active["rx"])
    BY <1>2, <1>5, BothStreams, HeadIs
  <2>3. /\ Homes' /\ active'["tx"] = active["tx"] /\ completed'["tx"] = completed["tx"]
        /\ ToSet(active'["rx"]) = ToSet(active["rx"]) \ {cur}
        /\ ToSet(completed'["rx"]) = ToSet(completed["rx"]) \cup {cur}
    BY <2>1, <2>2, BothStreams, SwitchHeadHomes DEF UartInv
  <2>4. LoopAtHead' /\ Sent'
    BY <1>1, <1>2, <2>3 DEF UartInv, LoopAtHead, Sent
  <2>5. Progress'
    <3>1. xferred[cur] < length[cur] /\ xferred[cur] \in Nat /\ length[cur] \in Nat
      BY <2>2, BothStreams, HeadIs DEF UartInv, Progress, BuffersTyped
    <3>2. xferred[cur] <= length[cur]
      BY <3>1
    <3> QED BY <1>1, <1>2, <1>4, <1>5, <2>3, <3>2, BothStreams DEF UartInv, Progress
  <2> QED BY <1>3, <2>3, <2>4, <2>5 DEF UartInv
<1>6. CASE ~(cur # NULL /\ xferred[cur] > 0)
  <2>1. UNCHANGED <<pool, active, completed, held>>
    BY <1>6 DEF RxEnd, listVars
  <2>2. Homes'
    BY <2>1 DEF UartInv, Homes, ListsTyped, OneHome, AllHome
  <2>3. LoopAtHead' /\ Sent'
    BY <1>1, <1>2, <2>1 DEF UartInv, LoopAtHead, Sent
  <2>4. Progress'
    BY <1>1, <1>2, <1>4, <1>6, <2>1, BothStreams DEF UartInv, Progress
  <2> QED BY <1>3, <2>2, <2>3, <2>4 DEF UartInv
<1> QED BY <1>5, <1>6

\* stream_add_stream_pkt of a packet that holds what is to be sent, or of an
\* empty one.
LEMMA QueueInv ==
  ASSUME UartInv, NEW s \in Streams, NEW p, NEW d \in Seq(Char), NEW n \in Nat \ {0},
         s = "tx" => Len(d) = n, Queue(s, p, d, n)
  PROVE  UartInv'
<1>1. /\ drv = "idle" /\ AddPacket(s, p)
      /\ data' = [data EXCEPT ![p] = d] /\ length' = [length EXCEPT ![p] = n]
      /\ xferred' = [xferred EXCEPT ![p] = 0]
      /\ IF active[s] = <<>> THEN Sync(s) ELSE UNCHANGED <<drv, cur>>
      /\ handed' = IF s = "tx" THEN handed \o d ELSE handed
      /\ UNCHANGED <<rxfifo, txe, wire>>
  BY DEF Queue, hwVars
<1>2. /\ Homes' /\ p \in Packets
      /\ \A t \in Streams : p \notin ToSet(active[t]) \cup ToSet(completed[t])
      /\ active'[s] = Append(active[s], p)
      /\ \A t \in Streams : ToSet(active'[t]) =
           IF t = s THEN ToSet(active[t]) \cup {p} ELSE ToSet(active[t])
      /\ \A t \in Streams : t # s => active'[t] = active[t]
  BY <1>1, AddPacketHomes DEF UartInv
<1>3. completed' = completed
  BY <1>1 DEF AddPacket
<1>4. /\ data \in [Packets -> Seq(Char)] /\ length \in [Packets -> Nat]
      /\ xferred \in [Packets -> Nat] /\ wire \in Seq(Char) /\ handed \in Seq(Char)
  BY DEF UartInv, BuffersTyped
<1>5. cur = NULL /\ active["tx"] = <<>> /\ ~txe /\ ToSet(active["tx"]) = {}
  BY <1>1, EmptyQueue DEF UartInv, LoopAtHead
<1>6. /\ data'[p] = d /\ length'[p] = n /\ xferred'[p] = 0
      /\ \A r \in Packets : r # p => /\ data'[r] = data[r] /\ length'[r] = length[r]
                                     /\ xferred'[r] = xferred[r]
      /\ data' \in [Packets -> Seq(Char)] /\ length' \in [Packets -> Nat]
      /\ xferred' \in [Packets -> Nat]
  BY <1>1, <1>2, <1>4
<1>7. drv' \in {"idle", "xmit", "rx"}
  BY <1>1 DEF Sync, StartXmit, StartRx
<1>8. BuffersTyped'
  <2>1. handed' \in Seq(Char)
    BY <1>1, <1>4, ConcatProperties
  <2> QED BY <1>1, <1>6, <1>7, <2>1 DEF UartInv, BuffersTyped
<1>9. ASSUME NEW t \in Streams, NEW r \in ToSet(active[t]) \cup ToSet(completed[t])
      PROVE  length'[r] = length[r] /\ xferred'[r] = xferred[r]
  <2>1. r \in Packets
    BY HeadIs
  <2> QED BY <1>2, <1>6, <2>1
<1>9a. /\ \A r \in ToSet(completed'["tx"]) : xferred'[r] <= length'[r]
       /\ \A r \in ToSet(completed'["rx"]) : xferred'[r] <= length'[r] /\ xferred'[r] > 0
  <2>1. "tx" \in Streams /\ "rx" \in Streams
    BY BothStreams
  <2>2. \A r \in ToSet(completed["tx"]) : xferred[r] <= length[r]
    BY <2>1 DEF UartInv, Progress
  <2>3. \A r \in ToSet(completed["rx"]) : xferred[r] <= length[r] /\ xferred[r] > 0
    BY <2>1 DEF UartInv, Progress
  <2>4. ASSUME NEW t \in Streams, NEW r \in ToSet(completed[t])
        PROVE  length'[r] = length[r] /\ xferred'[r] = xferred[r]
    BY <1>9
  <2> QED BY <1>3, <2>1, <2>2, <2>3, <2>4
<1>10. ASSUME NEW r \in ToSet(active["rx"])
       PROVE  xferred'[r] = 0 /\ xferred'[r] < length'[r]
  <2>1. ~(xferred[r] > 0) /\ xferred[r] < length[r] /\ xferred[r] \in Nat
    BY <1>1, <1>4, BothStreams, HeadIs DEF UartInv, Progress
  <2>2. length'[r] = length[r] /\ xferred'[r] = xferred[r]
    BY <1>9, BothStreams
  <2> QED BY <2>1, <2>2
<1>11. xferred'[p] < length'[p] /\ ~(xferred'[p] > 0)
  BY <1>6
<1>12. CASE s = "tx"
  <2>1. active'["tx"] = <<p>> /\ Head(active'["tx"]) = p /\ Len(active'["tx"]) = 1
    <3>1. active'["tx"] = Append(<<>>, p)
      BY <1>2, <1>5, <1>12
    <3>2. Append(<<>>, p) = <<p>>
      OBVIOUS
    <3> QED BY <3>1, <3>2
  <2>2. cur' = p /\ drv' = "xmit" /\ p # NULL
    <3>1. p # NULL
      BY <1>2, UartAssumption DEF UartAssumption, Packets, NULL
    <3> QED BY <1>1, <1>5, <1>12, <2>1, <3>1 DEF Sync, StartXmit, HeadOf
  <2>3. ToSet(active'["tx"]) = {p} /\ ToSet(active'["rx"]) = ToSet(active["rx"])
    BY <1>2, <1>5, <1>12, BothStreams
  <2>4. LoopAtHead'
    BY <2>1, <2>2 DEF LoopAtHead
  <2>5. Progress'
    <3>1. \A r \in ToSet(active'["tx"]) :
            xferred'[r] < length'[r] /\ Len(data'[r]) = length'[r]
      BY <1>6, <1>11, <1>12, <2>3
    <3>2. \A r \in ToSet(active'["rx"]) : xferred'[r] < length'[r] /\ ~(xferred'[r] > 0)
      BY <1>10, <2>3
    <3> QED BY <1>9a, <3>1, <3>2, BothStreams DEF Progress
  <2>6. Sent'
    <3>1. handed = wire /\ handed' = handed \o d /\ wire' = wire
      BY <1>1, <1>5, <1>12 DEF UartInv, Sent
    <3>2. Rest(p)' = SubSeq(d, 1, Len(d))
      BY <1>6, <1>12 DEF Rest
    <3>3. SubSeq(d, 1, Len(d)) = d
      BY SubSeqFull
    <3>4. Head(active'["tx"]) = p /\ active'["tx"] # <<>>
      BY <2>1
    <3> QED BY <3>1, <3>2, <3>3, <3>4 DEF Sent, Rest
  <2> QED BY <1>2, <1>8, <2>4, <2>5, <2>6 DEF UartInv
<1>13. CASE s = "rx"
  <2>1. active'["tx"] = active["tx"] /\ ToSet(active'["rx"]) = ToSet(active["rx"]) \cup {p}
    BY <1>2, <1>13, BothStreams
  <2>2. IF active["rx"] = <<>> THEN cur' = HeadOf(active'["rx"]) /\ drv' = "rx"
                              ELSE cur' = NULL /\ drv' = "idle"
    BY <1>1, <1>5, <1>13 DEF Sync, StartRx
  <2>3. LoopAtHead' /\ Sent'
    BY <1>1, <1>5, <1>13, <2>1, <2>2 DEF UartInv, LoopAtHead, Sent
  <2>4. Progress'
    <3>1. ToSet(active'["tx"]) = {}
      BY <1>5, <2>1
    <3>2. \A r \in ToSet(active'["rx"]) : xferred'[r] < length'[r] /\ ~(xferred'[r] > 0)
      BY <1>10, <1>11, <2>1
    <3>3. \A r \in ToSet(active'["tx"]) :
            xferred'[r] < length'[r] /\ Len(data'[r]) = length'[r]
      BY <3>1
    <3> QED BY <1>9a, <3>2, <3>3, BothStreams DEF Progress
  <2> QED BY <1>2, <1>8, <2>3, <2>4 DEF UartInv
<1> QED BY <1>12, <1>13, BothStreams

\* free_packets.
LEMMA ReclaimInv == ASSUME UartInv, NEW s \in Streams, Reclaim(s) PROVE UartInv'
<1>1. /\ FreePackets(s)
      /\ data' = [p \in Packets |-> IF Contains(completed[s], p) THEN <<>> ELSE data[p]]
      /\ UNCHANGED <<length, xferred, rxfifo, txe, drv, cur, wire, handed>>
  BY DEF Reclaim, hwVars
<1>2. /\ Homes' /\ active' = active
      /\ \A t \in Streams : ToSet(completed'[t]) \subseteq ToSet(completed[t])
  BY <1>1, FreePacketsHomes DEF UartInv
<1>3. data' \in [Packets -> Seq(Char)]
  BY <1>1, EmptySeq DEF UartInv, BuffersTyped
<1>4. ASSUME NEW p \in ToSet(active["tx"]) PROVE data'[p] = data[p] /\ p \in Packets
  <2>1. p \in Packets /\ completed[s] \in Seq(Packets)
    BY BothStreams, HeadIs DEF UartInv, Homes, ListsTyped
  <2>2. p \notin ToSet(completed[s])
    BY BothStreams DEF UartInv, Homes, OneHome
  <2>3. ~Contains(completed[s], p)
    BY <2>1, <2>2, Elements DEF Contains
  <2> QED BY <1>1, <2>1, <2>3
<1>5. BuffersTyped' /\ LoopAtHead'
  BY <1>1, <1>2, <1>3 DEF UartInv, BuffersTyped, LoopAtHead
<1>6. Progress'
  BY <1>1, <1>2, <1>4, BothStreams DEF UartInv, Progress
<1>7. Sent'
  <2>1. CASE active["tx"] = <<>>
    BY <1>1, <1>2, <2>1 DEF UartInv, Sent
  <2>2. CASE active["tx"] # <<>>
    <3>1. Head(active["tx"]) \in ToSet(active["tx"])
      BY <2>2, BothStreams, HeadIs
    <3>2. Rest(Head(active["tx"]))' = Rest(Head(active["tx"]))
      BY <1>1, <1>2, <1>4, <3>1 DEF Rest
    <3> QED BY <1>1, <1>2, <2>2, <3>2 DEF UartInv, Sent
  <2> QED BY <2>1, <2>2
<1> QED BY <1>2, <1>5, <1>6, <1>7 DEF UartInv

\* device_interrupt_impl starts a loop, with nothing to transmit.
LEMMA InterruptInv == ASSUME UartInv, Interrupt PROVE UartInv'
<1>1. /\ drv = "idle"
      /\ UNCHANGED <<pool, active, completed, held, data, length, xferred, rxfifo,
                     txe, wire, handed>>
  BY DEF Interrupt, listVars, dataVars
<1>2. active["tx"] = <<>> /\ ~txe
  BY <1>1 DEF UartInv, LoopAtHead
<1>3. (drv' = "idle" /\ cur' = NULL) \/ (drv' = "rx" /\ cur' = HeadOf(active'["rx"]))
  BY <1>1, <1>2 DEF Interrupt, StartXmit, StartRx, HeadOf
<1>4. Homes'
  BY <1>1 DEF UartInv, Homes, ListsTyped, OneHome, AllHome
<1>5. BuffersTyped' /\ LoopAtHead' /\ Sent'
  BY <1>1, <1>2, <1>3 DEF UartInv, BuffersTyped, LoopAtHead, Sent
<1>6. Progress'
  BY <1>1 DEF UartInv, Progress
<1> QED BY <1>4, <1>5, <1>6 DEF UartInv

\* do_alloc_packet.
LEMMA AllocInv ==
  ASSUME UartInv, NEW p, AllocPacket(p), UNCHANGED <<dataVars, rxfifo, txe, drv, cur, wire, handed>>
  PROVE  UartInv'
<1>1. Homes'
  BY AllocPacketHomes DEF UartInv
<1>2. active' = active /\ completed' = completed
  BY DEF AllocPacket
<1>3. BuffersTyped' /\ LoopAtHead' /\ Progress' /\ Sent'
  BY <1>2 DEF UartInv, BuffersTyped, LoopAtHead, Progress, Sent, Rest, dataVars
<1> QED BY <1>1, <1>3 DEF UartInv
-----------------------------------------------------------------------------
(* The driver with its client.                                              *)

LEMMA InitInv == ASSUME UartInit PROVE UartInv
<1>1. /\ pool = [i \in Packets |-> i] /\ held = {}
      /\ active = [s \in Streams |-> <<>>] /\ completed = [s \in Streams |-> <<>>]
  BY DEF UartInit, InitLists
<1>2. pool \in Seq(Packets) /\ ToSet(pool) = Packets /\ IsInjective(pool)
  <2>1. Packets = 1 .. NumPackets /\ NumPackets \in Nat
    BY UartAssumption DEF UartAssumption, Packets
  <2>2. pool \in [1 .. NumPackets -> Packets]
    BY <1>1, <2>1
  <2> QED BY <1>1, <2>1, <2>2 DEF ToSet, IsInjective
<1>3. \A s \in Streams : /\ active[s] = <<>> /\ completed[s] = <<>>
                         /\ ToSet(active[s]) = {} /\ ToSet(completed[s]) = {}
                         /\ IsInjective(active[s]) /\ IsInjective(completed[s])
  BY <1>1, EmptyQueue
<1>4. Homes
  <2>1. <<>> \in Seq(Packets)
    BY EmptySeq
  <2>2. ListsTyped
    BY <1>1, <1>2, <2>1 DEF ListsTyped
  <2> QED BY <1>1, <1>2, <1>3, <2>2 DEF Homes, OneHome, AllHome
<1>5. BuffersTyped
  BY EmptySeq DEF UartInit, BuffersTyped
<1>6. LoopAtHead
  BY <1>3, BothStreams DEF UartInit, LoopAtHead
<1>7. Progress
  BY <1>3, BothStreams DEF Progress
<1>8. Sent
  BY <1>3, BothStreams DEF UartInit, Sent
<1> QED BY <1>4, <1>5, <1>6, <1>7, <1>8 DEF UartInv

LEMMA DriverInv == ASSUME UartInv, Driver \/ Device PROVE UartInv'
<1>1. ASSUME NEW c \in Typed, Arrive(c) PROVE UartInv'
  BY <1>1, ArriveInv, UartAssumption DEF UartAssumption
<1> QED BY <1>1, XmitInv, RxCharInv, RxEndInv, ReceiveTimeoutInv DEF Driver, Device

LEMMA StutterInv == ASSUME UartInv, UNCHANGED uartVars PROVE UartInv'
BY DeviceOnly DEF UartInv, BuffersTyped, uartVars, hwVars

LEMMA UartNextInv ==
  ASSUME MinLength >= 1, UartInv, [UartNext]_uartVars PROVE UartInv'
<1>1. CASE Device \/ Driver
  BY <1>1, DriverInv
<1>2. CASE Interrupt
  BY <1>2, InterruptInv
<1>3. CASE ClientAlloc
  BY <1>3, AllocInv DEF ClientAlloc, hwVars
<1>4. CASE ClientSend
  <2>1. PICK p \in held, n \in MinLength .. MaxLength : \E d \in [1 .. n -> Char \ {CtrlK}] :
          Queue("tx", p, d, n)
    BY <1>4 DEF ClientSend
  <2>2. PICK d \in [1 .. n -> Char \ {CtrlK}] : Queue("tx", p, d, n)
    BY <2>1
  <2>3. n \in Nat \ {0} /\ d \in [1 .. n -> Char]
    BY UartAssumption DEF UartAssumption
  <2>4. d \in Seq(Char) /\ Len(d) = n
    BY <2>3
  <2> QED BY <2>2, <2>3, <2>4, BothStreams, QueueInv
<1>5. CASE ClientReceive
  <2>1. PICK p \in held, n \in MinLength .. MaxLength : Queue("rx", p, <<>>, n)
    BY <1>5 DEF ClientReceive
  <2>2. n \in Nat \ {0} /\ <<>> \in Seq(Char) /\ "rx" # "tx"
    BY UartAssumption, EmptySeq DEF UartAssumption
  <2> QED BY <2>1, <2>2, BothStreams, QueueInv
<1>6. CASE \E s \in Streams : ClientReclaim(s)
  BY <1>6, ReclaimInv DEF ClientReclaim
<1>7. CASE UNCHANGED uartVars
  BY <1>7, StutterInv
<1> QED BY <1>1, <1>2, <1>3, <1>4, <1>5, <1>6, <1>7 DEF UartNext
-----------------------------------------------------------------------------
\* FlattenSeq of one packet.
LEMMA FlattenOne ==
  ASSUME NEW e PROVE FlattenSeq(<<e>>) = e
<1> DEFINE F == CHOOSE g : g = [i \in 1 .. 1 |-> IF i = 1 THEN <<e>>[i] ELSE g[i - 1] \o <<e>>[i]]
<1>1. \E g : g = [i \in 1 .. 1 |-> IF i = 1 THEN <<e>>[i] ELSE g[i - 1] \o <<e>>[i]]
  <2> DEFINE h == [i \in 1 .. 1 |-> e]
  <2>1. h = [i \in 1 .. 1 |-> IF i = 1 THEN <<e>>[i] ELSE h[i - 1] \o <<e>>[i]]
    OBVIOUS
  <2> QED BY <2>1
<1>2. F = [i \in 1 .. 1 |-> IF i = 1 THEN <<e>>[i] ELSE F[i - 1] \o <<e>>[i]]
  BY <1>1
<1>3. F[1] = e
  BY <1>2
<1>4. Len(<<e>>) = 1
  OBVIOUS
<1> QED BY <1>3, <1>4 DEF FlattenSeq

\* The counts stay inside the buffers.
LEMMA ProgressInBuffer == UartInv => InBuffer
BY DEF UartInv, Progress, InBuffer

LEMMA CleanWhenIdle == UartInv => IdleIsClean
<1> SUFFICES ASSUME UartInv, drv = "idle"
             PROVE  /\ active["tx"] = <<>> /\ ~txe
                    /\ \A p \in ToSet(active["rx"]) : xferred[p] = 0
                    /\ \A p \in ToSet(completed["rx"]) : xferred[p] > 0
  BY DEF IdleIsClean
<1>1. active["tx"] = <<>> /\ ~txe
  BY DEF UartInv, LoopAtHead
<1>2. ASSUME NEW p \in ToSet(active["rx"]) PROVE xferred[p] = 0
  <2>1. xferred[p] \in Nat /\ ~(xferred[p] > 0)
    BY BothStreams, HeadIs DEF UartInv, Progress, BuffersTyped
  <2> QED BY <2>1
<1> QED BY <1>1, <1>2 DEF UartInv, Progress

LEMMA SentIsWire == UartInv => WireInOrder
<1> SUFFICES ASSUME UartInv PROVE WireInOrder
  OBVIOUS
<1> DEFINE q == active["tx"]
           f == [i \in DOMAIN q |-> Rest(q[i])]
<1>1. q \in Seq(Packets) /\ Len(q) <= 1 /\ Len(q) \in Nat /\ DOMAIN q = 1 .. Len(q)
  BY BothStreams, LenProperties DEF UartInv, Homes, ListsTyped, LoopAtHead
<1>2. wire \in Seq(Char)
  BY DEF UartInv, BuffersTyped
<1>3. CASE q = <<>>
  <2>1. f = <<>>
    BY <1>1, <1>3
  <2>2. FlattenSeq(f) = <<>>
    BY <2>1 DEF FlattenSeq
  <2> QED BY <1>2, <1>3, <2>2, ConcatEmptySeq DEF UartInv, Sent, WireInOrder
<1>4. CASE q # <<>>
  <2>1. Len(q) = 1 /\ DOMAIN q = 1 .. 1 /\ Head(q) = q[1]
    <3>1. Len(q) = 1
      BY <1>1, <1>4, LastTail
    <3> QED BY <1>1, <3>1
  <2>2. f = <<Rest(Head(q))>>
    BY <2>1
  <2>3. FlattenSeq(f) = Rest(Head(q))
    BY <2>2, FlattenOne
  <2> QED BY <1>4, <2>3 DEF UartInv, Sent, WireInOrder
<1> QED BY <1>3, <1>4

\* Neither loop reads or writes beyond the buffer of a packet.
THEOREM UartInBuffer == ASSUME MinLength >= 1 PROVE UartSpec => []InBuffer
<1>1. UartInit => UartInv
  BY InitInv
<1>2. UartInv /\ [UartNext]_uartVars => UartInv'
  BY UartNextInv
<1> QED BY <1>1, <1>2, ProgressInBuffer, PTL DEF UartSpec

\* The driver leaves no packet half done, and its transmitter off.
THEOREM UartIdleIsClean == ASSUME MinLength >= 1 PROVE UartSpec => []IdleIsClean
<1>1. UartInit => UartInv
  BY InitInv
<1>2. UartInv /\ [UartNext]_uartVars => UartInv'
  BY UartNextInv
<1> QED BY <1>1, <1>2, CleanWhenIdle, PTL DEF UartSpec

\* Whatever is queued goes over the wire, in order and once.
THEOREM UartWireInOrder == ASSUME MinLength >= 1 PROVE UartSpec => []WireInOrder
<1>1. UartInit => UartInv
  BY InitInv
<1>2. UartInv /\ [UartNext]_uartVars => UartInv'
  BY UartNextInv
<1> QED BY <1>1, <1>2, SentIsWire, PTL DEF UartSpec

\* Packets neither get lost nor into two places.
THEOREM UartPacketsHome == ASSUME MinLength >= 1 PROVE UartSpec => [](OneHome /\ AllHome)
<1>1. UartInit => UartInv
  BY InitInv
<1>2. UartInv /\ [UartNext]_uartVars => UartInv'
  BY UartNextInv
<1>3. UartInv => OneHome /\ AllHome
  BY DEF UartInv, Homes
<1> QED BY <1>1, <1>2, <1>3, PTL DEF UartSpec
-----------------------------------------------------------------------------
(* libs/serial.                                                             *)

\* The driver runs only while the call that started it polls; a call that has
\* taken a packet holds it.
CallInStep ==
  /\ pc \in {"idle", "w_alloc", "w_buf", "w_poll", "r_alloc", "r_queue", "r_poll"}
  /\ drv = "xmit" => pc = "w_poll"
  /\ drv = "rx" => pc = "r_poll"
  /\ pc \in {"w_buf", "r_queue"} => pkt \in held
  /\ pc \in {"w_alloc", "w_buf", "w_poll"} => req \in Seq(Char) /\ Len(req) \in Counts
  /\ pc \in {"r_alloc", "r_queue", "r_poll"} => Len(req) \in Nat \ {0}
  /\ mark \in Seq(Char)

\* A write has put nothing on the wire before it queues its packet, and has
\* then handed over its buffer; before it takes a packet, the packets of the
\* writes before it are back.
WriteInStep ==
  /\ pc \in {"w_alloc", "w_buf"} => mark = wire
  /\ pc = "w_alloc" => completed["tx"] = <<>>
  /\ pc = "w_poll" => handed = mark \o WireForm(req)

SumOf(a, b, c, d, e, f) == a + b + c + d + e + f
Total == SumOf(Len(pool), Cardinality(held), Len(active["tx"]), Len(active["rx"]),
               Len(completed["tx"]), Len(completed["rx"]))

Counted ==
  /\ IsFiniteSet(held) /\ fails \in Nat
  /\ Total = NumPackets
  /\ Cardinality(held) = fails + (IF InCall THEN 1 ELSE 0)

SerialInv == UartInv /\ CallInStep /\ WriteInStep /\ Counted
-----------------------------------------------------------------------------
(* Counting the packets.                                                    *)

LEMMA Sizes ==
  ASSUME Homes, IsFiniteSet(held)
  PROVE  /\ Len(pool) \in Int /\ Cardinality(held) \in Int
         /\ Len(active["tx"]) \in Int /\ Len(active["rx"]) \in Int
         /\ Len(completed["tx"]) \in Int /\ Len(completed["rx"]) \in Int
<1>1. /\ pool \in Seq(Packets)
      /\ active["tx"] \in Seq(Packets) /\ active["rx"] \in Seq(Packets)
      /\ completed["tx"] \in Seq(Packets) /\ completed["rx"] \in Seq(Packets)
  BY BothStreams DEF Homes, ListsTyped
<1>2. Cardinality(held) \in Int
  BY FS_CardinalityType
<1>3. \A q \in Seq(Packets) : Len(q) \in Int
  BY LenProperties
<1> QED BY <1>1, <1>2, <1>3

\* What goes from one place to another leaves the total as it is.
LEMMA TotalMoved ==
  ASSUME Homes, IsFiniteSet(held)
  PROVE  /\ SumOf(Len(pool) - 1, Cardinality(held) + 1, Len(active["tx"]), Len(active["rx"]),
                  Len(completed["tx"]), Len(completed["rx"])) = Total
         /\ SumOf(Len(pool), Cardinality(held) - 1, Len(active["tx"]) + 1, Len(active["rx"]),
                  Len(completed["tx"]), Len(completed["rx"])) = Total
         /\ SumOf(Len(pool), Cardinality(held) - 1, Len(active["tx"]), Len(active["rx"]) + 1,
                  Len(completed["tx"]), Len(completed["rx"])) = Total
         /\ SumOf(Len(pool), Cardinality(held), Len(active["tx"]) - 1, Len(active["rx"]),
                  Len(completed["tx"]) + 1, Len(completed["rx"])) = Total
         /\ SumOf(Len(pool), Cardinality(held), Len(active["tx"]), Len(active["rx"]) - 1,
                  Len(completed["tx"]), Len(completed["rx"]) + 1) = Total
         /\ SumOf(Len(completed["tx"]) + Len(pool), Cardinality(held), Len(active["tx"]), Len(active["rx"]),
                  0, Len(completed["rx"])) = Total
         /\ SumOf(Len(completed["rx"]) + Len(pool), Cardinality(held), Len(active["tx"]), Len(active["rx"]),
                  Len(completed["tx"]), 0) = Total
<1> DEFINE a == Len(pool)
           b == Cardinality(held)
           c == Len(active["tx"])
           d == Len(active["rx"])
           e == Len(completed["tx"])
           f == Len(completed["rx"])
<1>1. a \in Int /\ b \in Int /\ c \in Int /\ d \in Int /\ e \in Int /\ f \in Int
  BY Sizes
<1>2. Total = SumOf(a, b, c, d, e, f)
  BY DEF Total
<1> HIDE DEF a, b, c, d, e, f
<1>3. /\ SumOf(a - 1, b + 1, c, d, e, f) = SumOf(a, b, c, d, e, f)
      /\ SumOf(a, b - 1, c + 1, d, e, f) = SumOf(a, b, c, d, e, f)
      /\ SumOf(a, b - 1, c, d + 1, e, f) = SumOf(a, b, c, d, e, f)
      /\ SumOf(a, b, c - 1, d, e + 1, f) = SumOf(a, b, c, d, e, f)
      /\ SumOf(a, b, c, d - 1, e, f + 1) = SumOf(a, b, c, d, e, f)
      /\ SumOf(e + a, b, c, d, 0, f) = SumOf(a, b, c, d, e, f)
      /\ SumOf(f + a, b, c, d, e, 0) = SumOf(a, b, c, d, e, f)
  BY <1>1 DEF SumOf
<1> QED BY <1>2, <1>3 DEF a, b, c, d, e, f

LEMMA AllocPacketCounts ==
  ASSUME Homes, IsFiniteSet(held), NEW p, AllocPacket(p)
  PROVE  /\ IsFiniteSet(held') /\ Total' = Total
         /\ Cardinality(held') = Cardinality(held) + 1
<1>1. p \notin held /\ Len(pool') = Len(pool) - 1
  BY AllocPacketHomes
<1>2. held' = held \cup {p} /\ active' = active /\ completed' = completed
  BY DEF AllocPacket
<1>3. IsFiniteSet(held') /\ Cardinality(held') = Cardinality(held) + 1
  BY <1>1, <1>2, FS_AddElement
<1>4. Total' = SumOf(Len(pool) - 1, Cardinality(held) + 1, Len(active["tx"]), Len(active["rx"]),
                     Len(completed["tx"]), Len(completed["rx"]))
  BY <1>1, <1>2, <1>3 DEF Total
<1>5. Total' = Total
  BY <1>4, TotalMoved
<1> QED BY <1>3, <1>5

LEMMA AddPacketCounts ==
  ASSUME Homes, IsFiniteSet(held), NEW s \in Streams, NEW p, AddPacket(s, p)
  PROVE  /\ IsFiniteSet(held') /\ Total' = Total
         /\ Cardinality(held') = Cardinality(held) - 1
<1>1. p \in held /\ held' = held \ {p} /\ pool' = pool /\ completed' = completed
  BY DEF AddPacket
<1>2. /\ p \in Packets /\ active'[s] = Append(active[s], p)
      /\ \A t \in Streams : t # s => active'[t] = active[t]
  BY AddPacketHomes
<1>3. IsFiniteSet(held') /\ Cardinality(held') = Cardinality(held) - 1
  BY <1>1, FS_RemoveElement
<1>4. Len(active'[s]) = Len(active[s]) + 1
  <2>1. active[s] \in Seq(Packets)
    BY DEF Homes, ListsTyped
  <2> QED BY <1>2, <2>1, AppendProperties
<1>5. CASE s = "tx"
  <2>1. active'["rx"] = active["rx"] /\ Len(active'["tx"]) = Len(active["tx"]) + 1
    BY <1>2, <1>4, <1>5, BothStreams
  <2>2. Total' = SumOf(Len(pool), Cardinality(held) - 1, Len(active["tx"]) + 1, Len(active["rx"]),
                       Len(completed["tx"]), Len(completed["rx"]))
    BY <1>1, <1>3, <2>1 DEF Total
  <2>3. Total' = Total
    BY <2>2, TotalMoved
  <2> QED BY <1>3, <2>3
<1>6. CASE s = "rx"
  <2>1. active'["tx"] = active["tx"] /\ Len(active'["rx"]) = Len(active["rx"]) + 1
    BY <1>2, <1>4, <1>6, BothStreams
  <2>2. Total' = SumOf(Len(pool), Cardinality(held) - 1, Len(active["tx"]), Len(active["rx"]) + 1,
                       Len(completed["tx"]), Len(completed["rx"]))
    BY <1>1, <1>3, <2>1 DEF Total
  <2>3. Total' = Total
    BY <2>2, TotalMoved
  <2> QED BY <1>3, <2>3
<1> QED BY <1>5, <1>6, BothStreams

LEMMA SwitchHeadCounts ==
  ASSUME Homes, IsFiniteSet(held), NEW s \in Streams, SwitchHead(s)
  PROVE  held' = held /\ Total' = Total
<1> DEFINE h == Head(active[s])
<1>1. active[s] # <<>> /\ pool' = pool /\ held' = held
  BY DEF SwitchHead
<1>2. /\ active'[s] = Tail(active[s]) /\ completed'[s] = Append(completed[s], h)
      /\ \A t \in Streams : t # s => active'[t] = active[t] /\ completed'[t] = completed[t]
  BY SwitchHeadHomes
<1>3. active[s] \in Seq(Packets) /\ completed[s] \in Seq(Packets)
  BY DEF Homes, ListsTyped
<1>4. Len(active'[s]) = Len(active[s]) - 1 /\ Len(completed'[s]) = Len(completed[s]) + 1
  <2>1. h \in Packets /\ Len(Tail(active[s])) = Len(active[s]) - 1
    BY <1>1, <1>3, HeadTailProperties
  <2> QED BY <1>2, <1>3, <2>1, AppendProperties
<1>5. CASE s = "tx"
  <2>1. active'["rx"] = active["rx"] /\ completed'["rx"] = completed["rx"]
    BY <1>2, <1>5, BothStreams
  <2>2. /\ Len(active'["tx"]) = Len(active["tx"]) - 1
        /\ Len(completed'["tx"]) = Len(completed["tx"]) + 1
    BY <1>4, <1>5
  <2>3. Total' = SumOf(Len(pool), Cardinality(held), Len(active["tx"]) - 1, Len(active["rx"]),
                       Len(completed["tx"]) + 1, Len(completed["rx"]))
    BY <1>1, <2>1, <2>2 DEF Total
  <2>4. Total' = Total
    BY <2>3, TotalMoved
  <2> QED BY <1>1, <2>4
<1>6. CASE s = "rx"
  <2>1. active'["tx"] = active["tx"] /\ completed'["tx"] = completed["tx"]
    BY <1>2, <1>6, BothStreams
  <2>2. /\ Len(active'["rx"]) = Len(active["rx"]) - 1
        /\ Len(completed'["rx"]) = Len(completed["rx"]) + 1
    BY <1>4, <1>6
  <2>3. Total' = SumOf(Len(pool), Cardinality(held), Len(active["tx"]), Len(active["rx"]) - 1,
                       Len(completed["tx"]), Len(completed["rx"]) + 1)
    BY <1>1, <2>1, <2>2 DEF Total
  <2>4. Total' = Total
    BY <2>3, TotalMoved
  <2> QED BY <1>1, <2>4
<1> QED BY <1>5, <1>6, BothStreams

LEMMA FreePacketsCounts ==
  ASSUME Homes, IsFiniteSet(held), NEW s \in Streams, FreePackets(s)
  PROVE  held' = held /\ Total' = Total
<1>1. held' = held
  BY DEF FreePackets
<1>2. /\ active' = active /\ completed'[s] = <<>>
      /\ \A t \in Streams : t # s => completed'[t] = completed[t]
      /\ Len(pool') = Len(completed[s]) + Len(pool)
  BY FreePacketsHomes
<1>3. Len(completed'[s]) = 0
  BY <1>2, EmptySeq
<1>4. CASE s = "tx"
  <2>1. completed'["rx"] = completed["rx"]
    BY <1>2, <1>4, BothStreams
  <2>2. Total' = SumOf(Len(completed["tx"]) + Len(pool), Cardinality(held), Len(active["tx"]), Len(active["rx"]),
                       0, Len(completed["rx"]))
    BY <1>1, <1>2, <1>3, <1>4, <2>1 DEF Total
  <2>3. Total' = Total
    BY <2>2, TotalMoved
  <2> QED BY <1>1, <2>3
<1>5. CASE s = "rx"
  <2>1. completed'["tx"] = completed["tx"]
    BY <1>2, <1>5, BothStreams
  <2>2. Total' = SumOf(Len(completed["rx"]) + Len(pool), Cardinality(held), Len(active["tx"]), Len(active["rx"]),
                       Len(completed["tx"]), 0)
    BY <1>1, <1>2, <1>3, <1>5, <2>1 DEF Total
  <2>3. Total' = Total
    BY <2>2, TotalMoved
  <2> QED BY <1>1, <2>3
<1> QED BY <1>4, <1>5, BothStreams
-----------------------------------------------------------------------------
(* The steps.                                                               *)

LEMMA SameTotal ==
  ASSUME UNCHANGED listVars PROVE Total' = Total /\ held' = held
BY DEF listVars, Total

\* What the driver's loops and the device leave alone.
LEMMA DriverFrame ==
  ASSUME UartInv, IsFiniteSet(held), Driver \/ Device
  PROVE  /\ held' = held /\ handed' = handed /\ Total' = Total
         /\ drv = "idle" => UNCHANGED <<drv, wire, completed>>
         /\ drv' = drv \/ drv' = "idle"
<1>1. CASE XmitStep
  <2>1. /\ drv = "xmit" /\ handed' = handed /\ drv' \in {"idle", "xmit"}
        /\ SwitchHead("tx") \/ UNCHANGED listVars
    BY <1>1 DEF XmitStep
  <2>2. held' = held /\ Total' = Total
    BY <2>1, SwitchHeadCounts, SameTotal, BothStreams DEF UartInv
  <2> QED BY <2>1, <2>2
<1>2. CASE RxChar
  <2>1. /\ drv = "rx" /\ handed' = handed /\ drv' = drv
        /\ SwitchHead("rx") \/ UNCHANGED listVars
    BY <1>2 DEF RxChar
  <2>2. held' = held /\ Total' = Total
    BY <2>1, SwitchHeadCounts, SameTotal, BothStreams DEF UartInv
  <2> QED BY <2>1, <2>2
<1>3. CASE RxEnd
  <2>1. /\ drv = "rx" /\ handed' = handed /\ drv' = "idle"
        /\ SwitchHead("rx") \/ UNCHANGED listVars
    BY <1>3 DEF RxEnd
  <2>2. held' = held /\ Total' = Total
    BY <2>1, SwitchHeadCounts, SameTotal, BothStreams DEF UartInv
  <2> QED BY <2>1, <2>2
<1>4. CASE Device
  <2>1. UNCHANGED listVars /\ UNCHANGED <<drv, wire, handed>>
    BY <1>4 DEF Device, ReceiveTimeout, Arrive
  <2> QED BY <2>1, SameTotal DEF listVars
<1> QED BY <1>1, <1>2, <1>3, <1>4 DEF Driver

LEMMA SerialDriverInv ==
  ASSUME SerialInv, Driver \/ Device, UNCHANGED callVars PROVE SerialInv'
<1>1. UartInv'
  BY DriverInv DEF SerialInv
<1>2. /\ held' = held /\ handed' = handed /\ Total' = Total
      /\ drv = "idle" => UNCHANGED <<drv, wire, completed>>
      /\ drv' = drv \/ drv' = "idle"
  BY DriverFrame DEF SerialInv, Counted
<1>3. UNCHANGED <<pc, req, pkt, mark, fails, reads>>
  BY DEF callVars
<1>4. drv \in {"idle", "xmit", "rx"}
  BY DEF SerialInv, UartInv, BuffersTyped
<1>5. CallInStep'
  BY <1>2, <1>3 DEF SerialInv, CallInStep
<1>6. WriteInStep'
  <2>1. pc \in {"w_alloc", "w_buf"} => drv = "idle"
    BY <1>4 DEF SerialInv, CallInStep
  <2> QED BY <1>2, <1>3, <2>1 DEF SerialInv, WriteInStep
<1>7. Counted'
  BY <1>2, <1>3 DEF SerialInv, Counted, InCall
<1> QED BY <1>1, <1>5, <1>6, <1>7 DEF SerialInv

\* A thread that is in no polling loop has the driver at rest.
LEMMA AtRest ==
  ASSUME SerialInv, pc \notin {"w_poll", "r_poll"} PROVE drv = "idle" /\ active["tx"] = <<>> /\ handed = wire
<1>1. drv = "idle"
  BY DEF SerialInv, CallInStep, UartInv, BuffersTyped
<1> QED BY <1>1 DEF SerialInv, UartInv, LoopAtHead, Sent

LEMMA ReclaimCounts ==
  ASSUME SerialInv, NEW s \in Streams, Reclaim(s)
  PROVE  /\ UartInv' /\ held' = held /\ Total' = Total /\ completed'[s] = <<>>
         /\ UNCHANGED <<drv, wire, handed>>
<1>1. FreePackets(s) /\ UNCHANGED <<drv, wire, handed>>
  BY DEF Reclaim
<1>2. Homes /\ IsFiniteSet(held)
  BY DEF SerialInv, UartInv, Counted
<1>3. held' = held /\ Total' = Total /\ completed'[s] = <<>>
  BY <1>1, <1>2, FreePacketsCounts, FreePacketsHomes
<1> QED BY <1>1, <1>3, ReclaimInv DEF SerialInv

LEMMA WriteInv ==
  ASSUME SerialInv, NEW d \in Seq(Char), Len(d) \in Counts, Write(d) PROVE SerialInv'
<1>1. /\ pc = "idle" /\ Reclaim("tx") /\ pc' = "w_alloc" /\ req' = d /\ mark' = wire
      /\ UNCHANGED <<pkt, fails, reads>>
  BY DEF Write
<1>2. /\ UartInv' /\ held' = held /\ Total' = Total /\ completed'["tx"] = <<>>
      /\ UNCHANGED <<drv, wire, handed>>
  BY <1>1, ReclaimCounts, BothStreams
<1>3. drv = "idle"
  BY <1>1, AtRest
<1>4. wire \in Seq(Char)
  BY DEF SerialInv, UartInv, BuffersTyped
<1>5. CallInStep' /\ WriteInStep'
  BY <1>1, <1>2, <1>3, <1>4 DEF CallInStep, WriteInStep
<1>6. Counted'
  BY <1>1, <1>2 DEF SerialInv, Counted, InCall
<1> QED BY <1>2, <1>5, <1>6 DEF SerialInv

LEMMA ReadInv ==
  ASSUME SerialInv, NEW n \in Nat \ {0}, Read(n) PROVE SerialInv'
<1>1. /\ pc = "idle" /\ Reclaim("rx") /\ pc' = "r_alloc" /\ req' = [i \in 1 .. n |-> Junk]
      /\ UNCHANGED <<pkt, mark, fails>>
  BY DEF Read
<1>2. /\ UartInv' /\ held' = held /\ Total' = Total
      /\ UNCHANGED <<drv, wire, handed>>
  BY <1>1, ReclaimCounts, BothStreams
<1>3. drv = "idle"
  BY <1>1, AtRest
<1>4. Len(req') = n
  BY <1>1
<1>5. CallInStep' /\ WriteInStep'
  BY <1>1, <1>2, <1>3, <1>4 DEF SerialInv, CallInStep, WriteInStep
<1>6. Counted'
  BY <1>1, <1>2 DEF SerialInv, Counted, InCall
<1> QED BY <1>2, <1>5, <1>6 DEF SerialInv

\* A call that finds no free packet gives up; one that finds one holds it.
LEMMA AllocStepInv ==
  ASSUME SerialInv, WriteAlloc \/ ReadAlloc PROVE SerialInv'
<1>1. /\ \/ pc = "w_alloc" /\ Alloc("idle", "w_buf")
         \/ pc = "r_alloc" /\ Alloc("idle", "r_queue")
      /\ UNCHANGED <<dataVars, hwVars, txe, drv, cur, wire, handed, req, mark, fails, reads>>
  BY DEF WriteAlloc, ReadAlloc, Alloc, rest
<1>2. drv = "idle"
  BY <1>1, AtRest
<1>3. CASE pool = <<>>
  <2>1. UNCHANGED <<listVars, pkt>> /\ pc' = "idle"
    BY <1>1, <1>3 DEF Alloc
  <2>2. UartInv'
    BY <1>1, <2>1, DeviceOnly DEF SerialInv, UartInv, BuffersTyped, hwVars
  <2>3. Total' = Total /\ held' = held
    BY <2>1, SameTotal
  <2>4. CallInStep' /\ WriteInStep'
    BY <1>1, <1>2, <2>1 DEF SerialInv, CallInStep, WriteInStep
  <2>5. Counted'
    BY <1>1, <2>1, <2>3 DEF SerialInv, Counted, InCall
  <2> QED BY <2>2, <2>4, <2>5 DEF SerialInv
<1>4. CASE pool # <<>>
  <2>1. PICK p \in Packets : AllocPacket(p) /\ pkt' = p
    BY <1>1, <1>4 DEF Alloc
  <2>2. \/ pc = "w_alloc" /\ pc' = "w_buf"
        \/ pc = "r_alloc" /\ pc' = "r_queue"
    BY <1>1, <1>4 DEF Alloc
  <2>3. UartInv'
    BY <1>1, <2>1, AllocInv DEF SerialInv, hwVars
  <2>4. pkt' \in held'
    BY <2>1 DEF AllocPacket
  <2>5. CallInStep' /\ WriteInStep'
    BY <1>1, <1>2, <2>2, <2>4 DEF SerialInv, CallInStep, WriteInStep
  <2>6. /\ IsFiniteSet(held') /\ Total' = Total
        /\ Cardinality(held') = Cardinality(held) + 1
    BY <2>1, AllocPacketCounts DEF SerialInv, UartInv, Counted
  <2>7. Cardinality(held) = fails + 0 /\ fails \in Nat
    BY <2>2 DEF SerialInv, Counted, InCall
  <2>8. Counted'
    BY <1>1, <2>2, <2>6, <2>7 DEF SerialInv, Counted, InCall
  <2> QED BY <2>3, <2>5, <2>8 DEF SerialInv
<1> QED BY <1>3, <1>4

LEMMA WireFormIs ==
  ASSUME NEW d \in Seq(Char), Len(d) \in Counts
  PROVE  WireForm(d) \in Seq(Char) /\ Len(WireForm(d)) \in Nat \ {0}
<1>1. Len(d) \in Nat \ {0} /\ {NL, CR, Junk} \subseteq Char
  BY SerialAssumption DEF SerialAssumption
<1>2. CASE d[Len(d)] # NL
  BY <1>1, <1>2 DEF WireForm
<1>3. CASE d[Len(d)] = NL
  <2> DEFINE n == Len(d) + 1
             w == [i \in 1 .. n |-> IF i < Len(d) THEN Junk ELSE IF i = Len(d) THEN CR ELSE NL]
  <2>1. n \in Nat \ {0} /\ w \in [1 .. n -> Char]
    BY <1>1
  <2>2. WireForm(d) = w
    BY <1>3 DEF WireForm
  <2> HIDE DEF n, w
  <2>3. w \in Seq(Char) /\ Len(w) = n
    BY <2>1
  <2> QED BY <2>1, <2>2, <2>3
<1> QED BY <1>2, <1>3

\* The packet that is queued leaves the call that held it.
LEMMA QueueCounts ==
  ASSUME SerialInv, NEW s \in Streams, NEW p, NEW d, NEW n, Queue(s, p, d, n),
         pc \in {"w_buf", "r_queue"}, pc' \in {"w_poll", "r_poll"}, fails' = fails
  PROVE  Counted'
<1>1. AddPacket(s, p)
  BY DEF Queue
<1>2. /\ IsFiniteSet(held') /\ Total' = Total
      /\ Cardinality(held') = Cardinality(held) - 1
  BY <1>1, AddPacketCounts DEF SerialInv, UartInv, Counted
<1>3. Cardinality(held) = fails + 1 /\ fails \in Nat
  BY DEF SerialInv, Counted, InCall
<1>4. Cardinality(held') = fails + 0
  BY <1>2, <1>3
<1> QED BY <1>2, <1>4 DEF SerialInv, Counted, InCall

LEMMA WriteQueueInv == ASSUME SerialInv, WriteQueue PROVE SerialInv'
<1> DEFINE w == WireForm(req)
<1>1. /\ pc = "w_buf" /\ pc' = "w_poll" /\ Queue("tx", pkt, w, Len(w))
      /\ UNCHANGED <<req, pkt, mark, fails, reads>>
  BY DEF WriteQueue
<1>2. req \in Seq(Char) /\ Len(req) \in Counts /\ mark \in Seq(Char)
  BY <1>1 DEF SerialInv, CallInStep
<1>3. w \in Seq(Char) /\ Len(w) \in Nat \ {0}
  BY <1>2, WireFormIs
<1> HIDE DEF w
<1>4. UartInv'
  BY <1>1, <1>3, QueueInv, BothStreams DEF SerialInv
<1>5. handed' = handed \o w /\ active["tx"] = <<>> /\ handed = mark
  BY <1>1, AtRest DEF Queue, SerialInv, WriteInStep
<1>6. drv' \in {"xmit", "idle"}
  BY <1>1, <1>5 DEF Queue, Sync, StartXmit
<1>7. CallInStep'
  BY <1>1, <1>2, <1>6 DEF CallInStep
<1>8. WriteInStep'
  BY <1>1, <1>5 DEF WriteInStep, w
<1> QED BY <1>1, <1>4, <1>7, <1>8, QueueCounts, BothStreams DEF SerialInv

LEMMA ReadQueueInv == ASSUME SerialInv, ReadQueue PROVE SerialInv'
<1>1. /\ pc = "r_queue" /\ pc' = "r_poll" /\ Queue("rx", pkt, <<>>, Len(req))
      /\ UNCHANGED <<req, pkt, mark, fails, reads>>
  BY DEF ReadQueue
<1>2. Len(req) \in Nat \ {0} /\ mark \in Seq(Char) /\ <<>> \in Seq(Char) /\ "rx" # "tx"
  BY <1>1, EmptySeq DEF SerialInv, CallInStep
<1>3. UartInv'
  BY <1>1, <1>2, QueueInv, BothStreams DEF SerialInv
<1>4. drv = "idle"
  BY <1>1, AtRest
<1>5. drv' \in {"rx", "idle"}
  BY <1>1, <1>4 DEF Queue, Sync, StartRx
<1>6. CallInStep' /\ WriteInStep'
  BY <1>1, <1>2, <1>5 DEF CallInStep, WriteInStep
<1> QED BY <1>1, <1>3, <1>6, QueueCounts, BothStreams DEF SerialInv

\* A failed malloc leaves the packet held for good.
LEMMA WriteNoMemoryInv == ASSUME SerialInv, WriteNoMemory PROVE SerialInv'
<1>1. /\ pc = "w_buf" /\ pc' = "idle" /\ fails' = fails + 1
      /\ UNCHANGED uartVars /\ UNCHANGED <<req, pkt, mark, reads>>
  BY DEF WriteNoMemory
<1>2. UartInv' /\ UNCHANGED <<drv, wire, handed>> /\ UNCHANGED listVars
  BY <1>1, StutterInv DEF SerialInv, uartVars
<1>3. Total' = Total /\ held' = held
  BY <1>2, SameTotal
<1>4. drv = "idle"
  BY <1>1, AtRest
<1>5. CallInStep' /\ WriteInStep'
  BY <1>1, <1>2, <1>4 DEF SerialInv, CallInStep, WriteInStep
<1>6. Cardinality(held) = fails + 1 /\ fails \in Nat
  BY <1>1 DEF SerialInv, Counted, InCall
<1>7. Counted'
  BY <1>1, <1>3, <1>6 DEF SerialInv, Counted, InCall
<1> QED BY <1>2, <1>5, <1>7 DEF SerialInv

LEMMA ReturnInv == ASSUME SerialInv, WriteReturn \/ ReadReturn PROVE SerialInv'
<1>1. /\ pc \in {"w_poll", "r_poll"} /\ pc' = "idle" /\ drv = "idle"
      /\ UNCHANGED uartVars /\ UNCHANGED <<req, pkt, mark, fails, reads>>
  BY DEF WriteReturn, ReadReturn
<1>2. UartInv' /\ UNCHANGED <<drv, wire, handed>> /\ UNCHANGED listVars
  BY <1>1, StutterInv DEF SerialInv, uartVars
<1>3. Total' = Total /\ held' = held
  BY <1>2, SameTotal
<1>4. CallInStep' /\ WriteInStep'
  BY <1>1, <1>2 DEF SerialInv, CallInStep, WriteInStep
<1>5. Counted'
  BY <1>1, <1>3 DEF SerialInv, Counted, InCall
<1> QED BY <1>2, <1>4, <1>5 DEF SerialInv

LEMMA SerialStutterInv == ASSUME SerialInv, UNCHANGED vars PROVE SerialInv'
<1>1. /\ UNCHANGED uartVars /\ UNCHANGED <<pc, req, pkt, mark, fails, reads>>
  BY DEF vars
<1>2. UartInv' /\ UNCHANGED <<drv, wire, handed, completed>> /\ UNCHANGED listVars
  BY <1>1, StutterInv DEF SerialInv, uartVars, listVars
<1>3. Total' = Total /\ held' = held
  BY <1>2, SameTotal
<1>4. CallInStep' /\ WriteInStep' /\ Counted'
  BY <1>1, <1>2, <1>3 DEF SerialInv, CallInStep, WriteInStep, Counted, InCall
<1> QED BY <1>2, <1>4 DEF SerialInv

LEMMA SerialInit == ASSUME Init PROVE SerialInv
<1>1. UartInv
  BY InitInv DEF Init
<1>2. /\ pc = "idle" /\ mark = <<>> /\ fails = 0 /\ drv = "idle" /\ held = {}
      /\ pool = [i \in Packets |-> i]
      /\ active = [s \in Streams |-> <<>>] /\ completed = [s \in Streams |-> <<>>]
  BY DEF Init, UartInit, InitLists
<1>3. CallInStep /\ WriteInStep
  BY <1>2, EmptySeq DEF CallInStep, WriteInStep
<1>4. Counted
  <2>1. Len(pool) = NumPackets /\ NumPackets \in Nat
    BY <1>2, UartAssumption DEF UartAssumption, Packets
  <2>2. IsFiniteSet(held) /\ Cardinality(held) = 0
    BY <1>2, FS_EmptySet
  <2>3. /\ Len(active["tx"]) = 0 /\ Len(active["rx"]) = 0
        /\ Len(completed["tx"]) = 0 /\ Len(completed["rx"]) = 0
    BY <1>2, BothStreams, EmptySeq
  <2>4. Total = NumPackets
    BY <2>1, <2>2, <2>3 DEF Total, SumOf
  <2> QED BY <1>2, <2>2, <2>4 DEF Counted, InCall
<1> QED BY <1>1, <1>3, <1>4 DEF SerialInv

LEMMA SerialNext == ASSUME SerialInv, [Next]_vars PROVE SerialInv'
<1>1. ASSUME NEW n \in Counts, NEW d \in [1 .. n -> Char \ {CtrlK, CR, Junk}], Write(d)
      PROVE  SerialInv'
  <2>1. n \in Nat /\ d \in [1 .. n -> Char]
    BY SerialAssumption DEF SerialAssumption
  <2>2. d \in Seq(Char) /\ Len(d) = n
    BY <2>1
  <2> QED BY <1>1, <2>2, WriteInv
<1>2. ASSUME NEW n \in 1 .. MaxLength, Read(n) PROVE SerialInv'
  <2>1. n \in Nat \ {0}
    BY UartAssumption DEF UartAssumption
  <2> QED BY <1>2, <2>1, ReadInv
<1>3. CASE Call
  BY <1>3, AllocStepInv, WriteQueueInv, ReadQueueInv, WriteNoMemoryInv, ReturnInv DEF Call
<1>4. CASE (Driver \/ Device) /\ UNCHANGED callVars
  BY <1>4, SerialDriverInv
<1>5. CASE UNCHANGED vars
  BY <1>5, SerialStutterInv
<1> QED BY <1>1, <1>2, <1>3, <1>4, <1>5 DEF Next, Client
-----------------------------------------------------------------------------
LEMMA CountedIsAccounted == SerialInv => PacketsAccounted
BY DEF SerialInv, Counted, Total, SumOf, PacketsAccounted

LEMMA StarvedOnly == SerialInv => StarvedByReadsOnly
<1> SUFFICES ASSUME SerialInv, pc = "w_alloc", pool = <<>>
             PROVE  Packets = held \cup ToSet(active["rx"]) \cup ToSet(completed["rx"])
  BY DEF StarvedByReadsOnly
<1>1. active["tx"] = <<>> /\ completed["tx"] = <<>>
  BY AtRest DEF SerialInv, WriteInStep
<1>2. ToSet(pool) = {} /\ ToSet(active["tx"]) = {} /\ ToSet(completed["tx"]) = {}
  BY <1>1, EmptyQueue
<1>3. ASSUME NEW p \in Packets
      PROVE  p \in held \cup ToSet(active["rx"]) \cup ToSet(completed["rx"])
  <2>1. \/ p \in ToSet(pool) \cup held
        \/ \E s \in Streams : p \in ToSet(active[s]) \cup ToSet(completed[s])
    BY DEF SerialInv, UartInv, Homes, AllHome
  <2> QED BY <1>2, <2>1, BothStreams
<1>4. /\ held \subseteq Packets
      /\ ToSet(active["rx"]) \subseteq Packets /\ ToSet(completed["rx"]) \subseteq Packets
  BY BothStreams, HeadIs DEF SerialInv, UartInv, Homes, ListsTyped
<1> QED BY <1>3, <1>4

\* What serial_write has put on the wire when it is done: what it found there
\* and the buffer of its packet.
WireGetsBuffer == pc = "w_poll" /\ drv = "idle" => wire = mark \o WireForm(req)

LEMMA BufferIsSent == SerialInv => WireGetsBuffer
<1> SUFFICES ASSUME SerialInv, pc = "w_poll", drv = "idle" PROVE wire = mark \o WireForm(req)
  BY DEF WireGetsBuffer
<1>1. handed = wire
  BY DEF SerialInv, UartInv, LoopAtHead, Sent
<1> QED BY <1>1 DEF SerialInv, WriteInStep

\* The buffer is what the caller asked for when the caller's count is one.
LEMMA OneCharacter ==
  ASSUME NEW d \in Seq(Char), Len(d) = 1 PROVE WireForm(d) = Expected(d)
<1>1. CASE d[Len(d)] # NL
  BY <1>1 DEF WireForm, Expected
<1>2. CASE d[Len(d)] = NL
  <2>1. WireForm(d) =
          [i \in 1 .. 2 |-> IF i < 1 THEN Junk ELSE IF i = 1 THEN CR ELSE NL]
    BY <1>2 DEF WireForm
  <2>2. WireForm(d) = <<CR, NL>>
    BY <2>1
  <2>3. SubSeq(d, 1, Len(d) - 1) = <<>>
    BY SubSeqEmpty
  <2>4. Expected(d) = <<>> \o <<CR, NL>>
    BY <1>2, <2>3 DEF Expected
  <2> QED BY <2>2, <2>4
<1> QED BY <1>1, <1>2

LEMMA ExactForOne == ASSUME Counts \subseteq {1} PROVE SerialInv => WriteIsExact
<1> SUFFICES ASSUME SerialInv, pc = "w_poll", drv = "idle" PROVE wire = mark \o Expected(req)
  BY DEF WriteIsExact
<1>1. req \in Seq(Char) /\ Len(req) = 1
  BY DEF SerialInv, CallInStep
<1> QED BY <1>1, BufferIsSent, OneCharacter DEF WireGetsBuffer

\* Every packet of the serial device is accounted for; those that belong to no
\* call and no queue are the ones failed mallocs have lost.
THEOREM SerialPacketsAccounted == Spec => []PacketsAccounted
<1>1. Init => SerialInv
  BY SerialInit
<1>2. SerialInv /\ [Next]_vars => SerialInv'
  BY SerialNext
<1> QED BY <1>1, <1>2, CountedIsAccounted, PTL DEF Spec

\* A write that finds no free packet has been starved by reads and by failed
\* mallocs, never by the writes before it.
THEOREM SerialStarvedByReadsOnly == Spec => []StarvedByReadsOnly
<1>1. Init => SerialInv
  BY SerialInit
<1>2. SerialInv /\ [Next]_vars => SerialInv'
  BY SerialNext
<1> QED BY <1>1, <1>2, StarvedOnly, PTL DEF Spec

\* Whatever the counts, a write puts its packet's buffer on the wire, once and
\* behind what was there.
THEOREM SerialWireGetsBuffer == Spec => []WireGetsBuffer
<1>1. Init => SerialInv
  BY SerialInit
<1>2. SerialInv /\ [Next]_vars => SerialInv'
  BY SerialNext
<1> QED BY <1>1, <1>2, BufferIsSent, PTL DEF Spec

\* For the writes of one character that stdio makes, that is the character
\* with its carriage return.
THEOREM SerialWriteIsExact == ASSUME Counts \subseteq {1} PROVE Spec => []WriteIsExact
<1>1. Init => SerialInv
  BY SerialInit
<1>2. SerialInv /\ [Next]_vars => SerialInv'
  BY SerialNext
<1>3. SerialInv => WriteIsExact
  BY ExactForOne
<1> QED BY <1>1, <1>2, <1>3, PTL DEF Spec
-----------------------------------------------------------------------------
(***************************************************************************)
(* Standard input and output: for every heap and every length of the       *)
(* message that the set-up prints, that is, however deep the calls nest.   *)
(***************************************************************************)

Results == {"uninitialised", "ok", "failed"}
Call_ == [at : {"enter", "setup", "return"}, left : Nat, by : {"stdio", "program"}]

\* StdioTypeOK, as far as the proof needs it: the bounds on heap and left do not
\* matter.
Types ==
  /\ serial_init_result \in Results
  /\ fn \in [Files -> {"init", "serial", "null"}]
  /\ stack \in Seq(Call_)
  /\ heap \in Nat /\ segment \in BOOLEAN

\* No file has a handler of its own: all wait for the first transfer, or all
\* have what the result calls for.
Agree ==
  \/ \A f \in Files : fn[f] = "init"
  \/ /\ serial_init_result # "uninitialised"
     /\ \A f \in Files : fn[f] = Handler

\* A call returns with a result.  Only the set-up without a segment prints,
\* so that calls nest only there, where the result is never "ok"; with a
\* segment the one call there is finds the result that it is about to set
\* unset.
StdioInv ==
  /\ Types
  /\ Agree
  /\ \A i \in 1 .. Len(stack) :
       stack[i].at = "return" => serial_init_result # "uninitialised"
  /\ segment => /\ Len(stack) <= 1
                /\ In("setup") => serial_init_result = "uninitialised"
  /\ ~segment => serial_init_result # "ok"
-----------------------------------------------------------------------------
\* A sequence is a function on 1 .. n; the only one of length 0 is empty.
LEMMA ASeq ==
  ASSUME NEW S, NEW f, NEW n \in Nat, f \in [1 .. n -> S]
  PROVE  f \in Seq(S) /\ Len(f) = n
OBVIOUS

LEMMA NoneLeft ==
  ASSUME NEW S, NEW s \in Seq(S), Len(s) = 0
  PROVE  s = <<>>
OBVIOUS

\* Changing fields of the innermost call leaves the others.
LEMMA GoTypes ==
  ASSUME stack \in Seq(Call_), stack # <<>>, NEW where \in {"enter", "setup", "return"}
  PROVE  LET new == [stack EXCEPT ![Len(stack)].at = where] IN
         /\ new \in Seq(Call_) /\ Len(new) = Len(stack)
         /\ new[Len(stack)].at = where
         /\ \A i \in 1 .. Len(stack) - 1 : new[i] = stack[i]
<1> DEFINE new == [stack EXCEPT ![Len(stack)].at = where]
<1>1. Len(stack) \in 1 .. Len(stack) /\ DOMAIN stack = 1 .. Len(stack)
  OBVIOUS
<1>2. stack[Len(stack)] \in Call_
  BY <1>1
<1>3. [stack[Len(stack)] EXCEPT !.at = where] \in Call_
  BY <1>2 DEF Call_
<1>4. new = [i \in 1 .. Len(stack) |->
               IF i = Len(stack) THEN [stack[Len(stack)] EXCEPT !.at = where]
               ELSE stack[i]]
  BY <1>1
<1>5. \A i \in 1 .. Len(stack) : stack[i] \in Call_
  OBVIOUS
<1>6. new \in [1 .. Len(stack) -> Call_] /\ Len(stack) \in Nat
  BY <1>3, <1>4, <1>5
<1>7. new \in Seq(Call_) /\ Len(new) = Len(stack)
  BY <1>6
<1>8. [stack[Len(stack)] EXCEPT !.at = where].at = where
  BY <1>2 DEF Call_
<1> QED
  BY <1>1, <1>4, <1>7, <1>8

LEMMA PrintTypes ==
  ASSUME stack \in Seq(Call_), stack # <<>>, stack[Len(stack)].left > 0
  PROVE  LET new == [stack EXCEPT ![Len(stack)].left = @ - 1] IN
         /\ new \in Seq(Call_) /\ Len(new) = Len(stack)
         /\ \A i \in 1 .. Len(stack) : new[i].at = stack[i].at
<1> DEFINE last == stack[Len(stack)]
           n == last.left - 1
           new == [stack EXCEPT ![Len(stack)].left = n]
<1>1. Len(stack) \in 1 .. Len(stack) /\ DOMAIN stack = 1 .. Len(stack)
  OBVIOUS
<1>2. last \in Call_
  BY <1>1
<1>3. n \in Nat
  BY <1>2 DEF Call_
<1> HIDE DEF n
<1>4. [last EXCEPT !.left = n] \in Call_ /\ [last EXCEPT !.left = n].at = last.at
  BY <1>2, <1>3 DEF Call_
<1>5. new = [i \in 1 .. Len(stack) |->
               IF i = Len(stack) THEN [last EXCEPT !.left = n] ELSE stack[i]]
  BY <1>1
<1>6. \A i \in 1 .. Len(stack) : stack[i] \in Call_
  OBVIOUS
<1> HIDE DEF last
<1>7. new \in [1 .. Len(stack) -> Call_] /\ Len(stack) \in Nat
  BY <1>4, <1>5, <1>6
<1>8. new \in Seq(Call_) /\ Len(new) = Len(stack)
  BY <1>7
<1>9. \A i \in 1 .. Len(stack) : new[i].at = stack[i].at
  BY <1>1, <1>4, <1>5 DEF last
<1> QED
  BY <1>8, <1>9 DEF n, last

\* Going on to another point of serial_init keeps the invariant, unless the
\* result is missing where it is needed.
LEMMA GoInv ==
  ASSUME StdioInv, NEW at \in {"enter", "setup", "return"}, NEW from, In(from), Go(at),
         fn' = fn, heap' \in Nat, segment' = segment,
         serial_init_result' \in Results,
         at = "return" => serial_init_result' # "uninitialised",
         at = "setup" /\ segment => serial_init_result' = "uninitialised",
         ~segment => serial_init_result' # "ok",
         \/ serial_init_result' = serial_init_result
         \/ \A f \in Files : fn[f] = "init"
         \/ ~segment /\ serial_init_result' = "failed",
         serial_init_result # "uninitialised"
           => serial_init_result' # "uninitialised"
  PROVE  StdioInv'
<1>1. stack \in Seq(Call_) /\ stack # <<>>
  BY DEF StdioInv, Types, In
<1>2. /\ stack' \in Seq(Call_) /\ Len(stack') = Len(stack)
      /\ stack'[Len(stack)].at = at
      /\ \A i \in 1 .. Len(stack) - 1 : stack'[i] = stack[i]
  BY <1>1, GoTypes DEF Go
<1>3. Types'
  BY <1>2 DEF StdioInv, Types
<1>4. Agree'
  <2>1. CASE \A f \in Files : fn[f] = "init"
    BY <2>1 DEF Agree
  <2>2. CASE /\ serial_init_result # "uninitialised"
             /\ \A f \in Files : fn[f] = Handler
    <3>1. CASE serial_init_result' = serial_init_result
      BY <2>2, <3>1 DEF Agree, Handler
    <3>2. CASE \A f \in Files : fn[f] = "init"
      BY <3>2 DEF Agree
    <3>3. CASE ~segment /\ serial_init_result' = "failed"
      <4>1. Handler = "null" /\ Handler' = "null"
        BY <3>3 DEF StdioInv, Handler
      <4> QED BY <2>2, <3>3, <4>1 DEF Agree
    <3> QED BY <3>1, <3>2, <3>3
  <2> QED BY <2>1, <2>2 DEF StdioInv, Agree
<1>5. \A i \in 1 .. Len(stack') :
        stack'[i].at = "return" => serial_init_result' # "uninitialised"
  <2>1. \A i \in 1 .. Len(stack) - 1 :
          stack'[i].at = "return" => serial_init_result # "uninitialised"
    BY <1>1, <1>2 DEF StdioInv
  <2>2. Len(stack) \in Nat
    BY <1>1
  <2> QED BY <1>2, <2>1, <2>2
<1>6. segment' => /\ Len(stack') <= 1
                  /\ In("setup")' => serial_init_result' = "uninitialised"
  BY <1>2 DEF StdioInv, In, Top
<1> QED
  BY <1>3, <1>4, <1>5, <1>6 DEF StdioInv

\* A call on top of others: the ones below are as they were, but for the
\* count of what the innermost has left to print.
LEMMA EnterInv ==
  ASSUME StdioInv, Message \in Nat, NEW here \in Seq(Call_), NEW by \in {"stdio", "program"},
         Len(here) = Len(stack),
         \A i \in 1 .. Len(stack) : here[i].at = stack[i].at,
         stack' = Append(here, Enter(by)), segment => stack = <<>>,
         UNCHANGED <<serial_init_result, fn, heap, segment>>
  PROVE  StdioInv'
<1>1. Enter(by) \in Call_ /\ Enter(by).at = "enter"
  BY DEF Enter, Call_
<1>2. /\ stack' \in Seq(Call_) /\ Len(stack') = Len(stack) + 1
      /\ \A i \in 1 .. Len(stack) : stack'[i].at = stack[i].at
      /\ stack'[Len(stack) + 1].at = "enter" /\ Len(stack) \in Nat
  <2>1. Len(here) \in Nat /\ stack \in Seq(Call_)
    BY DEF StdioInv, Types
  <2> QED BY <1>1, <2>1
<1>3. Types' /\ Agree'
  BY <1>2 DEF StdioInv, Types, Agree, Handler
<1>4. \A i \in 1 .. Len(stack') :
        stack'[i].at = "return" => serial_init_result' # "uninitialised"
  <2> SUFFICES ASSUME NEW i \in 1 .. Len(stack) + 1, stack'[i].at = "return"
               PROVE  serial_init_result # "uninitialised"
    BY <1>2
  <2>1. i \in 1 .. Len(stack)
    BY <1>2
  <2> QED BY <1>2, <2>1 DEF StdioInv
<1>5. segment' => Len(stack') <= 1 /\ ~In("setup")'
  BY <1>2 DEF In, Top
<1> QED
  BY <1>2, <1>3, <1>4, <1>5 DEF StdioInv

LEMMA StdioInitInv == ASSUME Heap \in Nat, StdioInit PROVE StdioInv
BY DEF StdioInit, StdioInv, Types, Agree, Files, Results, Call_, In

\* A call that returns leaves its callers where they were.
LEMMA StdioReturnInv ==
  ASSUME StdioInv, In("return"), stack' = SubSeq(stack, 1, Len(stack) - 1),
         fn' = fn \/ fn' = [f \in Files |-> Handler],
         UNCHANGED <<serial_init_result, heap, segment>>
  PROVE  StdioInv'
<1>1. stack \in Seq(Call_) /\ stack # <<>> /\ Top.at = "return"
  BY DEF StdioInv, Types, In
<1>2. Len(stack) \in 1 .. Len(stack) /\ serial_init_result # "uninitialised"
  BY <1>1 DEF StdioInv, Top
<1>3. /\ stack' \in Seq(Call_) /\ Len(stack') = Len(stack) - 1
      /\ \A i \in 1 .. Len(stack') : stack'[i] = stack[i]
  <2> DEFINE n == Len(stack) - 1
  <2>1. n \in Nat /\ Len(stack) \in Nat /\ n + 1 = Len(stack)
    BY <1>1, <1>2
  <2>2. \A i \in 1 .. n : stack[i] \in Call_
    BY <1>1, <2>1
  <2>3. stack' = [i \in 1 .. n |-> stack[i]]
    BY <1>1, <2>1
  <2>4. stack' \in [1 .. n -> Call_]
    BY <2>2, <2>3
  <2>5. stack' \in Seq(Call_) /\ Len(stack') = n
    <3> HIDE DEF n
    <3> QED BY <2>1, <2>4, ASeq
  <2> QED BY <2>3, <2>5
<1>4. Types' /\ Agree'
  BY <1>2, <1>3 DEF StdioInv, Types, Agree, Handler
<1>5. segment' => Len(stack') <= 1 /\ ~In("setup")'
  <2> SUFFICES ASSUME segment PROVE stack' = <<>>
    <3>1. stack' = <<>> => Len(stack') <= 1 /\ ~In("setup")'
      BY DEF In
    <3> QED BY <3>1
  <2>1. Len(stack) <= 1
    BY DEF StdioInv
  <2>2. Len(stack') = 0
    BY <1>2, <1>3, <2>1
  <2> QED BY <1>3, <2>2, NoneLeft
<1> QED
  BY <1>2, <1>3, <1>4, <1>5 DEF StdioInv

LEMMA StdioNextInv ==
  ASSUME Message \in Nat, StdioInv, [StdioNext]_stdioVars PROVE StdioInv'
<1>1. stack \in Seq(Call_) /\ heap \in Nat /\ segment \in BOOLEAN
  BY DEF StdioInv, Types
<1>2. ASSUME NEW f \in Files, Transfer(f), stack = <<>> PROVE StdioInv'
  <2>1. CASE fn[f] = "init"
    <3>1. stack' = Append(stack, Enter("stdio"))
      BY <1>2, <2>1 DEF Transfer
    <3> QED BY <1>1, <1>2, <3>1, EnterInv DEF Transfer
  <2>2. CASE fn[f] # "init"
    BY <1>2, <2>2 DEF Transfer, StdioInv, Types, Agree, Handler, In
  <2> QED BY <2>1, <2>2
<1>3. CASE CallInit
  <2>1. stack' = Append(stack, Enter("program")) /\ stack = <<>>
    BY <1>3 DEF CallInit
  <2> QED BY <1>1, <1>3, <2>1, EnterInv DEF CallInit
<1>4. CASE Again
  BY <1>1, <1>4, GoInv DEF Again, StdioInv, Types
<1>5. CASE AllocDevice
  <2>1. heap' \in Nat /\ ~segment => serial_init_result # "ok"
    BY <1>1, <1>5 DEF AllocDevice, StdioInv
  <2> QED BY <1>1, <1>5, <2>1, GoInv DEF AllocDevice, StdioInv, Types
<1>6. CASE AllocDeviceFails
  <2>1. \A f \in Files : fn[f] = "init"
    BY <1>6 DEF AllocDeviceFails, StdioInv, Agree
  <2> QED BY <1>1, <1>6, <2>1, GoInv DEF AllocDeviceFails, Results
<1>7. CASE Setup
  <2>1. serial_init_result = "uninitialised"
    BY <1>7 DEF Setup, StdioInv
  <2>2. \A f \in Files : fn[f] = "init"
    BY <2>1 DEF StdioInv, Agree
  <2> QED BY <1>1, <1>7, <2>1, <2>2, GoInv DEF Setup, Results
<1>8. CASE SetupPrints
  <2> DEFINE here == [stack EXCEPT ![Len(stack)].left = @ - 1]
  <2>6. /\ here \in Seq(Call_) /\ Len(here) = Len(stack)
        /\ \A i \in 1 .. Len(stack) : here[i].at = stack[i].at
    <3>1. stack # <<>> /\ stack[Len(stack)].left > 0
      BY <1>8 DEF SetupPrints, In, Top
    <3> QED BY <1>1, <3>1, PrintTypes
  <2>7. ~segment
    BY <1>8 DEF SetupPrints
  <2> HIDE DEF here
  <2>8. CASE fn["stdout"] = "init"
    <3>1. /\ stack' = Append(here, Enter("stdio"))
          /\ UNCHANGED <<serial_init_result, fn, heap, segment>>
      BY <1>8, <2>8 DEF SetupPrints, here
    <3> QED BY <2>6, <2>7, <3>1, EnterInv
  <2>9. CASE fn["stdout"] # "init"
    <3>1. stack' = here /\ UNCHANGED <<serial_init_result, fn, heap, segment>>
      BY <1>8, <2>9 DEF SetupPrints, here
    <3> QED BY <2>6, <2>7, <3>1 DEF StdioInv, Types, Agree, Handler
  <2> QED BY <2>8, <2>9
<1>9. CASE SetupFails
  BY <1>1, <1>9, GoInv DEF SetupFails, Results
<1>10. CASE Switch
  BY <1>10, StdioReturnInv DEF Switch
<1>11. CASE ReturnInit
  BY <1>11, StdioReturnInv DEF ReturnInit
<1>12. CASE UNCHANGED stdioVars
  BY <1>12 DEF stdioVars, StdioInv, Types, Agree, Handler, In, Top
<1> QED
  BY <1>2, <1>3, <1>4, <1>5, <1>6, <1>7, <1>8, <1>9, <1>10, <1>11, <1>12
  DEF StdioNext, Step, CallTransfer

\* Between two calls the three files have the same handler, and the one that
\* the outcome of serial_init calls for, for every heap and message.
THEOREM StdioHandlers ==
  ASSUME Heap \in Nat, Message \in Nat
  PROVE  StdioSpec => []HandlersFollowResult
<1>1. StdioInit => StdioInv
  BY StdioInitInv
<1>2. StdioInv /\ [StdioNext]_stdioVars => StdioInv'
  BY StdioNextInv
<1>3. StdioInv => HandlersFollowResult
  BY DEF StdioInv, Agree, HandlersFollowResult
<1> QED
  BY <1>1, <1>2, <1>3, PTL DEF StdioSpec
-----------------------------------------------------------------------------
(***************************************************************************)
(* The SP804 timer: for every width of the counter and of the count, every *)
(* delay within half the range of the count, and every hardware that keeps *)
(* to Timing.                                                              *)
(***************************************************************************)

\* What the driver asks of the hardware's timing.  An interrupt is taken
\* before the counter, which falls from TIME_MAX at most, comes round again
\* (the comment at sp804_timer.c:84-94); the reload comes within one round of
\* the reading; and the timer does not expire again before the interrupt is
\* acknowledged, which a reload of one tick leaves no time for.
Timing ==
  /\ TIME_MAX + Latency < Full /\ MaxGap < Full
  /\ Latency + MaxGap <= Epoch \div 2
  /\ AckDelay = 0

\* What is left of the armed timeout by the driver's count.
Remaining == Signed(Wrapped(timeout - ticks))
Armed == timeout # 0 /\ left # Void

\* While no interrupt is raised the counter has not wrapped since it was last
\* read or loaded; once it is raised, the ticks since then are bounded by how
\* long it has waited, or by the length of the handler's step.
CountedTicks ==
  /\ CountHonest /\ since < Full
  /\ ~raw => /\ stage # "ack"
             /\ tvalue \in 1 .. TIME_MAX /\ count_from \in 1 .. TIME_MAX
             /\ count_from = tvalue + since
  /\ raw /\ stage = "idle" => since <= TIME_MAX + late
  /\ stage = "load" => since <= MaxGap /\ (caller = "irq" => raw)
  /\ stage = "ack" => raw /\ since = 0 /\ tvalue = toLoad /\ count_from = toLoad

\* The true time to the deadline is what the count says without the ticks not
\* yet counted, give or take the ticks that reloads have lost; and the counter
\* is loaded so as to reach zero no later than the deadline.
Due ==
  /\ stage = "load" /\ expired /\ left # Void => left <= 0
  /\ Armed =>
       /\ left <= Remaining - since
       /\ left >= Remaining - since - lag \/ lag = Void
       /\ stage = "load" => toLoad <= Remaining
       /\ stage = "ack" \/ (stage = "idle" /\ ~raw) => tvalue <= Remaining - since
       /\ stage = "idle" /\ raw => Remaining - since >= -late

TimerInv == TimerTypeOK /\ CountedTicks /\ Due
-----------------------------------------------------------------------------
(* Arithmetic modulo the two ranges.                                        *)

LEMMA SmallMod ==
  ASSUME NEW n \in Nat, n > 0, NEW a \in Int, -n <= a, a < 2 * n
  PROVE  a % n = IF a < 0 THEN a + n ELSE IF a < n THEN a ELSE a - n
OBVIOUS

LEMMA Ranges ==
  /\ Full \in Nat /\ Full > 3 /\ Epoch \in Nat /\ Epoch >= Full
  /\ TIME_MAX \in Nat /\ TIME_MAX >= 1 /\ TIME_MAX < Full
  /\ Epoch \div 2 \in Nat /\ 2 * (Epoch \div 2) <= Epoch
  /\ Epoch <= 2 * (Epoch \div 2) + 1
  /\ Latency \in Nat /\ MaxGap \in Nat /\ AckDelay \in Nat
  /\ \A d \in Delays : d \in Int /\ -(Epoch \div 2) <= d /\ d < Epoch \div 2
BY TimerAssumption DEF TimerAssumption, TIME_MAX

LEMMA Waits == Latency \in Nat /\ MaxGap \in Nat
BY TimerAssumption DEF TimerAssumption

LEMMA NotBelow ==
  ASSUME NEW a \in Nat, NEW b \in Int
  PROVE  /\ a <= b => b >= 0
         /\ \A m \in Nat : a <= m /\ b >= -a => b >= -m
OBVIOUS

LEMMA Test ==
  ASSUME NEW r \in Int, NEW e, e = (r <= 0) PROVE e \in BOOLEAN /\ (e => r <= 0)
<1>1. e \in BOOLEAN
  OBVIOUS
<1>2. e => r <= 0
  OBVIOUS
<1> QED BY <1>1, <1>2, Zenon

\* The difference of two readings.
LEMMA ElapsedIs ==
  ASSUME NEW from \in 0 .. Full - 1, NEW to \in 0 .. Full - 1
  PROVE  Elapsed(from, to) = IF from < to THEN from - to + Full ELSE from - to
BY Ranges, SmallMod DEF Elapsed

\* One more tick is one more elapsed, unless the counter came round.
LEMMA ElapsedTick ==
  ASSUME NEW from \in 0 .. Full - 1, NEW to \in 0 .. Full - 1,
         Elapsed(from, to) + 1 < Full
  PROVE  /\ (to - 1) % Full \in 0 .. Full - 1
         /\ Elapsed(from, (to - 1) % Full) = Elapsed(from, to) + 1
<1>1. (to - 1) % Full = IF to = 0 THEN Full - 1 ELSE to - 1
  BY Ranges, SmallMod
<1>2. (to - 1) % Full \in 0 .. Full - 1
  BY <1>1, Ranges
<1> QED BY <1>1, <1>2, ElapsedIs, Ranges

LEMMA WrappedIs ==
  ASSUME NEW a \in Int, -Epoch <= a, a < 2 * Epoch
  PROVE  /\ Wrapped(a) = IF a < 0 THEN a + Epoch ELSE IF a < Epoch THEN a ELSE a - Epoch
         /\ Wrapped(a) \in 0 .. Epoch - 1
BY Ranges, SmallMod DEF Wrapped

\* Counting s ticks takes s from what remains of a timeout.
LEMMA RemainingLess ==
  ASSUME NEW t \in 0 .. Epoch - 1, NEW k \in 0 .. Epoch - 1, NEW s \in 0 .. Full - 1,
         Signed(Wrapped(t - k)) - s >= -(Epoch \div 2)
  PROVE  Signed(Wrapped(t - Wrapped(k + s))) = Signed(Wrapped(t - k)) - s
<1>1. Wrapped(t - k) = IF t < k THEN t - k + Epoch ELSE t - k
  BY WrappedIs, Ranges
<1>2. /\ Wrapped(k + s) = IF k + s < Epoch THEN k + s ELSE k + s - Epoch
      /\ Wrapped(k + s) \in 0 .. Epoch - 1
  BY WrappedIs, Ranges
<1>3. Wrapped(t - Wrapped(k + s)) =
        IF t < Wrapped(k + s) THEN t - Wrapped(k + s) + Epoch ELSE t - Wrapped(k + s)
  BY <1>2, WrappedIs, Ranges
<1> QED BY <1>1, <1>2, <1>3, Ranges DEF Signed

\* A new timeout is as far ahead as the client asked.
LEMMA RemainingNew ==
  ASSUME NEW k \in 0 .. Epoch - 1, NEW d \in Delays
  PROVE  /\ Wrapped(k + d) \in 0 .. Epoch - 1
         /\ Signed(Wrapped(Wrapped(k + d) - k)) = d
<1>1. /\ Wrapped(k + d) = IF k + d < 0 THEN k + d + Epoch
                          ELSE IF k + d < Epoch THEN k + d ELSE k + d - Epoch
      /\ Wrapped(k + d) \in 0 .. Epoch - 1
  BY WrappedIs, Ranges
<1>2. Wrapped(Wrapped(k + d) - k) =
        IF Wrapped(k + d) < k THEN Wrapped(k + d) - k + Epoch ELSE Wrapped(k + d) - k
  BY <1>1, WrappedIs, Ranges
<1> QED BY <1>1, <1>2, Ranges DEF Signed

LEMMA RemainingInt ==
  ASSUME NEW t \in 0 .. Epoch - 1, NEW k \in 0 .. Epoch - 1
  PROVE  /\ Signed(Wrapped(t - k)) \in Int
         /\ -Epoch <= Signed(Wrapped(t - k)) /\ Signed(Wrapped(t - k)) < Epoch
BY WrappedIs, Ranges DEF Signed

LEMMA Numbers ==
  ASSUME TimerTypeOK
  PROVE  /\ Remaining \in Int /\ since \in Nat
         /\ left \in Int /\ left >= -Epoch /\ lag \in 0 .. Epoch
         /\ tvalue \in Nat /\ toLoad \in Nat /\ toLoad >= 1
         /\ late \in Nat /\ late <= Latency
<1>1. Remaining \in Int
  <2>1. timeout \in 0 .. Epoch - 1 /\ ticks \in 0 .. Epoch - 1
    BY DEF TimerTypeOK
  <2> QED BY <2>1, RemainingInt DEF Remaining
<1>2. /\ since \in Nat /\ left \in Int /\ left >= -Epoch /\ lag \in 0 .. Epoch
      /\ late \in Nat /\ late <= Latency
  BY Ranges DEF TimerTypeOK
<1>3. tvalue \in Nat /\ toLoad \in Nat /\ toLoad >= 1
  BY Ranges DEF TimerTypeOK
<1> QED BY <1>1, <1>2, <1>3
-----------------------------------------------------------------------------
(* The steps.                                                               *)

\* Reading the counter brings the count up to date; what is left of an armed
\* timeout is then what the ticks since the last reading have left of it.
LEMMA Updated ==
  ASSUME Timing, TimerInv, UpdateTicks
  PROVE  /\ ticks' \in 0 .. Epoch - 1 /\ count_from' = tvalue /\ since' = 0
         /\ Elapsed(tvalue, tvalue) = 0
         /\ Armed => Signed(Wrapped(timeout - ticks')) = Remaining - since
<1>1. /\ ticks' = Wrapped(ticks + since) /\ since \in 0 .. Full - 1
      /\ count_from' = tvalue /\ since' = 0
  BY Ranges DEF TimerInv, TimerTypeOK, CountedTicks, CountHonest, UpdateTicks
<1>2. ticks' \in 0 .. Epoch - 1
  BY <1>1, WrappedIs, Ranges DEF TimerInv, TimerTypeOK
<1>3. Elapsed(tvalue, tvalue) = 0
  BY ElapsedIs, Ranges DEF TimerInv, TimerTypeOK
<1>4. ASSUME Armed PROVE Signed(Wrapped(timeout - ticks')) = Remaining - since
  <2>1. Remaining \in Int
    BY RemainingInt DEF TimerInv, TimerTypeOK, Remaining
  <2>2. Remaining - since >= -(Latency + MaxGap)
    BY <1>4, <2>1, Ranges DEF TimerInv, TimerTypeOK, CountedTicks, Due
  <2>3. Latency + MaxGap <= Epoch \div 2
    BY DEF Timing
  <2>4. /\ timeout \in 0 .. Epoch - 1 /\ ticks \in 0 .. Epoch - 1
        /\ Latency \in Nat /\ MaxGap \in Nat
    BY Ranges DEF TimerInv, TimerTypeOK
  <2>5. Remaining - since >= -(Epoch \div 2)
    BY <1>1, <2>1, <2>2, <2>3, <2>4, Ranges
  <2> QED BY <1>1, <2>4, <2>5, RemainingLess DEF Remaining
<1> QED BY <1>1, <1>2, <1>3, <1>4

\* What is loaded is never zero and never more than what is left.
LEMMA Served ==
  ASSUME NEW t \in 0 .. Epoch - 1, ticks' \in 0 .. Epoch - 1, ServeTimeout(t)
  PROVE  /\ toLoad' \in 1 .. TIME_MAX /\ timeout' \in 0 .. Epoch - 1
         /\ expired' \in BOOLEAN /\ (expired' => Signed(Wrapped(t - ticks')) <= 0)
         /\ timeout' # 0 => timeout' = t /\ toLoad' <= Signed(Wrapped(t - ticks'))
<1> DEFINE r == Signed(Wrapped(t - ticks'))
<1>1. r \in Int
  BY RemainingInt
<1>2. /\ expired' = (r <= 0)
      /\ timeout' = IF r <= 0 THEN 0 ELSE t
      /\ toLoad' = IF r <= 0 THEN TIME_MAX ELSE IF r < TIME_MAX THEN r ELSE TIME_MAX
  BY DEF ServeTimeout, Less
<1> HIDE DEF r
<1>3. expired' \in BOOLEAN /\ (expired' => r <= 0)
  BY <1>1, <1>2, Test
<1>4. /\ toLoad' \in 1 .. TIME_MAX /\ timeout' \in 0 .. Epoch - 1
      /\ timeout' # 0 => timeout' = t /\ toLoad' <= r
  BY <1>1, <1>2, Ranges
<1> QED BY <1>3, <1>4 DEF r

LEMMA TimerInitInv == ASSUME Timing, TimerInit PROVE TimerInv
<1>1. Elapsed(TIME_MAX, TIME_MAX) = 0
  BY ElapsedIs, Ranges
<1>2. TimerTypeOK
  <2>1. raw \in BOOLEAN /\ enabled \in BOOLEAN /\ expired \in BOOLEAN
    BY DEF TimerInit
  <2>2. /\ tvalue \in 0 .. Full - 1 /\ count_from \in 0 .. Full - 1
        /\ timeout \in 0 .. Epoch - 1 /\ ticks \in 0 .. Epoch - 1
    BY Ranges DEF TimerInit
  <2>3. /\ toLoad \in 1 .. TIME_MAX
        /\ since \in 0 .. Full /\ lag \in 0 .. Epoch /\ late \in 0 .. Latency
        /\ left \in -Epoch .. Epoch
    BY Ranges DEF TimerInit, Void
  <2> QED BY <2>1, <2>2, <2>3 DEF TimerInit, TimerTypeOK
<1>3. CountedTicks /\ Due
  BY <1>1, Ranges DEF TimerInit, CountedTicks, CountHonest, Due, Armed
<1> QED BY <1>2, <1>3 DEF TimerInv

LEMMA TickInv == ASSUME Timing, TimerInv, Tick PROVE TimerInv'
<1>1. raw' \in BOOLEAN /\ (raw' <=> raw \/ tvalue = 1)
  BY Zenon DEF TimerInv, TimerTypeOK, Tick
<1>2. since + 1 < Full /\ stage # "ack" /\ stage \in {"idle", "load"}
  BY Ranges DEF TimerInv, TimerTypeOK, CountedTicks, Tick, CounterMayFall, Timing
<1>3. since' = since + 1
  BY <1>2, Ranges DEF TimerInv, TimerTypeOK, Tick, Less
<1>4. /\ tvalue' \in 0 .. Full - 1
      /\ Elapsed(count_from, tvalue') = Elapsed(count_from, tvalue) + 1
  BY <1>2, ElapsedTick DEF TimerInv, TimerTypeOK, CountedTicks, CountHonest, Tick
<1>5. tvalue > 0 => tvalue' = tvalue - 1
  BY SmallMod, Ranges DEF TimerInv, TimerTypeOK, Tick
<1>6. late' = IF raw THEN (IF late + 1 < Latency THEN late + 1 ELSE Latency) ELSE 0
  BY DEF Tick, Less
<1>7. UNCHANGED <<enabled, timeout, count_from, ticks, stage, caller, toLoad, expired, lag>>
  BY DEF Tick, fields, handler
<1>8. left' = IF left = Void THEN Void ELSE IF left - 1 < -Epoch THEN -Epoch ELSE left - 1
  BY DEF Tick, More
<1>9. TimerTypeOK'
  BY <1>1, <1>2, <1>3, <1>4, <1>6, <1>7, <1>8, Ranges DEF TimerInv, TimerTypeOK, Void
<1>10. CountedTicks'
  <2>1. CountHonest' /\ since' < Full
    BY <1>2, <1>3, <1>4, <1>7 DEF TimerInv, CountedTicks, CountHonest
  <2>2. ~raw' => /\ tvalue' \in 1 .. TIME_MAX /\ count_from' \in 1 .. TIME_MAX
                 /\ count_from' = tvalue' + since'
    BY <1>1, <1>3, <1>5, <1>7, Ranges DEF TimerInv, TimerTypeOK, CountedTicks
  <2>3. raw' /\ stage = "idle" => since' <= TIME_MAX + late'
    BY <1>1, <1>3, <1>6, Ranges DEF TimerInv, TimerTypeOK, CountedTicks, Tick, CounterMayFall
  <2>4. stage = "load" => since' <= MaxGap /\ (caller = "irq" => raw')
    BY <1>1, <1>3, Ranges DEF TimerInv, TimerTypeOK, CountedTicks, Tick, CounterMayFall
  <2> QED BY <1>2, <1>7, <2>1, <2>2, <2>3, <2>4 DEF CountedTicks
<1>11. Due'
  <2>1. Remaining' = Remaining /\ Remaining \in Int
    BY <1>7, RemainingInt DEF TimerInv, TimerTypeOK, Remaining
  <2>2. left = Void <=> left' = Void
    BY <1>8, Ranges DEF TimerInv, TimerTypeOK, Void
  <2>3. ASSUME Armed'
        PROVE  /\ stage = "load" => toLoad <= Remaining
               /\ stage = "idle" /\ ~raw' => tvalue' <= Remaining - (since + 1)
               /\ stage = "idle" /\ raw' => Remaining - (since + 1) >= -late'
    <3>1. Armed
      BY <1>7, <2>2, <2>3 DEF Armed
    <3>2. stage = "load" => toLoad <= Remaining
      BY <3>1 DEF TimerInv, Due
    <3>3. stage = "idle" /\ ~raw => tvalue <= Remaining - since /\ tvalue > 0
      BY <3>1, Ranges DEF TimerInv, TimerTypeOK, Due, CountedTicks
    <3>4. stage = "idle" /\ raw => Remaining - since >= -late /\ late < Latency
      BY <3>1 DEF TimerInv, Due, Tick, CounterMayFall
    <3> QED
      BY <1>1, <1>3, <1>5, <1>6, <2>1, <3>2, <3>3, <3>4, Ranges DEF TimerInv, TimerTypeOK
  <2>4. ASSUME Armed'
        PROVE  Remaining - (since + 1) >= -(Latency + MaxGap)
    <3>1. /\ since \in Nat /\ toLoad \in Nat /\ tvalue' \in Nat
          /\ late' \in Nat /\ late' <= Latency
      BY <1>7, <1>9, Ranges DEF TimerInv, TimerTypeOK
    <3>2. CASE stage = "load"
      <4>1. toLoad <= Remaining
        BY <2>3, <2>4, <3>2
      <4>2. since + 1 <= MaxGap
        BY <3>1, <3>2, Waits DEF Tick, CounterMayFall
      <4> QED BY <2>1, <3>1, <4>1, <4>2, Waits
    <3>3. CASE stage = "idle" /\ ~raw'
      <4>1. Remaining - (since + 1) \in Int
        BY <2>1, <3>1
      <4>2. Remaining - (since + 1) >= 0
        BY <2>3, <2>4, <3>1, <3>3, <4>1, NotBelow
      <4> QED BY <4>1, <4>2, Waits
    <3>4. CASE stage = "idle" /\ raw'
      <4>1. Remaining - (since + 1) \in Int
        BY <2>1, <3>1
      <4>2. Remaining - (since + 1) >= -late'
        BY <2>3, <2>4, <3>4
      <4>3. Remaining - (since + 1) >= -Latency
        BY <3>1, <4>1, <4>2, NotBelow, Waits
      <4> QED BY <4>1, <4>3, Waits
    <3> QED BY <1>1, <1>2, <3>2, <3>3, <3>4
  <2>5. ASSUME Armed'
        PROVE  /\ left' <= Remaining - (since + 1)
               /\ left' >= Remaining - (since + 1) - lag \/ lag = Void
    <3>1. Armed /\ left # Void
      BY <1>7, <2>2, <2>5 DEF Armed
    <3>2. /\ left <= Remaining - since
          /\ left >= Remaining - since - lag \/ lag = Void
      BY <3>1 DEF TimerInv, Due
    <3>3. Remaining - (since + 1) >= -Epoch
      BY <1>3, <2>1, <2>4, <2>5, Ranges DEF Timing, TimerInv, TimerTypeOK
    <3> QED BY <1>3, <1>8, <2>1, <3>1, <3>2, <3>3, Ranges DEF TimerInv, TimerTypeOK
  <2>6. stage' = "load" /\ expired' /\ left' # Void => left' <= 0
    BY <1>7, <1>8, <2>2, Ranges DEF TimerInv, TimerTypeOK, Due
  <2> QED BY <1>2, <1>3, <1>7, <2>1, <2>3, <2>5, <2>6 DEF Due
<1> QED BY <1>9, <1>10, <1>11 DEF TimerInv

LEMMA GetTicksInv == ASSUME Timing, TimerInv, GetTicks PROVE TimerInv'
<1> USE DEF hardware, handler
<1>1. /\ stage = "idle" /\ UpdateTicks
      /\ UNCHANGED <<tvalue, raw, enabled, timeout, stage, caller, toLoad, expired,
                     left, lag, late>>
  BY DEF GetTicks
<1>2. TimerTypeOK'
  BY <1>1, Updated, Ranges DEF TimerInv, TimerTypeOK
<1>3. CountedTicks'
  <2>1. count_from' = tvalue' /\ since' = 0 /\ CountHonest'
    BY <1>1, Updated DEF CountHonest
  <2> QED BY <1>1, <1>2, <2>1, Ranges DEF TimerInv, TimerTypeOK, CountedTicks
<1>4. Due'
  <2>1. Armed => Remaining' = Remaining - since
    BY <1>1, Updated DEF Remaining
  <2>2. Remaining \in Int /\ since \in Nat
    BY Numbers DEF TimerInv
  <2>3. since' = 0
    BY <1>1, Updated
  <2> QED BY <1>1, <1>2, <2>1, <2>2, <2>3, Ranges DEF TimerInv, TimerTypeOK, Due, Armed
<1> QED BY <1>2, <1>3, <1>4 DEF TimerInv

LEMMA SetTicksInv == ASSUME Timing, TimerInv, NEW n \in Settings, SetTicks(n) PROVE TimerInv'
<1>1. n \in 0 .. Epoch - 1
  BY TimerAssumption DEF TimerAssumption
<1>2. TimerTypeOK'
  BY <1>1, Ranges DEF TimerInv, TimerTypeOK, SetTicks, hardware, handler, Void
<1>3. CountedTicks' /\ Due'
  BY Ranges DEF TimerInv, TimerTypeOK, CountedTicks, CountHonest, Due, Armed, SetTicks, hardware, handler
<1> QED BY <1>2, <1>3 DEF TimerInv

LEMMA ClientTimeoutInv ==
  ASSUME Timing, TimerInv, NEW d \in Delays, ClientTimeout(d) PROVE TimerInv'
<1> DEFINE t == Wrapped(ticks' + d)
<1>1. /\ stage = "idle" /\ UpdateTicks /\ t # 0 /\ ServeTimeout(t)
      /\ left' = d /\ lag' = 0 /\ stage' = "load" /\ caller' = "client"
      /\ UNCHANGED <<tvalue, raw, enabled, late>>
  BY DEF ClientTimeout, hardware
<1>2. /\ ticks' \in 0 .. Epoch - 1 /\ count_from' = tvalue /\ since' = 0
      /\ Elapsed(tvalue, tvalue) = 0
  BY <1>1, Updated
<1>3. t \in 0 .. Epoch - 1 /\ Signed(Wrapped(t - ticks')) = d
  BY <1>2, RemainingNew
<1> HIDE DEF t
<1>4. /\ toLoad' \in 1 .. TIME_MAX /\ timeout' \in 0 .. Epoch - 1
      /\ expired' \in BOOLEAN /\ (expired' => d <= 0)
      /\ timeout' # 0 => timeout' = t /\ toLoad' <= d
  BY <1>1, <1>2, <1>3, Served
<1>5. d \in Int /\ -Epoch <= d /\ d < Epoch
  BY Ranges
<1>6. TimerTypeOK'
  BY <1>1, <1>2, <1>4, <1>5, Ranges DEF TimerInv, TimerTypeOK
<1>7. CountedTicks'
  BY <1>1, <1>2, Ranges DEF TimerInv, TimerTypeOK, CountedTicks, CountHonest
<1>8. Due'
  <2>1. Armed' => Remaining' = d
    BY <1>3, <1>4 DEF Armed, Remaining
  <2> QED BY <1>1, <1>2, <1>4, <1>5, <2>1 DEF Due, Armed
<1> QED BY <1>6, <1>7, <1>8 DEF TimerInv

LEMMA TimerInterruptInv == ASSUME Timing, TimerInv, TimerInterrupt PROVE TimerInv'
<1>1. /\ raw /\ stage = "idle" /\ UpdateTicks
      /\ stage' = "load" /\ caller' = "irq"
      /\ UNCHANGED <<tvalue, raw, enabled, left, lag, late>>
  BY DEF TimerInterrupt, hardware
<1>2. /\ ticks' \in 0 .. Epoch - 1 /\ count_from' = tvalue /\ since' = 0
      /\ Elapsed(tvalue, tvalue) = 0
      /\ Armed => Signed(Wrapped(timeout - ticks')) = Remaining - since
  BY <1>1, Updated
<1>3. ASSUME timeout # 0
      PROVE  /\ toLoad' \in 1 .. TIME_MAX /\ timeout' \in 0 .. Epoch - 1
             /\ expired' \in BOOLEAN
             /\ expired' => Signed(Wrapped(timeout - ticks')) <= 0
             /\ timeout' # 0 => /\ timeout' = timeout
                                /\ toLoad' <= Signed(Wrapped(timeout - ticks'))
  BY <1>2, <1>3, Served DEF TimerInterrupt, TimerInv, TimerTypeOK
<1>4. timeout = 0 => toLoad' = TIME_MAX /\ expired' = FALSE /\ timeout' = 0
  BY DEF TimerInterrupt
<1>5. /\ toLoad' \in 1 .. TIME_MAX /\ timeout' \in 0 .. Epoch - 1 /\ expired' \in BOOLEAN
  <2>1. toLoad' \in 1 .. TIME_MAX /\ timeout' \in 0 .. Epoch - 1
    BY <1>3, <1>4, Ranges
  <2>2. expired' \in BOOLEAN
    BY <1>3, <1>4, Zenon
  <2> QED BY <2>1, <2>2
<1>6. TimerTypeOK'
  BY <1>1, <1>2, <1>5, Ranges DEF TimerInv, TimerTypeOK
<1>7. CountedTicks'
  BY <1>1, <1>2, Ranges DEF TimerInv, TimerTypeOK, CountedTicks, CountHonest
<1>8. Due'
  <2>1. Remaining \in Int /\ since \in Nat /\ left \in Int
    BY Numbers DEF TimerInv
  <2>2. Armed' => /\ Armed /\ timeout' = timeout
                  /\ Remaining' = Remaining - since
                  /\ toLoad' <= Remaining - since
    BY <1>1, <1>2, <1>3, <1>4 DEF Armed, Remaining
  <2>3. expired' /\ left' # Void => left' <= 0
    <3>1. ASSUME expired', left # Void PROVE left <= 0
      <4>1. Armed /\ Remaining - since <= 0
        BY <1>2, <1>3, <1>4, <3>1 DEF Armed
      <4>2. left <= Remaining - since
        BY <4>1 DEF TimerInv, Due
      <4> QED BY <2>1, <4>1, <4>2
    <3> QED BY <1>1, <3>1 DEF Void
  <2>4. Armed => /\ left <= Remaining - since
                 /\ left >= Remaining - since - lag \/ lag = Void
    BY DEF TimerInv, Due
  <2> QED BY <1>1, <1>2, <2>1, <2>2, <2>3, <2>4 DEF Due, Void
<1> QED BY <1>6, <1>7, <1>8 DEF TimerInv

LEMMA LoadInv == ASSUME Timing, TimerInv, Load PROVE TimerInv'
<1>1. /\ stage = "load" /\ count_from' = toLoad /\ tvalue' = toLoad /\ since' = 0
      /\ lag' = IF lag + since < Epoch THEN lag + since ELSE Epoch
      /\ stage' = IF caller = "irq" THEN "ack" ELSE "idle"
      /\ UNCHANGED <<raw, enabled, timeout, ticks, caller, toLoad, expired, left, late>>
  BY DEF Load, Less
<1>2. TimerTypeOK'
  BY <1>1, Ranges DEF TimerInv, TimerTypeOK
<1>3. CountedTicks'
  <2>1. Elapsed(toLoad, toLoad) = 0
    BY ElapsedIs, Ranges DEF TimerInv, TimerTypeOK
  <2> QED BY <1>1, <2>1, Ranges DEF TimerInv, TimerTypeOK, CountedTicks, CountHonest
<1>4. Due'
  <2>1. Remaining' = Remaining /\ (Armed' <=> Armed)
    BY <1>1 DEF Remaining, Armed
  <2>2. /\ Remaining \in Int /\ since \in Nat /\ left \in Int /\ lag \in 0 .. Epoch
        /\ toLoad \in Nat /\ toLoad >= 1 /\ late \in Nat
    BY Numbers DEF TimerInv
  <2>3. Armed => /\ left <= Remaining - since
                 /\ left >= Remaining - since - lag \/ lag = Epoch
                 /\ toLoad <= Remaining
    BY <1>1 DEF TimerInv, Due, Void
  <2>4. Armed => /\ left <= Remaining
                 /\ left >= Remaining - lag' \/ lag' = Epoch
                 /\ toLoad <= Remaining
                 /\ Remaining >= -late
    BY <1>1, <2>2, <2>3, Ranges
  <2> QED BY <1>1, <2>1, <2>2, <2>4 DEF Due, Void
<1> QED BY <1>2, <1>3, <1>4 DEF TimerInv

LEMMA AcknowledgeInv == ASSUME Timing, TimerInv, Acknowledge PROVE TimerInv'
<1>1. /\ stage = "ack" /\ stage' = "idle" /\ raw' = FALSE /\ late' = 0
      /\ UNCHANGED <<tvalue, enabled, timeout, count_from, ticks, caller, toLoad,
                     expired, since, left, lag>>
  BY DEF Acknowledge, fields
<1>2. TimerTypeOK'
  <2>1. raw' \in BOOLEAN
    BY <1>1, Zenon
  <2>2. late' \in 0 .. Latency
    BY <1>1, Waits
  <2> QED BY <1>1, <2>1, <2>2 DEF TimerInv, TimerTypeOK
<1>3. CountedTicks'
  BY <1>1, Ranges DEF TimerInv, TimerTypeOK, CountedTicks, CountHonest
<1>4. Due'
  <2>1. Remaining' = Remaining /\ (Armed' <=> Armed)
    BY <1>1 DEF Remaining, Armed
  <2> QED BY <1>1, <2>1 DEF TimerInv, Due, Void
<1> QED BY <1>2, <1>3, <1>4 DEF TimerInv

\* Enabling the device forgets its timeout.
LEMMA EnableInv == ASSUME Timing, TimerInv, Enable PROVE TimerInv'
<1>1. /\ stage = "idle" /\ enabled' = TRUE
      /\ count_from' = TIME_MAX /\ tvalue' = TIME_MAX
      /\ timeout' = 0 /\ left' = Void /\ since' = 0
      /\ UNCHANGED <<raw, ticks, stage, caller, toLoad, expired, lag, late>>
  BY DEF Enable, handler
<1>2. TimerTypeOK'
  BY <1>1, Ranges DEF TimerInv, TimerTypeOK, Void
<1>3. CountedTicks'
  <2>1. Elapsed(TIME_MAX, TIME_MAX) = 0
    BY ElapsedIs, Ranges
  <2> QED BY <1>1, <2>1, Ranges DEF TimerInv, TimerTypeOK, CountedTicks, CountHonest
<1> QED BY <1>1, <1>2, <1>3 DEF TimerInv, Due, Armed

LEMMA UnchangedInv ==
  ASSUME TimerInv, stage' = stage,
         UNCHANGED <<hardware, timeout, count_from, ticks, handler, history>>,
         enabled' \in BOOLEAN
  PROVE  TimerInv'
<1>1. TimerTypeOK' /\ CountedTicks'
  BY DEF TimerInv, TimerTypeOK, CountedTicks, CountHonest, hardware, handler, history
<1>2. Due'
  BY DEF TimerInv, Due, Armed, Remaining, hardware, handler, history
<1> QED BY <1>1, <1>2 DEF TimerInv

LEMMA TimerNextInv == ASSUME Timing, TimerInv, [TimerNext]_timerVars PROVE TimerInv'
<1>1. CASE Tick
  BY <1>1, TickInv
<1>2. CASE GetTicks
  BY <1>2, GetTicksInv
<1>3. CASE TimerInterrupt
  BY <1>3, TimerInterruptInv
<1>4. CASE Load
  BY <1>4, LoadInv
<1>5. CASE Acknowledge
  BY <1>5, AcknowledgeInv
<1>6. CASE \E n \in Settings : SetTicks(n)
  BY <1>6, SetTicksInv
<1>7. CASE \E d \in Delays : ClientTimeout(d)
  BY <1>7, ClientTimeoutInv
<1>8. CASE Enable
  BY <1>8, EnableInv
<1>9. CASE Disable
  BY <1>9, UnchangedInv DEF Disable, handler
<1>10. CASE UNCHANGED timerVars
  BY <1>10, UnchangedInv DEF timerVars, fields, handler, TimerInv, TimerTypeOK
<1> QED BY <1>1, <1>2, <1>3, <1>4, <1>5, <1>6, <1>7, <1>8, <1>9, <1>10 DEF TimerNext
-----------------------------------------------------------------------------
\* The registers and fields keep their widths, and the counter is never loaded
\* with zero, which would stop its interrupts.
THEOREM TimerTypes == ASSUME Timing PROVE TimerSpec => []TimerTypeOK
<1>1. TimerInit => TimerInv
  BY TimerInitInv
<1>2. TimerInv /\ [TimerNext]_timerVars => TimerInv'
  BY TimerNextInv
<1>3. TimerInv => TimerTypeOK
  BY DEF TimerInv
<1> QED BY <1>1, <1>2, <1>3, PTL DEF TimerSpec

\* The difference update_ticks is about to add is the number of ticks that
\* passed: half the range leaves room for any admissible latency.
THEOREM TimerCountHonest == ASSUME Timing PROVE TimerSpec => []CountHonest
<1>1. TimerInit => TimerInv
  BY TimerInitInv
<1>2. TimerInv /\ [TimerNext]_timerVars => TimerInv'
  BY TimerNextInv
<1>3. TimerInv => CountHonest
  BY DEF TimerInv, CountedTicks
<1> QED BY <1>1, <1>2, <1>3, PTL DEF TimerSpec

\* However many reloads a timeout takes, it is overdue by no more than one
\* interrupt's latency, one step of the handler and what the reloads lost.
LEMMA DueIsPunctual == ASSUME Timing, TimerInv PROVE Punctual
<1>1. /\ Remaining \in Int /\ since \in Nat /\ left \in Int /\ lag \in 0 .. Epoch
      /\ left >= -Epoch /\ tvalue \in Nat /\ toLoad \in Nat
      /\ late \in Nat /\ late <= Latency
  BY Numbers DEF TimerInv
<1>2. ASSUME Armed PROVE left >= -(Latency + lag + MaxGap)
  <2>1. left >= Remaining - since - lag \/ lag = Epoch
    BY <1>2 DEF TimerInv, Due, Void
  <2>2. Remaining - since >= -(Latency + MaxGap)
    <3>1. CASE stage = "load"
      BY <1>1, <1>2, <3>1, Waits DEF TimerInv, Due, CountedTicks
    <3>2. CASE stage = "ack" \/ (stage = "idle" /\ ~raw)
      BY <1>1, <1>2, <3>2, Waits DEF TimerInv, Due
    <3>3. CASE stage = "idle" /\ raw
      BY <1>1, <1>2, <3>3, Waits DEF TimerInv, Due
    <3> QED BY <3>1, <3>2, <3>3 DEF TimerInv, TimerTypeOK
  <2> QED BY <1>1, <2>1, <2>2, Waits, Ranges
<1> QED BY <1>2 DEF Punctual, Armed

\* The run's bound on how late a timeout is, under any timing that keeps to
\* Timing.
THEOREM TimerPunctual == ASSUME Timing PROVE TimerSpec => []Punctual
<1>1. TimerInit => TimerInv
  BY TimerInitInv
<1>2. TimerInv /\ [TimerNext]_timerVars => TimerInv'
  BY TimerNextInv
<1>3. TimerInv => Punctual
  BY DueIsPunctual
<1> QED BY <1>1, <1>2, <1>3, PTL DEF TimerSpec

\* A timeout is never reported before its time.
THEOREM TimerNeverEarly == ASSUME Timing PROVE TimerSpec => NeverEarly
<1> DEFINE Late == stage = "load" /\ stage' # "load" /\ expired /\ left # Void => left <= 0
<1>1. TimerInit => TimerInv
  BY TimerInitInv
<1>2. TimerInv /\ [TimerNext]_timerVars => TimerInv'
  BY TimerNextInv
<1>3. TimerInv => Late
  BY DEF TimerInv, Due
<1> QED BY <1>1, <1>2, <1>3, PTL DEF TimerSpec, NeverEarly
=============================================================================
