-------------------------------- MODULE Uart --------------------------------
(***************************************************************************)
(* The PL011 UART driver (drivers/pl011_uart_v2/src/uart.c) between its    *)
(* packet queues and the device: do_xmit_work, do_rx_work, stream_sync and *)
(* the interrupt handler, one step for each turn of their loops, because   *)
(* characters keep arriving while do_rx_work reads the receive FIFO.       *)
(* UartSpec closes the driver with a client that queues packets, takes the     *)
(* completed ones back and delivers the device's interrupts; Serial closes *)
(* it with libs/serial instead.                                            *)
(***************************************************************************)
EXTENDS PacketLists

CONSTANTS Char,        \* the characters that travel
          Typed,       \* those that arrive at the device
          CtrlK,       \* the character do_rx_work drops
          FifoDepth,   \* capacity of the receive FIFO
          MinLength,   \* bound: length of a packet of the client, from
          MaxLength,   \* and up to
          MaxArrivals, \* bound: characters that arrive at the device
          MaxSent      \* bound: characters handed over for transmission

ASSUME UartAssumption ==
  /\ Streams = {"tx", "rx"}
  /\ CtrlK \in Char /\ Typed \subseteq Char
  /\ NumPackets \in Nat /\ FifoDepth \in Nat \ {0} /\ MinLength \in Nat /\ MaxLength \in Nat
  /\ MaxArrivals \in Nat /\ MaxSent \in Nat

VARIABLES data,     \* the bytes in each packet's buffer
          length,   \* length of each packet
          xferred,  \* xferred of each packet
          rxfifo,   \* the device's receive FIFO
          txe,      \* UARTCR.TXE
          txim,     \* UARTIMSC.TXIM
          ris,      \* raw interrupts of the device: subset of {"tx", "rt"}
          quiet,    \* the device's receive timeout has not fired since the
                    \* last character
          drv,      \* the driver loop that runs: "idle", "xmit" or "rx"
          cur,      \* "packet" of that loop, 0 for NULL
          wire,     \* history: the characters transmitted
          handed,   \* history: the characters queued for transmission
          arrived   \* history: number of characters that came in

dataVars == <<data, length, xferred>>
hwVars   == <<rxfifo, txim, ris, quiet, arrived>>
uartVars == <<listVars, dataVars, hwVars, txe, drv, cur, wire, handed>>

NULL == 0
HeadOf(q) == IF q = <<>> THEN NULL ELSE Head(q)

(* device_setup_impl: transmitter off, transmit interrupt unmasked.        *)
UartInit ==
  /\ InitLists
  /\ data = [p \in Packets |-> <<>>]
  /\ length = [p \in Packets |-> 0]
  /\ xferred = [p \in Packets |-> 0]
  /\ rxfifo = <<>> /\ txim = TRUE /\ ris = {} /\ quiet = TRUE /\ arrived = 0
  /\ txe = FALSE /\ drv = "idle" /\ cur = NULL
  /\ wire = <<>> /\ handed = <<>>

-----------------------------------------------------------------------------
(* The device.                                                             *)

(* A character arrives; a full FIFO loses it.                              *)
Arrive(c) ==
  /\ arrived < MaxArrivals
  /\ arrived' = arrived + 1
  /\ rxfifo' = IF Len(rxfifo) < FifoDepth THEN Append(rxfifo, c) ELSE rxfifo
  /\ quiet' = FALSE
  /\ UNCHANGED <<listVars, dataVars, txim, ris, txe, drv, cur, wire, handed>>

(* The receive timeout: once for each silence after a character.           *)
ReceiveTimeout ==
  /\ rxfifo # <<>> /\ ~quiet
  /\ quiet' = TRUE
  /\ ris' = ris \cup {"rt"}
  /\ UNCHANGED <<listVars, dataVars, rxfifo, txim, arrived, txe, drv, cur,
                 wire, handed>>

(* Reading the last character of the FIFO also ends its timeout interrupt. *)
PopRx ==
  /\ rxfifo' = Tail(rxfifo)
  /\ ris' = IF Len(rxfifo) = 1 THEN ris \ {"rt"} ELSE ris
  /\ UNCHANGED <<txim, quiet, arrived>>

Device == ReceiveTimeout \/ \E c \in Typed : Arrive(c)

-----------------------------------------------------------------------------
(* do_xmit_work: from the head of the queue, character by character, until *)
(* the queue is empty.  The busy bit is polled after each character, so    *)
(* the device holds none back; it may raise its transmit interrupt.        *)
StartXmitNot ==  \* seeded fault: the transmission is left to an interrupt
  UNCHANGED <<drv, cur>>
StartXmit ==
  /\ cur' = HeadOf(active'["tx"])
  /\ drv' = IF cur' = NULL THEN "idle" ELSE "xmit"

XmitStep ==
  /\ drv = "xmit"
  /\ wire' = Append(wire, data[cur][xferred[cur] + 1])
  /\ \E raised \in {{}, {"tx"}} : ris' = ris \cup raised
  /\ xferred' = [xferred EXCEPT ![cur] = @ + 1]
  /\ IF xferred[cur] + 1 = length[cur]
       THEN /\ SwitchHead("tx")
            /\ cur' = HeadOf(active'["tx"])
       ELSE UNCHANGED <<listVars, cur>>
  /\ drv' = IF cur' = NULL THEN "idle" ELSE "xmit"
  /\ txe' = (cur' # NULL)
  /\ UNCHANGED <<data, length, rxfifo, txim, quiet, arrived, handed>>

(* do_rx_work.                                                             *)
StartRx ==
  /\ cur' = HeadOf(active'["rx"])
  /\ drv' = "rx"

(* Seeded fault: a full packet is left at the head of the queue.           *)
RxCharStays ==
  /\ drv = "rx" /\ rxfifo # <<>>
  /\ PopRx
  /\ IF Head(rxfifo) = CtrlK \/ cur = NULL
       THEN UNCHANGED <<listVars, dataVars, cur>>
       ELSE /\ data' = [data EXCEPT ![cur] = Append(@, Head(rxfifo))]
            /\ xferred' = [xferred EXCEPT ![cur] = @ + 1]
            /\ UNCHANGED <<listVars, cur, length>>
  /\ UNCHANGED <<txe, drv, wire, handed>>

(* One turn of the FIFO loop: Ctrl-K is dropped, and so is every character *)
(* once no packet is left to take it.                                      *)
RxChar ==
  /\ drv = "rx" /\ rxfifo # <<>>
  /\ PopRx
  /\ IF Head(rxfifo) = CtrlK \/ cur = NULL
       THEN UNCHANGED <<listVars, dataVars, cur>>
       ELSE /\ data' = [data EXCEPT ![cur] = Append(@, Head(rxfifo))]
            /\ xferred' = [xferred EXCEPT ![cur] = @ + 1]
            /\ IF xferred[cur] + 1 = length[cur]
                 THEN SwitchHead("rx") /\ cur' = HeadOf(active'["rx"])
                 ELSE UNCHANGED <<listVars, cur>>
            /\ UNCHANGED length
  /\ UNCHANGED <<txe, drv, wire, handed>>

(* Seeded fault: a packet that got some characters stays queued.           *)
RxEndKeeps ==
  /\ drv = "rx" /\ rxfifo = <<>>
  /\ drv' = "idle" /\ cur' = NULL
  /\ UNCHANGED <<listVars, dataVars, hwVars, txe, wire, handed>>

(* The FIFO is empty: a packet that got some characters is completed.      *)
RxEnd ==
  /\ drv = "rx" /\ rxfifo = <<>>
  /\ IF cur # NULL /\ xferred[cur] > 0
       THEN SwitchHead("rx")
       ELSE UNCHANGED listVars
  /\ drv' = "idle" /\ cur' = NULL
  /\ UNCHANGED <<dataVars, hwVars, txe, wire, handed>>

Driver == XmitStep \/ RxChar \/ RxEnd

(* stream_sync_impl, called by stream_add_stream_pkt on an empty stream.   *)
Sync(s) == IF s = "tx" THEN StartXmit ELSE StartRx

(* Seeded fault: the count of the packet's last use is left in it.         *)
QueueStale(s, p, d, n) ==
  /\ drv = "idle"
  /\ AddPacket(s, p)
  /\ data' = [data EXCEPT ![p] = d]
  /\ length' = [length EXCEPT ![p] = n]
  /\ IF active[s] = <<>> THEN Sync(s) ELSE UNCHANGED <<drv, cur>>
  /\ handed' = IF s = "tx" THEN handed \o d ELSE handed
  /\ UNCHANGED <<xferred, hwVars, txe, wire>>

(* stream_add_stream_pkt of a packet whose fields the client has just set. *)
Queue(s, p, d, n) ==
  /\ drv = "idle"
  /\ AddPacket(s, p)
  /\ data' = [data EXCEPT ![p] = d]
  /\ length' = [length EXCEPT ![p] = n]
  /\ xferred' = [xferred EXCEPT ![p] = 0]
  /\ IF active[s] = <<>> THEN Sync(s) ELSE UNCHANGED <<drv, cur>>
  /\ handed' = IF s = "tx" THEN handed \o d ELSE handed
  /\ UNCHANGED <<hwVars, txe, wire>>

(* free_packets; the buffers of the packets are their owners' again.       *)
Reclaim(s) ==
  /\ FreePackets(s)
  /\ data' = [p \in Packets |-> IF Contains(completed[s], p) THEN <<>> ELSE data[p]]
  /\ UNCHANGED <<length, xferred, hwVars, txe, drv, cur, wire, handed>>

(* Seeded fault: the handler acknowledges both sources before it looks.    *)
InterruptAcksBoth ==
  /\ drv = "idle"
  /\ \/ "tx" \in ris /\ txim
     \/ "rt" \in ris
  /\ UNCHANGED listVars
  /\ IF "tx" \in ris /\ txim
       THEN txim' = FALSE /\ ris' = {} /\ StartXmit
       ELSE /\ ris' = {} /\ txim' = txim
            /\ IF rxfifo # <<>> THEN StartRx ELSE UNCHANGED <<drv, cur>>
  /\ UNCHANGED <<dataVars, rxfifo, quiet, arrived, txe, wire, handed>>

(* device_interrupt_impl: a transmit interrupt masks and clears itself and *)
(* hides a receive timeout, which then stays pending.                      *)
Interrupt ==
  /\ drv = "idle"
  /\ \/ "tx" \in ris /\ txim
     \/ "rt" \in ris
  /\ UNCHANGED listVars
  /\ IF "tx" \in ris /\ txim
       THEN txim' = FALSE /\ ris' = ris \ {"tx"} /\ StartXmit
       ELSE /\ rxfifo # <<>>
            /\ ris' = ris \ {"rt"} /\ txim' = txim
            /\ StartRx
  /\ UNCHANGED <<dataVars, rxfifo, quiet, arrived, txe, wire, handed>>

-----------------------------------------------------------------------------
(* A client of the driver, which queues one packet at a time.              *)
ClientAlloc ==
  /\ drv = "idle" /\ held = {}
  /\ \E p \in Packets : AllocPacket(p)
  /\ UNCHANGED <<dataVars, hwVars, txe, drv, cur, wire, handed>>

ClientSend ==
  \E p \in held, n \in MinLength .. MaxLength : \E d \in [1 .. n -> Char \ {CtrlK}] :
    /\ Len(handed) + n <= MaxSent
    /\ Queue("tx", p, d, n)

ClientReceive ==
  \E p \in held, n \in MinLength .. MaxLength : Queue("rx", p, <<>>, n)

ClientReclaim(s) ==
  /\ drv = "idle" /\ completed[s] # <<>>
  /\ Reclaim(s)

UartNext ==
  \/ Device \/ Driver \/ Interrupt
  \/ ClientAlloc \/ ClientSend \/ ClientReceive
  \/ \E s \in Streams : ClientReclaim(s)

(* The driver runs on, its interrupts are delivered, the device's timeout  *)
(* fires.                                                                  *)
UartSpec ==
  /\ UartInit /\ [][UartNext]_uartVars
  /\ WF_uartVars(Driver) /\ WF_uartVars(Interrupt) /\ WF_uartVars(ReceiveTimeout)

-----------------------------------------------------------------------------
UartTypeOK ==
  /\ \A p \in Packets : /\ data[p] \in Seq(Char) /\ Len(data[p]) <= MaxLength
                        /\ length[p] \in 0 .. MaxLength
                        /\ xferred[p] \in 0 .. MaxLength
  /\ pool \in Seq(Packets) /\ held \subseteq Packets
  /\ active \in [Streams -> Seq(Packets)]
  /\ completed \in [Streams -> Seq(Packets)]
  /\ rxfifo \in Seq(Char) /\ ris \subseteq {"tx", "rt"}
  /\ txe \in BOOLEAN /\ txim \in BOOLEAN /\ quiet \in BOOLEAN
  /\ drv \in {"idle", "xmit", "rx"} /\ cur \in Packets \cup {NULL}

(* The loops index the buffer by xferred and compare it with length only   *)
(* after the access, for equality: that stays inside the buffer because a  *)
(* packet is taken off the queue at the very access that fills it.  A       *)
(* packet of length 0 would never be full: MinLength is 1, but in          *)
(* UartZero.cfg.                                                           *)
InBuffer ==
  \A s \in Streams :
    /\ \A p \in ToSet(active[s]) : xferred[p] < length[p]
    /\ \A p \in ToSet(completed[s]) : xferred[p] <= length[p]

(* Between two calls of the driver no packet is half done: nothing waits   *)
(* for transmission, which every path has switched off, no queued receive  *)
(* packet holds characters, and every completed one holds some.  do_rx_work *)
(* relies on it when it takes the first packet without a look at xferred.  *)
IdleIsClean ==
  drv = "idle" =>
    /\ active["tx"] = <<>> /\ ~txe
    /\ \A p \in ToSet(active["rx"]) : xferred[p] = 0
    /\ \A p \in ToSet(completed["rx"]) : xferred[p] > 0

(* What goes over the wire is what the clients queued, in the order they   *)
(* queued it, every character once: the wire and the unsent rest of the    *)
(* queue make up what was handed over.                                     *)
Rest(p) == SubSeq(data[p], xferred[p] + 1, length[p])
WireInOrder ==
  handed = wire \o FlattenSeq([i \in DOMAIN active["tx"] |-> Rest(active["tx"][i])])

(* With interrupts delivered, characters do not stay in the FIFO: neither  *)
(* the transmit interrupt, which do_interrupt serves first, nor a receive  *)
(* that ends just before the next character hides them for good.           *)
FifoServed == (rxfifo # <<>>) ~> (rxfifo = <<>>)
=============================================================================
