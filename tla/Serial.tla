------------------------------- MODULE Serial -------------------------------
(***************************************************************************)
(* libs/serial over the UART driver: serial_write and serial_read called   *)
(* by one thread, which polls the device.  libs/serial asks for no         *)
(* interrupt, so the driver runs only inside stream_sync.                  *)
(***************************************************************************)
EXTENDS Uart, FiniteSets

CONSTANTS NL, CR,    \* the characters '\n' and '\r'
          Junk,      \* what a byte nobody has written holds
          Counts,    \* bound: the counts passed to serial_write
          MaxReads   \* bound: calls of serial_read

ASSUME SerialAssumption == {NL, CR, Junk} \subseteq Char /\ Counts \subseteq Nat \ {0}

VARIABLES pc,     \* where the thread is
          req,    \* the caller's buffer, with its count as the length
          pkt,    \* packet, 0 for NULL
          mark,   \* history: the wire when the current write began
          fails,  \* history: failed mallocs
          reads   \* history: calls of serial_read

vars == <<uartVars, pc, req, pkt, mark, fails, reads>>

callVars == <<pc, req, pkt, mark, fails, reads>>

Init ==
  /\ UartInit
  /\ pc = "idle" /\ req = <<>> /\ pkt = NULL
  /\ mark = <<>> /\ fails = 0 /\ reads = 0

rest == <<dataVars, hwVars, txe, drv, cur, wire, handed>>

(* Seeded fault: completed packets are not taken back.                     *)
WriteKeeps(d) ==
  /\ pc = "idle"
  /\ pc' = "w_alloc" /\ req' = d /\ mark' = wire
  /\ UNCHANGED <<listVars, rest, pkt, fails, reads>>

(* serial_write: completed packets are reclaimed, then one is taken.       *)
Write(d) ==
  /\ pc = "idle"
  /\ Reclaim("tx")
  /\ pc' = "w_alloc" /\ req' = d /\ mark' = wire
  /\ UNCHANGED <<pkt, fails, reads>>

Alloc(none, next) ==
  /\ IF pool = <<>>
       THEN UNCHANGED <<listVars, pkt>> /\ pc' = none
       ELSE /\ \E p \in Packets : AllocPacket(p) /\ pkt' = p
            /\ pc' = next
  /\ UNCHANGED <<rest, req, mark, fails, reads>>

WriteAlloc == pc = "w_alloc" /\ Alloc("idle", "w_buf")

(* Seeded fault: the carriage return takes the place of the newline.       *)
WireFormCr(d) ==
  IF d[Len(d)] # NL THEN d ELSE [i \in 1 .. Len(d) |-> IF i < Len(d) THEN d[i] ELSE CR]

(* The buffer that goes into the packet: the caller's, unless it ends in a *)
(* newline; then a new one of which only the last two bytes are written.   *)
WireForm(d) ==
  IF d[Len(d)] # NL THEN d
  ELSE [i \in 1 .. Len(d) + 1 |->
          IF i < Len(d) THEN Junk ELSE IF i = Len(d) THEN CR ELSE NL]

WriteQueue ==
  /\ pc = "w_buf"
  /\ Queue("tx", pkt, WireForm(req), Len(WireForm(req)))
  /\ pc' = "w_poll"
  /\ UNCHANGED <<req, pkt, mark, fails, reads>>

(* malloc returns NULL: the call gives up, and so is the packet.           *)
WriteNoMemory ==
  /\ pc = "w_buf" /\ req[Len(req)] = NL
  /\ pc' = "idle" /\ fails' = fails + 1
  /\ UNCHANGED <<uartVars, req, pkt, mark, reads>>

(* "poll device until all data is sent": device_poll does nothing.         *)
WriteReturn ==
  /\ pc = "w_poll" /\ drv = "idle"
  /\ active["tx"] = <<>>
  /\ pc' = "idle"
  /\ UNCHANGED <<uartVars, req, pkt, mark, fails, reads>>

(* serial_read.                                                            *)
Read(n) ==
  /\ pc = "idle" /\ reads < MaxReads
  /\ Reclaim("rx")
  /\ pc' = "r_alloc" /\ req' = [i \in 1 .. n |-> Junk] /\ reads' = reads + 1
  /\ UNCHANGED <<pkt, mark, fails>>

ReadAlloc == pc = "r_alloc" /\ Alloc("idle", "r_queue")

ReadQueue ==
  /\ pc = "r_queue"
  /\ Queue("rx", pkt, <<>>, Len(req))
  /\ pc' = "r_poll"
  /\ UNCHANGED <<req, pkt, mark, fails, reads>>

(* "poll device until we read a packet": the loop ends when a packet is    *)
(* queued, and device_poll does not queue or read any.                     *)
ReadReturn ==
  /\ pc = "r_poll" /\ drv = "idle"
  /\ active["rx"] # <<>>
  /\ pc' = "idle"
  /\ UNCHANGED <<uartVars, req, pkt, mark, fails, reads>>

Client ==
  \/ \E n \in Counts : \E d \in [1 .. n -> Char \ {CtrlK, CR, Junk}] :
       Len(handed) + n < MaxSent /\ Write(d)
  \/ \E n \in 1 .. MaxLength : Read(n)

Call == \/ WriteAlloc \/ WriteQueue \/ WriteNoMemory \/ WriteReturn
        \/ ReadAlloc \/ ReadQueue \/ ReadReturn

Next == \/ Client \/ Call
        \/ (Driver \/ Device) /\ UNCHANGED callVars

(* The thread goes on with a call it is in, and with it the driver.        *)
Spec == Init /\ [][Next]_vars /\ WF_vars(Call) /\ WF_vars(Driver /\ UNCHANGED callVars)

-----------------------------------------------------------------------------
TypeOKSerial ==
  /\ UartTypeOK
  /\ pc \in {"idle", "w_alloc", "w_buf", "w_poll", "r_alloc", "r_queue", "r_poll"}
  /\ pkt \in Packets \cup {NULL}
  /\ fails \in Nat /\ reads \in 0 .. MaxReads

(* Every packet is in exactly one place, and off all lists are only the    *)
(* packet of the call in progress and those lost to a failed malloc, one   *)
(* for each failure.                                                       *)
InCall == pc \in {"w_buf", "r_queue"}
PacketsAccounted ==
  /\ Len(pool) + Cardinality(held) + Len(active["tx"]) + Len(active["rx"])
       + Len(completed["tx"]) + Len(completed["rx"]) = NumPackets
  /\ Cardinality(held) = fails + (IF InCall THEN 1 ELSE 0)

(* serial_write gives up for want of a packet only when all of them are    *)
(* lost to failed mallocs or sit in the receive stream: it never starves   *)
(* because of earlier writes.                                              *)
StarvedByReadsOnly ==
  pc = "w_alloc" /\ pool = <<>> =>
    Packets = held \cup ToSet(active["rx"]) \cup ToSet(completed["rx"])

(* When serial_write returns, the wire has got the caller's characters     *)
(* with a carriage return in front of a final newline, and nothing else.   *)
Expected(d) ==
  IF d[Len(d)] # NL THEN d ELSE SubSeq(d, 1, Len(d) - 1) \o <<CR, NL>>
WriteIsExact ==
  pc = "w_poll" /\ drv = "idle" => wire = mark \o Expected(req)

(* serial_write always comes back: stream_sync has sent everything before  *)
(* the polling loop, which could not make progress, starts.                *)
WriteReturns == (pc \in {"w_alloc", "w_buf", "w_poll"}) ~> (pc = "idle")

(* "poll device until we read a packet" (serial.c:124): serial_read        *)
(* returns with its packet read.                                           *)
ReadGotPacket == [][ReadReturn => xferred[pkt] > 0]_vars

(* The same loop comes to an end once the packet has been read.            *)
ReadReturns == (pc = "r_poll" /\ Contains(completed["rx"], pkt)) ~> (pc = "idle")
=============================================================================
