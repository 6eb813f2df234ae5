------------------------------ MODULE JtagUart ------------------------------
(***************************************************************************)
(* The interrupt-driven JTAG UART driver of the tiny-CNN firmware          *)
(* (bsp/drivers/src/altera_avalon_jtag_uart_{init,read,write,ioctl,fd}.c)  *)
(* between one program, which calls read(), write(), ioctl() and close()   *)
(* one after the other, and a host behind the UART's two hardware FIFOs.   *)
(*                                                                         *)
(* The program is interrupted between any two accesses to the fields the   *)
(* interrupt routine shares; the interrupt routine and the alarm are not   *)
(* interrupted by each other, but the host moves bytes between any two     *)
(* register accesses of theirs.  A byte is its place in its stream.        *)
(***************************************************************************)
EXTENDS Integers, Sequences

CONSTANTS
    BufLen,      \* ALTERA_AVALON_JTAG_UART_BUF_LEN: slots of each ring
    FifoDepth,   \* JTAG_UART_0_{READ,WRITE}_DEPTH: places of each hardware FIFO
    Threshold,   \* JTAG_UART_0_WRITE_THRESHOLD: fill at which WI is raised
    IntMax,      \* INT_MAX
    Timeout0,    \* ALTERA_AVALON_JTAG_UART_DEFAULT_TIMEOUT
    Requests,    \* values the program passes to TIOCSTIMEOUT
    MaxCount,    \* bound: the largest count of one read() or write()
    MaxBytes,    \* bound: bytes the host sends and the program writes
    MaxLeaves    \* bound: times the host goes away

ASSUME BufLenAssumption == BufLen \in Nat \ {0, 1}
ASSUME FifoAssumption == FifoDepth \in Nat \ {0} /\ Threshold \in Nat
ASSUME TimeAssumption == /\ IntMax \in Nat /\ IntMax >= 4
                         /\ Timeout0 \in 2..(IntMax - 1)
                         /\ Requests \subseteq Int
ASSUME BoundAssumption == /\ MaxCount \in Nat \ {0}
                          /\ MaxBytes \in Nat /\ MaxLeaves \in Nat

VARIABLES
    rxFifo, txFifo,   \* the hardware FIFOs, oldest byte first
    active,           \* AC: the host has touched the UART since it was cleared
    host,             \* "on" or "gone"
    leaves,           \* times the host has gone
    sent,             \* bytes the host has sent
    enable,           \* irq_enable, and the enable bits of the control register
    rx_buf, rx_in, rx_out,   \* ring of received bytes
    tx_buf, tx_in, tx_out,   \* ring of bytes to transmit
    host_inactive, timeout,
    isr,              \* the interrupt routine: where it is, and its locals
    call,             \* the program's call: where it is, and its locals
    written,          \* bytes write() has accepted
    handed            \* the last byte read() copied to the program

hardware == <<rxFifo, txFifo, active, host, leaves, sent>>
rxRing == <<rx_buf, rx_in, rx_out>>
txRing == <<tx_buf, tx_in, tx_out>>
clock == <<host_inactive, timeout>>
history == <<written, handed>>
vars == <<hardware, enable, rxRing, txRing, clock, isr, call, history>>

Slots == 0..(BufLen - 1)
Following(slot, n) == (slot + n) % BufLen
Idle == [op |-> "none", at |-> "idle", left |-> 0, some |-> FALSE,
         seen |-> 0, nonblock |-> FALSE, result |-> "none"]
NoIsr == [at |-> "off", more |-> FALSE, wi |-> FALSE, space |-> 0]

IsrLocals == [at : {"off", "entry", "rx", "tx"}, more : BOOLEAN,
              wi : BOOLEAN, space : 0..FifoDepth]
CallLocals == [op : {"none", "read", "write", "close"},
               at : {"idle", "sample", "move", "kick", "spin", "leave"},
               left : Nat, some : BOOLEAN, seen : Slots, nonblock : BOOLEAN,
               result : {"none", "bytes", "zero", "EIO", "EWOULDBLOCK"}]

HardwareTypes == /\ rxFifo \in Seq(Nat) /\ Len(rxFifo) <= FifoDepth
                 /\ txFifo \in Seq(Nat) /\ Len(txFifo) <= FifoDepth
                 /\ active \in BOOLEAN /\ host \in {"on", "gone"}
                 /\ leaves \in Nat /\ sent \in Nat
RingTypes == /\ rx_buf \in [Slots -> Nat] /\ rx_in \in Slots /\ rx_out \in Slots
             /\ tx_buf \in [Slots -> Nat] /\ tx_in \in Slots /\ tx_out \in Slots
ClockTypes == host_inactive \in 0..(IntMax - 2) /\ timeout \in 2..(IntMax - 1)

TypeOK == /\ HardwareTypes /\ RingTypes /\ ClockTypes
          /\ enable \subseteq {"RE", "WE"}
          /\ isr \in IsrLocals /\ call \in CallLocals
          /\ written \in Nat /\ handed \in Nat

Init ==
    /\ rxFifo = << >> /\ txFifo = << >> /\ active = FALSE
    /\ host = "on" /\ leaves = 0 /\ sent = 0
    /\ enable = {"RE"}
    /\ rx_buf = [s \in Slots |-> 0] /\ rx_in = 0 /\ rx_out = 0
    /\ tx_buf = [s \in Slots |-> 0] /\ tx_in = 0 /\ tx_out = 0
    /\ host_inactive = 0 /\ timeout = Timeout0
    /\ isr = NoIsr /\ call = Idle /\ written = 0 /\ handed = 0

-----------------------------------------------------------------------------
(* The hardware and the host.                                              *)

\* Bytes of both directions, those a write has still to move included.
Started == sent + written + (IF call.op = "write" THEN call.left ELSE 0)

HostPush ==
    /\ host = "on" /\ Started < MaxBytes /\ Len(rxFifo) < FifoDepth
    /\ rxFifo' = Append(rxFifo, sent + 1)
    /\ sent' = sent + 1 /\ active' = TRUE
    /\ UNCHANGED <<txFifo, host, leaves, enable, rxRing, txRing, clock, isr,
                   call, history>>

HostPull ==
    /\ host = "on" /\ txFifo # << >>
    /\ txFifo' = Tail(txFifo) /\ active' = TRUE
    /\ UNCHANGED <<rxFifo, host, leaves, sent, enable, rxRing, txRing, clock,
                   isr, call, history>>

\* A host that has nothing to move still polls.
HostPoll ==
    /\ host = "on" /\ ~active
    /\ active' = TRUE
    /\ UNCHANGED <<rxFifo, txFifo, host, leaves, sent, enable, rxRing, txRing,
                   clock, isr, call, history>>

HostLeaves ==
    /\ host = "on" /\ leaves < MaxLeaves
    /\ host' = "gone" /\ leaves' = leaves + 1
    /\ UNCHANGED <<rxFifo, txFifo, active, sent, enable, rxRing, txRing, clock,
                   isr, call, history>>

HostReturns ==
    /\ host = "gone"
    /\ host' = "on"
    /\ UNCHANGED <<rxFifo, txFifo, active, leaves, sent, enable, rxRing, txRing,
                   clock, isr, call, history>>

ReadPending == "RE" \in enable /\ rxFifo # << >>
WritePending == "WE" \in enable /\ Len(txFifo) <= Threshold

\* A FIFO that is full drops what is written to it.
Fill(fifo, bytes) == LET all == fifo \o bytes
                     IN  SubSeq(all, 1, IF Len(all) < FifoDepth THEN Len(all)
                                                                ELSE FifoDepth)
-----------------------------------------------------------------------------
(* The interrupt routine, altera_avalon_jtag_uart_irq.                     *)

\* The control register is read; the routine ends when nothing is pending.
IsrControl ==
    /\ \/ isr.at = "off" /\ (ReadPending \/ WritePending)
       \/ isr.at = "entry"
    /\ isr' = IF ~ReadPending /\ ~WritePending
                THEN NoIsr
                ELSE [at |-> IF ReadPending THEN "rx" ELSE "tx", more |-> TRUE,
                      wi |-> WritePending, space |-> FifoDepth - Len(txFifo)]
    /\ UNCHANGED <<hardware, enable, rxRing, txRing, clock, call, history>>

RingFull(in, out) == Following(in, 1) = out
EndOfReceive == [isr EXCEPT !.at = IF isr.wi THEN "tx" ELSE "entry",
                            !.more = FALSE]

\* One byte of the receive FIFO is moved to the ring.
IsrReceive ==
    /\ isr.at = "rx" /\ ~RingFull(rx_in, rx_out) /\ rxFifo # << >>
    /\ rx_buf' = [rx_buf EXCEPT ![rx_in] = Head(rxFifo)]
    /\ rx_in' = Following(rx_in, 1)
    /\ rxFifo' = Tail(rxFifo)
    /\ isr' = [isr EXCEPT !.more = rxFifo' # << >>]
    /\ UNCHANGED <<txFifo, active, host, leaves, sent, enable, rx_out, txRing,
                   clock, call, history>>

\* DATA was read and was not valid: the FIFO is empty.
IsrReceiveEmpty ==
    /\ isr.at = "rx" /\ ~RingFull(rx_in, rx_out) /\ rxFifo = << >>
    /\ isr' = EndOfReceive
    /\ UNCHANGED <<hardware, enable, rxRing, txRing, clock, call, history>>

\* The ring is full: stop receiving if the last DATA read saw more to come.
IsrReceiveFull ==
    /\ isr.at = "rx" /\ RingFull(rx_in, rx_out)
    /\ enable' = IF isr.more THEN enable \ {"RE"} ELSE enable
    /\ isr' = EndOfReceive
    /\ UNCHANGED <<hardware, rxRing, txRing, clock, call, history>>

Used(in, out) == IF in >= out THEN in - out ELSE in + BufLen - out
RingBytes(buf, out, n) == [i \in 1..n |-> buf[Following(out, i - 1)]]

\* As many bytes as there was space for when CONTROL was read.
IsrTransmit ==
    /\ isr.at = "tx"
    /\ LET queued == Used(tx_in, tx_out)
           n == IF isr.space < queued THEN isr.space ELSE queued
       IN  /\ txFifo' = Fill(txFifo, RingBytes(tx_buf, tx_out, n))
           /\ tx_out' = Following(tx_out, n)
           /\ enable' = IF isr.space > n THEN enable \ {"WE"} ELSE enable
    /\ isr' = [isr EXCEPT !.at = "entry", !.wi = FALSE, !.space = 0]
    /\ UNCHANGED <<rxFifo, active, host, leaves, sent, rxRing, tx_buf, tx_in,
                   clock, call, history>>

\* The alarm, altera_avalon_jtag_uart_timeout, once a second.
Alarm ==
    /\ isr.at = "off"
    /\ IF active
         THEN active' = FALSE /\ host_inactive' = 0
         ELSE /\ host_inactive' = IF host_inactive < IntMax - 2
                                    THEN host_inactive + 1 ELSE host_inactive
              /\ UNCHANGED active
    /\ UNCHANGED <<rxFifo, txFifo, host, leaves, sent, enable, rxRing, txRing,
                   timeout, isr, call, history>>
-----------------------------------------------------------------------------
(* The program's calls.  No step of theirs is taken during an interrupt.   *)

At(op, place) == isr.at = "off" /\ call.op = op /\ call.at = place
Return(result) == call' = [Idle EXCEPT !.result = result]
GoTo(place) == call' = [call EXCEPT !.at = place]
HostGone == host_inactive >= timeout

CallRead(count, nonblock) ==
    /\ At("none", "idle")
    /\ call' = [Idle EXCEPT !.op = "read", !.at = "sample", !.left = count,
                            !.nonblock = nonblock]
    /\ UNCHANGED <<hardware, enable, rxRing, txRing, clock, isr, history>>

\* in = sp->rx_in; the copy below uses it while the interrupt moves on.
ReadSample ==
    /\ At("read", "sample")
    /\ call' = [call EXCEPT !.at = "move", !.seen = rx_in]
    /\ UNCHANGED <<hardware, enable, rxRing, txRing, clock, isr, history>>

ReadSpan(in, out) == IF in >= out THEN in - out ELSE BufLen - out
\* The pointers seen are read again before the next copy.
Moved(n) == [call EXCEPT !.left = @ - n, !.some = TRUE, !.seen = 0,
                         !.at = IF call.left = n THEN "kick" ELSE "sample"]
AtMost(n, limit) == IF n > limit THEN limit ELSE n

\* One memcpy out of the ring; the loop ends when the request is met.
ReadMove ==
    /\ At("read", "move") /\ ReadSpan(call.seen, rx_out) > 0
    /\ LET n == AtMost(ReadSpan(call.seen, rx_out), call.left)
       IN  /\ handed' = rx_buf[rx_out + n - 1]
           /\ rx_out' = Following(rx_out, n)
           /\ call' = Moved(n)
    /\ UNCHANGED <<hardware, enable, rx_buf, rx_in, txRing, clock, isr, written>>

\* Nothing more in the ring.
ReadNothing ==
    /\ At("read", "move") /\ ReadSpan(call.seen, rx_out) = 0
    /\ IF call.some THEN GoTo("kick")
       ELSE IF call.nonblock THEN Return("EWOULDBLOCK")
       ELSE GoTo("spin")
    /\ UNCHANGED <<hardware, enable, rxRing, txRing, clock, isr, history>>

\* Mutant: the wait is over only when the host is gone.
ReadSpinBlind ==
    /\ At("read", "spin") /\ HostGone
    /\ GoTo("leave")
    /\ UNCHANGED <<hardware, enable, rxRing, txRing, clock, isr, history>>

ReadSpin ==
    /\ At("read", "spin") /\ (call.seen # rx_in \/ HostGone)
    /\ GoTo("leave")
    /\ UNCHANGED <<hardware, enable, rxRing, txRing, clock, isr, history>>

\* The ring is looked at once more before the call gives up.
ReadLeave ==
    /\ At("read", "leave")
    /\ IF call.seen = rx_in THEN Return("EIO") ELSE GoTo("sample")
    /\ UNCHANGED <<hardware, enable, rxRing, txRing, clock, isr, history>>

\* Mutant: the interrupt routine is trusted to have left RE on.
ReadKickNothing ==
    /\ At("read", "kick")
    /\ Return("bytes")
    /\ UNCHANGED <<hardware, enable, rxRing, txRing, clock, isr, history>>

\* There is space now: receive interrupts on, in a critical section.
ReadKick ==
    /\ At("read", "kick")
    /\ enable' = enable \cup {"RE"}
    /\ Return("bytes")
    /\ UNCHANGED <<hardware, rxRing, txRing, clock, isr, history>>

CallWrite(count, nonblock) ==
    /\ At("none", "idle") /\ Started + count <= MaxBytes
    /\ call' = [Idle EXCEPT !.op = "write", !.at = "sample", !.left = count,
                            !.nonblock = nonblock]
    /\ UNCHANGED <<hardware, enable, rxRing, txRing, clock, isr, history>>

\* out = sp->tx_out; the copy below and the wait use it.
WriteSample ==
    /\ At("write", "sample")
    /\ call' = [call EXCEPT !.at = "move", !.seen = tx_out]
    /\ UNCHANGED <<hardware, enable, rxRing, txRing, clock, isr, history>>

\* Mutant: every slot is filled, and a full ring looks empty.
WriteSpanWhole(in, out) == IF in < out THEN out - in ELSE BufLen - in

\* One slot stays free, so that full and empty differ.
WriteSpan(in, out) == IF in < out THEN out - 1 - in
                      ELSE IF out > 0 THEN BufLen - in
                      ELSE BufLen - 1 - in

\* One memcpy into the ring.
WriteMove ==
    /\ At("write", "move") /\ WriteSpan(tx_in, call.seen) > 0
    /\ LET n == AtMost(WriteSpan(tx_in, call.seen), call.left)
       IN  /\ tx_buf' = [s \in Slots |-> IF s \in tx_in..(tx_in + n - 1)
                                           THEN written + 1 + s - tx_in
                                           ELSE tx_buf[s]]
           /\ tx_in' = Following(tx_in, n)
           /\ written' = written + n
           /\ call' = Moved(n)
    /\ UNCHANGED <<hardware, enable, rxRing, tx_out, clock, isr, handed>>

WriteFull ==
    /\ At("write", "move") /\ WriteSpan(tx_in, call.seen) = 0
    /\ GoTo("kick")
    /\ UNCHANGED <<hardware, enable, rxRing, txRing, clock, isr, history>>

WriteResult == IF call.some THEN "bytes"
               ELSE IF call.nonblock THEN "EWOULDBLOCK" ELSE "EIO"

\* Mutant: transmit interrupts are switched on only by a write that waits.
WriteKickIfWaiting ==
    /\ At("write", "kick")
    /\ IF call.left > 0 /\ ~call.nonblock
         THEN GoTo("spin") /\ enable' = enable \cup {"WE"}
         ELSE Return(WriteResult) /\ UNCHANGED enable
    /\ UNCHANGED <<hardware, rxRing, txRing, clock, isr, history>>

\* Transmit interrupts on, in a critical section.
WriteKick ==
    /\ At("write", "kick")
    /\ enable' = enable \cup {"WE"}
    /\ IF call.left > 0 /\ ~call.nonblock THEN GoTo("spin")
                                          ELSE Return(WriteResult)
    /\ UNCHANGED <<hardware, rxRing, txRing, clock, isr, history>>

WriteSpin ==
    /\ At("write", "spin") /\ (call.seen # tx_out \/ HostGone)
    /\ GoTo("leave")
    /\ UNCHANGED <<hardware, enable, rxRing, txRing, clock, isr, history>>

\* if (sp->host_inactive) break;
WriteLeave ==
    /\ At("write", "leave")
    /\ IF host_inactive > 0 THEN Return(WriteResult) ELSE GoTo("sample")
    /\ UNCHANGED <<hardware, enable, rxRing, txRing, clock, isr, history>>

CallClose(nonblock) ==
    /\ At("none", "idle")
    /\ call' = [Idle EXCEPT !.op = "close", !.at = "spin", !.nonblock = nonblock]
    /\ UNCHANGED <<hardware, enable, rxRing, txRing, clock, isr, history>>

\* Mutant: the ring is waited for whether there is a host or not.
CloseSpinForEver ==
    /\ At("close", "spin")
    /\ IF tx_out # tx_in THEN call.nonblock /\ Return("EWOULDBLOCK")
                         ELSE Return("zero")
    /\ UNCHANGED <<hardware, enable, rxRing, txRing, clock, isr, history>>

CloseSpin ==
    /\ At("close", "spin")
    /\ IF tx_out # tx_in /\ ~HostGone
         THEN call.nonblock /\ Return("EWOULDBLOCK")
         ELSE Return("zero")
    /\ UNCHANGED <<hardware, enable, rxRing, txRing, clock, isr, history>>

\* ioctl(TIOCSTIMEOUT): below two seconds means for ever.
SetTimeout(request) ==
    /\ At("none", "idle")
    /\ timeout' = IF request >= 2 /\ request < IntMax THEN request ELSE IntMax - 1
    /\ Return("zero")
    /\ UNCHANGED <<hardware, enable, rxRing, txRing, host_inactive, isr, history>>

-----------------------------------------------------------------------------
Host == HostPush \/ HostPull \/ HostPoll \/ HostLeaves \/ HostReturns
Isr == \/ IsrControl \/ IsrReceive \/ IsrReceiveEmpty \/ IsrReceiveFull
       \/ IsrTransmit
Calls == \/ \E n \in 1..MaxCount, nb \in BOOLEAN : CallRead(n, nb) \/ CallWrite(n, nb)
         \/ \E nb \in BOOLEAN : CallClose(nb)
         \/ \E request \in Requests : SetTimeout(request)
Reading == ReadSample \/ ReadMove \/ ReadNothing \/ ReadSpin \/ ReadLeave \/ ReadKick
Writing == WriteSample \/ WriteMove \/ WriteFull \/ WriteKick \/ WriteSpin \/ WriteLeave
Program == Reading \/ Writing \/ CloseSpin

Next == Host \/ Isr \/ Alarm \/ Calls \/ Program

Spec == Init /\ [][Next]_vars

\* Interrupts are served, the alarm rings, the processor runs, and a host
\* that stays takes what the UART holds for it.
Fairness == WF_vars(Isr) /\ WF_vars(Alarm) /\ WF_vars(Program) /\ WF_vars(HostPull)

FairSpec == Spec /\ Fairness
-----------------------------------------------------------------------------
(* Properties.                                                             *)

\* The bytes in flight in each direction: ring and FIFO together.
Up == RingBytes(rx_buf, rx_out, Used(rx_in, rx_out)) \o rxFifo
Down == txFifo \o RingBytes(tx_buf, tx_out, Used(tx_in, tx_out))

Link == INSTANCE ByteLink WITH Chunk <- BufLen, up <- Up, down <- Down

\* Whatever the interleaving of program, interrupt and host, the driver is
\* two byte streams in order, without loss or repetition.
LinkSpec == Link!LinkSpec

\* Receive interrupts are off only while the ring holds bytes, or while the
\* read that emptied it has still to turn them on: no byte waits for ever.
NoLostReceive ==
    "RE" \notin enable =>
        rx_in # rx_out \/ (call.op = "read" /\ call.some)

\* Bytes in the transmit ring have their interrupt on, or the write that put
\* them there has still to turn it on.
NoLostTransmit ==
    tx_in # tx_out =>
        \/ "WE" \in enable
        \/ call.op = "write" /\ call.at \in {"sample", "move", "kick"}

\* The space that was read from CONTROL is there when it is used.
SpaceIsThere == isr.at \in {"rx", "tx"} => isr.space <= FifoDepth - Len(txFifo)

\* A program that asked never to time out is never told that the host is gone.
NeverTimesOut == timeout = IntMax - 1 => ~HostGone

\* A write or close ends, whether the host is there, leaves, or comes back,
\* unless the program asked to wait for ever.
CallsEnd == (call.op \in {"write", "close"} /\ timeout < IntMax - 1) ~> (call.op = "none")

\* A blocked read ends when there is a byte for it, wherever that byte is.
ReadServed == (call.op = "read" /\ Up # << >>) ~> (call.op = "none")

\* What was written reaches a host that stays.
Drains == <>[](host = "on") => []<>(Down = << >>)
=============================================================================
