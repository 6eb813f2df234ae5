--------------------------- MODULE JtagUart_proofs ---------------------------
(***************************************************************************)
(* The driver's two rings, for any ring length: no copy, whether of the    *)
(* program or of the interrupt, reaches a slot that is not its own, and    *)
(* the interrupt enables never leave a byte behind.  From that, the driver *)
(* implements the two byte streams of ByteLink.                            *)
(***************************************************************************)
EXTENDS JtagUart, TLAPS, SequenceTheorems

-----------------------------------------------------------------------------
(* Rings. *)

(* The slot n places on, without the modulus. *)
LEMMA FollowingIs ==
  ASSUME NEW slot \in Slots, NEW n \in 0..BufLen
  PROVE  /\ Following(slot, n) = IF slot + n < BufLen THEN slot + n ELSE slot + n - BufLen
         /\ Following(slot, n) \in Slots
<1> USE BufLenAssumption DEF Slots
<1> DEFINE a == slot + n
<1>1. a \in Nat /\ a < 2 * BufLen
  OBVIOUS
<1> HIDE DEF a
<1>2. a % BufLen = IF a < BufLen THEN a ELSE a - BufLen
  BY <1>1
<1>3. Following(slot, n) = IF slot + n < BufLen THEN slot + n ELSE slot + n - BufLen
  BY <1>2 DEF Following, a
<1>4. QED
  BY <1>3

(* What a ring holds, and what putting n bytes in or taking n out changes. *)
LEMMA UsedIs ==
  ASSUME NEW in \in Slots, NEW out \in Slots
  PROVE  /\ Used(in, out) \in 0..(BufLen - 1)
         /\ Used(in, out) = 0 <=> in = out
         /\ RingFull(in, out) <=> Used(in, out) = BufLen - 1
         /\ \A n \in 0..(BufLen - 1) : Used(in, out) + n <= BufLen - 1 =>
               Used(Following(in, n), out) = Used(in, out) + n
         /\ \A n \in 0..Used(in, out) :
               Used(in, Following(out, n)) = Used(in, out) - n
         /\ Following(out, Used(in, out)) = in
<1> USE BufLenAssumption DEF Slots, Used
<1>1. Used(in, out) \in 0..(BufLen - 1) /\ (Used(in, out) = 0 <=> in = out)
  OBVIOUS
<1>2. RingFull(in, out) <=> Used(in, out) = BufLen - 1
  <2>1. Following(in, 1) = IF in + 1 < BufLen THEN in + 1 ELSE in + 1 - BufLen
    BY FollowingIs
  <2>2. QED
    BY <2>1 DEF RingFull
<1>3. ASSUME NEW n \in 0..(BufLen - 1), Used(in, out) + n <= BufLen - 1
      PROVE  Used(Following(in, n), out) = Used(in, out) + n
  <2>1. Following(in, n) = IF in + n < BufLen THEN in + n ELSE in + n - BufLen
    BY FollowingIs
  <2>2. QED
    BY <1>3, <2>1
<1>4. ASSUME NEW n \in 0..Used(in, out)
      PROVE  Used(in, Following(out, n)) = Used(in, out) - n
  <2>1. n \in 0..BufLen
    BY <1>1
  <2>2. Following(out, n) = IF out + n < BufLen THEN out + n ELSE out + n - BufLen
    BY <2>1, FollowingIs
  <2>3. QED
    BY <2>2
<1>5. Following(out, Used(in, out)) = in
  <2> DEFINE n == Used(in, out)
  <2>1. n \in 0..BufLen
    BY <1>1
  <2>2. Following(out, n) = IF out + n < BufLen THEN out + n ELSE out + n - BufLen
    BY <2>1, FollowingIs
  <2>3. QED
    BY <2>2
<1>6. QED
  BY <1>1, <1>2, <1>3, <1>4, <1>5

(* Following is additive. *)
LEMMA FollowingSum ==
  ASSUME NEW slot \in Slots, NEW m \in 0..BufLen, NEW n \in 0..BufLen, m + n <= BufLen
  PROVE  Following(Following(slot, m), n) = Following(slot, m + n)
<1> USE BufLenAssumption DEF Slots
<1>1. Following(slot, m) = IF slot + m < BufLen THEN slot + m ELSE slot + m - BufLen
  BY FollowingIs
<1> DEFINE f == Following(slot, m)
           mn == m + n
<1>2. f \in Slots /\ mn \in 0..BufLen
  BY FollowingIs
<1> HIDE DEF f, mn
<1>3. Following(f, n) = IF f + n < BufLen THEN f + n ELSE f + n - BufLen
  BY <1>2, FollowingIs
<1>4. Following(slot, mn) = IF slot + mn < BufLen THEN slot + mn ELSE slot + mn - BufLen
  BY <1>2, FollowingIs
<1>5. QED
  BY <1>1, <1>2, <1>3, <1>4 DEF f, mn

(* Two places of a ring are two slots. *)
LEMMA FollowingDistinct ==
  ASSUME NEW slot \in Slots, NEW m \in 0..(BufLen - 1), NEW n \in 0..(BufLen - 1)
  PROVE  Following(slot, m) = Following(slot, n) => m = n
<1> USE BufLenAssumption DEF Slots
<1>1. Following(slot, m) = IF slot + m < BufLen THEN slot + m ELSE slot + m - BufLen
  BY FollowingIs
<1>2. Following(slot, n) = IF slot + n < BufLen THEN slot + n ELSE slot + n - BufLen
  BY FollowingIs
<1>3. QED
  BY <1>1, <1>2

(* The bytes of a ring as a sequence. *)
LEMMA RingBytesIs ==
  ASSUME NEW buf \in [Slots -> Nat], NEW out \in Slots, NEW n \in 0..(BufLen - 1)
  PROVE  /\ RingBytes(buf, out, n) \in Seq(Nat)
         /\ Len(RingBytes(buf, out, n)) = n
         /\ \A i \in 1..n : RingBytes(buf, out, n)[i] = buf[Following(out, i - 1)]
<1> USE BufLenAssumption
<1>1. ASSUME NEW i \in 1..n PROVE Following(out, i - 1) \in Slots
  <2>1. i - 1 \in 0..BufLen
    OBVIOUS
  <2>2. QED
    BY <2>1, FollowingIs
<1>2. \A i \in 1..n : buf[Following(out, i - 1)] \in Nat
  BY <1>1
<1>3. RingBytes(buf, out, n) \in [1..n -> Nat]
  BY <1>2 DEF RingBytes
<1>4. n \in Nat
  OBVIOUS
<1>5. QED
  BY <1>3, <1>4 DEF RingBytes

(* new is buf with bytes put behind the n bytes from out on. *)
Puts(buf, new, out, n, bytes) ==
    /\ buf \in [Slots -> Nat] /\ new \in [Slots -> Nat] /\ out \in Slots
    /\ n \in Nat /\ bytes \in Seq(Nat) /\ n + Len(bytes) <= BufLen - 1
    /\ \A i \in 0..(n - 1) : new[Following(out, i)] = buf[Following(out, i)]
    /\ \A i \in 1..Len(bytes) : new[Following(out, n + i - 1)] = bytes[i]

(* Bytes put behind the others. *)
LEMMA RingPut ==
  ASSUME NEW buf, NEW new, NEW out, NEW n, NEW bytes, Puts(buf, new, out, n, bytes),
         NEW total, total = n + Len(bytes)
  PROVE  RingBytes(new, out, total) = RingBytes(buf, out, n) \o bytes
<1> DEFINE k == Len(bytes)
<1>0. /\ buf \in [Slots -> Nat] /\ new \in [Slots -> Nat] /\ out \in Slots
      /\ bytes \in Seq(Nat) /\ Len(bytes) = k
      /\ \A i \in 0..(n - 1) : new[Following(out, i)] = buf[Following(out, i)]
      /\ \A i \in 1..k : new[Following(out, n + i - 1)] = bytes[i]
      /\ n \in 0..(BufLen - 1) /\ k \in 0..(BufLen - 1) /\ n + k <= BufLen - 1
  BY BufLenAssumption DEF Puts
<1> HIDE DEF k
<1> USE <1>0, BufLenAssumption
<1> DEFINE old == RingBytes(buf, out, n)
           all == RingBytes(new, out, n + k)
<1>1. old \in Seq(Nat) /\ Len(old) = n /\ \A i \in 1..n : old[i] = buf[Following(out, i - 1)]
  BY RingBytesIs
<1>2. all \in Seq(Nat) /\ Len(all) = n + k /\ \A i \in 1..(n + k) : all[i] = new[Following(out, i - 1)]
  <2>1. n + k \in 0..(BufLen - 1)
    OBVIOUS
  <2>2. QED
    BY <2>1, RingBytesIs
<1> HIDE DEF old, all
<1>3. /\ old \o bytes \in Seq(Nat) /\ Len(old \o bytes) = n + k
      /\ \A i \in 1..(n + k) : (old \o bytes)[i] = IF i <= n THEN old[i] ELSE bytes[i - n]
  <2>1. /\ old \o bytes \in Seq(Nat) /\ Len(old \o bytes) = Len(old) + Len(bytes)
        /\ \A i \in 1..(Len(old) + Len(bytes)) :
              (old \o bytes)[i] = IF i <= Len(old) THEN old[i] ELSE bytes[i - Len(old)]
    BY <1>1, ConcatProperties, Zenon
  <2>2. Len(old) = n /\ Len(bytes) = k
    BY <1>1
  <2>3. QED
    BY <2>1, <2>2
<1>4. ASSUME NEW i \in 1..(n + k) PROVE all[i] = (old \o bytes)[i]
  <2>1. CASE i <= n
    <3>1. i \in 1..n /\ i - 1 \in 0..(n - 1)
      BY <2>1
    <3>2. new[Following(out, i - 1)] = buf[Following(out, i - 1)]
      BY <3>1
    <3>3. all[i] = new[Following(out, i - 1)]
      BY <1>2
    <3>4. (old \o bytes)[i] = old[i]
      BY <1>3, <2>1
    <3>5. old[i] = buf[Following(out, i - 1)]
      BY <1>1, <3>1
    <3>6. QED
      BY <3>2, <3>3, <3>4, <3>5
  <2>2. CASE i > n
    <3>1. i - n \in 1..k /\ n + (i - n) - 1 = i - 1
      BY <2>2
    <3>2. new[Following(out, n + (i - n) - 1)] = bytes[i - n]
      BY <3>1
    <3>3. all[i] = new[Following(out, i - 1)]
      BY <1>2
    <3>4. (old \o bytes)[i] = bytes[i - n]
      BY <1>3, <2>2
    <3>5. QED
      BY <3>1, <3>2, <3>3, <3>4
  <2>3. i <= n \/ i > n
    OBVIOUS
  <2>4. QED
    BY <2>1, <2>2, <2>3, Zenon
<1>5. all = old \o bytes
  BY <1>2, <1>3, <1>4, SeqEqual
<1>6. QED
  <2>1. RingBytes(new, out, n + k) = RingBytes(new, out, total)
    BY DEF k
  <2>2. QED
    BY <1>5, <2>1 DEF old, all

(* Bytes taken from the front. *)
LEMMA RingTake ==
  ASSUME NEW buf \in [Slots -> Nat], NEW out \in Slots,
         NEW n \in 0..(BufLen - 1), NEW k \in 0..n
  PROVE  RingBytes(buf, out, n) = RingBytes(buf, out, k) \o RingBytes(buf, Following(out, k), n - k)
<1> USE BufLenAssumption
<1> DEFINE start == Following(out, k)
           m == n - k
           rest == RingBytes(buf, start, m)
<1>1. start \in Slots
  BY FollowingIs
<1>2. m \in 0..(BufLen - 1) /\ k \in 0..(BufLen - 1) /\ k + m = n
  OBVIOUS
<1> HIDE DEF m
<1>3. /\ rest \in Seq(Nat) /\ Len(rest) = m
      /\ \A i \in 1..m : rest[i] = buf[Following(start, i - 1)]
  <2> HIDE DEF start
  <2>1. QED
    BY <1>1, <1>2, RingBytesIs
<1>4. ASSUME NEW i \in 1..m PROVE buf[Following(out, k + i - 1)] = rest[i]
  <2> DEFINE j == i - 1
  <2>1. j \in 0..BufLen /\ k + j = k + i - 1 /\ k + j <= BufLen
    BY <1>2
  <2> HIDE DEF j
  <2>2. Following(start, j) = Following(out, k + j)
    BY <1>2, <2>1, FollowingSum
  <2>3. rest[i] = buf[Following(start, j)]
    BY <1>3 DEF j
  <2>4. QED
    BY <2>1, <2>2, <2>3
<1>5. RingBytes(buf, out, k + m) = RingBytes(buf, out, k) \o rest
  <2> DEFINE new == buf
  <2>1. /\ k \in 0..(BufLen - 1) /\ m \in 0..(BufLen - 1) /\ k + m <= BufLen - 1
        /\ rest \in Seq(Nat) /\ Len(rest) = m /\ new \in [Slots -> Nat]
    BY <1>2, <1>3
  <2>2. \A i \in 0..(k - 1) : new[Following(out, i)] = buf[Following(out, i)]
    OBVIOUS
  <2>3. \A i \in 1..m : new[Following(out, k + i - 1)] = rest[i]
    BY <1>4
  <2> HIDE DEF rest, new
  <2>4. Puts(buf, new, out, k, rest)
    BY <2>1, <2>2, <2>3 DEF Puts
  <2>5. n = k + Len(rest)
    BY <1>2, <2>1
  <2>6. RingBytes(new, out, n) = RingBytes(buf, out, k) \o rest
    BY <2>4, <2>5, RingPut
  <2>7. QED
    BY <1>2, <2>6 DEF new
<1>6. QED
  BY <1>2, <1>5 DEF m
-----------------------------------------------------------------------------
(* The inductive invariant. *)

\* Where a call can be, and what it has when it is there.
CallShape ==
    /\ call.op = "none" <=> call.at = "idle"
    /\ call.op = "close" => call.at = "spin"
    /\ call.op \in {"read", "write"} /\ call.at # "kick" => call.left > 0
    /\ call.op = "read" /\ call.at = "kick" => call.some
    /\ call.op = "read" /\ call.at \in {"spin", "leave"} => ~call.some

\* A copy works with a pointer read earlier.  The interrupt can only have
\* filled the receive ring and emptied the transmit ring since.
SeenIsSafe ==
    /\ call.op = "read" /\ call.at = "move" =>
          Used(call.seen, rx_out) <= Used(rx_in, rx_out)
    /\ call.op = "write" /\ call.at = "move" =>
          Used(tx_in, tx_out) <= Used(tx_in, call.seen)

IInv == /\ TypeOK /\ CallShape /\ SeenIsSafe
        /\ NoLostReceive /\ NoLostTransmit /\ SpaceIsThere /\ NeverTimesOut

(* What a hardware FIFO holds when bytes are written to it. *)
LEMMA FillIs ==
  ASSUME NEW fifo \in Seq(Nat), NEW bytes \in Seq(Nat), Len(fifo) <= FifoDepth
  PROVE  /\ Fill(fifo, bytes) \in Seq(Nat)
         /\ Len(Fill(fifo, bytes)) <= FifoDepth
         /\ Len(bytes) <= FifoDepth - Len(fifo) => Fill(fifo, bytes) = fifo \o bytes
<1> DEFINE all == fifo \o bytes
           n == IF Len(all) < FifoDepth THEN Len(all) ELSE FifoDepth
<1>1. all \in Seq(Nat) /\ Len(all) = Len(fifo) + Len(bytes)
  BY ConcatProperties
<1> HIDE DEF all
<1>2. n \in 0..Len(all) /\ n <= FifoDepth
  BY <1>1, FifoAssumption
<1> HIDE DEF n
<1>3. \A i \in 1..n : all[i] \in Nat
  BY <1>1, <1>2
<1>4. SubSeq(all, 1, n) \in Seq(Nat) /\ Len(SubSeq(all, 1, n)) = n
  BY <1>2, <1>3, SubSeqProperties
<1>5. SubSeq(all, 1, Len(all)) = all
  BY <1>1, SubSeqFull
<1>6. Len(bytes) <= FifoDepth - Len(fifo) => n = Len(all)
  BY <1>1, FifoAssumption DEF n
<1>7. Fill(fifo, bytes) = SubSeq(all, 1, n)
  BY DEF Fill, all, n
<1>8. QED
  BY <1>2, <1>4, <1>5, <1>6, <1>7 DEF all

(* The steps of the interrupt that move bytes, with their types. *)
LEMMA TransmitTypes ==
  ASSUME TypeOK, IsrTransmit
  PROVE  /\ txFifo' \in Seq(Nat) /\ Len(txFifo') <= FifoDepth
         /\ tx_out' \in Slots
<1> USE BufLenAssumption, FifoAssumption
<1> DEFINE queued == Used(tx_in, tx_out)
           n == IF isr.space < queued THEN isr.space ELSE queued
<1>1. queued \in 0..(BufLen - 1)
  BY UsedIs DEF TypeOK, RingTypes
<1>2. isr.space \in 0..FifoDepth
  BY DEF TypeOK, IsrLocals
<1>3. n \in 0..(BufLen - 1) /\ n \in 0..BufLen
  BY <1>1, <1>2
<1>4. txFifo' = Fill(txFifo, RingBytes(tx_buf, tx_out, n)) /\ tx_out' = Following(tx_out, n)
  BY DEF IsrTransmit
<1> HIDE DEF n, queued
<1>5. RingBytes(tx_buf, tx_out, n) \in Seq(Nat)
  BY <1>3, RingBytesIs DEF TypeOK, RingTypes
<1>6. QED
  BY <1>3, <1>4, <1>5, FillIs, FollowingIs DEF TypeOK, RingTypes, HardwareTypes

(* What a copy of read() moves: some bytes of the ring that do not wrap. *)
LEMMA ReadCopy ==
  ASSUME TypeOK, CallShape, SeenIsSafe, ReadMove
  PROVE  \E n \in 1..Used(rx_in, rx_out) :
            /\ n <= call.left /\ rx_out + n - 1 \in Slots
            /\ handed' = rx_buf[rx_out + n - 1]
            /\ rx_out' = Following(rx_out, n)
            /\ call' = Moved(n)
<1> USE BufLenAssumption
<1> DEFINE span == ReadSpan(call.seen, rx_out)
           n == AtMost(span, call.left)
<1>1. /\ call.seen \in Slots /\ rx_out \in Slots /\ rx_in \in Slots
      /\ call.left \in Nat /\ call.left > 0
  BY DEF TypeOK, RingTypes, CallLocals, CallShape, ReadMove, At
<1>2. Used(call.seen, rx_out) <= Used(rx_in, rx_out) /\ Used(rx_in, rx_out) \in 0..(BufLen - 1)
  BY <1>1, UsedIs DEF ReadMove, At, SeenIsSafe
<1>3. span > 0 /\ span \in Nat /\ rx_out + span <= BufLen /\ span <= Used(call.seen, rx_out)
  BY <1>1 DEF ReadMove, ReadSpan, Used, Slots
<1>4. n \in 1..Used(rx_in, rx_out) /\ n <= call.left /\ rx_out + n - 1 \in Slots
  <2> HIDE DEF span
  <2>1. Used(call.seen, rx_out) \in Nat
    BY <1>1, UsedIs
  <2>2. QED
    BY <1>1, <1>2, <1>3, <2>1 DEF AtMost, Slots
<1>5. QED
  BY <1>4 DEF ReadMove

(* What a copy of write() moves: into free slots, without wrapping. *)
LEMMA WriteCopy ==
  ASSUME TypeOK, CallShape, SeenIsSafe, WriteMove
  PROVE  \E n \in 1..(BufLen - 1) :
            /\ n <= call.left /\ tx_in + n <= BufLen
            /\ Used(tx_in, tx_out) + n <= BufLen - 1
            /\ tx_buf' = [s \in Slots |-> IF s \in tx_in..(tx_in + n - 1)
                                            THEN written + 1 + s - tx_in ELSE tx_buf[s]]
            /\ tx_in' = Following(tx_in, n)
            /\ written' = written + n
            /\ call' = Moved(n)
<1> USE BufLenAssumption
<1> DEFINE span == WriteSpan(tx_in, call.seen)
           n == AtMost(span, call.left)
<1>1. /\ call.seen \in Slots /\ tx_out \in Slots /\ tx_in \in Slots
      /\ call.left \in Nat /\ call.left > 0
  BY DEF TypeOK, RingTypes, CallLocals, CallShape, WriteMove, At
<1>2. Used(tx_in, tx_out) <= Used(tx_in, call.seen) /\ Used(tx_in, tx_out) \in 0..(BufLen - 1)
  BY <1>1, UsedIs DEF WriteMove, At, SeenIsSafe
<1>3. span > 0 /\ span \in Nat /\ tx_in + span <= BufLen /\ Used(tx_in, call.seen) + span <= BufLen - 1
  BY <1>1 DEF WriteMove, WriteSpan, Used, Slots
<1>4. /\ n \in 1..(BufLen - 1) /\ n <= call.left /\ tx_in + n <= BufLen
      /\ Used(tx_in, tx_out) + n <= BufLen - 1
  <2> HIDE DEF span
  <2>1. Used(tx_in, call.seen) \in Nat
    BY <1>1, UsedIs
  <2>2. QED
    BY <1>1, <1>2, <1>3, <2>1 DEF AtMost, Slots
<1>5. QED
  BY <1>4 DEF WriteMove

(* The values the calls' locals take. *)
LEMMA LocalTypes ==
  ASSUME call \in CallLocals
  PROVE  /\ \A r \in {"bytes", "zero", "EIO", "EWOULDBLOCK"} :
               [Idle EXCEPT !.result = r] \in CallLocals
         /\ \A p \in {"sample", "move", "kick", "spin", "leave"} :
               [call EXCEPT !.at = p] \in CallLocals
         /\ \A n \in 1..call.left : Moved(n) \in CallLocals
         /\ WriteResult \in {"bytes", "EIO", "EWOULDBLOCK"}
<1> USE BufLenAssumption
<1>1. 0 \in Slots
  BY DEF Slots
<1>2. \A n \in 1..call.left : Moved(n) \in CallLocals
  <2>1. \A n \in 1..call.left : call.left - n \in Nat
    BY DEF CallLocals
  <2>2. QED
    BY <1>1, <2>1 DEF Moved, CallLocals
<1>3. QED
  BY <1>1, <1>2 DEF WriteResult, Idle, CallLocals

(* The hardware and the host keep the types. *)
LEMMA HostTypes ==
  ASSUME TypeOK, Host
  PROVE  TypeOK'
<1>1. HardwareTypes'
  <2> USE DEF TypeOK, HardwareTypes
  <2>1. CASE HostPush
    <3>1. sent \in Nat /\ sent + 1 \in Nat /\ rxFifo \in Seq(Nat)
      OBVIOUS
    <3>2. Append(rxFifo, sent + 1) \in Seq(Nat) /\ Len(Append(rxFifo, sent + 1)) = Len(rxFifo) + 1
      BY <3>1, AppendProperties
    <3>3. QED
      BY <2>1, <3>1, <3>2, FifoAssumption DEF HostPush
  <2>2. CASE HostPull
    <3>1. txFifo \in Seq(Nat) /\ txFifo # << >>
      BY <2>2 DEF HostPull
    <3>2. Tail(txFifo) \in Seq(Nat) /\ Len(Tail(txFifo)) = Len(txFifo) - 1
      BY <3>1, HeadTailProperties
    <3>3. QED
      BY <2>2, <3>1, <3>2, FifoAssumption DEF HostPull
  <2>3. CASE HostPoll \/ HostLeaves \/ HostReturns
    <3>1. /\ rxFifo' = rxFifo /\ txFifo' = txFifo /\ sent' = sent
          /\ leaves' = leaves \/ leaves' = leaves + 1
          /\ host' = host \/ host' = "on" \/ host' = "gone"
      BY <2>3 DEF HostPoll, HostLeaves, HostReturns
    <3>2. active' = active \/ active' = TRUE
      BY <2>3 DEF HostPoll, HostLeaves, HostReturns
    <3>3. active' \in BOOLEAN
      BY <3>2
    <3>4. leaves' \in Nat /\ host' \in {"on", "gone"}
      BY <3>1
    <3>5. QED
      BY <3>1, <3>3, <3>4
  <2>4. QED
    BY <2>1, <2>2, <2>3 DEF Host
<1>2. UNCHANGED <<enable, rxRing, txRing, clock, isr, call, history>>
  BY DEF Host, HostPush, HostPull, HostPoll, HostLeaves, HostReturns
<1>3. QED
  BY <1>1, <1>2 DEF TypeOK, RingTypes, ClockTypes, rxRing, txRing, clock, history

(* The interrupt routine and the alarm keep the types. *)
LEMMA IsrTypes ==
  ASSUME TypeOK, Isr \/ Alarm
  PROVE  TypeOK'
<1> USE BufLenAssumption, FifoAssumption DEF TypeOK
<1>0. FifoDepth - Len(txFifo) \in 0..FifoDepth
  BY DEF HardwareTypes
<1>1. CASE IsrControl
  <2>1. isr' \in IsrLocals
    BY <1>1, <1>0 DEF IsrControl, NoIsr, WritePending, IsrLocals
  <2>2. QED
    BY <1>1, <2>1 DEF IsrControl, hardware, HardwareTypes, RingTypes, ClockTypes,
                      rxRing, txRing, clock, history
<1>2. CASE IsrReceive
  <2>1. rx_in \in Slots /\ rx_buf \in [Slots -> Nat] /\ rxFifo \in Seq(Nat) /\ rxFifo # << >>
    BY <1>2 DEF IsrReceive, RingTypes, HardwareTypes
  <2>2. Following(rx_in, 1) \in Slots
    BY <2>1, FollowingIs
  <2>3. Head(rxFifo) \in Nat /\ Tail(rxFifo) \in Seq(Nat) /\ Len(Tail(rxFifo)) = Len(rxFifo) - 1
    BY <2>1, HeadTailProperties
  <2>4. RingTypes'
    BY <1>2, <2>1, <2>2, <2>3 DEF IsrReceive, RingTypes, txRing
  <2>5. HardwareTypes'
    BY <1>2, <2>1, <2>3 DEF IsrReceive, HardwareTypes
  <2>6. isr' \in IsrLocals
    BY <1>2 DEF IsrReceive, IsrLocals
  <2>7. QED
    BY <1>2, <2>4, <2>5, <2>6 DEF IsrReceive, ClockTypes, clock, history
<1>3. CASE IsrReceiveEmpty \/ IsrReceiveFull
  <2>1. isr' \in IsrLocals /\ enable' \subseteq {"RE", "WE"}
    BY <1>3 DEF IsrReceiveEmpty, IsrReceiveFull, EndOfReceive, IsrLocals
  <2>2. QED
    BY <1>3, <2>1 DEF IsrReceiveEmpty, IsrReceiveFull, hardware, HardwareTypes, RingTypes,
                      ClockTypes, rxRing, txRing, clock, history
<1>4. CASE IsrTransmit
  <2>1. txFifo' \in Seq(Nat) /\ Len(txFifo') <= FifoDepth /\ tx_out' \in Slots
    BY <1>4, TransmitTypes
  <2>2. enable' \subseteq {"RE", "WE"} /\ isr' \in IsrLocals
    <3>1. enable' = enable \/ enable' = enable \ {"WE"}
      BY <1>4 DEF IsrTransmit
    <3>2. isr' = [isr EXCEPT !.at = "entry", !.wi = FALSE, !.space = 0]
      BY <1>4 DEF IsrTransmit
    <3>3. 0 \in 0..FifoDepth
      OBVIOUS
    <3>4. isr' \in IsrLocals
      BY <3>2, <3>3 DEF IsrLocals
    <3>5. QED
      BY <3>1, <3>4
  <2>3. HardwareTypes' /\ RingTypes'
    BY <1>4, <2>1 DEF IsrTransmit, HardwareTypes, RingTypes, rxRing
  <2>4. QED
    BY <1>4, <2>2, <2>3 DEF IsrTransmit, ClockTypes, clock, history
<1>5. CASE Alarm
  <2>1. host_inactive' \in 0..(IntMax - 2) /\ active' \in BOOLEAN
    <3>1. host_inactive \in 0..(IntMax - 2) /\ IntMax \in Nat /\ IntMax >= 4
      BY TimeAssumption DEF ClockTypes
    <3>2. \/ active' = FALSE /\ host_inactive' = 0
          \/ active' = active /\ host_inactive' = host_inactive
          \/ active' = active /\ host_inactive < IntMax - 2 /\ host_inactive' = host_inactive + 1
      BY <1>5 DEF Alarm
    <3>3. active' \in BOOLEAN
      BY <3>2 DEF HardwareTypes
    <3>4. host_inactive' \in 0..(IntMax - 2)
      BY <3>1, <3>2
    <3>5. QED
      BY <3>3, <3>4
  <2>2. QED
    BY <1>5, <2>1 DEF Alarm, HardwareTypes, RingTypes, ClockTypes, rxRing, txRing, history
<1>6. QED
  BY <1>1, <1>2, <1>3, <1>4, <1>5 DEF Isr

(* Starting a call keeps the types. *)
LEMMA CallTypes ==
  ASSUME TypeOK, Calls
  PROVE  TypeOK'
<1> USE DEF TypeOK, HardwareTypes, RingTypes, ClockTypes, history, clock, rxRing, txRing, hardware
<1>0. 0 \in Slots
  BY BufLenAssumption DEF Slots
<1>1. ASSUME NEW n \in 1..MaxCount, NEW nb \in BOOLEAN, CallRead(n, nb) \/ CallWrite(n, nb)
      PROVE  TypeOK'
  <2>1. call' \in CallLocals
    <3>1. n \in Nat
      BY BoundAssumption
    <3>2. QED
      BY <1>0, <1>1, <3>1 DEF CallRead, CallWrite, Idle, CallLocals
  <2>2. QED
    BY <1>1, <2>1 DEF CallRead, CallWrite
<1>2. ASSUME NEW nb \in BOOLEAN, CallClose(nb) PROVE TypeOK'
  <2>1. call' \in CallLocals
    BY <1>0, <1>2 DEF CallClose, Idle, CallLocals
  <2>2. QED
    BY <1>2, <2>1 DEF CallClose
<1>3. ASSUME NEW request \in Requests, SetTimeout(request) PROVE TypeOK'
  <2>1. call' \in CallLocals
    BY <1>3, LocalTypes DEF SetTimeout, Return
  <2>2. timeout' \in 2..(IntMax - 1)
    BY <1>3, TimeAssumption DEF SetTimeout
  <2>3. QED
    BY <1>3, <2>1, <2>2 DEF SetTimeout
<1>4. QED
  BY <1>1, <1>2, <1>3 DEF Calls

(* The steps of the calls keep the types. *)
LEMMA ProgramTypes ==
  ASSUME TypeOK, CallShape, SeenIsSafe, Program
  PROVE  TypeOK'
<1> USE DEF TypeOK, HardwareTypes, RingTypes, ClockTypes, history, clock, rxRing, txRing, hardware
<1>1. CASE ReadSample \/ WriteSample
  <2>1. call' \in CallLocals
    BY <1>1 DEF ReadSample, WriteSample, CallLocals
  <2>2. QED
    BY <1>1, <2>1 DEF ReadSample, WriteSample
<1>2. CASE ReadMove
  <2>1. PICK n \in 1..Used(rx_in, rx_out) :
            /\ n <= call.left /\ rx_out + n - 1 \in Slots
            /\ handed' = rx_buf[rx_out + n - 1]
            /\ rx_out' = Following(rx_out, n)
            /\ call' = Moved(n)
    BY <1>2, ReadCopy
  <2>2. Used(rx_in, rx_out) \in 0..(BufLen - 1)
    BY UsedIs
  <2>3. n \in 0..BufLen /\ n \in 1..call.left
    BY <2>1, <2>2, BufLenAssumption DEF CallLocals
  <2>4. rx_out' \in Slots
    BY <2>1, <2>3, FollowingIs
  <2>5. call' \in CallLocals /\ handed' \in Nat
    BY <2>1, <2>3, LocalTypes
  <2>6. QED
    BY <1>2, <2>4, <2>5 DEF ReadMove
<1>3. CASE WriteMove
  <2>1. PICK n \in 1..(BufLen - 1) :
            /\ n <= call.left /\ tx_in + n <= BufLen
            /\ tx_buf' = [s \in Slots |-> IF s \in tx_in..(tx_in + n - 1)
                                            THEN written + 1 + s - tx_in ELSE tx_buf[s]]
            /\ tx_in' = Following(tx_in, n)
            /\ written' = written + n
            /\ call' = Moved(n)
    BY <1>3, WriteCopy
  <2>2. n \in 0..BufLen /\ n \in 1..call.left /\ n \in Nat
    BY <2>1, BufLenAssumption DEF CallLocals
  <2>3. tx_in' \in Slots
    BY <2>1, <2>2, FollowingIs
  <2>4. call' \in CallLocals /\ written' \in Nat
    <3>1. Moved(n) \in CallLocals
      BY <2>2, LocalTypes
    <3>2. QED
      BY <2>1, <2>2, <3>1
  <2>5. tx_buf' \in [Slots -> Nat]
    <3>1. ASSUME NEW s \in tx_in..(tx_in + n - 1) PROVE written + 1 + s - tx_in \in Nat
      BY <2>2, BufLenAssumption DEF Slots
    <3>2. QED
      BY <2>1, <3>1
  <2>6. QED
    BY <1>3, <2>3, <2>4, <2>5 DEF WriteMove
<1>4. CASE ReadNothing \/ ReadSpin \/ ReadLeave \/ WriteFull \/ WriteSpin \/ WriteLeave \/ CloseSpin
  <2>1. call' \in CallLocals
    BY <1>4, LocalTypes DEF ReadNothing, ReadSpin, ReadLeave, WriteFull, WriteSpin, WriteLeave,
                            CloseSpin, Return, GoTo
  <2>2. QED
    BY <1>4, <2>1 DEF ReadNothing, ReadSpin, ReadLeave, WriteFull, WriteSpin, WriteLeave, CloseSpin
<1>5. CASE ReadKick \/ WriteKick
  <2>1. call' \in CallLocals
    BY <1>5, LocalTypes DEF ReadKick, WriteKick, Return, GoTo
  <2>2. QED
    BY <1>5, <2>1 DEF ReadKick, WriteKick
<1>6. QED
  BY <1>1, <1>2, <1>3, <1>4, <1>5 DEF Program, Reading, Writing

(* Steps that leave the calls alone leave their shape alone. *)
LEMMA ShapeStep ==
  ASSUME TypeOK, CallShape, SeenIsSafe, Next
  PROVE  CallShape'
<1>1. CASE Host \/ Isr \/ Alarm
  <2>1. call' = call
    BY <1>1 DEF Host, HostPush, HostPull, HostPoll, HostLeaves, HostReturns, Isr, IsrControl,
                IsrReceive, IsrReceiveEmpty, IsrReceiveFull, IsrTransmit, Alarm
  <2>2. QED
    BY <2>1 DEF CallShape
<1>2. CASE Calls
  <2>1. ASSUME NEW n \in 1..MaxCount, NEW nb \in BOOLEAN, CallRead(n, nb) \/ CallWrite(n, nb)
        PROVE  CallShape'
    <3>1. n > 0
      BY BoundAssumption
    <3>2. CASE CallRead(n, nb)
      BY <3>1, <3>2 DEF CallRead, Idle, CallShape
    <3>3. CASE CallWrite(n, nb)
      BY <3>1, <3>3 DEF CallWrite, Idle, CallShape
    <3>4. QED
      BY <2>1, <3>2, <3>3
  <2>2. ASSUME NEW nb \in BOOLEAN, CallClose(nb) PROVE CallShape'
    BY <2>2 DEF CallClose, Idle, CallShape
  <2>3. ASSUME NEW request \in Requests, SetTimeout(request) PROVE CallShape'
    BY <2>3 DEF SetTimeout, Return, Idle, CallShape
  <2>4. QED
    BY <1>2, <2>1, <2>2, <2>3 DEF Calls
<1>3. CASE ReadMove
  <2>1. PICK n \in 1..Used(rx_in, rx_out) : n <= call.left /\ call' = Moved(n)
    BY <1>3, ReadCopy
  <2>2. call.op = "read" /\ call \in CallLocals /\ Used(rx_in, rx_out) \in Nat
    BY <1>3, UsedIs, BufLenAssumption DEF ReadMove, At, TypeOK, RingTypes
  <2>3. call.left \in Nat /\ n \in Nat
    BY <2>2 DEF CallLocals
  <2>4. QED
    BY <2>1, <2>2, <2>3 DEF Moved, CallLocals, CallShape
<1>4. CASE WriteMove
  <2>1. PICK n \in 1..(BufLen - 1) : n <= call.left /\ call' = Moved(n)
    BY <1>4, WriteCopy
  <2>2. call.op = "write" /\ call \in CallLocals /\ n \in Nat
    BY <1>4, BufLenAssumption DEF WriteMove, At, TypeOK
  <2>3. call.left \in Nat
    BY <2>2 DEF CallLocals
  <2>4. QED
    BY <2>1, <2>2, <2>3 DEF Moved, CallLocals, CallShape
<1>5. CASE Program /\ ~ReadMove /\ ~WriteMove
  <2>1. call \in CallLocals
    BY DEF TypeOK
  <2> USE DEF CallShape, At, Return, GoTo, Idle, CallLocals
  <2>2. CASE ReadSample \/ WriteSample
    BY <2>1, <2>2 DEF ReadSample, WriteSample
  <2>3. CASE ReadNothing
    BY <2>1, <2>3 DEF ReadNothing
  <2>8. CASE ReadSpin \/ ReadLeave \/ ReadKick
    BY <2>1, <2>8 DEF ReadSpin, ReadLeave, ReadKick
  <2>4. CASE WriteFull \/ WriteSpin \/ CloseSpin
    BY <2>1, <2>4 DEF WriteFull, WriteSpin, CloseSpin
  <2>5. CASE WriteLeave
    BY <2>1, <2>5 DEF WriteLeave
  <2>6. CASE WriteKick
    BY <2>1, <2>6 DEF WriteKick
  <2>7. QED
    BY <1>5, <2>2, <2>3, <2>4, <2>5, <2>6, <2>8 DEF Program, Reading, Writing
<1>6. QED
  BY <1>1, <1>2, <1>3, <1>4, <1>5 DEF Next

(* A pointer read before a copy stays on the safe side of the interrupt's. *)
LEMMA SeenStep ==
  ASSUME TypeOK, CallShape, SeenIsSafe, SpaceIsThere, Next
  PROVE  SeenIsSafe'
<1> USE BufLenAssumption DEF SeenIsSafe
<1>0. /\ rx_in \in Slots /\ rx_out \in Slots /\ tx_in \in Slots /\ tx_out \in Slots
      /\ call.seen \in Slots
  BY DEF TypeOK, RingTypes, CallLocals
<1>1. CASE UNCHANGED <<rxRing, txRing, call>>
  BY <1>1 DEF rxRing, txRing
<1>2. CASE Host \/ IsrControl \/ IsrReceiveEmpty \/ IsrReceiveFull \/ Alarm
  <2>1. UNCHANGED <<rxRing, txRing, call>>
    BY <1>2 DEF Host, HostPush, HostPull, HostPoll, HostLeaves, HostReturns, IsrControl,
                IsrReceiveEmpty, IsrReceiveFull, Alarm
  <2>2. QED
    BY <1>1, <2>1
<1>3. CASE IsrReceive
  <2>1. /\ rx_in' = Following(rx_in, 1) /\ ~RingFull(rx_in, rx_out)
        /\ UNCHANGED <<rx_out, tx_in, tx_out, call>>
    BY <1>3 DEF IsrReceive, txRing
  <2>2. Used(rx_in, rx_out) \in 0..(BufLen - 1) /\ Used(rx_in, rx_out) # BufLen - 1
    BY <1>0, <2>1, UsedIs
  <2>3. 1 \in 0..(BufLen - 1) /\ Used(rx_in, rx_out) + 1 <= BufLen - 1
    BY <2>2
  <2>4. Used(Following(rx_in, 1), rx_out) = Used(rx_in, rx_out) + 1
    BY <1>0, <2>3, UsedIs
  <2>5. Used(call.seen, rx_out) \in Nat
    BY <1>0, UsedIs
  <2>6. QED
    BY <2>1, <2>2, <2>4, <2>5
<1>4. CASE IsrTransmit
  <2> DEFINE queued == Used(tx_in, tx_out)
             n == IF isr.space < queued THEN isr.space ELSE queued
  <2>1. tx_out' = Following(tx_out, n) /\ UNCHANGED <<rx_in, rx_out, tx_in, call>>
    BY <1>4 DEF IsrTransmit, rxRing
  <2>2. queued \in 0..(BufLen - 1) /\ isr.space \in Nat
    BY <1>0, UsedIs, FifoAssumption DEF TypeOK, IsrLocals
  <2>3. n \in 0..queued
    BY <2>2
  <2>4. Used(tx_in, Following(tx_out, n)) = queued - n
    <3> HIDE DEF n
    <3>1. QED
      BY <1>0, <2>3, UsedIs
  <2>5. Used(tx_in, call.seen) \in Nat
    BY <1>0, UsedIs
  <2> HIDE DEF n
  <2>6. Used(tx_in, tx_out') <= Used(tx_in, tx_out)
    BY <2>1, <2>2, <2>3, <2>4
  <2>7. Used(tx_in, tx_out') \in Nat /\ Used(tx_in, tx_out) \in Nat
    BY <2>1, <2>2, <2>3, <2>4
  <2>8. QED
    BY <2>1, <2>5, <2>6, <2>7
<1>5. CASE ReadSample \/ WriteSample
  <2>1. UNCHANGED <<rxRing, txRing>>
    BY <1>5 DEF ReadSample, WriteSample
  <2>2. \/ call'.op = "read" /\ call'.seen = rx_in
        \/ call'.op = "write" /\ call'.seen = tx_out
    BY <1>5 DEF ReadSample, WriteSample, At, TypeOK, CallLocals
  <2>3. Used(rx_in, rx_out) \in Nat /\ Used(tx_in, tx_out) \in Nat
    BY <1>0, UsedIs
  <2>4. QED
    BY <2>1, <2>2, <2>3 DEF rxRing, txRing
<1>6. CASE call'.at # "move"
  BY <1>6
<1>7. CASE Calls \/ (Program /\ ~ReadSample /\ ~WriteSample)
  <2>1. call \in CallLocals
    BY DEF TypeOK
  <2>2. CASE Calls
    <3>1. call'.at # "move"
      BY <2>2 DEF Calls, CallRead, CallWrite, CallClose, SetTimeout, Return, Idle
    <3>2. QED
      BY <1>6, <3>1
  <2>3. CASE ReadMove
    <3>1. PICK n \in 1..Used(rx_in, rx_out) : call' = Moved(n)
      BY <2>3, ReadCopy
    <3>2. QED
      BY <1>6, <2>1, <3>1 DEF Moved, CallLocals
  <2>4. CASE WriteMove
    <3>1. PICK n \in 1..(BufLen - 1) : call' = Moved(n)
      BY <2>4, WriteCopy
    <3>2. QED
      BY <1>6, <2>1, <3>1 DEF Moved, CallLocals
  <2>5. CASE Program /\ ~ReadSample /\ ~WriteSample /\ ~ReadMove /\ ~WriteMove
    <3>1. call'.at # "move"
      BY <2>1, <2>5 DEF Program, Reading, Writing, ReadNothing, ReadSpin, ReadLeave, ReadKick, WriteFull,
                  WriteKick, WriteSpin, WriteLeave, CloseSpin, Return, GoTo, Idle, CallLocals
    <3>2. QED
      BY <1>6, <3>1
  <2>6. QED
    BY <1>7, <2>2, <2>3, <2>4, <2>5
<1>8. QED
  BY <1>2, <1>3, <1>4, <1>5, <1>7 DEF Next, Isr

(* Receive interrupts come back: one lemma per conjunct of the invariant. *)
LEMMA ReceiveStep ==
  ASSUME TypeOK, CallShape, SeenIsSafe, NoLostReceive, Next
  PROVE  NoLostReceive'
<1> USE BufLenAssumption DEF NoLostReceive
<1>0. /\ rx_in \in Slots /\ rx_out \in Slots /\ call.seen \in Slots /\ call \in CallLocals
  BY DEF TypeOK, RingTypes, CallLocals
<1>1. CASE Host \/ IsrControl \/ IsrReceiveEmpty \/ Alarm
  BY <1>1 DEF Host, HostPush, HostPull, HostPoll, HostLeaves, HostReturns, IsrControl,
              IsrReceiveEmpty, Alarm, rxRing
<1>2. CASE IsrReceive
  <2>1. rx_in' = Following(rx_in, 1) /\ rx_out' = rx_out /\ ~RingFull(rx_in, rx_out)
    BY <1>2 DEF IsrReceive
  <2>2. rx_in' # rx_out'
    BY <2>1 DEF RingFull
  <2>3. QED
    BY <2>2
<1>3. CASE IsrReceiveFull
  <2>1. Used(rx_in, rx_out) = BufLen - 1 /\ (Used(rx_in, rx_out) = 0 <=> rx_in = rx_out)
    BY <1>0, <1>3, UsedIs DEF IsrReceiveFull
  <2>2. rx_in # rx_out
    BY <2>1
  <2>3. QED
    BY <1>3, <2>2 DEF IsrReceiveFull, rxRing
<1>4. CASE IsrTransmit
  BY <1>4 DEF IsrTransmit, rxRing
<1>5. CASE Calls
  <2>1. UNCHANGED <<enable, rx_in, rx_out>> /\ call.op = "none"
    BY <1>5 DEF Calls, CallRead, CallWrite, CallClose, SetTimeout, At, rxRing
  <2>2. QED
    BY <2>1
<1>6. CASE ReadMove
  <2>1. PICK n \in 1..Used(rx_in, rx_out) : call' = Moved(n)
    BY <1>6, ReadCopy
  <2>2. call.op = "read"
    BY <1>6 DEF ReadMove, At
  <2>3. call'.op = "read" /\ call'.some
    BY <1>0, <2>1, <2>2 DEF Moved, CallLocals
  <2>4. QED
    BY <2>3
<1>7. CASE ReadNothing
  <2>1. call.op = "read" /\ UNCHANGED <<enable, rx_in, rx_out>>
    BY <1>7 DEF ReadNothing, At, rxRing
  <2>2. call.some => call' = [call EXCEPT !.at = "kick"]
    BY <1>7 DEF ReadNothing, GoTo
  <2>3. call.some => call'.op = "read" /\ call'.some
    BY <1>0, <2>1, <2>2 DEF CallLocals
  <2>4. QED
    BY <2>1, <2>3
<1>8. CASE ReadKick \/ WriteKick
  <2>1. ReadKick => "RE" \in enable'
    BY DEF ReadKick
  <2>2. WriteKick => call.op = "write" /\ enable' = enable \cup {"WE"} /\ UNCHANGED <<rx_in, rx_out>>
    BY DEF WriteKick, At, rxRing
  <2>3. QED
    BY <1>8, <2>1, <2>2
<1>9. CASE ReadSample \/ ReadSpin \/ ReadLeave
  <2>1. UNCHANGED <<enable, rx_in, rx_out>> /\ call.op = "read"
    BY <1>9 DEF ReadSample, ReadSpin, ReadLeave, At, rxRing
  <2>2. call.some => ReadSample
    BY <1>9, <2>1 DEF ReadSpin, ReadLeave, At, CallShape
  <2>3. ReadSample => call'.op = call.op /\ call'.some = call.some
    BY <1>0 DEF ReadSample, CallLocals
  <2>4. QED
    BY <2>1, <2>2, <2>3
<1>10. CASE WriteSample \/ WriteMove \/ WriteFull \/ WriteSpin \/ WriteLeave \/ CloseSpin
  <2>1. UNCHANGED <<enable, rx_in, rx_out>> /\ call.op # "read"
    BY <1>10 DEF WriteSample, WriteMove, WriteFull, WriteSpin, WriteLeave, CloseSpin, At, rxRing
  <2>2. QED
    BY <2>1
<1>11. QED
  BY <1>1, <1>2, <1>3, <1>4, <1>5, <1>6, <1>7, <1>8, <1>9, <1>10 DEF Next, Isr, Program, Reading, Writing

LEMMA TransmitStep ==
  ASSUME TypeOK, CallShape, SeenIsSafe, SpaceIsThere, NoLostTransmit, Next
  PROVE  NoLostTransmit'
<1> USE BufLenAssumption DEF NoLostTransmit
<1>0. /\ tx_in \in Slots /\ tx_out \in Slots /\ call \in CallLocals
  BY DEF TypeOK, RingTypes
<1>1. CASE Host \/ IsrControl \/ IsrReceive \/ IsrReceiveEmpty \/ Alarm
  BY <1>1 DEF Host, HostPush, HostPull, HostPoll, HostLeaves, HostReturns, IsrControl,
              IsrReceive, IsrReceiveEmpty, Alarm, txRing
<1>2. CASE IsrReceiveFull
  <2>1. UNCHANGED <<tx_in, tx_out, call>> /\ (enable' = enable \/ enable' = enable \ {"RE"})
    BY <1>2 DEF IsrReceiveFull, txRing
  <2>2. QED
    BY <2>1
<1>3. CASE IsrTransmit
  <2> DEFINE queued == Used(tx_in, tx_out)
             n == IF isr.space < queued THEN isr.space ELSE queued
  <2>1. /\ tx_out' = Following(tx_out, n) /\ UNCHANGED <<tx_in, call>>
        /\ enable' = IF isr.space > n THEN enable \ {"WE"} ELSE enable
    BY <1>3 DEF IsrTransmit
  <2>2. queued \in 0..(BufLen - 1) /\ isr.space \in Nat
    BY <1>0, UsedIs, FifoAssumption DEF TypeOK, IsrLocals
  <2>3. CASE isr.space > n
    <3>1. n = queued
      BY <2>2, <2>3
    <3>2. tx_out' = tx_in
      BY <1>0, <2>1, <3>1, UsedIs
    <3>3. QED
      BY <2>1, <3>2
  <2>4. CASE ~(isr.space > n)
    <3>1. enable' = enable /\ UNCHANGED <<tx_in, call>>
      BY <2>1, <2>4
    <3>2. queued = 0 => n = 0
      BY <2>2
    <3>3. tx_in = tx_out => queued = 0
      BY <1>0, UsedIs
    <3>4. Following(tx_out, 0) = tx_out
      BY <1>0, FollowingIs DEF Slots
    <3> HIDE DEF n, queued
    <3>5. tx_in = tx_out => tx_in' = tx_out'
      BY <2>1, <3>2, <3>3, <3>4
    <3>6. QED
      BY <3>1, <3>5
  <2>5. QED
    BY <2>3, <2>4
<1>4. CASE Calls
  <2>1. UNCHANGED <<enable, tx_in, tx_out>> /\ call.op = "none"
    BY <1>4 DEF Calls, CallRead, CallWrite, CallClose, SetTimeout, At, txRing
  <2>2. QED
    BY <2>1
<1>5. CASE Reading \/ CloseSpin
  <2>1. UNCHANGED <<tx_in, tx_out>> /\ (enable' = enable \/ enable' = enable \cup {"RE"})
        /\ call.op # "write"
    BY <1>5 DEF Reading, ReadSample, ReadMove, ReadNothing, ReadSpin, ReadLeave, ReadKick, CloseSpin,
                At, txRing
  <2>2. QED
    BY <2>1
<1>6. CASE WriteKick
  BY <1>6 DEF WriteKick
<1>7. CASE WriteMove
  <2>1. PICK n \in 1..(BufLen - 1) : n <= call.left /\ call' = Moved(n)
    BY <1>7, WriteCopy
  <2>2. call.op = "write"
    BY <1>7 DEF WriteMove, At
  <2>3. call'.op = "write" /\ call'.at \in {"sample", "kick"}
    BY <1>0, <2>1, <2>2 DEF Moved, CallLocals
  <2>4. QED
    BY <2>3
<1>8. CASE WriteSample \/ WriteFull
  <2>1. call'.op = "write" /\ call'.at \in {"move", "kick"}
    BY <1>0, <1>8 DEF WriteSample, WriteFull, At, GoTo, CallLocals
  <2>2. QED
    BY <2>1
<1>9. CASE WriteSpin \/ WriteLeave
  <2>1. UNCHANGED <<enable, tx_in, tx_out>> /\ call.at \in {"spin", "leave"}
    BY <1>9 DEF WriteSpin, WriteLeave, At, txRing
  <2>2. QED
    BY <2>1
<1>10. QED
  BY <1>1, <1>2, <1>3, <1>4, <1>5, <1>6, <1>7, <1>8, <1>9 DEF Next, Isr, Program, Writing

(* Only the interrupt routine writes to the transmit FIFO, and a routine    *)
(* that looks at CONTROL again looks at the space again.                    *)
LEMMA SpaceStep ==
  ASSUME TypeOK, SpaceIsThere, Next
  PROVE  SpaceIsThere'
<1> USE FifoAssumption DEF SpaceIsThere
<1>0. /\ txFifo \in Seq(Nat) /\ Len(txFifo) \in 0..FifoDepth /\ isr.space \in 0..FifoDepth
      /\ isr \in IsrLocals
  BY DEF TypeOK, HardwareTypes, IsrLocals
<1>1. CASE HostPull
  <2>1. txFifo # << >> /\ txFifo' = Tail(txFifo) /\ isr' = isr
    BY <1>1 DEF HostPull
  <2>2. Len(txFifo') = Len(txFifo) - 1
    BY <1>0, <2>1, HeadTailProperties
  <2>3. QED
    BY <1>0, <2>1, <2>2
<1>2. CASE HostPush \/ HostPoll \/ HostLeaves \/ HostReturns \/ Alarm \/ Calls \/ Program
  <2>1. txFifo' = txFifo /\ isr' = isr
    BY <1>2 DEF HostPush, HostPoll, HostLeaves, HostReturns, Alarm, Calls, CallRead, CallWrite, CallClose,
                SetTimeout, Program, Reading, ReadSample, ReadMove, ReadNothing, ReadSpin, ReadLeave, ReadKick,
                Writing, WriteSample, WriteMove, WriteFull, WriteKick, WriteSpin, WriteLeave, CloseSpin, hardware
  <2>2. QED
    BY <2>1
<1>3. CASE IsrControl
  <2>1. txFifo' = txFifo /\ (isr' = NoIsr \/ isr'.space = FifoDepth - Len(txFifo))
    BY <1>3 DEF IsrControl, hardware
  <2>2. QED
    BY <1>0, <2>1 DEF NoIsr
<1>4. CASE IsrReceive \/ IsrReceiveEmpty \/ IsrReceiveFull
  <2>1. txFifo' = txFifo /\ isr.at = "rx" /\ isr'.space = isr.space
    BY <1>0, <1>4 DEF IsrReceive, IsrReceiveEmpty, IsrReceiveFull, EndOfReceive, hardware, IsrLocals
  <2>2. QED
    BY <2>1
<1>5. CASE IsrTransmit
  <2>1. isr'.at = "entry"
    BY <1>0, <1>5 DEF IsrTransmit, IsrLocals
  <2>2. QED
    BY <2>1
<1>6. QED
  BY <1>1, <1>2, <1>3, <1>4, <1>5 DEF Next, Host, Isr

LEMMA InvariantInit ==
  Init => IInv
<1> SUFFICES ASSUME Init PROVE IInv
  OBVIOUS
<1> USE BufLenAssumption, FifoAssumption, TimeAssumption
<1>1. 0 \in Slots /\ 0 \in 0..FifoDepth
  BY DEF Slots
<1>2. HardwareTypes
  <2>1. << >> \in Seq(Nat) /\ Len(<< >>) = 0
    BY EmptySeq
  <2>2. /\ rxFifo = << >> /\ txFifo = << >> /\ active = FALSE
        /\ host = "on" /\ leaves = 0 /\ sent = 0
    BY DEF Init
  <2>3. Len(rxFifo) <= FifoDepth /\ Len(txFifo) <= FifoDepth
    BY <2>1, <2>2
  <2>4. rxFifo \in Seq(Nat) /\ txFifo \in Seq(Nat)
    BY <2>1, <2>2
  <2>5. QED
    BY <2>2, <2>3, <2>4 DEF HardwareTypes
<1>3. RingTypes /\ ClockTypes
  BY <1>1 DEF Init, RingTypes, ClockTypes
<1>4. isr \in IsrLocals /\ call \in CallLocals
  BY <1>1 DEF Init, NoIsr, IsrLocals, Idle, CallLocals
<1>5. TypeOK
  BY <1>2, <1>3, <1>4 DEF Init, TypeOK
<1>6. QED
  BY <1>5 DEF IInv, Init, CallShape, SeenIsSafe, NoLostReceive, NoLostTransmit, SpaceIsThere, NeverTimesOut,
              HostGone, NoIsr, Idle

LEMMA InvariantStep ==
  IInv /\ [Next]_vars => IInv'
<1> SUFFICES ASSUME IInv, [Next]_vars PROVE IInv'
  OBVIOUS
<1>1. CASE Next
  <2>1. TypeOK'
    BY <1>1, HostTypes, IsrTypes, CallTypes, ProgramTypes DEF Next, IInv
  <2>2. NeverTimesOut'
    BY <2>1, TimeAssumption DEF TypeOK, ClockTypes, NeverTimesOut, HostGone
  <2>3. QED
    BY <1>1, <2>1, <2>2, ShapeStep, SeenStep, ReceiveStep, TransmitStep, SpaceStep DEF IInv
<1>2. CASE UNCHANGED vars
  <2>1. /\ UNCHANGED <<hardware, enable, rxRing, txRing, clock, isr, call, history>>
    BY <1>2 DEF vars
  <2>2. TypeOK'
    BY <2>1 DEF IInv, TypeOK, HardwareTypes, RingTypes, ClockTypes, hardware, rxRing, txRing, clock, history
  <2>3. QED
    BY <2>1, <2>2 DEF IInv, CallShape, SeenIsSafe, NoLostReceive, NoLostTransmit, SpaceIsThere, NeverTimesOut,
                      HostGone, hardware, rxRing, txRing, clock
<1>3. QED
  BY <1>1, <1>2

(* The driver's state is always of its type. *)
THEOREM UartTypeCorrect == Spec => []TypeOK
  BY InvariantInit, InvariantStep, PTL DEF Spec, IInv

(* No received byte is left in the UART with its interrupt off and nobody   *)
(* to turn it on (init.c:157-167, read.c:184-191).                          *)
THEOREM ReceiveNeverStalls == Spec => []NoLostReceive
  BY InvariantInit, InvariantStep, PTL DEF Spec, IInv

(* No written byte is left in the ring with its interrupt off and nobody    *)
(* to turn it on (init.c:193-201, write.c:132-135).                         *)
THEOREM TransmitNeverStalls == Spec => []NoLostTransmit
  BY InvariantInit, InvariantStep, PTL DEF Spec, IInv

(* The space the interrupt routine read is there when it writes             *)
(* (init.c:173-185).                                                        *)
THEOREM NoOverrun == Spec => []SpaceIsThere
  BY InvariantInit, InvariantStep, PTL DEF Spec, IInv

(* A request never to time out is never exceeded by the count of silent     *)
(* seconds (init.c:223, ioctl.c:62).                                        *)
THEOREM ForEverIsForEver == Spec => []NeverTimesOut
  BY InvariantInit, InvariantStep, PTL DEF Spec, IInv

-----------------------------------------------------------------------------
(* The refinement: what each step does to the two streams. *)

(* The two parts of each stream. *)
LEMMA StreamTypes ==
  ASSUME TypeOK
  PROVE  /\ RingBytes(rx_buf, rx_out, Used(rx_in, rx_out)) \in Seq(Nat)
         /\ RingBytes(tx_buf, tx_out, Used(tx_in, tx_out)) \in Seq(Nat)
         /\ rxFifo \in Seq(Nat) /\ txFifo \in Seq(Nat)
         /\ Up \in Seq(Nat) /\ Down \in Seq(Nat)
<1>1. /\ rx_in \in Slots /\ rx_out \in Slots /\ tx_in \in Slots /\ tx_out \in Slots
      /\ rx_buf \in [Slots -> Nat] /\ tx_buf \in [Slots -> Nat]
      /\ rxFifo \in Seq(Nat) /\ txFifo \in Seq(Nat)
  BY DEF TypeOK, RingTypes, HardwareTypes
<1>2. Used(rx_in, rx_out) \in 0..(BufLen - 1) /\ Used(tx_in, tx_out) \in 0..(BufLen - 1)
  BY <1>1, UsedIs
<1>3. /\ RingBytes(rx_buf, rx_out, Used(rx_in, rx_out)) \in Seq(Nat)
      /\ RingBytes(tx_buf, tx_out, Used(tx_in, tx_out)) \in Seq(Nat)
  BY <1>1, <1>2, RingBytesIs
<1>4. QED
  BY <1>1, <1>3, ConcatProperties DEF Up, Down

LEMMA Joined ==
  \A s, t, u \in Seq(Nat) : (s \o t) \o u = s \o (t \o u)
BY ConcatAssociative

(* Without its first part, a sequence is its second. *)
LEMMA DropPrefix ==
  ASSUME NEW s \in Seq(Nat), NEW t \in Seq(Nat), NEW n, n = Len(s), NEW m, m = Len(s \o t)
  PROVE  SubSeq(s \o t, n + 1, m) = t
<1> DEFINE all == s \o t
           rest == SubSeq(all, n + 1, m)
<1>1. /\ all \in Seq(Nat) /\ Len(all) = n + Len(t) /\ m = n + Len(t)
      /\ n \in Nat /\ Len(t) \in Nat
      /\ \A i \in 1..m : all[i] = IF i <= n THEN s[i] ELSE t[i - n]
  BY ConcatProperties, LenProperties
<1> HIDE DEF all
<1>2. \A i \in (n + 1)..m : all[i] \in Nat
  BY <1>1, ElementOfSeq
<1> DEFINE first == n + 1
<1>3. first \in Int /\ m \in Int /\ \A i \in first..m : all[i] \in Nat
  BY <1>1, <1>2
<1> HIDE DEF first
<1>4. /\ SubSeq(all, first, m) \in Seq(Nat)
      /\ Len(SubSeq(all, first, m)) = IF first <= m THEN m - first + 1 ELSE 0
      /\ \A i \in 1..(m - first + 1) : SubSeq(all, first, m)[i] = all[first + i - 1]
  BY <1>3, SubSeqProperties
<1>5. rest = SubSeq(all, first, m)
  BY DEF first
<1> HIDE DEF rest
<1>6. rest \in Seq(Nat) /\ Len(rest) = Len(t)
  BY <1>1, <1>4, <1>5 DEF first
<1>7. ASSUME NEW i \in 1..Len(rest) PROVE rest[i] = t[i]
  <2>1. rest[i] = all[n + i] /\ n + i \in 1..m /\ ~(n + i <= n) /\ n + i - n = i
    BY <1>1, <1>4, <1>5, <1>6, <1>7 DEF first
  <2>2. QED
    BY <1>1, <2>1
<1>8. rest = t
  BY <1>6, <1>7, SeqEqual
<1>9. QED
  BY <1>8 DEF rest, all

LEMMA PushSends ==
  ASSUME TypeOK, HostPush
  PROVE  Link!HostSends
<1> DEFINE ring == RingBytes(rx_buf, rx_out, Used(rx_in, rx_out))
<1>1. ring \in Seq(Nat) /\ rxFifo \in Seq(Nat) /\ Up = ring \o rxFifo /\ Up \in Seq(Nat)
  BY StreamTypes DEF Up
<1>2. /\ rxFifo' = Append(rxFifo, sent + 1) /\ sent' = sent + 1
      /\ UNCHANGED <<txFifo, rxRing, txRing, history>>
  BY DEF HostPush
<1>3. Up' = ring \o Append(rxFifo, sent + 1) /\ Down' = Down
  BY <1>2 DEF Up, Down, rxRing, txRing
<1> HIDE DEF ring
<1>4. sent + 1 \in Nat
  BY DEF TypeOK, HardwareTypes
<1> DEFINE byte == << sent + 1 >>
<1>5. byte \in Seq(Nat) /\ Append(rxFifo, sent + 1) = rxFifo \o byte
      /\ Append(Up, sent + 1) = Up \o byte
  BY <1>1, <1>4, AppendIsConcat
<1> HIDE DEF byte
<1>6. (ring \o rxFifo) \o byte = ring \o (rxFifo \o byte)
  BY <1>1, <1>5, Joined
<1>7. Up' = Append(Up, sent + 1)
  BY <1>1, <1>3, <1>5, <1>6
<1>8. QED
  BY <1>2, <1>3, <1>7 DEF Link!HostSends, history

LEMMA PullTakes ==
  ASSUME TypeOK, HostPull
  PROVE  Link!HostTakes
<1> DEFINE ring == RingBytes(tx_buf, tx_out, Used(tx_in, tx_out))
<1>1. ring \in Seq(Nat) /\ txFifo \in Seq(Nat) /\ Down = txFifo \o ring /\ Down \in Seq(Nat)
  BY StreamTypes DEF Down
<1>2. /\ txFifo # << >> /\ txFifo' = Tail(txFifo)
      /\ UNCHANGED <<rxFifo, sent, rxRing, txRing, history>>
  BY DEF HostPull
<1>3. Down' = Tail(txFifo) \o ring /\ Up' = Up
  BY <1>2 DEF Up, Down, rxRing, txRing
<1> HIDE DEF ring
<1>4. /\ Tail(txFifo) \in Seq(Nat) /\ Len(Tail(txFifo)) = Len(txFifo) - 1 /\ Len(txFifo) > 0
      /\ \A i \in 1..Len(Tail(txFifo)) : Tail(txFifo)[i] = txFifo[i + 1]
  BY <1>1, <1>2, HeadTailProperties
<1>5. /\ Len(Down) = Len(txFifo) + Len(ring)
      /\ \A i \in 1..(Len(txFifo) + Len(ring)) :
            Down[i] = IF i <= Len(txFifo) THEN txFifo[i] ELSE ring[i - Len(txFifo)]
  BY <1>1, ConcatProperties
<1>6. /\ Down' \in Seq(Nat) /\ Len(Down') = Len(Tail(txFifo)) + Len(ring)
      /\ \A i \in 1..(Len(Tail(txFifo)) + Len(ring)) :
            Down'[i] = IF i <= Len(Tail(txFifo)) THEN Tail(txFifo)[i] ELSE ring[i - Len(Tail(txFifo))]
  BY <1>1, <1>3, <1>4, ConcatProperties
<1>7. Down # << >>
  BY <1>1, <1>4, <1>5
<1>8. /\ Tail(Down) \in Seq(Nat) /\ Len(Tail(Down)) = Len(Down) - 1
      /\ \A i \in 1..Len(Tail(Down)) : Tail(Down)[i] = Down[i + 1]
  BY <1>1, <1>7, HeadTailProperties
<1>9. Len(Tail(Down)) = Len(Down')
  BY <1>1, <1>4, <1>5, <1>6, <1>8
<1>10. ASSUME NEW i \in 1..Len(Down') PROVE Down'[i] = Tail(Down)[i]
  <2>1. Tail(Down)[i] = Down[i + 1] /\ i + 1 \in 1..(Len(txFifo) + Len(ring))
    BY <1>1, <1>4, <1>6, <1>8, <1>9
  <2>2. CASE i <= Len(Tail(txFifo))
    BY <1>1, <1>4, <1>5, <1>6, <2>1, <2>2
  <2>3. CASE ~(i <= Len(Tail(txFifo)))
    <3>1. Down'[i] = ring[i - Len(Tail(txFifo))]
      BY <1>6, <2>3
    <3>2. Down[i + 1] = ring[i + 1 - Len(txFifo)]
      BY <1>1, <1>4, <1>5, <2>1, <2>3
    <3>3. i - Len(Tail(txFifo)) = i + 1 - Len(txFifo)
      BY <1>1, <1>4
    <3>4. QED
      BY <2>1, <3>1, <3>2, <3>3
  <2>4. QED
    BY <2>2, <2>3
<1>11. Down' = Tail(Down)
  BY <1>6, <1>8, <1>9, <1>10, SeqEqual
<1>12. QED
  BY <1>2, <1>3, <1>7, <1>11 DEF Link!HostTakes, history

(* A sequence is its first element and the others. *)
LEMMA HeadThenTail ==
  ASSUME NEW s \in Seq(Nat), s # << >>
  PROVE  /\ << Head(s) >> \in Seq(Nat) /\ Tail(s) \in Seq(Nat)
         /\ << Head(s) >> \o Tail(s) = s
<1>1. Len(s) \in Nat /\ Len(s) > 0
  BY EmptySeq, LenProperties
<1>2. Head(s) \in Nat /\ Tail(s) \in Seq(Nat) /\ Head(s) = s[1]
  BY HeadTailProperties
<1>3. SubSeq(s, 1, Len(s)) = << s[1] >> \o SubSeq(s, 2, Len(s))
  <2> DEFINE one == 1
             len == Len(s)
  <2>1. one \in 1..Len(s) /\ len \in one..Len(s)
    BY <1>1
  <2> HIDE DEF one, len
  <2>2. SubSeq(s, one, len) = << s[one] >> \o SubSeq(s, one + 1, len)
    BY <2>1, SubSeqRecursiveFirst
  <2>3. QED
    BY <2>2 DEF one, len
<1>4. Tail(s) = SubSeq(s, 2, Len(s)) /\ SubSeq(s, 1, Len(s)) = s
  BY TailIsSubSeq, SubSeqFull
<1>5. << Head(s) >> \in Seq(Nat)
  BY <1>2
<1>6. QED
  BY <1>2, <1>3, <1>4, <1>5

(* A byte moved from the receive FIFO to the ring keeps its place. *)
LEMMA ReceiveKeeps ==
  ASSUME TypeOK, IsrReceive
  PROVE  Up' = Up /\ Down' = Down
<1> USE BufLenAssumption
<1> DEFINE used == Used(rx_in, rx_out)
           byte == << Head(rxFifo) >>
           ring == RingBytes(rx_buf, rx_out, used)
<1>1. /\ rx_in \in Slots /\ rx_out \in Slots /\ rx_buf \in [Slots -> Nat]
      /\ rxFifo \in Seq(Nat) /\ rxFifo # << >> /\ ~RingFull(rx_in, rx_out)
  BY DEF IsrReceive, TypeOK, RingTypes, HardwareTypes
<1>2. used \in 0..(BufLen - 1) /\ used + 1 <= BufLen - 1
  BY <1>1, UsedIs
<1>3. Following(rx_out, used) = rx_in
  BY <1>1, UsedIs
<1>4. Used(Following(rx_in, 1), rx_out) = used + 1
  BY <1>1, <1>2, UsedIs
<1> HIDE DEF used
<1>5. byte \in Seq(Nat) /\ byte \o Tail(rxFifo) = rxFifo /\ Tail(rxFifo) \in Seq(Nat)
  BY <1>1, HeadThenTail
<1>6. Len(byte) = 1 /\ byte[1] = Head(rxFifo)
  OBVIOUS
<1>7. /\ rx_buf' = [rx_buf EXCEPT ![rx_in] = byte[1]]
      /\ rx_in' = Following(rx_in, 1) /\ rxFifo' = Tail(rxFifo) /\ rx_out' = rx_out
      /\ txFifo' = txFifo /\ txRing' = txRing
  BY <1>6 DEF IsrReceive
<1>7a. byte[1] \in Nat
  BY <1>5, <1>6
<1> HIDE DEF byte
<1>8. Puts(rx_buf, rx_buf', rx_out, used, byte)
  <2>1. rx_buf' \in [Slots -> Nat]
    BY <1>1, <1>7, <1>7a
  <2>2. ASSUME NEW i \in 0..(used - 1) PROVE rx_buf'[Following(rx_out, i)] = rx_buf[Following(rx_out, i)]
    <3>1. i \in 0..(BufLen - 1) /\ i # used /\ i \in 0..BufLen
      BY <1>2
    <3>2. Following(rx_out, i) # Following(rx_out, used) /\ Following(rx_out, i) \in Slots
      BY <1>1, <1>2, <3>1, FollowingDistinct, FollowingIs
    <3>3. QED
      BY <1>1, <1>3, <1>7, <3>2
  <2>3. ASSUME NEW i \in 1..Len(byte) PROVE rx_buf'[Following(rx_out, used + i - 1)] = byte[i]
    <3>1. i = 1 /\ used + i - 1 = used
      BY <1>2, <1>6
    <3>2. QED
      BY <1>1, <1>3, <1>7, <3>1
  <2>4. QED
    BY <1>1, <1>2, <1>5, <1>6, <2>1, <2>2, <2>3 DEF Puts
<1> DEFINE total == used + 1
<1>9. total = used + Len(byte)
  BY <1>6
<1> HIDE DEF total
<1>10. RingBytes(rx_buf', rx_out, total) = ring \o byte
  BY <1>8, <1>9, RingPut
<1>11. ring \in Seq(Nat)
  BY <1>1, <1>2, RingBytesIs
<1> HIDE DEF ring
<1>12. Up' = (ring \o byte) \o Tail(rxFifo)
  BY <1>4, <1>7, <1>10 DEF Up, total
<1>13. (ring \o byte) \o Tail(rxFifo) = ring \o (byte \o Tail(rxFifo))
  BY <1>5, <1>11, Joined
<1>14. Up = ring \o rxFifo
  BY DEF Up, ring, used
<1>15. QED
  BY <1>5, <1>7, <1>12, <1>13, <1>14 DEF Down, txRing

(* Bytes moved from the transmit ring to the FIFO keep their place. *)
LEMMA TransmitKeeps ==
  ASSUME TypeOK, SpaceIsThere, IsrTransmit
  PROVE  Up' = Up /\ Down' = Down
<1> USE BufLenAssumption
<1> DEFINE queued == Used(tx_in, tx_out)
           n == IF isr.space < queued THEN isr.space ELSE queued
           moved == RingBytes(tx_buf, tx_out, n)
           start == Following(tx_out, n)
           left == queued - n
           rest == RingBytes(tx_buf, start, left)
<1>1. /\ tx_in \in Slots /\ tx_out \in Slots /\ tx_buf \in [Slots -> Nat]
      /\ txFifo \in Seq(Nat) /\ Len(txFifo) <= FifoDepth
      /\ isr.space \in 0..FifoDepth /\ isr.space <= FifoDepth - Len(txFifo)
  BY DEF TypeOK, RingTypes, HardwareTypes, IsrLocals, IsrTransmit, SpaceIsThere
<1>2. queued \in 0..(BufLen - 1)
  BY <1>1, UsedIs
<1>3. n \in 0..queued /\ n \in 0..(BufLen - 1) /\ n <= isr.space /\ left \in 0..(BufLen - 1)
      /\ n \in 0..BufLen
  BY <1>1, <1>2, FifoAssumption
<1>4. /\ txFifo' = Fill(txFifo, moved) /\ tx_out' = start
      /\ tx_buf' = tx_buf /\ tx_in' = tx_in /\ rxFifo' = rxFifo /\ rxRing' = rxRing
  BY DEF IsrTransmit
<1>5. Used(tx_in, start) = left
  BY <1>1, <1>3, UsedIs
<1> HIDE DEF queued, n
<1>6. RingBytes(tx_buf, tx_out, queued) = moved \o rest
  BY <1>1, <1>2, <1>3, RingTake
<1>7. moved \in Seq(Nat) /\ Len(moved) = n
  BY <1>1, <1>3, RingBytesIs
<1>8. start \in Slots
  BY <1>1, <1>3, FollowingIs
<1> HIDE DEF start, left
<1>9. rest \in Seq(Nat)
  BY <1>1, <1>3, <1>8, RingBytesIs
<1> HIDE DEF moved
<1>10. Len(moved) <= FifoDepth - Len(txFifo)
  BY <1>1, <1>3, <1>7, FifoAssumption, LenProperties
<1>11. Fill(txFifo, moved) = txFifo \o moved
  BY <1>1, <1>7, <1>10, FillIs
<1>12. Down' = (txFifo \o moved) \o rest
  BY <1>4, <1>5, <1>11 DEF Down
<1> HIDE DEF rest
<1>13. Down = txFifo \o (moved \o rest)
  BY <1>6 DEF Down, queued
<1>14. QED
  BY <1>1, <1>4, <1>7, <1>9, <1>12, <1>13, Joined DEF Up, rxRing

(* One copy of read() hands the program the oldest bytes of its stream. *)
LEMMA MoveReads ==
  ASSUME TypeOK, CallShape, SeenIsSafe, ReadMove
  PROVE  Link!ProgramReads
<1> USE BufLenAssumption
<1> DEFINE used == Used(rx_in, rx_out)
           ring == RingBytes(rx_buf, rx_out, used)
<1>1. PICK n \in 1..used :
            /\ rx_out + n - 1 \in Slots
            /\ handed' = rx_buf[rx_out + n - 1]
            /\ rx_out' = Following(rx_out, n)
  BY ReadCopy
<1>2. /\ rx_in \in Slots /\ rx_out \in Slots /\ rx_buf \in [Slots -> Nat] /\ rxFifo \in Seq(Nat)
  BY DEF TypeOK, RingTypes, HardwareTypes
<1>3. used \in 0..(BufLen - 1) /\ n \in 0..used /\ n \in 1..(BufLen - 1) /\ n \in 0..BufLen
  BY <1>2, UsedIs
<1> DEFINE moved == RingBytes(rx_buf, rx_out, n)
           start == Following(rx_out, n)
           left == used - n
           rest == RingBytes(rx_buf, start, left)
<1>4. Used(rx_in, start) = left /\ left \in 0..(BufLen - 1)
  BY <1>2, <1>3, UsedIs
<1> HIDE DEF used
<1>5. ring = moved \o rest
  BY <1>2, <1>3, RingTake
<1>6. moved \in Seq(Nat) /\ Len(moved) = n /\ ring \in Seq(Nat) /\ Len(ring) = used
      /\ ring[n] = rx_buf[Following(rx_out, n - 1)]
  <2>1. moved \in Seq(Nat) /\ Len(moved) = n
    BY <1>2, <1>3, RingBytesIs
  <2>2. ring \in Seq(Nat) /\ Len(ring) = used
    BY <1>2, <1>3, RingBytesIs
  <2>3. \A i \in 1..used : ring[i] = rx_buf[Following(rx_out, i - 1)]
    BY <1>2, <1>3, RingBytesIs
  <2>4. QED
    BY <1>1, <2>1, <2>2, <2>3
<1>7. Following(rx_out, n - 1) = rx_out + n - 1
  <2>1. n - 1 \in 0..BufLen /\ rx_out + (n - 1) < BufLen
    BY <1>1, <1>2, <1>3 DEF Slots
  <2>2. Following(rx_out, n - 1) = rx_out + (n - 1)
    BY <1>2, <2>1, FollowingIs
  <2>3. QED
    BY <1>2, <1>3, <2>2 DEF Slots
<1>8. start \in Slots
  BY <1>2, <1>3, FollowingIs
<1> HIDE DEF start, left
<1>9. rest \in Seq(Nat)
  BY <1>2, <1>4, <1>8, RingBytesIs
<1>10. /\ rx_buf' = rx_buf /\ rx_in' = rx_in /\ rxFifo' = rxFifo /\ txFifo' = txFifo
       /\ txRing' = txRing /\ sent' = sent /\ written' = written
  BY DEF ReadMove, hardware
<1>11. Up = ring \o rxFifo
  BY DEF Up, used
<1>12. Up' = rest \o rxFifo /\ Down' = Down
  BY <1>1, <1>4, <1>10 DEF Up, Down, txRing, start
<1> HIDE DEF ring, moved, rest
<1>13. Up = moved \o (rest \o rxFifo) /\ rest \o rxFifo \in Seq(Nat)
  <2>1. (moved \o rest) \o rxFifo = moved \o (rest \o rxFifo)
    BY <1>2, <1>6, <1>9, Joined
  <2>2. QED
    BY <1>2, <1>5, <1>9, <1>11, <2>1, ConcatProperties
<1>14. SubSeq(Up, n + 1, Len(Up)) = rest \o rxFifo
  <2> DEFINE tail == rest \o rxFifo
             len == Len(moved \o tail)
  <2>1. tail \in Seq(Nat) /\ n = Len(moved) /\ len = Len(moved \o tail) /\ Up = moved \o tail
    BY <1>6, <1>13
  <2> HIDE DEF tail, len
  <2>2. \A s, t \in Seq(Nat) : SubSeq(s \o t, Len(s) + 1, Len(s \o t)) = t
    <3> TAKE s, t \in Seq(Nat)
    <3> DEFINE k == Len(s)
               m == Len(s \o t)
    <3>1. k = Len(s) /\ m = Len(s \o t)
      OBVIOUS
    <3> HIDE DEF k, m
    <3>2. SubSeq(s \o t, k + 1, m) = t
      BY <3>1, DropPrefix
    <3>3. QED
      BY <3>2 DEF k, m
  <2>3. QED
    BY <1>6, <2>1, <2>2 DEF tail
<1>15. n \in 1..Len(Up) /\ Up[n] = ring[n]
  <2>1. /\ Len(Up) = Len(ring) + Len(rxFifo) /\ Len(rxFifo) \in Nat
        /\ \A i \in 1..(Len(ring) + Len(rxFifo)) :
              Up[i] = IF i <= Len(ring) THEN ring[i] ELSE rxFifo[i - Len(ring)]
    <3>1. ring \in Seq(Nat) /\ rxFifo \in Seq(Nat)
      BY <1>2, <1>6
    <3>2. /\ Len(ring \o rxFifo) = Len(ring) + Len(rxFifo) /\ Len(rxFifo) \in Nat
          /\ \A i \in 1..(Len(ring) + Len(rxFifo)) :
                (ring \o rxFifo)[i] = IF i <= Len(ring) THEN ring[i] ELSE rxFifo[i - Len(ring)]
      BY <3>1, ConcatProperties, LenProperties
    <3>3. QED
      BY <1>11, <3>2
  <2>2. n \in 1..(Len(ring) + Len(rxFifo)) /\ n <= Len(ring)
    BY <1>3, <1>6, <2>1
  <2>3. QED
    BY <2>1, <2>2
<1>16. handed' = Up[n] /\ Up' = SubSeq(Up, n + 1, Len(Up))
  BY <1>1, <1>6, <1>7, <1>12, <1>14, <1>15
<1>17. QED
  BY <1>10, <1>12, <1>15, <1>16 DEF Link!ProgramReads

(* One copy of write() puts the program's next bytes at the end. *)
LEMMA MoveWrites ==
  ASSUME TypeOK, CallShape, SeenIsSafe, WriteMove
  PROVE  Link!ProgramWrites
<1> USE BufLenAssumption
<1> DEFINE used == Used(tx_in, tx_out)
           ring == RingBytes(tx_buf, tx_out, used)
<1>1. PICK n \in 1..(BufLen - 1) :
            /\ tx_in + n <= BufLen
            /\ Used(tx_in, tx_out) + n <= BufLen - 1
            /\ tx_buf' = [s \in Slots |-> IF s \in tx_in..(tx_in + n - 1)
                                            THEN written + 1 + s - tx_in ELSE tx_buf[s]]
            /\ tx_in' = Following(tx_in, n)
            /\ written' = written + n
  BY WriteCopy
<1>2. /\ tx_in \in Slots /\ tx_out \in Slots /\ tx_buf \in [Slots -> Nat] /\ txFifo \in Seq(Nat)
      /\ written \in Nat
  BY DEF TypeOK, RingTypes, HardwareTypes
<1> DEFINE bytes == [i \in 1..n |-> written + i]
<1>3. /\ bytes \in Seq(Nat) /\ Len(bytes) = n /\ \A i \in 1..n : bytes[i] = written + i
  BY <1>1, <1>2
<1>4. used \in 0..(BufLen - 1) /\ Following(tx_out, used) = tx_in
  BY <1>2, UsedIs
<1>5. Used(Following(tx_in, n), tx_out) = used + n
  BY <1>1, <1>2, UsedIs
<1>6. used + n <= BufLen - 1
  BY <1>1
<1> HIDE DEF used, bytes
<1>7. \A i \in 1..n : Following(tx_out, used + i - 1) = tx_in + i - 1
  <2> SUFFICES ASSUME NEW i \in 1..n PROVE Following(tx_out, used + i - 1) = tx_in + i - 1
    OBVIOUS
  <2> DEFINE k == i - 1
             sum == used + k
  <2>1. k \in 0..BufLen /\ sum = used + k /\ used + k <= BufLen /\ used \in 0..BufLen
    BY <1>4, <1>6
  <2>2. used + i - 1 = sum /\ tx_in + k < BufLen /\ tx_in + i - 1 = tx_in + k
    BY <1>1, <1>2, <1>4 DEF Slots
  <2> HIDE DEF k, sum
  <2>3. Following(Following(tx_out, used), k) = Following(tx_out, used + k)
    BY <1>2, <2>1, FollowingSum
  <2>4. Following(tx_in, k) = tx_in + k
    BY <1>2, <2>1, <2>2, FollowingIs
  <2>5. QED
    BY <1>4, <2>1, <2>2, <2>3, <2>4
<1>8. Puts(tx_buf, tx_buf', tx_out, used, bytes)
  <2>1. tx_buf' \in [Slots -> Nat]
    <3>1. \A s \in Slots : s \in tx_in..(tx_in + n - 1) => written + 1 + s - tx_in \in Nat
      BY <1>2 DEF Slots
    <3>2. QED
      BY <1>1, <1>2, <3>1
  <2>2. ASSUME NEW i \in 0..(used - 1) PROVE tx_buf'[Following(tx_out, i)] = tx_buf[Following(tx_out, i)]
    <3>1. i \in 0..(BufLen - 1) /\ i \in 0..BufLen
      BY <1>4
    <3>2. Following(tx_out, i) \in Slots
      BY <1>2, <3>1, FollowingIs
    <3>3. ~(Following(tx_out, i) \in tx_in..(tx_in + n - 1))
      <4> SUFFICES ASSUME Following(tx_out, i) \in tx_in..(tx_in + n - 1) PROVE FALSE
        OBVIOUS
      <4> DEFINE f == Following(tx_out, i)
                 j == f - tx_in + 1
                 place == used + j - 1
      <4>0. f \in Slots /\ f \in tx_in..(tx_in + n - 1)
        BY <3>2
      <4> HIDE DEF f
      <4>1. j \in 1..n /\ f = tx_in + j - 1
        BY <1>1, <1>2, <4>0 DEF Slots
      <4> USE DEF f
      <4> HIDE DEF j
      <4>2. Following(tx_out, i) = Following(tx_out, place)
        BY <1>7, <4>1
      <4>3. place \in 0..(BufLen - 1) /\ i # place
        BY <1>4, <1>6, <4>1
      <4> HIDE DEF place
      <4>4. QED
        BY <1>2, <3>1, <4>2, <4>3, FollowingDistinct
    <3>4. QED
      BY <1>1, <3>2, <3>3
  <2>3. ASSUME NEW i \in 1..Len(bytes) PROVE tx_buf'[Following(tx_out, used + i - 1)] = bytes[i]
    <3>1. i \in 1..n /\ Following(tx_out, used + i - 1) = tx_in + i - 1
      BY <1>3, <1>7
    <3>2. tx_in + i - 1 \in Slots /\ tx_in + i - 1 \in tx_in..(tx_in + n - 1)
          /\ written + 1 + (tx_in + i - 1) - tx_in = written + i
      BY <1>1, <1>2, <3>1 DEF Slots
    <3>3. tx_buf'[tx_in + i - 1] = written + 1 + (tx_in + i - 1) - tx_in
      BY <1>1, <3>2
    <3>4. QED
      BY <1>3, <3>1, <3>2, <3>3
  <2>4. QED
    BY <1>2, <1>3, <1>4, <1>6, <2>1, <2>2, <2>3 DEF Puts
<1> DEFINE total == used + n
<1>9. total = used + Len(bytes)
  BY <1>3
<1> HIDE DEF total
<1>10. RingBytes(tx_buf', tx_out, total) = ring \o bytes
  BY <1>8, <1>9, RingPut
<1>11. ring \in Seq(Nat)
  BY <1>2, <1>4, RingBytesIs
<1>12. /\ tx_out' = tx_out /\ txFifo' = txFifo /\ rxFifo' = rxFifo /\ rxRing' = rxRing
       /\ sent' = sent /\ handed' = handed
  BY DEF WriteMove, hardware
<1>13. Down' = txFifo \o (ring \o bytes) /\ Up' = Up
  BY <1>1, <1>5, <1>10, <1>12 DEF Down, Up, rxRing, total
<1>14. Down = txFifo \o ring
  BY DEF Down, used
<1> HIDE DEF ring
<1>15. Down' = Down \o bytes
  BY <1>2, <1>3, <1>11, <1>13, <1>14, Joined
<1>16. n \in 1..BufLen
  BY <1>1
<1>17. QED
  BY <1>1, <1>12, <1>13, <1>15, <1>16 DEF Link!ProgramWrites, bytes

(* Every step is a step of the two streams, or leaves them as they are. *)
LEMMA LinkStep ==
  ASSUME IInv, [Next]_vars
  PROVE  [Link!LinkNext]_(Link!linkVars)
<1>1. TypeOK /\ CallShape /\ SeenIsSafe /\ SpaceIsThere
  BY DEF IInv
<1>2. CASE HostPush \/ HostPull \/ ReadMove \/ WriteMove
  BY <1>1, <1>2, PushSends, PullTakes, MoveReads, MoveWrites DEF Link!LinkNext
<1>3. CASE IsrReceive \/ IsrTransmit
  <2>1. Up' = Up /\ Down' = Down
    BY <1>1, <1>3, ReceiveKeeps, TransmitKeeps
  <2>2. sent' = sent /\ written' = written /\ handed' = handed
    BY <1>3 DEF IsrReceive, IsrTransmit, history
  <2>3. QED
    BY <2>1, <2>2 DEF Link!linkVars
<1>4. CASE \/ HostPoll \/ HostLeaves \/ HostReturns \/ IsrControl \/ IsrReceiveEmpty \/ IsrReceiveFull
           \/ Alarm \/ Calls \/ ReadSample \/ ReadNothing \/ ReadSpin \/ ReadLeave \/ ReadKick
           \/ WriteSample \/ WriteFull \/ WriteKick \/ WriteSpin \/ WriteLeave \/ CloseSpin
           \/ UNCHANGED vars
  <2>1. UNCHANGED <<rxFifo, txFifo, sent, rxRing, txRing, history>>
    BY <1>4 DEF HostPoll, HostLeaves, HostReturns, IsrControl, IsrReceiveEmpty, IsrReceiveFull, Alarm, Calls,
                CallRead, CallWrite, CallClose, SetTimeout, ReadSample, ReadNothing, ReadSpin, ReadLeave, ReadKick,
                WriteSample, WriteFull, WriteKick, WriteSpin, WriteLeave, CloseSpin, vars, hardware
  <2>2. QED
    BY <2>1 DEF rxRing, txRing, history, Up, Down, Link!linkVars
<1>5. QED
  BY <1>2, <1>3, <1>4 DEF Next, Host, Isr, Program, Reading, Writing

LEMMA LinkStart ==
  Init => Link!LinkInit
<1> SUFFICES ASSUME Init PROVE Link!LinkInit
  OBVIOUS
<1>1. /\ rxFifo = << >> /\ txFifo = << >> /\ sent = 0 /\ written = 0 /\ handed = 0
      /\ rx_in = 0 /\ rx_out = 0 /\ tx_in = 0 /\ tx_out = 0
  BY DEF Init
<1>2. Used(rx_in, rx_out) = 0 /\ Used(tx_in, tx_out) = 0
  BY <1>1 DEF Used
<1>3. RingBytes(rx_buf, rx_out, 0) = << >> /\ RingBytes(tx_buf, tx_out, 0) = << >>
  BY DEF RingBytes
<1>4. Up = << >> \o << >> /\ Down = << >> \o << >>
  BY <1>1, <1>2, <1>3 DEF Up, Down
<1>5. << >> \o << >> = << >>
  BY EmptySeq, ConcatEmptySeq
<1>6. QED
  BY <1>1, <1>4, <1>5 DEF Link!LinkInit

(* The driver with its interrupt routine, ring pointers and FIFOs implements *)
(* two byte streams in order: nothing lost, nothing twice, whatever the      *)
(* interleaving (init.c:120-202, read.c:112-191, write.c:92-200).            *)
THEOREM UartIsTwoStreams == Spec => LinkSpec
<1>1. IInv /\ [Next]_vars => [Link!LinkNext]_(Link!linkVars)
  BY LinkStep
<1>2. Spec => []IInv
  BY InvariantInit, InvariantStep, PTL DEF Spec
<1>3. QED
  BY <1>1, <1>2, LinkStart, PTL DEF Spec, LinkSpec, Link!LinkSpec
=============================================================================
