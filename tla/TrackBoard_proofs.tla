-------------------------- MODULE TrackBoard_proofs --------------------------
(***************************************************************************)
(* The board with its tracker, host and network is one environment of the   *)
(* receiver: every step of TrackBoard is a step of RowStats or leaves the   *)
(* receiver unchanged.  What is proved of the receiver in an arbitrary      *)
(* environment therefore holds of the board.                                *)
(***************************************************************************)
EXTENDS TrackBoard, RowStats_proofs

Source == Fids \X Nat \X BOOLEAN
Template == [Chunks -> Contents \cup {"none"}]

TrackerType ==
  trk \in [busy : BOOLEAN, tag : Tags, cnt : Int, inorder : BOOLEAN, rows : Seq(Source),
           pending : BOOLEAN, shadow : Template, tmpl : Template]

HostType ==
  /\ cur \in [fid : Nat, size : Sizes \cup {[w |-> 1, h |-> 1]}, row : Nat]
  /\ ~BetweenFrames => cur.fid \in Fids /\ cur.size \in Sizes
  /\ delayed \in Packets \cup {Nothing}
  /\ upl \in [content : Contents \cup {"none"}, chunk : Chunks,
              whole : Contents \cup {"none"}, gap : BOOLEAN]

\* The words of the FIFO have the kinds the tracker tells apart.
LEMMA HeadWord ==
  ASSUME TypeOK, fifo # <<>>
  PROVE  /\ Head(fifo) \in Word
         /\ Head(fifo).kind = "row" =>
              /\ Head(fifo).tag \in Tags /\ Head(fifo).row \in Int
              /\ Head(fifo).src \in Source
         /\ Head(fifo).kind = "tmpl" =>
              Head(fifo).chunk \in Chunks /\ Head(fifo).content \in Contents
<1>1. Head(fifo) \in Word
  BY DEF TypeOK
<1> QED BY <1>1 DEF Word, NoWord, Source

\* The tracker takes a row or a chunk: its registers keep their types.
LEMMA TrackRowType == TypeOK /\ TrackerType /\ TrackRow => TrackerType'
<1> SUFFICES ASSUME TypeOK, TrackerType, TrackRow PROVE TrackerType'
  OBVIOUS
<1> DEFINE w == Head(fifo)
           T == [busy : BOOLEAN, tag : Tags, cnt : Int, inorder : BOOLEAN,
                 rows : Seq(Source), pending : BOOLEAN, shadow : Template,
                 tmpl : Template]
           g == IF w.newf THEN RestartFrame(w) ELSE ContinueFrame(w)
<1>1. w.tag \in Tags /\ w.row \in Int /\ w.src \in Source
  BY HeadWord DEF TrackRow, Offered
<1>2. RestartFrame(w) \in T
  <2>1. (IF trk.pending THEN trk.shadow ELSE trk.tmpl) \in Template
    BY DEF TrackerType
  <2>2. (w.row = 0) \in BOOLEAN /\ <<>> \in Seq(Source)
    OBVIOUS
  <2> DEFINE t == IF trk.pending THEN trk.shadow ELSE trk.tmpl
             zero == w.row = 0
             u == [trk EXCEPT !.tag = w.tag, !.cnt = 0, !.rows = <<>>]
  <2>3. RestartFrame(w) = [u EXCEPT !.inorder = zero, !.tmpl = t, !.pending = FALSE]
    BY DEF RestartFrame, TrackerType
  <2>4. t \in Template /\ zero \in BOOLEAN
    BY <2>1, <2>2
  <2> HIDE DEF w, t, zero
  <2>5. u \in T
    <3> DEFINE tg == w.tag
               none == <<>>
    <3>1. tg \in Tags /\ none \in Seq(Source) /\ 0 \in Int
      BY <1>1, <2>2
    <3> HIDE DEF tg, none
    <3>2. [trk EXCEPT !.tag = tg, !.cnt = 0, !.rows = none] \in T
      BY <3>1 DEF TrackerType
    <3> QED BY <3>2 DEF tg, none
  <2> HIDE DEF u
  <2> QED BY <2>3, <2>4, <2>5
<1>3. ContinueFrame(w) \in T
  BY <1>1 DEF ContinueFrame, TrackerType
<1>4. g \in T
  BY <1>2, <1>3
<1>5. trk' = [g EXCEPT !.cnt = g.cnt + 1,
                       !.rows = IF g.inorder THEN Append(g.rows, w.src) ELSE <<>>,
                       !.busy = g.inorder /\ g.cnt = ROI - 1]
  BY DEF TrackRow
<1>6. /\ g.cnt + 1 \in Int
      /\ (IF g.inorder THEN Append(g.rows, w.src) ELSE <<>>) \in Seq(Source)
      /\ (g.inorder /\ g.cnt = ROI - 1) \in BOOLEAN
  BY <1>1, <1>4
<1> HIDE DEF g, w
<1> QED BY <1>4, <1>5, <1>6 DEF TrackerType

LEMMA TrackChunkType == TypeOK /\ TrackerType /\ TrackChunk => TrackerType'
<1> SUFFICES ASSUME TypeOK, TrackerType, TrackChunk PROVE TrackerType'
  OBVIOUS
<1> DEFINE w == Head(fifo)
<1>1. w.chunk \in Chunks /\ w.content \in Contents
  BY HeadWord DEF TrackChunk, Offered
<1>2. [trk.shadow EXCEPT ![w.chunk] = w.content] \in Template
  BY <1>1 DEF TrackerType, Template
<1>3. (trk.pending \/ CompletesTemplate(w)) \in BOOLEAN
  BY DEF CompletesTemplate
<1>4. trk' = [trk EXCEPT !.shadow = [trk.shadow EXCEPT ![w.chunk] = w.content],
                         !.pending = trk.pending \/ CompletesTemplate(w)]
  BY DEF TrackChunk, TrackerType
<1> HIDE DEF w
<1> QED BY <1>2, <1>3, <1>4 DEF TrackerType

\* An answer of the tracker is one the receiver can get.
LEMMA AnswerIsAnswer ==
  TypeOK /\ TrackerType /\ Answer => AnswerArrives /\ TrackerType'
<1> SUFFICES ASSUME TypeOK, TrackerType, Answer PROVE AnswerArrives /\ TrackerType'
  OBVIOUS
<1>1. PICK y \in Offsets, good \in BOOLEAN :
        res' = [kind |-> "answer", tag |-> trk.tag, y |-> y, good |-> good,
                basis |-> [rows |-> trk.rows, tmpl |-> trk.tmpl]]
  BY DEF Answer
<1>2. y \in Nat
  BY OffsetsAssumption
<1>3. [rows |-> trk.rows, tmpl |-> trk.tmpl] \in Basis
  BY DEF TrackerType, Basis, Source, Template
<1>4. res' \in Answers
  BY <1>1, <1>2, <1>3 DEF TrackerType, Answers
<1>5. TrackerType'
  BY DEF Answer, TrackerType
<1> QED BY <1>4, <1>5 DEF Answer, AnswerArrives

-----------------------------------------------------------------------------
(* The host sends packets of the protocol.                                  *)

\* The packets the host and the network hand to the receiver are packets.
LEMMA RowPacketType ==
  ASSUME HostType, ~BetweenFrames, NEW quality \in Quality
  PROVE  RowPacket(quality) \in Packets
BY DEF HostType, RowPacket, Packets

LEMMA NextRowType ==
  ASSUME HostType, ~BetweenFrames, NextRow \/ UNCHANGED cur
  PROVE  /\ cur' \in [fid : Nat, size : Sizes \cup {[w |-> 1, h |-> 1]}, row : Nat]
         /\ cur'.fid \in Fids /\ cur'.size \in Sizes
BY DEF HostType, NextRow

\* A step of the host or the network is a packet for the receiver or nothing.
LEMMA HostStepMaps ==
  HostType /\ HostStep =>
    /\ (\E pk \in Packets : RxHeader(pk)) \/ UNCHANGED vars
    /\ HostType'
    /\ trk' = trk
<1> SUFFICES ASSUME HostType, HostStep
             PROVE  /\ (\E pk \in Packets : RxHeader(pk)) \/ UNCHANGED vars
                    /\ HostType'
                    /\ trk' = trk
  OBVIOUS
<1> USE DEF Fault, RowFault
<1>1. CASE StartFrame
  <2>1. PICK s \in Sizes : cur' = [fid |-> cur.fid + 1, size |-> s, row |-> 0]
    BY <1>1 DEF StartFrame
  <2>2. cur.fid + 1 \in Fids /\ cur.fid + 1 \in Nat
    BY <1>1, BoardAssumption DEF StartFrame, HostType
  <2>3. 0 \in Chunks
    BY RowStatsAssumption DEF Chunks
  <2>4. upl' \in [content : Contents \cup {"none"}, chunk : Chunks,
                  whole : Contents \cup {"none"}, gap : BOOLEAN]
    BY <1>1, <2>3 DEF StartFrame, HostType
  <2> QED BY <1>1, <2>1, <2>2, <2>4 DEF StartFrame, HostType
<1>2. CASE SendRow \/ DuplicateRow \/ DamageRow \/ DamageCopy
  <2>1. ~BetweenFrames /\ (NextRow \/ UNCHANGED cur)
    BY <1>2 DEF SendRow, DuplicateRow, DamageRow, DamageCopy
  <2>2. PICK quality \in Quality : RxHeader(RowPacket(quality))
    BY <1>2 DEF SendRow, DuplicateRow, DamageRow, DamageCopy, Quality
  <2>3. RowPacket(quality) \in Packets
    BY <2>1, RowPacketType
  <2>4. trk' = trk /\ delayed' = delayed /\ upl' = upl
    BY <1>2 DEF SendRow, DuplicateRow, DamageRow, DamageCopy
  <2> QED BY <2>1, <2>2, <2>3, <2>4, NextRowType DEF HostType
<1>3. CASE SendPosition
  <2>1. PICK y \in Positions : RxHeader([kind |-> "pos", y |-> y, quality |-> "good"])
    BY <1>3 DEF SendPosition
  <2>2. [kind |-> "pos", y |-> y, quality |-> "good"] \in Packets
    BY BoardAssumption DEF Packets, Quality
  <2> QED BY <1>3, <2>1, <2>2 DEF SendPosition, HostType, BetweenFrames
<1>4. CASE SendChunk
  <2>1. PICK c \in Contents :
          /\ RxHeader([kind |-> "tmpl", chunk |-> upl.chunk, content |-> c,
                       quality |-> "good"])
          /\ upl' = [content |-> c, chunk |-> (upl.chunk + 1) % NChunks, gap |-> TRUE,
                     whole |-> IF upl.chunk = NChunks - 1 THEN c ELSE upl.whole]
    BY <1>4 DEF SendChunk
  <2>2. [kind |-> "tmpl", chunk |-> upl.chunk, content |-> c, quality |-> "good"]
          \in Packets
    BY DEF Packets, Quality, HostType
  <2>3. (upl.chunk + 1) % NChunks \in Chunks
    <3>1. upl.chunk \in Nat /\ NChunks \in Nat \ {0}
      BY RowStatsAssumption DEF HostType, Chunks
    <3>2. (upl.chunk + 1) % NChunks \in 0..(NChunks - 1)
      BY <3>1
    <3> QED BY <3>2 DEF Chunks
  <2>4. upl' \in [content : Contents \cup {"none"}, chunk : Chunks,
                  whole : Contents \cup {"none"}, gap : BOOLEAN]
    BY <2>1, <2>3 DEF HostType
  <2>5. cur' = cur /\ delayed' = delayed /\ trk' = trk
    BY <1>4 DEF SendChunk
  <2> QED BY <2>1, <2>2, <2>4, <2>5 DEF HostType, BetweenFrames
<1>5. CASE LoseRow \/ DelayRow
  <2>1. ~BetweenFrames /\ NextRow /\ UNCHANGED <<vars, trk, upl>>
    BY <1>5 DEF LoseRow, DelayRow
  <2>2. RowPacket("good") \in Packets
    BY <2>1, RowPacketType DEF Quality
  <2>3. delayed' \in Packets \cup {Nothing}
    BY <1>5, <2>2 DEF LoseRow, DelayRow, HostType
  <2> QED BY <2>1, <2>3, NextRowType DEF HostType
<1>6. CASE DeliverDelayed
  BY <1>6 DEF DeliverDelayed, HostType, BetweenFrames
<1>7. CASE LoseChunk
  <2>1. 0 \in Chunks
    BY RowStatsAssumption DEF Chunks
  <2>2. upl' \in [content : Contents \cup {"none"}, chunk : Chunks,
                  whole : Contents \cup {"none"}, gap : BOOLEAN]
    BY <1>7, <2>1 DEF LoseChunk, HostType
  <2> QED BY <1>7, <2>2 DEF LoseChunk, HostType, BetweenFrames
<1> QED BY <1>1, <1>2, <1>3, <1>4, <1>5, <1>6, <1>7 DEF HostStep

-----------------------------------------------------------------------------
(* The board is an environment of the receiver.                             *)

BoardInv == TypeOK /\ TrackerType /\ HostType

\* Every step of the board is a step of the receiver or none.
LEMMA BoardStepMaps == BoardInv /\ [BoardNext]_allVars => [Next]_vars /\ BoardInv'
<1> SUFFICES ASSUME BoardInv, [BoardNext]_allVars
             PROVE  [Next]_vars /\ TrackerType' /\ HostType'
  BY StepType DEF BoardInv
<1>1. CASE HostStep
  BY <1>1, HostStepMaps DEF BoardInv, Next, TrackerType
<1>2. ASSUME UNCHANGED hostVars PROVE HostType'
  BY <1>2 DEF hostVars, BoardInv, HostType, BetweenFrames
<1>3. CASE (ReceiveStep \/ SlotStep) /\ UNCHANGED trk /\ NotHost
  BY <1>2, <1>3 DEF NotHost, BoardInv, Next, TrackerType
<1>4. CASE TrackerStep /\ NotHost
  <2>1. HostType'
    BY <1>2, <1>4 DEF NotHost
  <2>2. CASE TrackRow
    BY <2>1, <2>2, TrackRowType DEF BoardInv, TrackRow, Offered, FifoRead, Next
  <2>3. CASE TrackChunk
    BY <2>1, <2>3, TrackChunkType DEF BoardInv, TrackChunk, Offered, FifoRead, Next
  <2>4. CASE Answer
    BY <2>1, <2>4, AnswerIsAnswer DEF BoardInv, Next
  <2> QED BY <1>4, <2>2, <2>3, <2>4 DEF TrackerStep
<1>5. CASE BoardTimeOut
  BY <1>2, <1>5 DEF BoardTimeOut, NotHost, BoardInv, Next, TrackerType
<1>6. CASE BoardTxDone
  BY <1>6 DEF BoardTxDone, BoardInv, Next, TrackerType, HostType, BetweenFrames
<1>7. CASE UNCHANGED allVars
  BY <1>2, <1>7 DEF allVars, BoardInv, TrackerType
<1> QED
  BY <1>1, <1>3, <1>4, <1>5, <1>6, <1>7 DEF BoardNext, BoardStep, Finished

LEMMA BoardInitInv == BoardInit => Init /\ BoardInv
<1> SUFFICES ASSUME BoardInit PROVE Init /\ TypeOK /\ TrackerType /\ HostType
  BY DEF BoardInv
<1>1. Init /\ TypeOK
  BY InitType DEF BoardInit
<1>2. 0 \in Tags /\ 0 \in Chunks
  BY RowStatsAssumption DEF Tags, Chunks
<1>3. TrackerType
  <2>1. NoTemplate \in Template
    BY DEF NoTemplate, NoBasis, Template
  <2> QED BY <1>2, <2>1 DEF BoardInit, TrackerInit, TrackerType
<1>4. HostType
  <2>1. cur = [fid |-> 0, size |-> [w |-> 1, h |-> 1], row |-> 1]
    BY DEF BoardInit
  <2>2. BetweenFrames
    BY <2>1 DEF BetweenFrames
  <2> QED BY <1>2, <2>1, <2>2 DEF BoardInit, HostType
<1> QED BY <1>1, <1>3, <1>4

\* The board drives the receiver as RowStats allows: BoardSpec implements Spec.
THEOREM BoardImplementsReceiver == BoardSpec => Spec
<1>1. BoardSpec => []BoardInv
  BY BoardInitInv, BoardStepMaps, PTL DEF BoardSpec
<1> QED
  BY <1>1, BoardInitInv, BoardStepMaps, PTL DEF BoardSpec, Spec

\* What the runs check of the board on small instances, for all of them.
THEOREM BoardSafe ==
  BoardSpec => /\ []TypeOK /\ []EachFrameOnce /\ []OriginWaits
               /\ ReportsInOrder /\ ServiceSpec
BY BoardImplementsReceiver, TypeCorrect, FramesReportedOnce, OriginSafe, ReportsOrdered,
   ReceiverImplementsService, PTL

-----------------------------------------------------------------------------
(* A host that waits for each reply (board_link3.py, _wait).  Whatever is on *)
(* its way through the board then belongs to the frame, the chunk or the     *)
(* command sent last.                                                        *)

\* Chunks are sent between frames only; a packet that is late is a row of the
\* frame being sent.
SendInv ==
  /\ ~BetweenFrames => ~upl.gap /\ cur.fid # 0
  /\ delayed # Nothing =>
       delayed.kind = "row" /\ delayed.fid = cur.fid /\ ~upl.gap /\ cur.fid # 0

\* A row of the frame being sent reaches the receiver, or does not.
RowSent ==
  /\ ~upl.gap /\ cur.fid # 0
  /\ \E pk \in Packets : pk.kind = "row" /\ pk.fid = cur.fid /\ RxHeader(pk)
  /\ UNCHANGED <<trk, upl, script, hostY>> /\ cur'.fid = cur.fid
RowKept ==
  /\ ~upl.gap
  /\ UNCHANGED <<vars, trk, upl, script, hostY>> /\ cur'.fid = cur.fid

LEMMA HostCases ==
  ASSUME HostType, SendInv, HostStep
  PROVE  StartFrame \/ SendPosition \/ SendChunk \/ LoseChunk \/ RowSent \/ RowKept
<1> USE DEF Fault, RowFault
<1>1. ASSUME NEW quality \in Quality, ~BetweenFrames
      PROVE  /\ RowPacket(quality) \in Packets
             /\ RowPacket(quality).kind = "row" /\ RowPacket(quality).fid = cur.fid
             /\ ~upl.gap /\ cur.fid # 0
  BY <1>1, RowPacketType DEF RowPacket, SendInv
<1>2. NextRow => cur'.fid = cur.fid
  BY DEF NextRow, HostType
<1>3. ~BetweenFrames => ~upl.gap
  BY DEF SendInv
<1>4. "good" \in Quality /\ "err" \in Quality /\ "short" \in Quality /\ "badhdr" \in Quality
  BY DEF Quality
<1>5. CASE SendRow \/ DuplicateRow \/ DamageRow \/ DamageCopy
  <2>1. ~BetweenFrames /\ UNCHANGED <<trk, upl, script, hostY>> /\ cur'.fid = cur.fid
    BY <1>2, <1>5 DEF SendRow, DuplicateRow, DamageRow, DamageCopy
  <2>2. PICK quality \in Quality : RxHeader(RowPacket(quality))
    BY <1>4, <1>5 DEF SendRow, DuplicateRow, DamageRow, DamageCopy
  <2> QED BY <1>1, <2>1, <2>2 DEF RowSent
<1>6. CASE LoseRow \/ DelayRow
  BY <1>2, <1>3, <1>6 DEF LoseRow, DelayRow, RowKept
<1>7. CASE DeliverDelayed
  <2>1. delayed \in Packets /\ delayed.kind = "row" /\ delayed.fid = cur.fid /\ ~upl.gap
      /\ cur.fid # 0
    BY <1>7 DEF DeliverDelayed, SendInv, HostType
  <2> QED BY <1>7, <2>1 DEF DeliverDelayed, RowSent
<1> QED BY <1>5, <1>6, <1>7 DEF HostStep

LEMMA SendStep == Lockstep /\ HostType /\ SendInv /\ [BoardNext]_allVars => SendInv'
<1> SUFFICES ASSUME Lockstep, HostType, SendInv, [BoardNext]_allVars PROVE SendInv'
  OBVIOUS
<1> USE DEF SendInv, BetweenFrames, Fault, RowFault
<1>1. CASE StartFrame
  BY <1>1 DEF StartFrame, MaySend, HostType
<1>2. CASE SendRow \/ DuplicateRow \/ DamageRow \/ DamageCopy
  BY <1>2 DEF SendRow, DuplicateRow, DamageRow, DamageCopy, NextRow, HostType
<1>3. CASE SendPosition
  BY <1>3 DEF SendPosition
<1>4. CASE SendChunk
  BY <1>4 DEF SendChunk, MaySend
<1>5. CASE LoseRow
  BY <1>5 DEF LoseRow, NextRow, HostType
<1>6. CASE DelayRow
  BY <1>6 DEF DelayRow, NextRow, RowPacket, HostType
<1>7. CASE DeliverDelayed \/ LoseChunk
  <2>1. upl'.gap = upl.gap /\ cur' = cur /\ (delayed' = delayed \/ delayed' = Nothing)
    BY <1>7 DEF DeliverDelayed, LoseChunk, HostType
  <2> QED BY <2>1
<1>8. CASE UNCHANGED <<cur, delayed, upl>>
  BY <1>8
<1> QED
  BY <1>1, <1>2, <1>3, <1>4, <1>5, <1>6, <1>7, <1>8
  DEF BoardNext, HostStep, BoardStep, Finished, NotHost, hostVars, allVars,
      BoardTimeOut, BoardTxDone

-----------------------------------------------------------------------------
(* The position the host believes.                                          *)

\* The reply tells the host a position.
Tells(r) ==
  r.kind = "pack" \/ (r.kind = "frame" /\ r.flags \cap {"tracked", "timeout"} # {})

\* The newest position is on its way to the host: in the frame that waits to
\* be reported, in the reply being sent, or, with neither, already there.  A
\* position command finds nothing of an earlier frame on the board.
PosInv ==
  /\ ~n.ready
  /\ q.ready => q.flags \cap {"tracked", "timeout"} # {}
  /\ state = "Commit" /\ pkt.kind = "pos" => ~q.valid /\ tx = NoReply
  /\ IF q.ready THEN q.y = pos
     ELSE IF Tells(tx) THEN tx.y = pos ELSE hostY = pos

LEMMA PosHost ==
  ASSUME Lockstep, BoardInv, SendInv, PosInv, HostStep PROVE PosInv'
<1> USE DEF PosInv
<1>1. ASSUME NEW pk \in Packets, RxHeader(pk), hostY' = hostY,
             pk.kind = "pos" => ~q.valid /\ tx = NoReply
      PROVE  PosInv'
  <2>1. state' = "Commit" => pk.kind \in {"row", "tmpl", "pos", "other"}
    BY DEF Packets
  <2>2. pkt' = pk /\ q' = q /\ n' = n /\ tx' = tx /\ pos' = pos
    BY <1>1 DEF RxHeader, frameVars
  <2> QED BY <1>1, <2>2 DEF Tells
<1>2. ASSUME UNCHANGED <<vars, hostY>> PROVE PosInv'
  BY <1>2 DEF vars, rxVars, frameVars, Tells
<1>3. CASE StartFrame
  BY <1>2, <1>3 DEF StartFrame
<1>4. CASE SendPosition
  <2>1. PICK y \in Positions : RxHeader([kind |-> "pos", y |-> y, quality |-> "good"])
    BY <1>4 DEF SendPosition
  <2>2. [kind |-> "pos", y |-> y, quality |-> "good"] \in Packets
    BY BoardAssumption DEF Packets, Quality
  <2>3. ~q.valid /\ tx = NoReply /\ hostY' = hostY
    BY <1>4 DEF SendPosition, MaySend, BoardQuiet
  <2> QED BY <1>1, <2>1, <2>2, <2>3
<1>5. CASE SendChunk
  <2>1. PICK c \in Contents :
          RxHeader([kind |-> "tmpl", chunk |-> upl.chunk, content |-> c,
                    quality |-> "good"])
    BY <1>5 DEF SendChunk
  <2>2. [kind |-> "tmpl", chunk |-> upl.chunk, content |-> c, quality |-> "good"]
          \in Packets
    BY DEF Packets, Quality, BoardInv, HostType
  <2>3. hostY' = hostY
    BY <1>5 DEF SendChunk
  <2> QED BY <1>1, <2>1, <2>2, <2>3
<1>6. CASE LoseChunk
  BY <1>2, <1>6 DEF LoseChunk, Fault
<1>7. CASE RowSent
  BY <1>1, <1>7 DEF RowSent
<1>8. CASE RowKept
  BY <1>2, <1>8 DEF RowKept
<1> QED
  BY <1>3, <1>4, <1>5, <1>6, <1>7, <1>8, HostCases DEF BoardInv

LEMMA PosStep ==
  Lockstep /\ BoardInv /\ SendInv /\ PosInv /\ [BoardNext]_allVars => PosInv'
<1> SUFFICES ASSUME Lockstep, BoardInv, SendInv, PosInv, [BoardNext]_allVars
             PROVE  PosInv'
  OBVIOUS
<1> USE DEF PosInv
<1>1. CASE HostStep
  BY <1>1, PosHost
<1>2. ASSUME ~n'.ready, q' = q, tx' = tx, pos' = pos, hostY' = hostY,
             state' = "Commit" /\ pkt'.kind = "pos" => state = "Commit" /\ pkt.kind = "pos"
      PROVE  PosInv'
  BY <1>2 DEF Tells
<1>3. ASSUME ~n'.ready, q' = q, pos' = pos, hostY' = hostY, tx = NoReply, ~Tells(tx'),
             state' = "Commit" => pkt'.kind # "pos"
      PROVE  PosInv'
  BY <1>3 DEF Tells, NoReply
<1>4. ASSUME ReceiveStep \/ SlotStep, NotHost PROVE PosInv'
  <2>0. hostY' = hostY
    BY <1>4 DEF NotHost, hostVars
  <2> USE <2>0
  <2>1. CASE DropEnd \/ RowHeader \/ RowCtrl \/ TemplateHeader \/ WindowEnd
    BY <1>2, <2>1 DEF DropEnd, RowHeader, RowCtrl, TemplateHeader, WindowEnd, frameVars
  <2>2. CASE PayloadEnd
    <3>1. pkt.kind # "pos"
      BY <2>2 DEF PayloadEnd, BoardInv, TypeOK
    <3> QED BY <1>2, <2>2, <3>1 DEF PayloadEnd, frameVars
  <2>3. CASE CommitTemplate
    BY <1>2, <1>3, <2>3 DEF CommitTemplate, Committing, Tells, NoReply, frameVars
  <2>4. CASE CommitPosition
    <3>1. ~q.ready
      BY <2>4 DEF CommitPosition, Committing, BoardInv, TypeOK
    <3>2. CASE Good
      BY <2>4, <3>1, <3>2 DEF CommitPosition, Committing, Tells, frameVars
    <3>3. CASE ~Good
      BY <1>2, <2>4, <3>3 DEF CommitPosition, Committing, frameVars
    <3> QED BY <3>2, <3>3
  <2>5. CASE CommitBadRow
    BY <1>2, <2>5 DEF CommitBadRow, frameVars
  <2>6. ASSUME NEW num, NEW fid, NEW kinds, NEW y,
               kinds \cap {"tracked", "timeout"} = {}, tx' = Report(num, fid, kinds, y)
        PROVE  ~Tells(tx')
    BY <2>6 DEF Report, Tells
  <2>7. CASE CommitClose
    <3>1. ({"closed"} \cup CropFlag(Cropped(f.size))) \cap {"tracked", "timeout"} = {}
      BY DEF CropFlag
    <3>2. ~Tells(tx')
      BY <2>6, <2>7, <3>1 DEF CommitClose
    <3> QED BY <1>3, <2>7, <3>2 DEF CommitClose, Committing, RowGood
  <2>8. CASE CommitRow
    <3>1. ({"complete"} \cup CropFlag(Cropped(FrameWithRow.size)))
            \cap {"tracked", "timeout"} = {}
      BY DEF CropFlag
    <3>2. tx' = tx \/ ~Tells(tx')
      BY <2>6, <2>8, <3>1 DEF CommitRow
    <3>3. ~n'.ready
      BY <2>8 DEF CommitRow, NoEntry
    <3> QED BY <1>2, <1>3, <2>8, <3>2, <3>3 DEF CommitRow, Committing, RowGood
  <2>9. CASE TakeSlot
    <3>1. ~q.ready
      BY <2>9 DEF TakeSlot, BoardInv, TypeOK
    <3>2. tx' = tx /\ pos' = pos /\ state' = "Idle" /\ n' = n
      BY <2>9 DEF TakeSlot, frameVars
    <3>3. ~q'.ready
      BY <2>9 DEF TakeSlot, BoardInv, TypeOK, Entry
    <3> QED BY <2>9, <3>1, <3>2, <3>3 DEF Tells
  <2>10. CASE TakeAnswer
    <3>1. q'.ready /\ q'.y = pos' /\ "tracked" \in q'.flags
      BY <2>10 DEF TakeAnswer, BoardInv, TypeOK, Entry
    <3>2. n' = n /\ state' = state /\ pkt' = pkt /\ q.valid
      BY <2>10 DEF TakeAnswer, AnswerDue, Awaiting, frameVars, rxVars
    <3> QED BY <3>1, <3>2
  <2>11. CASE LatchAnswer
    BY <1>2, <2>11 DEF LatchAnswer, rxVars, frameVars
  <2>12. CASE EmitPending
    <3>1. ~q'.ready
      BY <2>12 DEF EmitPending, SlotFreed, BoardInv, TypeOK, Entry
    <3>2. /\ tx'.kind = "frame" /\ tx'.y = q.y
          /\ q.flags \subseteq tx'.flags
      BY <2>12 DEF EmitPending, Report
    <3>3. n' = n /\ state' = state /\ pos' = pos /\ q.ready /\ state # "Commit"
      BY <2>12 DEF EmitPending, frameVars, rxVars, SilentStates
    <3> QED BY <3>1, <3>2, <3>3 DEF Tells
  <2> QED BY <1>4, <2>1, <2>2, <2>3, <2>4, <2>5, <2>7, <2>8, <2>9, <2>10, <2>11, <2>12
      DEF ReceiveStep, SlotStep
<1>5. CASE TrackerStep /\ NotHost
  BY <1>2, <1>5
  DEF TrackerStep, TrackRow, TrackChunk, Answer, NotHost, hostVars, rxVars, frameVars
<1>6. CASE BoardTimeOut
  <2>1. q'.ready /\ q'.y = pos /\ "timeout" \in q'.flags
    BY <1>6 DEF BoardTimeOut, TimeOut, BoardInv, TypeOK, Entry
  <2>2. n' = n /\ state' = state /\ pkt' = pkt /\ pos' = pos /\ q.valid
    BY <1>6 DEF BoardTimeOut, TimeOut, Awaiting, frameVars, rxVars
  <2> QED BY <2>1, <2>2
<1>7. CASE BoardTxDone
  <2>1. /\ n' = n /\ q' = q /\ state' = state /\ pkt' = pkt /\ pos' = pos
        /\ tx # NoReply /\ tx' = NoReply
        /\ hostY' = IF Tells(tx) THEN tx.y ELSE hostY
    BY <1>7 DEF BoardTxDone, TxDone, frameVars, rxVars, Tells
  <2> QED BY <2>1 DEF Tells, NoReply
<1>8. CASE UNCHANGED allVars
  BY <1>2, <1>8 DEF allVars, vars, rxVars, frameVars, hostVars
<1> QED
  BY <1>1, <1>4, <1>5, <1>6, <1>7, <1>8 DEF BoardNext, BoardStep, Finished

\* The host that waits for each reply always knows the board's position once
\* nothing is outstanding, whatever rows and replies the network spoils.
THEOREM PositionKnown ==
  ASSUME Lockstep PROVE BoardSpec => []HostKnowsPosition
<1>1. BoardInit => BoardInv /\ SendInv /\ PosInv
  <2>1. BoardInit => SendInv
    BY DEF BoardInit, SendInv, BetweenFrames
  <2>2. BoardInit => PosInv
    BY DEF BoardInit, Init, PosInv, NoEntry, NoReply, Tells
  <2> QED BY <2>1, <2>2, BoardInitInv
<1>2. BoardInv /\ SendInv /\ PosInv /\ [BoardNext]_allVars
        => (BoardInv /\ SendInv /\ PosInv)'
  BY BoardStepMaps, SendStep, PosStep DEF BoardInv
<1>3. BoardInv /\ PosInv => HostKnowsPosition
  BY DEF PosInv, HostKnowsPosition, BoardQuiet, Tells, NoReply, BoardInv, TypeOK
<1> QED BY <1>1, <1>2, <1>3, PTL DEF BoardSpec

-----------------------------------------------------------------------------
(* A frame that is reported complete and is large enough has pushed a row   *)
(* into the FIFO, so it made the tracker start.                             *)

\* A good row whose header has been looked at.
HeaderRead == state \in {"Ctrl", "Body", "Commit"} /\ pkt.kind = "row" /\ Good

RowSize == IF NewFrame THEN pkt.size ELSE f.size

\* What S_HDR_A found out about the row stays true until it commits, and a
\* frame whose rows came in order past its origin has forwarded one of them.
HeaderInv ==
  /\ state = "Ctrl" => p.inwin /\ p.new = NewFrame
  /\ HeaderRead =>
       /\ ~NewFrame => p.oy = f.oy
       /\ p.inwin = (HasRoi(RowSize) /\ pkt.row >= p.oy /\ pkt.row < p.oy + ROI)
       /\ NewFrame /\ HasRoi(pkt.size) => p.oy + ROI <= pkt.size.h
  /\ f.active /\ HasRoi(f.size) =>
       /\ f.oy + ROI <= f.size.h
       /\ f.inorder /\ f.rows > f.oy => f.started

LEMMA GoodRow ==
  ASSUME TypeOK, HeaderInv, CommitRow
  PROVE  /\ pkt \in Packets /\ pkt.kind = "row" /\ Good /\ pkt.row \in Nat
         /\ FrameWithRow.fid = pkt.fid /\ FrameWithRow.active
         /\ FrameWithRow.started => p.inwin \/ (f.active /\ f.fid = pkt.fid /\ f.started)
         /\ HasRoi(FrameWithRow.size) =>
              /\ FrameWithRow.oy + ROI <= FrameWithRow.size.h
              /\ FrameWithRow.inorder /\ FrameWithRow.rows > FrameWithRow.oy
                   => FrameWithRow.started
<1>1. pkt \in Packets /\ pkt.kind = "row" /\ Good /\ HeaderRead
  BY DEF CommitRow, RowGood, Committing, TypeOK, HeaderRead
<1>2. pkt.row \in Nat /\ pkt.size \in Sizes
  BY <1>1 DEF Packets
<1>3. CASE f.active
  <2>1. pkt.fid = f.fid /\ ~NewFrame
    BY <1>3 DEF CommitRow, NewFrame
  <2> DEFINE g == FrameWithRow
  <2>2. /\ g.rows = f.rows + 1 /\ g.inorder = (f.inorder /\ pkt.row = f.rows)
        /\ g.started = (f.started \/ p.inwin) /\ g.oy = f.oy /\ g.size = f.size
        /\ g.fid = f.fid /\ g.active
    BY <1>3 DEF FrameWithRow, TypeOK
  <2>3. p.oy = f.oy /\ (HasRoi(f.size) /\ pkt.row >= f.oy /\ pkt.row < f.oy + ROI => p.inwin)
    BY <1>1, <2>1 DEF HeaderInv, RowSize
  <2>4. f.rows \in Nat /\ f.oy \in Nat /\ ROI \in Nat \ {0}
    BY RowStatsAssumption DEF TypeOK
  <2>5. HasRoi(f.size) => f.oy + ROI <= f.size.h /\ (f.inorder /\ f.rows > f.oy => f.started)
    BY <1>3 DEF HeaderInv
  <2> HIDE DEF g
  <2>6. ASSUME HasRoi(g.size), g.inorder, g.rows > g.oy PROVE g.started
    <3>0. f.rows + 1 > f.oy
      BY <2>2, <2>6
    <3>1. pkt.row = f.rows /\ f.inorder /\ f.rows >= f.oy /\ HasRoi(f.size)
      <4>1. f.rows >= f.oy
        BY <2>4, <3>0
      <4>2. f.inorder /\ pkt.row = f.rows
        BY <2>2, <2>6
      <4>3. HasRoi(f.size)
        BY <2>2, <2>6
      <4> QED BY <4>1, <4>2, <4>3
    <3>2. CASE f.rows > f.oy
      BY <2>2, <2>5, <3>1, <3>2
    <3>3. CASE f.rows = f.oy
      <4>1. p.inwin
        BY <2>3, <2>4, <3>1, <3>3
      <4> QED BY <2>2, <4>1
    <3> QED BY <2>4, <3>1, <3>2, <3>3
  <2> QED BY <1>1, <1>2, <1>3, <2>1, <2>2, <2>5, <2>6 DEF g
<1>4. CASE ~f.active
  <2>1. NewFrame
    BY <1>4 DEF NewFrame
  <2>2. /\ FrameWithRow.rows = 1 /\ FrameWithRow.inorder = (pkt.row = 0)
        /\ FrameWithRow.started = p.inwin /\ FrameWithRow.oy = p.oy
        /\ FrameWithRow.size = pkt.size
        /\ FrameWithRow.fid = pkt.fid /\ FrameWithRow.active
    BY <1>4 DEF FrameWithRow
  <2>3. /\ HasRoi(pkt.size) /\ pkt.row >= p.oy /\ pkt.row < p.oy + ROI => p.inwin
        /\ HasRoi(pkt.size) => p.oy + ROI <= pkt.size.h
    BY <1>1, <2>1 DEF HeaderInv, RowSize
  <2>4. p.oy \in Nat /\ ROI \in Nat \ {0}
    BY RowStatsAssumption DEF TypeOK
  <2>5. HasRoi(pkt.size) /\ pkt.row = 0 /\ 1 > p.oy => p.inwin
    BY <2>3, <2>4
  <2> QED BY <1>1, <1>2, <2>2, <2>3, <2>5
<1> QED BY <1>3, <1>4

LEMMA HeaderStep == TypeOK /\ HeaderInv /\ [Next]_vars => HeaderInv'
<1> SUFFICES ASSUME TypeOK, HeaderInv, [Next]_vars PROVE HeaderInv'
  OBVIOUS
<1> USE DEF HeaderInv, HeaderRead, NewFrame, RowSize, Good
<1>1. ASSUME NEW pk \in Packets, RxHeader(pk) PROVE HeaderInv'
  <2>1. pk.kind \in {"row", "pos", "tmpl", "other"}
    BY DEF Packets
  <2>2. state' \in {"Drop", "HdrA", "TmplHdr", "Commit"}
    BY <1>1, <2>1 DEF RxHeader, AfterHeader
  <2>3. state' = "Commit" /\ pk.kind = "row" => pk.quality = "short"
    BY <1>1 DEF RxHeader, AfterHeader
  <2> QED BY <1>1, <2>2, <2>3 DEF RxHeader, frameVars
<1>2. CASE DropEnd
  BY <1>2 DEF DropEnd, frameVars
<1>3. CASE RowHeader
  <2> DEFINE oy == IF NewFrame THEN Origin(pos, pkt.size.h) ELSE f.oy
             fwd == /\ pkt.quality # "badhdr" /\ HasRoi(RowSize)
                    /\ pkt.row >= oy /\ pkt.row < oy + ROI
  <2>1. /\ p'.new = NewFrame /\ p'.oy = oy /\ p'.inwin = fwd
        /\ state' = IF fwd THEN "Ctrl" ELSE "Body"
        /\ pkt' = pkt /\ f' = f
    BY <1>3 DEF RowHeader, frameVars
  <2>2. HasRoi(pkt.size) /\ NewFrame => oy + ROI <= pkt.size.h
    <3>1. pkt.size \in Sizes /\ pos \in Nat
      BY <1>3 DEF RowHeader, TypeOK, Packets
    <3>2. pkt.size.h \in Nat
      BY <3>1, RowStatsAssumption
    <3>3. ASSUME HasRoi(pkt.size) PROVE Origin(pos, pkt.size.h) \in 0..(pkt.size.h - ROI)
      BY <3>1, <3>2, <3>3, OriginClamp DEF HasRoi
    <3> QED BY <3>2, <3>3, RowStatsAssumption
  <2>3. ~NewFrame => oy = f.oy
    OBVIOUS
  <2> HIDE DEF oy
  <2>4. p'.inwin = fwd /\ p'.new = NewFrame /\ p'.oy = oy /\ NewFrame' = NewFrame
    BY <2>1
  <2>5. state' = "Ctrl" => p'.inwin /\ p'.new = NewFrame'
    BY <2>1, <2>4
  <2>6. HeaderRead' => pkt.quality # "badhdr"
    BY <2>1
  <2> QED BY <2>1, <2>2, <2>3, <2>4, <2>5, <2>6
<1>4. CASE RowCtrl
  <2>1. p'.new = p.new /\ p'.oy = p.oy /\ p'.inwin = p.inwin
    BY <1>4 DEF RowCtrl, TypeOK
  <2> QED BY <1>4, <2>1 DEF RowCtrl, frameVars
<1>5. CASE TemplateHeader
  BY <1>5 DEF TemplateHeader, frameVars, TypeOK
<1>6. CASE WindowEnd \/ PayloadEnd
  <2>1. p'.new = p.new /\ p'.oy = p.oy /\ p'.inwin = p.inwin
    BY <1>6 DEF WindowEnd, PayloadEnd, TypeOK
  <2> QED BY <1>6, <2>1 DEF WindowEnd, PayloadEnd, frameVars
<1>7. CASE CommitTemplate \/ CommitPosition \/ CommitBadRow
  BY <1>7 DEF CommitTemplate, CommitPosition, CommitBadRow, frameVars
<1>8. CASE CommitClose
  <2>1. /\ state = "Commit" /\ state' = "Commit" /\ pkt' = pkt
        /\ pkt.fid # f.fid /\ f' = [f EXCEPT !.active = FALSE]
        /\ p' = [p EXCEPT !.new = TRUE]
    BY <1>8 DEF CommitClose, Committing
  <2>2. ~f'.active /\ p'.oy = p.oy /\ p'.inwin = p.inwin
    BY <2>1 DEF TypeOK
  <2> QED BY <2>1, <2>2
<1>9. CASE CommitRow
  <2>1. state' \in {"Idle", "Slot"} /\ (f' = FrameWithRow \/ ~f'.active)
    <3>1. [FrameWithRow EXCEPT !.active = FALSE].active = FALSE
      BY DEF FrameWithRow, TypeOK
    <3> QED BY <1>9, <3>1 DEF CommitRow
  <2> QED BY <1>9, <2>1, GoodRow
<1>10. CASE TakeSlot
  BY <1>10 DEF TakeSlot, frameVars
<1>11. CASE SlotStep \/ TimeOut \/ TxDone \/ FifoRead \/ AnswerArrives
  BY <1>11 DEF SlotStep, TakeAnswer, LatchAnswer, EmitPending, TimeOut, TxDone, FifoRead,
               AnswerArrives, rxVars, frameVars
<1>12. CASE UNCHANGED vars
  BY <1>12 DEF vars, rxVars, frameVars
<1> QED
  BY <1>1, <1>2, <1>3, <1>4, <1>5, <1>6, <1>7, <1>8, <1>9, <1>10, <1>11, <1>12
  DEF Next, ReceiveStep

-----------------------------------------------------------------------------
(* Whose turn it is.                                                        *)

AllKind(words, kind) == \A i \in 1..Len(words) : words[i].kind = kind

LEMMA KindsKept ==
  ASSUME NEW words \in Seq(Word), NEW kind, AllKind(words, kind)
  PROVE  /\ \A w \in Word : w.kind = kind => AllKind(Append(words, w), kind)
         /\ words # <<>> => AllKind(Tail(words), kind) /\ Head(words).kind = kind
<1>1. ASSUME NEW w \in Word, w.kind = kind PROVE AllKind(Append(words, w), kind)
  <2>1. /\ Len(Append(words, w)) = Len(words) + 1 /\ Len(words) \in Nat
        /\ \A i \in 1..Len(words) : Append(words, w)[i] = words[i]
        /\ Append(words, w)[Len(words) + 1] = w
    OBVIOUS
  <2> QED BY <1>1, <2>1 DEF AllKind
<1>2. ASSUME words # <<>> PROVE AllKind(Tail(words), kind) /\ Head(words).kind = kind
  <2>1. /\ Len(Tail(words)) = Len(words) - 1 /\ Len(words) \in Nat \ {0}
        /\ \A i \in 1..(Len(words) - 1) : Tail(words)[i] = words[i + 1]
        /\ Head(words) = words[1]
    BY <1>2
  <2> QED BY <2>1 DEF AllKind
<1> QED BY <1>1, <1>2

\* The receiver is busy with a packet of this kind.
Held(kind) == state # "Idle" /\ pkt.kind = kind

Frames == [size : Sizes, tmpl : Contents \cup {"none"}]

\* The host's turns exclude each other: while a template is uploaded nothing
\* of a frame is on the board, and what is on it of a frame is of the last one.
TurnInv ==
  /\ script \in Seq(Frames) /\ Len(script) = cur.fid
  /\ ~upl.gap /\ cur.fid # 0 => script[cur.fid].tmpl = upl.whole
  /\ p.word # NoWord => state = "Body" /\ p.word.kind = pkt.kind
  /\ Held("row") => pkt.fid = cur.fid /\ ~upl.gap /\ cur.fid # 0
  /\ state = "Slot" => pkt.kind = "row" /\ n.fid = cur.fid
  /\ Held("tmpl") => upl.gap
  /\ f.active => f.fid \in 1..cur.fid
  /\ q.valid => q.fid = cur.fid /\ ~upl.gap /\ cur.fid # 0
  /\ upl.gap => ~trk.busy /\ res = NoAnswer
  /\ AllKind(fifo, IF upl.gap THEN "tmpl" ELSE "row")

LEMMA TurnHost ==
  ASSUME Lockstep, BoardInv, SendInv, TurnInv, HostStep PROVE TurnInv'
<1> USE DEF TurnInv, Held
<1>1. ASSUME NEW pk \in Packets, RxHeader(pk), UNCHANGED <<trk, script>>,
             cur'.fid = cur.fid, upl'.whole = upl.whole \/ upl'.gap,
             pk.kind = "row" => pk.fid = cur.fid /\ cur.fid # 0 /\ ~upl'.gap,
             pk.kind = "tmpl" => upl'.gap,
             upl'.gap = upl.gap \/ (upl'.gap /\ BoardQuiet)
      PROVE  TurnInv'
  <2>1. /\ pkt' = pk /\ q' = q /\ n' = n /\ f' = f /\ res' = res /\ fifo' = fifo
        /\ p' = FreshRow /\ state' # "Slot" /\ state = "Idle"
    <3>1. pk.kind \in {"row", "pos", "tmpl", "other"}
      BY DEF Packets
    <3> QED BY <1>1, <3>1 DEF RxHeader, frameVars, AfterHeader
  <2>2. p'.word = NoWord
    BY <2>1 DEF FreshRow
  <2>3. BoardQuiet => ~q.valid /\ ~trk.busy /\ res = NoAnswer /\ fifo = <<>>
    BY DEF BoardQuiet, TrackerQuiet
  <2>4. AllKind(fifo', IF upl'.gap THEN "tmpl" ELSE "row")
    BY <1>1, <2>1, <2>3 DEF AllKind
  <2>5. upl'.gap => ~trk'.busy /\ res' = NoAnswer
    BY <1>1, <2>1, <2>3
  <2>6. q'.valid => q'.fid = cur'.fid /\ ~upl'.gap /\ cur'.fid # 0
    BY <1>1, <2>1, <2>3
  <2> QED BY <1>1, <2>1, <2>2, <2>4, <2>5, <2>6
<1>2. ASSUME UNCHANGED <<vars, trk, script>>, cur'.fid = cur.fid,
             upl'.gap = upl.gap, upl'.whole = upl.whole
      PROVE  TurnInv'
  BY <1>2 DEF vars, rxVars, frameVars
<1>3. CASE StartFrame
  <2>1. PICK s \in Sizes : /\ cur' = [fid |-> cur.fid + 1, size |-> s, row |-> 0]
                           /\ script' = Append(script, [size |-> s, tmpl |-> upl.whole])
    BY <1>3 DEF StartFrame
  <2>2. /\ state = "Idle" /\ ~q.valid /\ fifo = <<>> /\ UNCHANGED <<vars, trk>>
        /\ ~upl'.gap /\ upl'.whole = upl.whole /\ cur.fid \in Nat
        /\ upl.whole \in Contents \cup {"none"}
    BY <1>3 DEF StartFrame, MaySend, BoardQuiet, TrackerQuiet, BoardInv, HostType
  <2>3. [size |-> s, tmpl |-> upl.whole] \in Frames
    BY <2>2 DEF Frames
  <2>4. /\ script' \in Seq(Frames) /\ Len(script') = Len(script) + 1
        /\ script'[Len(script) + 1] = [size |-> s, tmpl |-> upl.whole]
    BY <2>1, <2>3
  <2>5. script'[cur'.fid].tmpl = upl'.whole /\ Len(script') = cur'.fid
    BY <2>1, <2>2, <2>4
  <2>6. UNCHANGED <<state, pkt, p, f, n, q, res, fifo, trk>>
    BY <2>2 DEF vars, rxVars, frameVars
  <2>7. f'.active => f'.fid \in 1..cur'.fid
    BY <2>1, <2>2, <2>6
  <2>8. AllKind(fifo', "row")
    BY <2>2, <2>6 DEF AllKind
  <2> QED BY <2>2, <2>4, <2>5, <2>6, <2>7, <2>8
<1>4. CASE SendPosition
  <2>1. PICK y \in Positions : RxHeader([kind |-> "pos", y |-> y, quality |-> "good"])
    BY <1>4 DEF SendPosition
  <2>2. [kind |-> "pos", y |-> y, quality |-> "good"] \in Packets
    BY BoardAssumption DEF Packets, Quality
  <2>3. UNCHANGED <<trk, script, cur, upl>>
    BY <1>4 DEF SendPosition
  <2> QED BY <1>1, <2>1, <2>2, <2>3
<1>5. CASE SendChunk
  <2>1. PICK c \in Contents :
          /\ RxHeader([kind |-> "tmpl", chunk |-> upl.chunk, content |-> c,
                       quality |-> "good"])
          /\ upl' = [content |-> c, chunk |-> (upl.chunk + 1) % NChunks, gap |-> TRUE,
                     whole |-> IF upl.chunk = NChunks - 1 THEN c ELSE upl.whole]
    BY <1>5 DEF SendChunk
  <2>2. [kind |-> "tmpl", chunk |-> upl.chunk, content |-> c, quality |-> "good"]
          \in Packets
    BY DEF Packets, Quality, BoardInv, HostType
  <2>3. UNCHANGED <<trk, script, cur>> /\ upl'.gap /\ BoardQuiet
    BY <1>5, <2>1 DEF SendChunk, MaySend
  <2> QED BY <1>1, <2>1, <2>2, <2>3
<1>6. CASE LoseChunk
  <2>1. upl'.gap = upl.gap /\ upl'.whole = upl.whole
    BY <1>6 DEF LoseChunk, BoardInv, HostType
  <2> QED BY <1>2, <1>6, <2>1 DEF LoseChunk, Fault
<1>7. CASE RowSent
  <2>1. PICK pk \in Packets : pk.kind = "row" /\ pk.fid = cur.fid /\ RxHeader(pk)
    BY <1>7 DEF RowSent
  <2>2. UNCHANGED <<trk, script, upl>> /\ cur'.fid = cur.fid /\ ~upl.gap /\ cur.fid # 0
    BY <1>7 DEF RowSent
  <2> QED BY <1>1, <2>1, <2>2
<1>8. CASE RowKept
  BY <1>2, <1>8 DEF RowKept
<1> QED
  BY <1>3, <1>4, <1>5, <1>6, <1>7, <1>8, HostCases DEF BoardInv

LEMMA TurnStep ==
  /\ Lockstep /\ BoardInv /\ SendInv /\ HeaderInv /\ TurnInv
  /\ [BoardNext]_allVars
  => TurnInv'
<1> SUFFICES ASSUME Lockstep, BoardInv, SendInv, HeaderInv, TurnInv, [BoardNext]_allVars
             PROVE  TurnInv'
  OBVIOUS
<1> USE DEF TurnInv, Held
<1>1. CASE HostStep
  BY <1>1, TurnHost
<1>2. CASE UNCHANGED allVars
  BY <1>2 DEF allVars, vars, rxVars, frameVars, hostVars
<1>3. ASSUME UNCHANGED <<trk, script, upl, cur>>, ReceiveStep PROVE TurnInv'
  <2> USE <1>3
  <2>1. CASE DropEnd \/ RowHeader
    <3>1. p'.word = NoWord
      BY <2>1 DEF DropEnd, RowHeader
    <3> QED BY <2>1, <3>1 DEF DropEnd, RowHeader, frameVars
  <2>2. CASE RowCtrl
    <3>1. p'.word = RowWord /\ RowWord.kind = "row" /\ pkt.kind = "row"
      BY <2>2 DEF RowCtrl, RowWord, BoardInv, TypeOK
    <3> QED BY <2>2, <3>1 DEF RowCtrl, frameVars
  <2>3. CASE TemplateHeader
    <3>1. p.word = NoWord /\ pkt.kind = "tmpl"
      BY <2>3 DEF TemplateHeader, BoardInv, TypeOK
    <3>2. p'.word = NoWord \/ p'.word.kind = "tmpl"
      BY <2>3, <3>1 DEF TemplateHeader, ChunkWord, BoardInv, TypeOK
    <3> QED BY <2>3, <3>1, <3>2 DEF TemplateHeader, frameVars
  <2>4. CASE WindowEnd \/ PayloadEnd
    <3>1. p'.word = NoWord
      BY <2>4 DEF WindowEnd, PayloadEnd, BoardInv, TypeOK
    <3>2. fifo' = fifo \/ (p.word # NoWord /\ fifo' = Append(fifo, p.word))
      BY <2>4 DEF WindowEnd, PayloadEnd
    <3>3. AllKind(fifo', IF upl.gap THEN "tmpl" ELSE "row")
      <4>1. fifo \in Seq(Word) /\ p.word \in Word
        BY DEF BoardInv, TypeOK
      <4>2. pkt.kind \in {"row", "tmpl"} /\ state = "Body"
        BY <2>4 DEF WindowEnd, PayloadEnd, BoardInv, TypeOK
      <4>3. p.word # NoWord => p.word.kind = IF upl.gap THEN "tmpl" ELSE "row"
        BY <4>2
      <4> QED BY <3>2, <4>1, <4>3, KindsKept
    <3> QED BY <2>4, <3>1, <3>3 DEF WindowEnd, PayloadEnd, frameVars
  <2>5. CASE CommitTemplate \/ CommitPosition \/ CommitBadRow
    BY <2>5 DEF CommitTemplate, CommitPosition, CommitBadRow, frameVars, Committing
  <2>6. CASE CommitClose
    <3>1. ~f'.active /\ p'.word = p.word
      BY <2>6 DEF CommitClose, BoardInv, TypeOK
    <3> QED BY <2>6, <3>1 DEF CommitClose
  <2>7. CASE CommitRow
    <3>1. pkt.kind = "row" /\ FrameWithRow.fid = pkt.fid /\ state = "Commit"
      BY <2>7, GoodRow DEF CommitRow, Committing, BoardInv
    <3>2. f' = FrameWithRow \/ ~f'.active
      <4>1. [FrameWithRow EXCEPT !.active = FALSE].active = FALSE
        BY DEF FrameWithRow, BoardInv, TypeOK
      <4> QED BY <2>7, <4>1 DEF CommitRow
    <3>3. state' = "Slot" => n'.fid = FrameWithRow.fid
      BY <2>7 DEF CommitRow, NoEntry
    <3>4. cur.fid \in Nat /\ pkt.fid = cur.fid /\ cur.fid # 0 /\ ~upl.gap
      BY <3>1 DEF BoardInv, HostType
    <3>5. f'.active => f'.fid \in 1..cur.fid
      BY <3>1, <3>2, <3>4
    <3> QED BY <2>7, <3>1, <3>3, <3>4, <3>5 DEF CommitRow
  <2>8. CASE TakeSlot
    <3>1. q'.fid = n.fid
      BY <2>8 DEF TakeSlot, BoardInv, TypeOK, Entry
    <3> QED BY <2>8, <3>1 DEF TakeSlot, frameVars
  <2> QED BY <2>1, <2>2, <2>3, <2>4, <2>5, <2>6, <2>7, <2>8 DEF ReceiveStep
<1>4. ASSUME UNCHANGED <<script, upl>>, cur' = cur, UNCHANGED <<rxVars, frameVars>>,
             q'.valid => q.valid /\ q'.fid = q.fid,
             upl.gap => ~trk'.busy /\ res' = NoAnswer,
             fifo' = fifo \/ (fifo # <<>> /\ fifo' = Tail(fifo))
      PROVE  TurnInv'
  <2>1. AllKind(fifo', IF upl'.gap THEN "tmpl" ELSE "row")
    <3> DEFINE kind == IF upl.gap THEN "tmpl" ELSE "row"
    <3>1. fifo \in Seq(Word) /\ AllKind(fifo, kind)
      BY DEF BoardInv, TypeOK
    <3> HIDE DEF kind
    <3>2. fifo # <<>> => AllKind(Tail(fifo), kind)
      BY <3>1, KindsKept
    <3>3. AllKind(fifo', kind)
      BY <1>4, <3>1, <3>2
    <3> QED BY <1>4, <3>3 DEF kind
  <2> QED BY <1>4, <2>1 DEF rxVars, frameVars
<1>5. CASE SlotStep /\ UNCHANGED trk /\ NotHost
  <2>1. q'.valid => q.valid /\ q'.fid = q.fid
    BY <1>5 DEF SlotStep, TakeAnswer, LatchAnswer, EmitPending, SlotFreed, AnswerDue,
                Awaiting, BoardInv, TypeOK, Entry
  <2>2. UNCHANGED <<rxVars, frameVars, fifo>> /\ (res' = res \/ res' = NoAnswer)
    BY <1>5 DEF SlotStep, TakeAnswer, LatchAnswer, EmitPending
  <2> QED BY <1>4, <1>5, <2>1, <2>2 DEF NotHost, hostVars
<1>6. CASE TrackerStep /\ NotHost
  <2>1. UNCHANGED <<rxVars, frameVars, q>> /\ UNCHANGED hostVars
    BY <1>6 DEF TrackerStep, TrackRow, TrackChunk, Answer, NotHost
  <2>2. CASE TrackRow
    <3>1. ~upl.gap
      BY <2>2, KindsKept DEF TrackRow, Offered, BoardInv, TypeOK
    <3> QED BY <1>4, <2>1, <2>2, <3>1 DEF TrackRow, Offered, hostVars
  <2>3. CASE TrackChunk
    <3>1. trk'.busy = trk.busy
      BY <2>3 DEF TrackChunk, BoardInv, TrackerType
    <3> QED BY <1>4, <2>1, <2>3, <3>1 DEF TrackChunk, Offered, hostVars
  <2>4. CASE Answer
    <3>1. ~upl.gap
      BY <2>4 DEF Answer
    <3> QED BY <1>4, <2>1, <2>4, <3>1 DEF Answer, hostVars
  <2> QED BY <1>6, <2>2, <2>3, <2>4 DEF TrackerStep
<1>7. CASE BoardTimeOut
  <2>1. q'.valid = q.valid /\ q'.fid = q.fid
    BY <1>7 DEF BoardTimeOut, TimeOut, BoardInv, TypeOK, Entry
  <2> QED BY <1>4, <1>7, <2>1 DEF BoardTimeOut, TimeOut, NotHost, hostVars
<1>8. CASE BoardTxDone
  BY <1>4, <1>8 DEF BoardTxDone, TxDone
<1> QED
  BY <1>1, <1>2, <1>3, <1>5, <1>6, <1>7, <1>8
  DEF BoardNext, BoardStep, Finished, NotHost, hostVars

-----------------------------------------------------------------------------
(* The template in the tracker.                                             *)

\* What the tracker's steps do to the template, field by field.
LEMMA TrackRowLoads ==
  ASSUME TypeOK, TrackerType, TrackRow
  PROVE  /\ trk'.shadow = trk.shadow
         /\ Head(fifo).newf =>
              /\ ~trk'.pending
              /\ trk'.tmpl = IF trk.pending THEN trk.shadow ELSE trk.tmpl
         /\ ~Head(fifo).newf => trk'.pending = trk.pending /\ trk'.tmpl = trk.tmpl
<1> DEFINE w == Head(fifo)
           g == IF w.newf THEN RestartFrame(w) ELSE ContinueFrame(w)
<1>1. trk' = [g EXCEPT !.cnt = g.cnt + 1,
                       !.rows = IF g.inorder THEN Append(g.rows, w.src) ELSE <<>>,
                       !.busy = g.inorder /\ g.cnt = ROI - 1]
  BY DEF TrackRow
<1>2. w.newf => /\ g.shadow = trk.shadow /\ ~g.pending
                /\ g.tmpl = IF trk.pending THEN trk.shadow ELSE trk.tmpl
  BY DEF RestartFrame, TrackerType
<1>3. ~w.newf => g.shadow = trk.shadow /\ g.pending = trk.pending /\ g.tmpl = trk.tmpl
  BY DEF ContinueFrame, TrackerType
<1>4. g = [busy |-> g.busy, tag |-> g.tag, cnt |-> g.cnt, inorder |-> g.inorder,
           rows |-> g.rows, pending |-> g.pending, shadow |-> g.shadow, tmpl |-> g.tmpl]
  BY DEF RestartFrame, ContinueFrame, TrackerType
<1> HIDE DEF g, w
<1>5. trk'.shadow = g.shadow /\ trk'.pending = g.pending /\ trk'.tmpl = g.tmpl
  BY <1>1, <1>4
<1> QED BY <1>2, <1>3, <1>5 DEF w

LEMMA TrackChunkLoads ==
  ASSUME TypeOK, TrackerType, TrackChunk
  PROVE  LET w == Head(fifo)
         IN  /\ w.chunk \in Chunks
             /\ trk'.shadow = [trk.shadow EXCEPT ![w.chunk] = w.content]
             /\ trk'.pending = (trk.pending \/ w.chunk = NChunks - 1)
             /\ trk'.tmpl = trk.tmpl
<1>1. Head(fifo).chunk \in Chunks
  BY HeadWord DEF TrackChunk, Offered
<1> QED BY <1>1 DEF TrackChunk, TrackerType, CompletesTemplate

LEMMA OneWord ==
  ASSUME NEW w
  PROVE  /\ Append(<<>>, w) # <<>> /\ Head(Append(<<>>, w)) = w
         /\ Tail(Append(<<>>, w)) = <<>>
OBVIOUS

WholeOf(c) == [x \in Chunks |-> c]

\* The next new frame will be matched against this template.
NextTemplate == IF trk.pending THEN trk.shadow ELSE trk.tmpl

\* A chunk is on its way to the tracker: with the receiver or in the FIFO.
InHand == state \in {"TmplHdr", "Body"} /\ pkt.kind = "tmpl"
Flight == upl.gap /\ (InHand \/ fifo # <<>>)

\* Once the last chunk has arrived the next new frame gets the whole template
\* the host uploaded last; until then it gets the one before, and the chunks
\* that have arrived are in the shadow.
LoadInv ==
  /\ ~upl.gap => upl.chunk = 0
  /\ upl.gap /\ InHand => fifo = <<>> /\ (state = "Body" => p.word = ChunkWord)
  /\ upl.gap /\ fifo # <<>> => Head(fifo) = ChunkWord /\ Tail(fifo) = <<>>
  /\ Flight => /\ pkt.kind = "tmpl" /\ pkt.content = upl.content
               /\ upl.chunk = (pkt.chunk + 1) % NChunks
               /\ InHand => Good
               /\ pkt.chunk = NChunks - 1 => upl.whole = upl.content
  /\ upl.gap =>
       \A i \in Chunks : i < (IF Flight THEN pkt.chunk ELSE upl.chunk) =>
         trk.shadow[i] = upl.content
  /\ upl.gap /\ trk.pending /\ NChunks # 1 => upl.whole = upl.content
  /\ ~(Flight /\ pkt.chunk = NChunks - 1) => NextTemplate = WholeOf(upl.whole)

\* When the host goes on after a frame, the tracker has taken the template
\* that was uploaded before it: some row of the frame made it start.
Taken == BetweenFrames /\ MaySend /\ ~upl.gap => ~trk.pending

LEMMA LoadHost ==
  ASSUME Lockstep, NChunks = 1 \/ (OneUpload /\ Taken), BoardInv, SendInv, LoadInv, HostStep
  PROVE  LoadInv'
<1>1. ASSUME ~upl'.gap, upl'.chunk = 0, upl'.whole = upl.whole, trk' = trk, ~Flight
      PROVE  LoadInv'
  BY <1>1 DEF LoadInv, Flight, NextTemplate
<1>2. BoardQuiet => state = "Idle" /\ fifo = <<>> /\ ~InHand /\ ~Flight
  BY DEF BoardQuiet, TrackerQuiet, InHand, Flight
<1>3. CASE StartFrame
  BY <1>1, <1>2, <1>3 DEF StartFrame, MaySend, BoardInv, HostType
<1>4. CASE SendPosition
  <2>1. PICK y \in Positions : RxHeader([kind |-> "pos", y |-> y, quality |-> "good"])
    BY <1>4 DEF SendPosition
  <2>2. BoardQuiet /\ UNCHANGED <<trk, upl>>
    BY <1>4 DEF SendPosition, MaySend
  <2>3. pkt'.kind = "pos" /\ fifo' = <<>>
    BY <1>2, <2>1, <2>2 DEF RxHeader
  <2>4. ~InHand' /\ ~Flight'
    BY <2>3 DEF InHand, Flight
  <2> QED BY <1>2, <2>2, <2>3, <2>4 DEF LoadInv, NextTemplate
<1>5. CASE LoseChunk
  <2>1. /\ BoardQuiet /\ UNCHANGED <<vars, trk>> /\ upl'.chunk = 0
        /\ upl'.gap = upl.gap /\ upl'.whole = upl.whole /\ upl'.content = upl.content
    BY <1>5 DEF LoseChunk, MaySend, Fault, BoardInv, HostType
  <2>2. UNCHANGED <<state, pkt, p, fifo>>
    BY <2>1 DEF vars, rxVars
  <2>3. ~InHand' /\ ~Flight' /\ fifo' = <<>>
    BY <1>2, <2>1, <2>2 DEF InHand, Flight
  <2>4. \A i \in Chunks : ~(i < 0)
    BY RowStatsAssumption DEF Chunks
  <2> QED BY <1>2, <2>1, <2>3, <2>4 DEF LoadInv, NextTemplate
<1>6. CASE RowSent \/ RowKept
  BY <1>1, <1>6 DEF RowSent, RowKept, Flight, LoadInv
<1>7. CASE SendChunk
  <2>1. PICK c \in Contents :
          /\ upl.chunk # 0 \/ (upl.gap /\ OneUpload) => c = upl.content
          /\ RxHeader([kind |-> "tmpl", chunk |-> upl.chunk, content |-> c,
                       quality |-> "good"])
          /\ upl' = [content |-> c, chunk |-> (upl.chunk + 1) % NChunks, gap |-> TRUE,
                     whole |-> IF upl.chunk = NChunks - 1 THEN c ELSE upl.whole]
    BY <1>7 DEF SendChunk
  <2>2. BoardQuiet /\ BetweenFrames /\ MaySend /\ trk' = trk
    BY <1>7 DEF SendChunk, MaySend
  <2>3. /\ pkt' = [kind |-> "tmpl", chunk |-> upl.chunk, content |-> c, quality |-> "good"]
        /\ state' = "TmplHdr" /\ fifo' = <<>>
    BY <1>2, <2>1, <2>2 DEF RxHeader, AfterHeader
  <2>4. InHand' /\ Flight' /\ Good'
    BY <2>1, <2>3 DEF InHand, Flight, Good
  <2>5. \A i \in Chunks : i < upl.chunk => trk.shadow[i] = c
    <3>1. CASE upl.chunk = 0
      BY <3>1, RowStatsAssumption DEF Chunks
    <3>2. CASE upl.chunk # 0
      BY <1>2, <2>1, <2>2, <3>2 DEF LoadInv
    <3> QED BY <3>1, <3>2
  <2>6. trk.pending /\ NChunks # 1 => upl'.whole = c
    BY <2>1, <2>2 DEF Taken, LoadInv
  <2>7. upl.chunk # NChunks - 1 => NextTemplate' = WholeOf(upl'.whole)
    BY <1>2, <2>1, <2>2 DEF LoadInv, NextTemplate
  <2> QED BY <2>1, <2>2, <2>3, <2>4, <2>5, <2>6, <2>7 DEF LoadInv
<1> QED BY <1>3, <1>4, <1>5, <1>6, <1>7, HostCases DEF BoardInv

LEMMA LoadReceive ==
  ASSUME BoardInv, TurnInv, LoadInv, ReceiveStep \/ SlotStep \/ TimeOut, UNCHANGED <<trk, upl>>
  PROVE  LoadInv'
<1>1. ASSUME ~upl.gap PROVE LoadInv'
  BY <1>1 DEF LoadInv, Flight, NextTemplate
<1>2. ASSUME fifo' = fifo, pkt' = pkt, ~InHand, ~InHand' PROVE LoadInv'
  <2>1. Flight' = Flight /\ Good' = Good
    BY <1>2 DEF Flight, Good
  <2> QED BY <1>2, <2>1 DEF LoadInv, NextTemplate, ChunkWord
<1>3. CASE SlotStep \/ TimeOut
  <2>1. UNCHANGED <<rxVars, fifo>>
    BY <1>3 DEF SlotStep, TakeAnswer, LatchAnswer, EmitPending, TimeOut
  <2> QED BY <2>1 DEF LoadInv, Flight, InHand, NextTemplate, ChunkWord, Good, rxVars
<1>4. CASE RowHeader \/ RowCtrl \/ WindowEnd \/ CommitBadRow \/ CommitClose \/ CommitRow
           \/ TakeSlot
  <2>1. Held("row")
    BY <1>4 DEF RowHeader, RowCtrl, WindowEnd, CommitBadRow, CommitClose, CommitRow, TakeSlot,
                Committing, RowGood, BoardInv, TypeOK, TurnInv, Held
  <2> QED BY <1>1, <2>1 DEF TurnInv
<1>5. CASE DropEnd \/ CommitTemplate \/ CommitPosition
  BY <1>2, <1>5 DEF DropEnd, CommitTemplate, CommitPosition, Committing, InHand
<1>6. CASE TemplateHeader
  <2>1. InHand /\ upl.gap /\ pkt' = pkt /\ fifo' = fifo /\ state' = "Body"
    BY <1>6 DEF TemplateHeader, InHand, BoardInv, TypeOK, TurnInv, Held
  <2>2. Good /\ fifo = <<>> /\ Flight
    BY <2>1 DEF LoadInv, Flight
  <2>3. p'.word = ChunkWord
    BY <1>6, <2>2 DEF TemplateHeader, Good, BoardInv, TypeOK
  <2>4. InHand' /\ Flight' /\ Good'
    BY <2>1, <2>2 DEF InHand, Flight, Good
  <2> QED BY <2>1, <2>2, <2>3, <2>4 DEF LoadInv, NextTemplate, ChunkWord
<1>7. CASE PayloadEnd
  <2>1. CASE pkt.kind = "row"
    <3>1. Held("row")
      BY <1>7, <2>1 DEF PayloadEnd, Held
    <3> QED BY <1>1, <3>1 DEF TurnInv
  <2>2. CASE pkt.kind = "tmpl"
    <3>1. InHand /\ upl.gap /\ pkt' = pkt /\ state' = "Commit" /\ state = "Body"
      BY <1>7, <2>2 DEF PayloadEnd, InHand, TurnInv, Held
    <3>2. Good /\ fifo = <<>> /\ Flight /\ p.word = ChunkWord
      BY <3>1 DEF LoadInv, Flight
    <3>3. fifo' = Append(<<>>, ChunkWord)
      <4>1. ChunkWord # NoWord
        BY DEF ChunkWord, NoWord
      <4> QED BY <1>7, <3>2, <4>1 DEF PayloadEnd, Good
    <3>4. fifo' # <<>> /\ Head(fifo') = ChunkWord /\ Tail(fifo') = <<>>
      BY <3>3, OneWord
    <3>5. ~InHand' /\ Flight' /\ ChunkWord' = ChunkWord
      BY <3>1, <3>4 DEF InHand, Flight, ChunkWord
    <3> QED BY <3>1, <3>2, <3>4, <3>5 DEF LoadInv, NextTemplate
  <2> QED BY <1>7, <2>1, <2>2 DEF PayloadEnd, BoardInv, TypeOK
<1> QED BY <1>3, <1>4, <1>5, <1>6, <1>7 DEF ReceiveStep

LEMMA LoadTrack ==
  ASSUME BoardInv, TurnInv, LoadInv, TrackerStep, UNCHANGED upl
  PROVE  LoadInv'
<1>1. ASSUME ~upl.gap, NextTemplate' = NextTemplate PROVE LoadInv'
  BY <1>1 DEF LoadInv, Flight
<1>2. CASE TrackRow
  <2>1. ~upl.gap
    BY <1>2, KindsKept DEF TrackRow, Offered, BoardInv, TypeOK, TurnInv
  <2>2. NextTemplate' = NextTemplate
    BY <1>2, TrackRowLoads DEF NextTemplate, BoardInv
  <2> QED BY <1>1, <2>1, <2>2
<1>3. CASE TrackChunk
  <2>1. upl.gap /\ fifo # <<>>
    BY <1>3, KindsKept DEF TrackChunk, Offered, BoardInv, TypeOK, TurnInv
  <2>2. /\ Flight /\ ~InHand /\ Head(fifo) = ChunkWord /\ fifo' = <<>>
        /\ pkt.content = upl.content /\ upl.chunk = (pkt.chunk + 1) % NChunks
    BY <1>3, <2>1 DEF TrackChunk, LoadInv, Flight
  <2>3. UNCHANGED <<state, pkt, p>>
    BY <1>3 DEF TrackChunk, rxVars
  <2>4. ~InHand' /\ ~Flight'
    BY <2>2, <2>3 DEF InHand, Flight
  <2> DEFINE c == pkt.chunk
  <2>5. /\ c \in Chunks /\ trk'.tmpl = trk.tmpl
        /\ trk'.shadow = [trk.shadow EXCEPT ![c] = upl.content]
        /\ trk'.pending = (trk.pending \/ c = NChunks - 1)
    BY <1>3, <2>2, TrackChunkLoads DEF ChunkWord, BoardInv
  <2>6. trk.shadow \in Template /\ NChunks \in Nat \ {0} /\ c \in Nat
    BY <2>5, RowStatsAssumption DEF BoardInv, TrackerType, Chunks
  <2>7. \A i \in Chunks : i < c => trk.shadow[i] = upl.content
    BY <2>1, <2>2 DEF LoadInv
  <2>8. c = NChunks - 1 => upl.whole = upl.content
    BY <2>2 DEF LoadInv
  <2>9. trk.pending /\ NChunks # 1 => upl.whole = upl.content
    BY <2>1 DEF LoadInv
  <2>10. c # NChunks - 1 => NextTemplate = WholeOf(upl.whole)
    BY <2>2 DEF LoadInv
  <2>11. upl.chunk = (c + 1) % NChunks
    BY <2>2
  <2> HIDE DEF c
  <2>12. \A i \in Chunks : i <= c => trk'.shadow[i] = upl.content
    <3>1. \A i \in Chunks : i \in Nat
      BY RowStatsAssumption DEF Chunks
    <3> QED BY <2>5, <2>6, <2>7, <3>1 DEF Template
  <2>13. \A i \in Chunks : i < upl.chunk => i <= c
    <3>1. CASE c = NChunks - 1
      <4>1. upl.chunk = 0
        BY <2>6, <2>11, <3>1
      <4> QED BY <4>1, RowStatsAssumption DEF Chunks
    <3>2. CASE c # NChunks - 1
      <4>1. c + 1 \in 0..(NChunks - 1)
        BY <2>5, <2>6, <3>2 DEF Chunks
      <4>2. upl.chunk = c + 1
        BY <2>6, <2>11, <4>1
      <4> QED BY <2>6, <4>2 DEF Chunks
    <3> QED BY <3>1, <3>2
  <2>14. NextTemplate' = WholeOf(upl.whole)
    <3>1. CASE c = NChunks - 1
      <4>1. \A i \in Chunks : trk'.shadow[i] = upl.whole
        BY <2>6, <2>8, <2>12, <3>1 DEF Chunks
      <4>2. trk'.shadow = WholeOf(upl.whole)
        BY <2>5, <2>6, <4>1 DEF Template, WholeOf
      <4> QED BY <2>5, <3>1, <4>2 DEF NextTemplate
    <3>2. CASE c # NChunks - 1 /\ trk.pending
      <4>1. NChunks # 1
        BY <2>5, <3>2 DEF Chunks
      <4>2. trk.shadow = WholeOf(upl.whole) /\ upl.whole = upl.content
        BY <2>9, <2>10, <3>2, <4>1 DEF NextTemplate
      <4>3. trk'.shadow = WholeOf(upl.whole)
        BY <2>5, <4>2 DEF WholeOf
      <4> QED BY <2>5, <3>2, <4>3 DEF NextTemplate
    <3>3. CASE c # NChunks - 1 /\ ~trk.pending
      BY <2>5, <2>10, <3>3 DEF NextTemplate
    <3> QED BY <3>1, <3>2, <3>3
  <2>15. trk'.pending /\ NChunks # 1 => upl.whole = upl.content
    BY <2>5, <2>8, <2>9
  <2> QED BY <2>1, <2>2, <2>4, <2>12, <2>13, <2>14, <2>15 DEF LoadInv
<1>4. CASE Answer
  <2>1. /\ trk'.pending = trk.pending /\ trk'.shadow = trk.shadow /\ trk'.tmpl = trk.tmpl
        /\ ~upl.gap
    BY <1>4 DEF Answer, BoardInv, TrackerType, TurnInv
  <2> QED BY <1>1, <2>1 DEF NextTemplate
<1> QED BY <1>2, <1>3, <1>4 DEF TrackerStep

LEMMA LoadStep ==
  /\ Lockstep /\ (NChunks = 1 \/ (OneUpload /\ Taken))
  /\ BoardInv /\ SendInv /\ TurnInv /\ LoadInv /\ [BoardNext]_allVars
  => LoadInv'
<1> SUFFICES ASSUME Lockstep, NChunks = 1 \/ (OneUpload /\ Taken), BoardInv, SendInv, TurnInv,
                    LoadInv, [BoardNext]_allVars
             PROVE  LoadInv'
  OBVIOUS
<1>1. CASE HostStep
  BY <1>1, LoadHost
<1>2. CASE (ReceiveStep \/ SlotStep) /\ UNCHANGED trk /\ NotHost
  BY <1>2, LoadReceive DEF NotHost, hostVars
<1>3. CASE TrackerStep /\ NotHost
  BY <1>3, LoadTrack DEF NotHost, hostVars
<1>4. CASE BoardTimeOut
  BY <1>4, LoadReceive DEF BoardTimeOut, NotHost, hostVars
<1>5. ASSUME UNCHANGED <<rxVars, fifo, trk, upl>> PROVE LoadInv'
  BY <1>5 DEF LoadInv, Flight, InHand, NextTemplate, ChunkWord, Good, rxVars
<1>6. CASE BoardTxDone
  BY <1>5, <1>6 DEF BoardTxDone, TxDone
<1>7. CASE UNCHANGED allVars
  BY <1>5, <1>7 DEF allVars, vars, hostVars
<1> QED
  BY <1>1, <1>2, <1>3, <1>4, <1>6, <1>7 DEF BoardNext, BoardStep, Finished

-----------------------------------------------------------------------------
(* The template an answer was computed with.                                *)

Opens(words) == \E i \in 1..Len(words) : words[i].newf

LEMMA OpensKept ==
  ASSUME NEW words \in Seq(Word), NEW w \in Word
  PROVE  /\ Opens(words) \/ w.newf => Opens(Append(words, w))
         /\ words # <<>> => Head(Append(words, w)) = Head(words)
         /\ words = <<>> => Head(Append(words, w)) = w /\ ~Opens(words)
<1>1. /\ Len(Append(words, w)) = Len(words) + 1 /\ Len(words) \in Nat
      /\ \A i \in 1..Len(words) : Append(words, w)[i] = words[i]
      /\ Append(words, w)[Len(words) + 1] = w
  OBVIOUS
<1>2. Opens(words) \/ w.newf => Opens(Append(words, w))
  BY <1>1 DEF Opens
<1>3. words # <<>> => Head(Append(words, w)) = Head(words)
  <2>1. words # <<>> => Len(words) >= 1 /\ Head(words) = words[1]
    OBVIOUS
  <2>2. Head(Append(words, w)) = Append(words, w)[1]
    OBVIOUS
  <2> QED BY <1>1, <2>1, <2>2
<1>4. words = <<>> => Head(Append(words, w)) = w /\ ~Opens(words)
  BY OneWord DEF Opens
<1> QED BY <1>2, <1>3, <1>4

\* A word that makes the tracker copy the template is in the FIFO, or has
\* been there.
Reached == ~trk.pending \/ Opens(fifo)

\* A row of the window is behind its ctrl word, or has opened the frame.
Passed == state \in {"Body", "Commit"} /\ pkt.kind = "row" /\ p.inwin
Underway == f.active /\ f.fid = cur.fid /\ f.started

\* No word of the frame being sent, and so no answer to it, comes before the
\* tracker has copied the template.
ReachInv ==
  ~upl.gap =>
    /\ fifo # <<>> => Head(fifo).newf \/ ~trk.pending
    /\ p.word # NoWord => p.word.newf \/ Reached
    /\ Passed /\ p.word = NoWord /\ (state = "Commit" => Good) => Reached
    /\ Underway => Reached
    /\ trk.busy => ~trk.pending

Latched == l.valid => l.basis.tmpl = WholeOf(upl.whole)

\* An answer left over from an earlier frame is forgotten before a frame of
\* this turn can take it.
AnswerInv ==
  ~upl.gap =>
    /\ res # NoAnswer => res.basis.tmpl = WholeOf(upl.whole)
    /\ Passed \/ Underway \/ state = "Slot" \/ Awaiting => Latched
    /\ q.ready /\ "tracked" \in q.flags => q.basis.tmpl = WholeOf(upl.whole)

SourceInv == ReachInv /\ AnswerInv

LEMMA SourceHost ==
  ASSUME Lockstep, BoardInv, SendInv, TurnInv, SourceInv, HostStep
  PROVE  SourceInv'
<1> USE DEF SourceInv, ReachInv, AnswerInv, Reached, Passed, Underway, Latched, Awaiting
<1>1. ASSUME UNCHANGED <<vars, trk>>, cur'.fid = cur.fid, upl'.gap = upl.gap,
             upl'.whole = upl.whole
      PROVE  SourceInv'
  BY <1>1 DEF vars, rxVars, frameVars, Good
<1>2. ASSUME NEW pk \in Packets, RxHeader(pk), trk' = trk, cur'.fid = cur.fid,
             upl'.gap = upl.gap, upl'.whole = upl.whole
      PROVE  SourceInv'
  <2>1. p' = FreshRow /\ state' # "Slot" /\ UNCHANGED <<fifo, f, q, l, res>>
    <3>1. pk.kind \in {"row", "pos", "tmpl", "other"}
      BY DEF Packets
    <3> QED BY <1>2, <3>1 DEF RxHeader, frameVars, AfterHeader
  <2>2. p'.word = NoWord /\ ~p'.inwin
    BY <2>1 DEF FreshRow
  <2> QED BY <1>2, <2>1, <2>2
<1>3. CASE StartFrame
  <2>1. /\ state = "Idle" /\ ~q.valid /\ fifo = <<>> /\ ~trk.busy /\ res = NoAnswer
        /\ UNCHANGED <<vars, trk>> /\ cur'.fid = cur.fid + 1
    BY <1>3 DEF StartFrame, MaySend, BoardQuiet, TrackerQuiet
  <2>2. p.word = NoWord /\ ~q.ready
    BY <2>1 DEF TurnInv, BoardInv, TypeOK
  <2>3. cur.fid \in Nat /\ (f.active => f.fid \in 1..cur.fid)
    BY DEF BoardInv, HostType, TurnInv
  <2>4. f.active => f.fid # cur'.fid
    BY <2>1, <2>3
  <2>5. UNCHANGED <<state, pkt, p, f, fifo, q, l, res, trk>>
    BY <2>1 DEF vars, rxVars, frameVars
  <2>6. ~Passed' /\ ~Underway' /\ ~Awaiting'
    BY <2>1, <2>4, <2>5
  <2> QED BY <2>1, <2>2, <2>5, <2>6
<1>4. CASE SendPosition
  <2>1. PICK y \in Positions : RxHeader([kind |-> "pos", y |-> y, quality |-> "good"])
    BY <1>4 DEF SendPosition
  <2>2. [kind |-> "pos", y |-> y, quality |-> "good"] \in Packets
    BY BoardAssumption DEF Packets, Quality
  <2> QED BY <1>2, <1>4, <2>1, <2>2 DEF SendPosition
<1>5. CASE SendChunk
  <2>1. upl'.gap
    BY <1>5 DEF SendChunk
  <2> QED BY <2>1
<1>6. CASE LoseChunk
  <2>1. upl'.gap = upl.gap /\ upl'.whole = upl.whole
    BY <1>6 DEF LoseChunk, BoardInv, HostType
  <2> QED BY <1>1, <1>6, <2>1 DEF LoseChunk, Fault
<1>7. CASE RowSent
  BY <1>2, <1>7 DEF RowSent
<1>8. CASE RowKept
  BY <1>1, <1>8 DEF RowKept
<1> QED
  BY <1>3, <1>4, <1>5, <1>6, <1>7, <1>8, HostCases DEF BoardInv

LEMMA SourceReceive ==
  ASSUME BoardInv, HeaderInv, PosInv, TurnInv, SourceInv, ReceiveStep,
         UNCHANGED <<trk, upl, cur>>
  PROVE  SourceInv'
<1> USE DEF SourceInv, ReachInv, AnswerInv, Underway, Awaiting, Latched
<1>1. CASE upl.gap
  BY <1>1
<1>2. ASSUME UNCHANGED <<f, fifo, q, l, res>>, p'.word = NoWord, ~Passed', state' # "Slot"
      PROVE  SourceInv'
  BY <1>2 DEF Reached
<1>3. CASE DropEnd \/ CommitPosition \/ CommitBadRow
  <2>1. p'.word = NoWord /\ state' = "Idle"
    BY <1>3 DEF DropEnd, CommitPosition, CommitBadRow, Committing, TurnInv
  <2> QED BY <1>2, <1>3, <2>1
      DEF DropEnd, CommitPosition, CommitBadRow, frameVars, Passed
<1>4. CASE TemplateHeader \/ CommitTemplate
  BY <1>1, <1>4 DEF TemplateHeader, CommitTemplate, Committing, TurnInv, Held, BoardInv, TypeOK
<1>5. CASE RowHeader
  <2>1. p'.word = NoWord /\ (state' = "Ctrl" \/ (state' = "Body" /\ ~p'.inwin))
    BY <1>5 DEF RowHeader
  <2> QED BY <1>2, <1>5, <2>1 DEF RowHeader, frameVars, Passed
<1>6. CASE RowCtrl
  <2>1. /\ p'.word = RowWord /\ RowWord # NoWord /\ state' = "Body"
        /\ RowWord.newf = StartsFrame
    BY <1>6 DEF RowCtrl, BoardInv, TypeOK, RowWord, NoWord
  <2>2. UNCHANGED <<pkt, f, q, fifo, res>>
    BY <1>6 DEF RowCtrl, frameVars
  <2>3. CASE StartsFrame
    <3>1. ~l'.valid
      BY <1>6, <2>3 DEF RowCtrl, BoardInv, TypeOK
    <3> QED BY <2>1, <2>2, <2>3, <3>1 DEF Reached
  <2>4. CASE ~StartsFrame /\ ~upl.gap
    <3>1. f.active /\ f.fid = pkt.fid /\ f.started /\ pkt.kind = "row"
      BY <1>6, <2>4 DEF RowCtrl, StartsFrame, HeaderInv, NewFrame, BoardInv, TypeOK
    <3>2. Underway
      BY <1>6, <3>1 DEF RowCtrl, TurnInv, Held
    <3>3. l' = l
      BY <1>6, <2>4 DEF RowCtrl
    <3> QED BY <2>1, <2>2, <2>4, <3>2, <3>3 DEF Reached
  <2> QED BY <1>1, <2>3, <2>4
<1>7. ASSUME ~upl.gap, WindowEnd \/ PayloadEnd PROVE SourceInv'
  <2>1. /\ p'.word = NoWord /\ p'.inwin = p.inwin /\ pkt' = pkt /\ state = "Body"
        /\ UNCHANGED <<f, q, l, res>> /\ state' \in {"Body", "Commit"}
    BY <1>7 DEF WindowEnd, PayloadEnd, BoardInv, TypeOK, frameVars
  <2>2. \/ fifo' = fifo /\ (p.word # NoWord => state' = "Commit" /\ ~Good)
        \/ p.word # NoWord /\ fifo' = Append(fifo, p.word)
    BY <1>7 DEF WindowEnd, PayloadEnd, Good
  <2>3. Passed' = Passed /\ Good' = Good
    BY <2>1 DEF Passed, Good
  <2>4. CASE fifo' = fifo /\ (p.word # NoWord => state' = "Commit" /\ ~Good)
    BY <2>1, <2>3, <2>4 DEF Reached
  <2>5. CASE p.word # NoWord /\ fifo' = Append(fifo, p.word)
    <3>1. fifo \in Seq(Word) /\ p.word \in Word
      BY DEF BoardInv, TypeOK
    <3>2. p.word.newf \/ Reached
      BY <1>7, <2>5
    <3>3. Reached'
      BY <2>5, <3>1, <3>2, OpensKept DEF Reached
    <3>4. fifo' # <<>> => Head(fifo').newf \/ ~trk'.pending
      BY <1>7, <2>5, <3>1, <3>2, OpensKept DEF Reached
    <3> QED BY <1>7, <2>1, <2>3, <3>3, <3>4
  <2> QED BY <2>2, <2>4, <2>5
<1>8. CASE CommitClose
  <2>1. /\ ~f'.active /\ p'.word = p.word /\ p'.inwin = p.inwin
        /\ UNCHANGED <<state, pkt, fifo, q, l, res>>
    BY <1>8 DEF CommitClose, BoardInv, TypeOK
  <2>2. Passed' = Passed /\ Good' = Good
    BY <2>1 DEF Passed, Good
  <2> QED BY <2>1, <2>2 DEF Reached
<1>9. ASSUME CommitRow, ~upl.gap PROVE SourceInv'
  <2>1. /\ pkt.kind = "row" /\ state = "Commit" /\ p.word = NoWord /\ Good
        /\ pkt.fid = cur.fid
    BY <1>9, GoodRow DEF CommitRow, Committing, TurnInv, Held, BoardInv
  <2>2. FrameWithRow.started => Passed \/ Underway
    BY <1>9, <2>1, GoodRow DEF Passed, BoardInv
  <2>3. FrameWithRow.started => Reached /\ Latched
    BY <1>9, <2>1, <2>2
  <2>4. UNCHANGED <<p, fifo, q, l, res>> /\ state' \in {"Idle", "Slot"}
    BY <1>9 DEF CommitRow
  <2>5. f' = FrameWithRow \/ ~f'.active
    <3>1. [FrameWithRow EXCEPT !.active = FALSE].active = FALSE
      BY DEF FrameWithRow, BoardInv, TypeOK
    <3> QED BY <1>9, <3>1 DEF CommitRow
  <2>6. state' = "Slot" => FrameWithRow.started
    <3>1. state' = "Slot" =>
            LastRow /\ FrameWithRow.inorder /\ HasRoi(FrameWithRow.size)
      BY <1>9 DEF CommitRow
    <3> DEFINE g == FrameWithRow
    <3>2. g.oy \in Nat /\ ROI \in Nat \ {0}
      BY RowStatsAssumption DEF FrameWithRow, BoardInv, TypeOK
    <3>3. state' = "Slot" => g.rows = g.size.h /\ g.oy + ROI <= g.size.h
      BY <1>9, <3>1, GoodRow DEF LastRow, BoardInv
    <3>4. g.size.h \in Nat
      <4>1. g.size \in Sizes
        BY <2>1 DEF FrameWithRow, BoardInv, TypeOK, Packets
      <4> QED BY <4>1, RowStatsAssumption
    <3>5. state' = "Slot" => g.rows > g.oy
      BY <3>2, <3>3, <3>4
    <3> QED BY <1>9, <3>1, <3>5, GoodRow DEF BoardInv
  <2>7. ~Passed' /\ Awaiting' = Awaiting
    BY <2>4 DEF Passed
  <2> QED BY <1>9, <2>1, <2>3, <2>4, <2>5, <2>6, <2>7 DEF Reached
<1>10. CASE TakeSlot
  <2>1. /\ ~q'.ready /\ state' = "Idle" /\ state = "Slot" /\ p.word = NoWord
        /\ UNCHANGED <<p, f, l, fifo, res>>
    BY <1>10 DEF TakeSlot, PosInv, BoardInv, TypeOK, Entry, TurnInv, frameVars
  <2> QED BY <2>1 DEF Reached, Passed
<1> QED
  BY <1>1, <1>3, <1>4, <1>5, <1>6, <1>7, <1>8, <1>9, <1>10 DEF ReceiveStep

LEMMA SourceStep ==
  /\ Lockstep
  /\ BoardInv /\ SendInv /\ PosInv /\ HeaderInv /\ TurnInv /\ LoadInv /\ SourceInv
  /\ [BoardNext]_allVars
  => SourceInv'
<1> SUFFICES ASSUME Lockstep, BoardInv, SendInv, PosInv, HeaderInv, TurnInv, LoadInv,
                    SourceInv, [BoardNext]_allVars
             PROVE  SourceInv'
  OBVIOUS
<1> USE DEF SourceInv
<1>1. CASE HostStep
  BY <1>1, SourceHost
<1>2. CASE ReceiveStep /\ UNCHANGED trk /\ NotHost
  BY <1>2, SourceReceive DEF NotHost, hostVars
<1>3. ASSUME UNCHANGED <<rxVars, f, fifo, trk, upl, cur>> PROVE ReachInv'
  BY <1>3 DEF ReachInv, Reached, Passed, Underway, Good, rxVars
<1>4. ASSUME UNCHANGED <<rxVars, f, l, upl, cur>>,
             (q'.ready = q.ready /\ q'.flags = q.flags /\ q'.basis = q.basis) \/ ~q'.ready,
             Awaiting' => Awaiting, res' = res \/ res' = NoAnswer
      PROVE  AnswerInv'
  BY <1>4 DEF AnswerInv, Passed, Underway, Latched, rxVars
<1>5. CASE SlotStep /\ UNCHANGED trk /\ NotHost
  <2>1. UNCHANGED <<rxVars, f, fifo, upl, cur>>
    BY <1>5 DEF SlotStep, TakeAnswer, LatchAnswer, EmitPending, frameVars, NotHost, hostVars
  <2>2. ReachInv'
    BY <1>3, <1>5, <2>1
  <2>3. CASE TakeAnswer
    <3>1. /\ q'.ready /\ q'.basis = l.basis /\ ~l'.valid /\ l.valid /\ Awaiting /\ res' = res
      BY <2>3 DEF TakeAnswer, AnswerDue, Matching, BoardInv, TypeOK, Entry
    <3> QED BY <2>1, <2>2, <3>1 DEF AnswerInv, Latched, Awaiting
  <2>4. CASE LatchAnswer
    <3>1. res # NoAnswer /\ l'.basis = res.basis /\ res' = NoAnswer /\ q' = q
      BY <2>4 DEF LatchAnswer
    <3> QED BY <2>1, <2>2, <3>1 DEF AnswerInv, Latched
  <2>5. CASE EmitPending
    <3>1. ~q'.ready /\ ~q'.valid /\ l' = l /\ res' = res
      BY <2>5 DEF EmitPending, SlotFreed, BoardInv, TypeOK, Entry
    <3> QED BY <1>4, <2>1, <2>2, <3>1 DEF Awaiting
  <2> QED BY <1>5, <2>3, <2>4, <2>5 DEF SlotStep
<1>6. CASE BoardTimeOut
  <2>1. UNCHANGED <<rxVars, f, fifo, trk, upl, cur, l, res>>
    BY <1>6 DEF BoardTimeOut, TimeOut, frameVars, NotHost, hostVars
  <2>2. q'.ready /\ "tracked" \notin q'.flags
    BY <1>6 DEF BoardTimeOut, TimeOut, BoardInv, TypeOK, Entry
  <2>3. ReachInv'
    BY <1>3, <2>1
  <2>4. AnswerInv'
    BY <2>1, <2>2 DEF AnswerInv, Passed, Underway, Latched, Awaiting, rxVars
  <2> QED BY <2>3, <2>4
<1>7. CASE BoardTxDone
  <2>1. UNCHANGED <<rxVars, f, fifo, trk, upl, cur, l, q, res>>
    BY <1>7 DEF BoardTxDone, TxDone, frameVars
  <2> QED BY <1>3, <1>4, <2>1 DEF Awaiting
<1>8. CASE UNCHANGED allVars
  BY <1>3, <1>4, <1>8 DEF allVars, vars, frameVars, hostVars, Awaiting
<1>9. CASE TrackerStep /\ NotHost
  <2>1. UNCHANGED <<rxVars, f, q, l, upl, cur>>
    BY <1>9 DEF TrackerStep, TrackRow, TrackChunk, Answer, frameVars, NotHost, hostVars
  <2>2. CASE TrackRow
    <3>1. ~upl.gap /\ fifo # <<>> /\ res' = res
      BY <2>2, KindsKept DEF TrackRow, Offered, BoardInv, TypeOK, TurnInv
    <3>2. Head(fifo).newf \/ ~trk.pending
      BY <3>1 DEF ReachInv
    <3>3. ~trk'.pending
      BY <2>2, <3>2, TrackRowLoads DEF BoardInv, TrackerType
    <3> QED BY <1>4, <2>1, <3>1, <3>3 DEF ReachInv, Reached, Awaiting
  <2>3. CASE TrackChunk
    <3>1. upl.gap
      BY <2>3, KindsKept DEF TrackChunk, Offered, BoardInv, TypeOK, TurnInv
    <3> QED BY <2>1, <3>1 DEF ReachInv, AnswerInv
  <2>4. CASE Answer
    <3>1. ~upl.gap /\ trk.busy
      BY <2>4 DEF Answer, TurnInv
    <3>2. /\ trk'.pending = trk.pending /\ ~trk'.busy
          /\ fifo' = fifo /\ res'.basis.tmpl = trk.tmpl
      BY <2>4 DEF Answer, BoardInv, TrackerType
    <3>3. trk.tmpl = WholeOf(upl.whole)
      BY <3>1 DEF ReachInv, LoadInv, NextTemplate, Flight
    <3>4. ReachInv'
      BY <2>1, <3>2 DEF ReachInv, Reached, Passed, Underway, Good, rxVars
    <3>5. AnswerInv'
      BY <2>1, <3>2, <3>3 DEF AnswerInv, Passed, Underway, Latched, Awaiting, rxVars
    <3> QED BY <3>4, <3>5
  <2> QED BY <1>9, <2>2, <2>3, <2>4 DEF TrackerStep
<1> QED
  BY <1>1, <1>2, <1>5, <1>6, <1>7, <1>8, <1>9 DEF BoardNext, BoardStep, Finished

\* A frame is matched against one whole template, the last one uploaded before
\* the frame was sent, whatever rows and chunks the network spoils: always when
\* a template is one chunk (ZSAD), and with more chunks (S-3x8) as long as the
\* host uploads one template between two frames and every frame makes the
\* tracker start.
THEOREM TemplateOfFrame ==
  ASSUME Lockstep
  PROVE  BoardSpec /\ [](NChunks = 1 \/ (OneUpload /\ Taken)) => []TemplateWhole
<1> DEFINE Inv == BoardInv /\ SendInv /\ PosInv /\ HeaderInv /\ TurnInv /\ LoadInv /\ SourceInv
           Hyp == NChunks = 1 \/ (OneUpload /\ Taken)
<1>1. BoardInit => Inv
  <2> SUFFICES ASSUME BoardInit PROVE Inv
    OBVIOUS
  <2> USE DEF BoardInit, Init, TrackerInit
  <2>1. BoardInv
    BY BoardInitInv
  <2>2. SendInv
    BY DEF SendInv, BetweenFrames
  <2>3. PosInv
    BY DEF PosInv, NoEntry, NoReply, Tells
  <2>4. HeaderInv
    BY DEF HeaderInv, HeaderRead, NoFrame
  <2>5. TurnInv
    BY DEF TurnInv, Held, AllKind, NoFrame, NoEntry, FreshRow
  <2>6. LoadInv
    BY DEF LoadInv, Flight, NextTemplate, NoTemplate, NoBasis, WholeOf
  <2>7. SourceInv
    BY DEF SourceInv, ReachInv, AnswerInv, Reached, Passed, Underway, Latched, Awaiting,
           FreshRow, NoFrame, NoEntry
  <2> QED BY <2>1, <2>2, <2>3, <2>4, <2>5, <2>6, <2>7
<1>2. Inv /\ Hyp /\ [BoardNext]_allVars => Inv'
  BY BoardStepMaps, SendStep, PosStep, HeaderStep, TurnStep, LoadStep, SourceStep DEF BoardInv
<1>3. Inv => TemplateWhole
  <2> SUFFICES ASSUME Inv, q.ready, "tracked" \in q.flags
               PROVE  q.basis.tmpl = [c \in Chunks |-> script[q.fid].tmpl]
    BY DEF TemplateWhole
  <2>1. q.fid = cur.fid /\ ~upl.gap /\ cur.fid # 0
    BY DEF TurnInv, BoardInv, TypeOK
  <2>2. script[q.fid].tmpl = upl.whole /\ q.basis.tmpl = WholeOf(upl.whole)
    BY <2>1 DEF TurnInv, SourceInv, AnswerInv
  <2> QED BY <2>2 DEF WholeOf
<1> HIDE DEF Inv, Hyp
<1>4. BoardSpec /\ []Hyp => []TemplateWhole
  BY <1>1, <1>2, <1>3, PTL DEF BoardSpec
<1> QED BY <1>4 DEF Hyp

-----------------------------------------------------------------------------
(* The rows an answer was computed from.  With a host that waits, and rows  *)
(* lost, doubled or damaged but neither overtaken nor damaged in a copy,     *)
(* the rows of a frame arrive in order, a damaged one as the last of its     *)
(* number.                                                                  *)

InOrderFaults == "copy" \notin FaultKinds /\ "delay" \notin FaultKinds

\* A row of the frame being sent, no later than the packet in hand.
SentRow(src) ==
  /\ src[1] = cur.fid /\ src[2] < cur.size.h
  /\ src[2] <= cur.row /\ (~src[3] => src[2] < cur.row)
  /\ Held("row") => src[2] <= pkt.row /\ (Good /\ ~src[3] => src[2] < pkt.row)

HeldInOrder ==
  Held("row") =>
    /\ pkt.size = cur.size /\ pkt.row < cur.size.h /\ pkt.row <= cur.row
    /\ ~Good => pkt.row < cur.row

\* The open frame, if it is the one being sent.
OpenInOrder ==
  f.active /\ f.fid = cur.fid =>
    /\ f.size = cur.size /\ f.rows > 0
    /\ f.inorder =>
         /\ f.rows - 1 <= cur.row /\ (Held("row") => f.rows - 1 <= pkt.row)
         /\ f.started => f.rows > f.oy

RowsInv == delayed = Nothing /\ cur.row <= cur.size.h /\ HeldInOrder /\ OpenInOrder

\* A row reaches the receiver, or is lost.
RowOut ==
  /\ ~BetweenFrames
  /\ \E quality \in Quality :
       /\ RxHeader(RowPacket(quality))
       /\ NextRow \/ (quality = "good" /\ UNCHANGED cur)
  /\ UNCHANGED <<trk, delayed, upl, script, hostY>>
RowLost ==
  /\ ~BetweenFrames /\ NextRow
  /\ UNCHANGED <<vars, trk, delayed, upl, script, hostY>>

LEMMA RowCases ==
  ASSUME InOrderFaults, delayed = Nothing, HostStep
  PROVE  StartFrame \/ SendPosition \/ SendChunk \/ LoseChunk \/ RowOut \/ RowLost
<1> USE DEF Fault, RowFault, InOrderFaults
<1>1. "good" \in Quality /\ {"err", "short", "badhdr"} \subseteq Quality
  BY DEF Quality
<1>2. CASE SendRow \/ DamageRow
  BY <1>1, <1>2 DEF SendRow, DamageRow, RowOut
<1>3. CASE DuplicateRow
  BY <1>1, <1>3 DEF DuplicateRow, RowOut
<1>4. CASE LoseRow
  BY <1>4 DEF LoseRow, RowLost
<1>5. ~DamageCopy /\ ~DelayRow /\ ~DeliverDelayed
  BY DEF DamageCopy, DelayRow, DeliverDelayed
<1> QED BY <1>2, <1>3, <1>4, <1>5 DEF HostStep

\* The host's numbers are numbers.
LEMMA HostNumbers ==
  ASSUME BoardInv
  PROVE  /\ cur.fid \in Nat /\ cur.row \in Nat /\ cur.size.h \in Nat /\ cur.size.w \in Nat
         /\ ROI \in Nat \ {0} /\ f.rows \in Nat /\ f.oy \in Nat /\ p.oy \in Nat
         /\ pkt.kind = "row" =>
              /\ pkt.row \in Nat /\ pkt.size \in Sizes /\ pkt.fid \in Fids
              /\ pkt.size.h \in Nat /\ pkt.size.w \in Nat
<1>1. cur.fid \in Nat /\ cur.row \in Nat /\ cur.size \in Sizes \cup {[w |-> 1, h |-> 1]}
  BY DEF BoardInv, HostType
<1>2. \A s \in Sizes : s.h \in Nat /\ s.w \in Nat
  BY RowStatsAssumption
<1>3. cur.size.h \in Nat /\ cur.size.w \in Nat
  BY <1>1, <1>2
<1>4. f.rows \in Nat /\ f.oy \in Nat /\ p.oy \in Nat /\ pkt \in Packets
  BY DEF BoardInv, TypeOK
<1>5. pkt.kind = "row" => pkt.row \in Nat /\ pkt.size \in Sizes /\ pkt.fid \in Fids
  BY <1>4 DEF Packets
<1> QED BY <1>1, <1>2, <1>3, <1>4, <1>5, RowStatsAssumption

LEMMA RowsHost ==
  ASSUME Lockstep, InOrderFaults, BoardInv, TurnInv, RowsInv, HostStep
  PROVE  RowsInv'
<1> USE DEF RowsInv
<1>1. ASSUME UNCHANGED <<state, pkt, f, cur, delayed>> PROVE RowsInv'
  BY <1>1 DEF HeldInOrder, OpenInOrder, Held, Good
<1>2. ASSUME RowOut PROVE RowsInv'
  <2>1. PICK quality \in Quality :
          /\ RxHeader(RowPacket(quality))
          /\ NextRow \/ (quality = "good" /\ UNCHANGED cur)
    BY <1>2 DEF RowOut
  <2>2. /\ pkt' = RowPacket(quality) /\ f' = f /\ delayed' = delayed /\ state = "Idle"
    BY <1>2, <2>1 DEF RowOut, RxHeader, frameVars
  <2>3. /\ pkt'.kind = "row" /\ pkt'.row = cur.row /\ pkt'.size = cur.size
        /\ pkt'.quality = quality
    BY <2>2 DEF RowPacket
  <2>4. /\ cur'.fid = cur.fid /\ cur'.size = cur.size
        /\ cur' \in [fid : Nat, size : Sizes \cup {[w |-> 1, h |-> 1]}, row : Nat]
        /\ cur'.row = cur.row + 1 \/ (cur'.row = cur.row /\ quality = "good")
    BY <2>1 DEF NextRow, BoardInv, HostType
  <2>5. cur.row < cur.size.h
    BY <1>2, HostNumbers DEF RowOut, BetweenFrames
  <2>6. HeldInOrder'
    <3>1. pkt'.row < cur'.size.h /\ pkt'.row <= cur'.row
      BY <2>3, <2>4, <2>5, HostNumbers
    <3>2. quality # "good" => pkt'.row < cur'.row
      BY <2>3, <2>4, HostNumbers
    <3> QED BY <2>3, <2>4, <3>1, <3>2 DEF HeldInOrder, Good
  <2>7. OpenInOrder'
    <3>1. f'.active /\ f'.fid = cur'.fid => f.size = cur'.size /\ f.rows > 0
      BY <2>2, <2>4 DEF OpenInOrder
    <3>2. f'.active /\ f'.fid = cur'.fid /\ f'.inorder =>
            f.rows - 1 <= cur.row /\ (f.started => f.rows > f.oy)
      BY <2>2, <2>4 DEF OpenInOrder
    <3>3. f.rows - 1 <= cur.row => f.rows - 1 <= cur'.row /\ f.rows - 1 <= pkt'.row
      BY <2>3, <2>4, HostNumbers
    <3> QED BY <2>2, <3>1, <3>2, <3>3 DEF OpenInOrder
  <2>8. cur'.row <= cur'.size.h
    BY <2>4, <2>5, HostNumbers
  <2> QED BY <2>2, <2>6, <2>7, <2>8
<1>3. ASSUME RowLost PROVE RowsInv'
  <2>1. UNCHANGED <<state, pkt, f, delayed>>
    BY <1>3 DEF RowLost, vars, rxVars, frameVars
  <2>2. cur'.fid = cur.fid /\ cur'.size = cur.size /\ cur'.row = cur.row + 1
    BY <1>3 DEF RowLost, NextRow, BoardInv, HostType
  <2>3. cur.row < cur.size.h
    BY <1>3, HostNumbers DEF RowLost, BetweenFrames
  <2>4. cur'.row <= cur'.size.h
    BY <2>2, <2>3, HostNumbers
  <2>5. HeldInOrder'
    <3>1. HeldInOrder /\ pkt.kind = "row" => \A x \in Nat : x <= cur.row => x < cur'.row
      BY <2>2, HostNumbers
    <3> QED BY <2>1, <2>2, HostNumbers DEF HeldInOrder, Held, Good
  <2>6. OpenInOrder'
    BY <2>1, <2>2, HostNumbers DEF OpenInOrder, Held
  <2> QED BY <2>1, <2>4, <2>5, <2>6
<1>4. CASE StartFrame
  <2>1. PICK s \in Sizes : cur' = [fid |-> cur.fid + 1, size |-> s, row |-> 0]
    BY <1>4 DEF StartFrame
  <2>2. state = "Idle" /\ UNCHANGED <<state, pkt, f, delayed>>
    BY <1>4 DEF StartFrame, MaySend, BoardQuiet, vars, rxVars, frameVars
  <2>3. f.active => f.fid # cur'.fid
    <3>1. f.active => f.fid \in 1..cur.fid
      BY DEF TurnInv
    <3> QED BY <2>1, <3>1, HostNumbers
  <2>4. cur'.row <= cur'.size.h
    BY <2>1, RowStatsAssumption
  <2>5. HeldInOrder' /\ OpenInOrder'
    BY <2>2, <2>3 DEF HeldInOrder, OpenInOrder, Held
  <2> QED BY <2>2, <2>4, <2>5
<1>5. CASE SendPosition \/ SendChunk
  <2>1. cur' = cur /\ delayed' = delayed
    BY <1>5 DEF SendPosition, SendChunk
  <2>2. PICK pk : RxHeader(pk) /\ pk.kind # "row"
    <3>1. CASE SendPosition
      <4>1. PICK y \in Positions : RxHeader([kind |-> "pos", y |-> y, quality |-> "good"])
        BY <3>1 DEF SendPosition
      <4> QED BY <4>1
    <3>2. CASE SendChunk
      <4>1. PICK c \in Contents :
              RxHeader([kind |-> "tmpl", chunk |-> upl.chunk, content |-> c,
                        quality |-> "good"])
        BY <3>2 DEF SendChunk
      <4> QED BY <4>1
    <3> QED BY <1>5, <3>1, <3>2
  <2>3. pkt'.kind # "row" /\ f' = f
    BY <2>2 DEF RxHeader, frameVars
  <2> QED BY <2>1, <2>3 DEF HeldInOrder, OpenInOrder, Held
<1>6. CASE LoseChunk
  BY <1>1, <1>6 DEF LoseChunk, Fault, vars, rxVars, frameVars
<1> QED BY <1>2, <1>3, <1>4, <1>5, <1>6, RowCases

\* The frame after this row, with the row in order or not.
LEMMA OpenAfterRow ==
  ASSUME BoardInv, HeaderInv, TurnInv, RowsInv, CommitRow
  PROVE  /\ pkt.kind = "row" /\ Good /\ state = "Commit" /\ pkt.fid = cur.fid
         /\ f' = FrameWithRow \/ ~f'.active
         /\ FrameWithRow.active /\ FrameWithRow.fid = cur.fid /\ FrameWithRow.size = cur.size
         /\ FrameWithRow.oy = p.oy /\ FrameWithRow.rows \in Nat \ {0}
         /\ IF f.active
            THEN /\ f.fid = cur.fid /\ p.oy = f.oy /\ FrameWithRow.rows = f.rows + 1
                 /\ FrameWithRow.inorder = (f.inorder /\ pkt.row = f.rows)
                 /\ FrameWithRow.started = (f.started \/ p.inwin)
            ELSE /\ FrameWithRow.rows = 1 /\ FrameWithRow.inorder = (pkt.row = 0)
                 /\ FrameWithRow.started = p.inwin
         /\ p.inwin = (HasRoi(cur.size) /\ pkt.row >= p.oy /\ pkt.row < p.oy + ROI)
<1>1. /\ pkt.kind = "row" /\ Good /\ state = "Commit" /\ HeaderRead
      /\ FrameWithRow.fid = pkt.fid /\ FrameWithRow.active
  BY GoodRow DEF CommitRow, RowGood, Committing, HeaderRead, BoardInv
<1>2. Held("row") /\ pkt.fid = cur.fid /\ pkt.size = cur.size
  BY <1>1 DEF Held, TurnInv, RowsInv, HeldInOrder
<1>3. f' = FrameWithRow \/ ~f'.active
  <2>1. [FrameWithRow EXCEPT !.active = FALSE].active = FALSE
    BY DEF FrameWithRow, BoardInv, TypeOK
  <2> QED BY <2>1 DEF CommitRow
<1>4. CASE f.active
  <2>1. f.fid = cur.fid /\ ~NewFrame
    BY <1>2, <1>4 DEF CommitRow, NewFrame
  <2>2. f.size = cur.size
    BY <1>4, <2>1 DEF RowsInv, OpenInOrder
  <2>3. p.oy = f.oy /\ p.inwin = (HasRoi(f.size) /\ pkt.row >= p.oy /\ pkt.row < p.oy + ROI)
    BY <1>1, <2>1 DEF HeaderInv, RowSize
  <2>4. /\ FrameWithRow.rows = f.rows + 1 /\ FrameWithRow.size = f.size
        /\ FrameWithRow.inorder = (f.inorder /\ pkt.row = f.rows)
        /\ FrameWithRow.started = (f.started \/ p.inwin) /\ FrameWithRow.oy = f.oy
    BY <1>4 DEF FrameWithRow, BoardInv, TypeOK
  <2>5. f.rows + 1 \in Nat \ {0}
    BY HostNumbers
  <2> QED BY <1>1, <1>2, <1>3, <1>4, <2>1, <2>2, <2>3, <2>4, <2>5
<1>5. CASE ~f.active
  <2>1. NewFrame
    BY <1>5 DEF NewFrame
  <2>2. p.inwin = (HasRoi(pkt.size) /\ pkt.row >= p.oy /\ pkt.row < p.oy + ROI)
    BY <1>1, <2>1 DEF HeaderInv, RowSize
  <2>3. /\ FrameWithRow.rows = 1 /\ FrameWithRow.size = pkt.size
        /\ FrameWithRow.inorder = (pkt.row = 0)
        /\ FrameWithRow.started = p.inwin /\ FrameWithRow.oy = p.oy
    BY <1>5 DEF FrameWithRow
  <2> QED BY <1>1, <1>2, <1>3, <1>5, <2>2, <2>3
<1> QED BY <1>4, <1>5

LEMMA RowsStep ==
  /\ Lockstep /\ InOrderFaults
  /\ BoardInv /\ HeaderInv /\ TurnInv /\ RowsInv /\ [BoardNext]_allVars
  => RowsInv'
<1> SUFFICES ASSUME Lockstep, InOrderFaults, BoardInv, HeaderInv, TurnInv, RowsInv,
                    [BoardNext]_allVars
             PROVE  RowsInv'
  OBVIOUS
<1>1. CASE HostStep
  BY <1>1, RowsHost
<1>2. ASSUME UNCHANGED <<cur, delayed>>, pkt' = pkt, Held("row")' => Held("row"),
             f' = f \/ ~f'.active
      PROVE  RowsInv'
  BY <1>2 DEF RowsInv, HeldInOrder, OpenInOrder, Held, Good
<1>3. ASSUME UNCHANGED <<cur, delayed>>, CommitRow PROVE RowsInv'
  <2>1. pkt' = pkt /\ state' \in {"Idle", "Slot"} /\ state = "Commit"
    BY <1>3 DEF CommitRow, Committing
  <2>2. HeldInOrder'
    BY <1>3, <2>1 DEF RowsInv, HeldInOrder, Held, Good
  <2>3. FrameWithRow.inorder =>
          /\ FrameWithRow.rows - 1 = pkt.row
          /\ FrameWithRow.started => FrameWithRow.rows > FrameWithRow.oy
    <3>1. CASE f.active
      <4>1. FrameWithRow.inorder => f.inorder /\ pkt.row = f.rows /\ FrameWithRow.rows = f.rows + 1
        BY <1>3, <3>1, OpenAfterRow
      <4>2. FrameWithRow.inorder /\ f.started => f.rows > f.oy
        BY <1>3, <3>1, <4>1, OpenAfterRow DEF RowsInv, OpenInOrder
      <4>3. p.inwin => pkt.row >= f.oy
        BY <1>3, <3>1, OpenAfterRow
      <4>4. FrameWithRow.started = (f.started \/ p.inwin) /\ FrameWithRow.oy = f.oy
        BY <1>3, <3>1, OpenAfterRow
      <4>5. pkt.row \in Nat /\ f.rows \in Nat /\ f.oy \in Nat
        BY <1>3, OpenAfterRow, HostNumbers
      <4>6. ASSUME FrameWithRow.inorder, FrameWithRow.started PROVE f.rows + 1 > f.oy
        <5>1. f.started \/ p.inwin
          BY <4>4, <4>6, Zenon
        <5>2. pkt.row = f.rows /\ (f.started => f.rows > f.oy)
          BY <4>1, <4>2, <4>6, Zenon
        <5>3. f.rows > f.oy \/ f.rows >= f.oy
          BY <4>3, <5>1, <5>2
        <5> QED BY <4>5, <5>3
      <4>7. FrameWithRow.inorder => f.rows + 1 - 1 = pkt.row
        BY <4>1, <4>5
      <4>8. ASSUME FrameWithRow.inorder
            PROVE  FrameWithRow.rows - 1 = pkt.row
        BY <4>1, <4>5, <4>8
      <4>9. ASSUME FrameWithRow.inorder, FrameWithRow.started
            PROVE  FrameWithRow.rows > FrameWithRow.oy
        BY <4>1, <4>4, <4>6, <4>9
      <4> QED BY <4>8, <4>9, Zenon
    <3>2. CASE ~f.active
      <4>1. /\ FrameWithRow.rows = 1 /\ FrameWithRow.oy = p.oy
            /\ FrameWithRow.inorder = (pkt.row = 0)
            /\ FrameWithRow.started => pkt.row >= p.oy
        BY <1>3, <3>2, OpenAfterRow
      <4>2. pkt.row \in Nat /\ p.oy \in Nat
        BY <1>3, OpenAfterRow, HostNumbers
      <4>3. pkt.row = 0 => 1 - 1 = pkt.row /\ (pkt.row >= p.oy => 1 > p.oy)
        BY <4>2
      <4> HIDE DEF FrameWithRow
      <4> QED BY <4>1, <4>3, Zenon
    <3> QED BY <3>1, <3>2
  <2>4. pkt.row <= cur.row /\ Held("row")
    BY <1>3, OpenAfterRow DEF RowsInv, HeldInOrder, Held
  <2>5. OpenInOrder'
    <3>1. CASE ~f'.active
      BY <3>1 DEF OpenInOrder
    <3>2. CASE f' = FrameWithRow
      <4> DEFINE g == FrameWithRow
      <4>1. g.size = cur.size /\ g.rows \in Nat \ {0}
        BY <1>3, OpenAfterRow
      <4>2. g.inorder => g.rows - 1 = pkt.row /\ (g.started => g.rows > g.oy)
        BY <2>3
      <4>3. f' = g
        BY <3>2
      <4> HIDE DEF g
      <4>4. g.inorder => g.rows - 1 <= cur.row /\ g.rows - 1 <= pkt.row
        BY <2>4, <4>1, <4>2
      <4>5. g.rows > 0
        BY <4>1
      <4> QED BY <1>3, <2>1, <4>1, <4>2, <4>3, <4>4, <4>5 DEF OpenInOrder
    <3> QED BY <1>3, <3>1, <3>2, OpenAfterRow
  <2> QED BY <1>3, <2>2, <2>5 DEF RowsInv
<1>4. ASSUME UNCHANGED <<cur, delayed>>, ReceiveStep PROVE RowsInv'
  <2>1. CASE DropEnd \/ RowHeader \/ RowCtrl \/ TemplateHeader \/ WindowEnd \/ PayloadEnd
    BY <1>2, <1>4, <2>1 DEF DropEnd, RowHeader, RowCtrl, TemplateHeader, WindowEnd, PayloadEnd,
                     frameVars, Held
  <2>2. CASE CommitTemplate \/ CommitPosition \/ CommitBadRow \/ TakeSlot
    BY <1>2, <1>4, <2>2 DEF CommitTemplate, CommitPosition, CommitBadRow, TakeSlot, frameVars, Held
  <2>3. CASE CommitClose
    <3>1. ~f'.active
      BY <2>3 DEF CommitClose, BoardInv, TypeOK
    <3> QED BY <1>2, <1>4, <2>3, <3>1 DEF CommitClose, Held
  <2> QED BY <1>3, <1>4, <2>1, <2>2, <2>3 DEF ReceiveStep
<1>5. CASE (ReceiveStep \/ SlotStep) /\ UNCHANGED trk /\ NotHost
  BY <1>2, <1>4, <1>5 DEF SlotStep, TakeAnswer, LatchAnswer, EmitPending, NotHost, hostVars,
                     rxVars, frameVars, Held
<1>6. CASE TrackerStep /\ NotHost
  BY <1>2, <1>6 DEF TrackerStep, TrackRow, TrackChunk, Answer, NotHost, hostVars, rxVars,
                    frameVars, Held
<1>7. CASE BoardTimeOut \/ BoardTxDone
  BY <1>2, <1>7 DEF BoardTimeOut, TimeOut, BoardTxDone, TxDone, NotHost, hostVars, rxVars,
                    frameVars, Held
<1>8. CASE UNCHANGED allVars
  BY <1>2, <1>8 DEF allVars, vars, hostVars, rxVars, frameVars, Held
<1> QED
  BY <1>1, <1>5, <1>6, <1>7, <1>8 DEF BoardNext, BoardStep, Finished

\* What the tracker has collected are consecutive rows of one frame.
RunInv ==
  /\ trk.busy => trk.inorder /\ trk.cnt = ROI
  /\ trk.inorder =>
       /\ trk.cnt > 0 /\ Len(trk.rows) = trk.cnt
       /\ trk.rows[1][1] \in 0..cur.fid
       /\ \A i \in 1..trk.cnt :
            /\ trk.rows[i][1] = trk.rows[1][1]
            /\ trk.rows[i][2] = trk.rows[1][2] + i - 1

\* The tracker is collecting rows of the frame being sent.
Collecting == trk.inorder /\ trk.rows[1][1] = cur.fid

\* What is in front of a word of the FIFO: the word before it or, for the
\* first, the one the tracker took last, unless it waits for a new frame.
Spot(w) == [kind |-> "row", row |-> w.row, src |-> w.src]
Before(i) ==
  IF i > 1 THEN Spot(fifo[i - 1])
  ELSE IF trk.inorder
  THEN [kind |-> "row", row |-> trk.cnt - 1, src |-> trk.rows[trk.cnt]]
  ELSE NoWord
Newest == Before(Len(fifo) + 1)

\* The origin a word was forwarded with.
Base(w) == w.src[2] - w.row

\* A row of the frame being sent, forwarded with this origin.
IsRow(a, oy) == a.src[1] = cur.fid /\ Base(a) = oy

IsRun(rows) ==
  /\ Len(rows) = ROI
  /\ \A i \in 1..ROI : SentRow(rows[i]) /\ rows[i][2] = rows[1][2] + i - 1

FifoSent == \A i \in 1..Len(fifo) : SentRow(fifo[i].src)

\* A word that opens no frame comes after another of its frame, or will not
\* be looked at.
FifoJoined ==
  \A i \in 1..Len(fifo) :
    ~fifo[i].newf /\ Before(i) # NoWord => IsRow(Before(i), Base(fifo[i]))

\* S_HDR_A's findings about the row in hand, damaged or not.
WordInHand ==
  /\ state = "Ctrl" \/ (p.word # NoWord /\ pkt.kind = "row") =>
       /\ p.new = NewFrame /\ (~NewFrame => p.oy = f.oy)
       /\ pkt.row >= p.oy /\ pkt.row < p.oy + ROI
  /\ p.word # NoWord /\ pkt.kind = "row" => p.word = RowWord

NewestOfFrame == Underway /\ Newest # NoWord => IsRow(Newest, f.oy)

\* The row in hand is in the FIFO, or has been there.
Forwarded == Passed /\ p.word = NoWord /\ (state = "Commit" => Good)
NewestInHand ==
  Forwarded /\ Newest # NoWord =>
    Newest.src = <<pkt.fid, pkt.row, Good>> /\ Base(Newest) = p.oy

CollectedSent == Collecting => \A i \in 1..trk.cnt : SentRow(trk.rows[i])

\* No answer left over from an earlier frame can be taken.
Receptive == Passed \/ Underway \/ state = "Slot" \/ Awaiting
AnswersRun ==
  /\ trk.busy => Collecting
  /\ res # NoAnswer => IsRun(res.basis.rows)
  /\ Receptive /\ l.valid => IsRun(l.basis.rows)

\* The words of the frame being sent, from the receiver to the tracker.
PathInv ==
  ~upl.gap =>
    /\ FifoSent /\ FifoJoined /\ WordInHand /\ NewestOfFrame /\ NewestInHand
    /\ CollectedSent /\ AnswersRun

\* The words of the FIFO while no template is uploaded.
LEMMA FifoRow ==
  ASSUME BoardInv, TurnInv, ~upl.gap, NEW i \in 1..Len(fifo)
  PROVE  /\ fifo[i] \in Word /\ fifo[i].kind = "row" /\ fifo[i].newf \in BOOLEAN
         /\ fifo[i].row \in Int /\ fifo[i].src \in Source /\ fifo[i].tag \in Tags
<1>1. fifo[i] \in Word
  BY DEF BoardInv, TypeOK
<1>2. fifo[i].kind = "row"
  BY DEF TurnInv, AllKind
<1> QED BY <1>1, <1>2 DEF Word, NoWord, Source

LEMMA SpotRow ==
  ASSUME NEW w
  PROVE  Spot(w) # NoWord /\ Spot(w).row = w.row /\ Spot(w).src = w.src
BY DEF Spot, NoWord

LEMMA BeforeType ==
  ASSUME BoardInv, TurnInv, RunInv, ~upl.gap, NEW i \in 1..(Len(fifo) + 1), Before(i) # NoWord
  PROVE  Before(i).row \in Int /\ Before(i).src \in Source
<1>1. Len(fifo) \in Nat
  BY DEF BoardInv, TypeOK
<1>2. CASE i > 1
  <2>1. i - 1 \in 1..Len(fifo) /\ Before(i) = Spot(fifo[i - 1])
    BY <1>1, <1>2 DEF Before
  <2> QED BY <2>1, FifoRow, SpotRow
<1>3. CASE ~(i > 1)
  <2>1. trk.inorder
    BY <1>3 DEF Before
  <2>2. /\ Before(i).row = trk.cnt - 1 /\ Before(i).src = trk.rows[trk.cnt]
        /\ trk.cnt \in 1..Len(trk.rows) /\ trk.cnt \in Int /\ trk.rows \in Seq(Source)
    BY <1>3, <2>1 DEF Before, RunInv, BoardInv, TrackerType
  <2> QED BY <2>2
<1> QED BY <1>2, <1>3

\* The path loses words at the tracker's end only.
Shifts(d) ==
  /\ Len(fifo') = Len(fifo) - d
  /\ \A i \in 1..Len(fifo') : fifo'[i] = fifo[i + d]
  /\ \A i \in 1..(Len(fifo') + 1) : Before(i)' = Before(i + d) \/ Before(i)' = NoWord
Shifted == Shifts(0) \/ Shifts(1)

LEMMA SamePath ==
  ASSUME BoardInv, fifo' = fifo, trk' = trk \/ ~trk'.inorder PROVE Shifts(0)
<1>1. Len(fifo) \in Nat
  BY DEF BoardInv, TypeOK
<1>2. ASSUME NEW i \in 1..(Len(fifo') + 1)
      PROVE  Before(i)' = Before(i) \/ Before(i)' = NoWord
  BY <1>1, <1>2 DEF Before, Spot
<1>3. \A i \in 1..(Len(fifo) + 1) : i + 0 = i
  BY <1>1
<1>4. Len(fifo') = Len(fifo) - 0
  BY <1>1
<1> QED BY <1>1, <1>2, <1>3, <1>4 DEF Shifts

\* What the tracker does with a row.
LEMMA RowTaken ==
  ASSUME BoardInv, RunInv, TrackRow
  PROVE  /\ fifo # <<>> /\ Len(fifo) \in Nat \ {0} /\ ~trk.busy
         /\ Len(fifo') = Len(fifo) - 1
         /\ \A i \in 1..Len(fifo') : fifo'[i] = fifo[i + 1]
         /\ fifo[1].newf \in BOOLEAN /\ fifo[1].row \in Int /\ fifo[1].src \in Source
         /\ trk'.inorder = (IF fifo[1].newf THEN fifo[1].row = 0
                            ELSE trk.inorder /\ fifo[1].row = trk.cnt)
         /\ trk'.inorder =>
              /\ trk'.cnt = (IF fifo[1].newf THEN 1 ELSE trk.cnt + 1)
              /\ trk'.rows = (IF fifo[1].newf THEN <<fifo[1].src>>
                              ELSE Append(trk.rows, fifo[1].src))
         /\ trk'.busy => trk'.inorder /\ trk'.cnt = ROI
<1> DEFINE w == Head(fifo)
           g == IF w.newf THEN RestartFrame(w) ELSE ContinueFrame(w)
<1>1. fifo \in Seq(Word) /\ fifo # <<>> /\ fifo' = Tail(fifo) /\ w.kind = "row" /\ ~trk.busy
  BY DEF TrackRow, Offered, BoardInv, TypeOK
<1>2. /\ Len(fifo) \in Nat \ {0} /\ w = fifo[1] /\ Len(fifo') = Len(fifo) - 1
      /\ \A i \in 1..Len(fifo') : fifo'[i] = fifo[i + 1]
  BY <1>1
<1>3. w.newf \in BOOLEAN /\ w.row \in Int /\ w.src \in Source
  <2>1. w \in Word
    BY <1>1
  <2> QED BY <1>1, <2>1 DEF Word, NoWord, Source
<1>4. trk' = [g EXCEPT !.cnt = g.cnt + 1,
                       !.rows = IF g.inorder THEN Append(g.rows, w.src) ELSE <<>>,
                       !.busy = g.inorder /\ g.cnt = ROI - 1]
  BY DEF TrackRow
<1>5. w.newf => g.inorder = (w.row = 0) /\ g.cnt = 0 /\ g.rows = <<>>
  BY DEF RestartFrame, BoardInv, TrackerType
<1>6. ~w.newf => /\ g.inorder = (trk.inorder /\ w.row = trk.cnt)
                 /\ g.cnt = trk.cnt /\ g.rows = trk.rows
  BY DEF ContinueFrame, BoardInv, TrackerType
<1>7. g = [busy |-> g.busy, tag |-> g.tag, cnt |-> g.cnt, inorder |-> g.inorder,
           rows |-> g.rows, pending |-> g.pending, shadow |-> g.shadow, tmpl |-> g.tmpl]
  BY DEF RestartFrame, ContinueFrame, BoardInv, TrackerType
<1>8. g.cnt \in Int /\ ROI \in Nat \ {0}
  BY <1>5, <1>6, RowStatsAssumption DEF BoardInv, TrackerType
<1> HIDE DEF g, w
<1>9. /\ trk'.inorder = g.inorder /\ trk'.cnt = g.cnt + 1
      /\ trk'.rows = (IF g.inorder THEN Append(g.rows, w.src) ELSE <<>>)
      /\ trk'.busy = (g.inorder /\ g.cnt = ROI - 1)
  BY <1>4, <1>7
<1>10. trk'.busy => trk'.inorder /\ trk'.cnt = ROI
  <2>1. g.cnt = ROI - 1 => g.cnt + 1 = ROI
    BY <1>8
  <2> QED BY <1>9, <2>1
<1>11. Append(<<>>, w.src) = <<w.src>>
  OBVIOUS
<1>12. CASE w.newf
  <2>1. trk'.inorder = (w.row = 0) /\ trk'.cnt = 1
    BY <1>5, <1>9, <1>12
  <2>2. trk'.inorder => trk'.rows = <<w.src>>
    BY <1>5, <1>9, <1>11, <1>12
  <2> QED BY <1>1, <1>2, <1>3, <1>10, <1>12, <2>1, <2>2
<1>13. CASE ~w.newf
  <2>1. trk'.inorder = (trk.inorder /\ w.row = trk.cnt) /\ trk'.cnt = trk.cnt + 1
    BY <1>6, <1>9, <1>13
  <2>2. trk'.inorder => trk'.rows = Append(trk.rows, w.src)
    BY <1>6, <1>9, <1>13
  <2> QED BY <1>1, <1>2, <1>3, <1>10, <1>13, <2>1, <2>2
<1> QED BY <1>12, <1>13

LEMMA RowTakenShifts ==
  ASSUME BoardInv, RunInv, TrackRow PROVE Shifts(1)
<1>1. /\ Len(fifo) \in Nat \ {0} /\ Len(fifo') = Len(fifo) - 1
      /\ \A i \in 1..Len(fifo') : fifo'[i] = fifo[i + 1]
  BY RowTaken
<1>2. ASSUME NEW i \in 1..(Len(fifo') + 1)
      PROVE  Before(i)' = Before(i + 1) \/ Before(i)' = NoWord
  <2>1. CASE i > 1
    <3>1. fifo'[i - 1] = fifo[i] /\ i + 1 > 1 /\ i + 1 - 1 = i
      BY <1>1, <2>1
    <3>2. Before(i)' = Spot(fifo'[i - 1]) /\ Before(i + 1) = Spot(fifo[i + 1 - 1])
      BY <2>1, <3>1 DEF Before, Spot
    <3> QED BY <3>1, <3>2
  <2>2. CASE ~(i > 1)
    <3>1. i = 1 /\ Before(2) = Spot(fifo[1])
      BY <1>1, <2>2 DEF Before
    <3>2. CASE ~trk'.inorder
      BY <3>1, <3>2 DEF Before
    <3>3. CASE trk'.inorder
      <4>1. Before(1)' = [kind |-> "row", row |-> trk'.cnt - 1, src |-> trk'.rows[trk'.cnt]]
        BY <3>3 DEF Before
      <4>2. trk'.cnt - 1 = fifo[1].row /\ trk'.rows[trk'.cnt] = fifo[1].src
        <5>1. CASE fifo[1].newf
          <6>1. trk'.cnt = 1 /\ trk'.rows = <<fifo[1].src>> /\ fifo[1].row = 0
            BY <3>3, <5>1, RowTaken
          <6>2. trk'.rows[1] = fifo[1].src
            BY <6>1
          <6> QED BY <6>1, <6>2
        <5>2. CASE ~fifo[1].newf
          <6>1. /\ trk'.cnt = trk.cnt + 1 /\ trk'.rows = Append(trk.rows, fifo[1].src)
                /\ trk.inorder /\ fifo[1].row = trk.cnt
            BY <3>3, <5>2, RowTaken
          <6>2. trk.rows \in Seq(Source) /\ Len(trk.rows) = trk.cnt /\ trk.cnt \in Int
            BY <6>1 DEF RunInv, BoardInv, TrackerType
          <6>3. Append(trk.rows, fifo[1].src)[Len(trk.rows) + 1] = fifo[1].src
            BY <6>2
          <6> QED BY <6>1, <6>2, <6>3
        <5> QED BY <5>1, <5>2
      <4>3. Before(1)' = Spot(fifo[1])
        BY <4>1, <4>2 DEF Spot
      <4> QED BY <3>1, <4>3
    <3> QED BY <3>2, <3>3
  <2> QED BY <2>1, <2>2
<1> QED BY <1>1, <1>2 DEF Shifts

\* A word is put at the receiver's end.
LEMMA WordPut ==
  ASSUME BoardInv, NEW w, w \in Word, fifo' = Append(fifo, w), trk' = trk
  PROVE  /\ Len(fifo) \in Nat /\ Len(fifo') = Len(fifo) + 1
         /\ \A i \in 1..Len(fifo) : fifo'[i] = fifo[i]
         /\ fifo'[Len(fifo) + 1] = w
         /\ \A i \in 1..(Len(fifo) + 1) : Before(i)' = Before(i)
         /\ Newest' = Spot(w)
<1>1. fifo \in Seq(Word) /\ Len(fifo) \in Nat
  BY DEF BoardInv, TypeOK
<1>2. /\ Len(fifo') = Len(fifo) + 1 /\ fifo'[Len(fifo) + 1] = w
      /\ \A i \in 1..Len(fifo) : fifo'[i] = fifo[i]
  BY <1>1
<1>3. ASSUME NEW i \in 1..(Len(fifo) + 1) PROVE Before(i)' = Before(i)
  <2>1. CASE i > 1
    <3>1. i - 1 \in 1..Len(fifo)
      BY <1>1, <2>1
    <3>2. fifo'[i - 1] = fifo[i - 1]
      BY <1>2, <3>1
    <3> QED BY <2>1, <3>2 DEF Before, Spot
  <2>2. CASE ~(i > 1)
    BY <2>2 DEF Before
  <2> QED BY <2>1, <2>2
<1>4. Newest' = Spot(w)
  <2>1. Len(fifo') + 1 > 1 /\ Len(fifo') + 1 - 1 = Len(fifo) + 1
    BY <1>1, <1>2
  <2>2. Newest' = Spot(fifo'[Len(fifo') + 1 - 1])
    BY <2>1 DEF Newest, Before, Spot
  <2> QED BY <1>2, <2>1, <2>2
<1> QED BY <1>1, <1>2, <1>3, <1>4

\* A row that has been sent stays one until the next frame is sent.
Keeps == \A src \in Source : SentRow(src) => SentRow(src)'

LEMMA KeepsHost ==
  ASSUME BoardInv, RowOut \/ RowLost \/ SendPosition \/ LoseChunk
  PROVE  Keeps /\ cur'.fid = cur.fid /\ cur'.size = cur.size
<1>0. \A src \in Source : src[2] \in Nat
  BY DEF Source
<1>1. CASE RowOut
  <2>1. PICK quality \in Quality :
          /\ RxHeader(RowPacket(quality))
          /\ NextRow \/ (quality = "good" /\ UNCHANGED cur)
    BY <1>1 DEF RowOut
  <2>2. state = "Idle" /\ pkt' = RowPacket(quality) /\ pkt'.row = cur.row
    BY <2>1 DEF RxHeader, RowPacket
  <2>3. /\ cur'.fid = cur.fid /\ cur'.size = cur.size
        /\ cur'.row = cur.row + 1 \/ cur'.row = cur.row
    BY <2>1 DEF NextRow, BoardInv, HostType
  <2>4. ASSUME NEW src \in Source, SentRow(src) PROVE SentRow(src)'
    <3>1. src[2] <= cur.row => src[2] <= cur'.row
      BY <1>0, <2>3, HostNumbers
    <3>2. src[2] < cur.row => src[2] < cur'.row
      BY <1>0, <2>3, HostNumbers
    <3> QED BY <2>2, <2>3, <2>4, <3>1, <3>2 DEF SentRow
  <2> QED BY <2>3, <2>4 DEF Keeps
<1>2. CASE RowLost
  <2>1. UNCHANGED <<state, pkt>>
    BY <1>2 DEF RowLost, vars, rxVars
  <2>2. cur'.fid = cur.fid /\ cur'.size = cur.size /\ cur'.row = cur.row + 1
    BY <1>2 DEF RowLost, NextRow, BoardInv, HostType
  <2>3. ASSUME NEW src \in Source, SentRow(src) PROVE SentRow(src)'
    <3>1. src[2] <= cur.row => src[2] <= cur'.row
      BY <1>0, <2>2, HostNumbers
    <3>2. src[2] < cur.row => src[2] < cur'.row
      BY <1>0, <2>2, HostNumbers
    <3> QED BY <2>1, <2>2, <2>3, <3>1, <3>2 DEF SentRow, Held, Good
  <2> QED BY <2>2, <2>3 DEF Keeps
<1>3. CASE SendPosition
  <2>1. PICK y \in Positions : RxHeader([kind |-> "pos", y |-> y, quality |-> "good"])
    BY <1>3 DEF SendPosition
  <2>2. cur' = cur /\ pkt'.kind = "pos"
    BY <1>3, <2>1 DEF SendPosition, RxHeader
  <2> QED BY <2>2 DEF Keeps, SentRow, Held
<1>4. CASE LoseChunk
  BY <1>4 DEF LoseChunk, vars, rxVars, Keeps, SentRow, Held, Good
<1> QED BY <1>1, <1>2, <1>3, <1>4

LEMMA KeepsBoard ==
  ASSUME cur' = cur, pkt' = pkt, Held("row")' => Held("row")
  PROVE  Keeps /\ cur'.fid = cur.fid /\ cur'.size = cur.size
BY DEF Keeps, SentRow, Held, Good

\* The words in the FIFO and the answers keep their shape.
LEMMA ShiftedPath ==
  ASSUME BoardInv, BoardInv', TurnInv, TurnInv', RunInv, ~upl.gap, ~upl'.gap, Keeps,
         cur'.fid = cur.fid, Shifted, FifoSent, FifoJoined
  PROVE  FifoSent' /\ FifoJoined' /\ (Newest' = Newest \/ Newest' = NoWord)
<1>0. Len(fifo) \in Nat /\ Len(fifo') \in Nat
  BY DEF BoardInv, TypeOK
<1>1. PICK d \in {0, 1} : Shifts(d)
  BY DEF Shifted
<1>2. /\ Len(fifo') = Len(fifo) - d
      /\ \A i \in 1..Len(fifo') : fifo'[i] = fifo[i + d] /\ i + d \in 1..Len(fifo)
  BY <1>0, <1>1 DEF Shifts
<1>3. FifoSent'
  <2> SUFFICES ASSUME NEW i \in 1..Len(fifo') PROVE SentRow(fifo[i].src)'
    BY DEF FifoSent
  <2>1. i + d \in 1..Len(fifo) /\ fifo'[i] = fifo[i + d]
    BY <1>2
  <2>2. SentRow(fifo[i + d].src) /\ fifo[i + d].src \in Source
    BY <2>1, FifoRow DEF FifoSent
  <2>3. PICK s \in Source : s = fifo[i + d].src
    BY <2>2
  <2>4. SentRow(s)'
    BY <2>2, <2>3 DEF Keeps
  <2> QED BY <2>1, <2>3, <2>4 DEF SentRow
<1>4. FifoJoined'
  <2> SUFFICES ASSUME NEW i \in 1..Len(fifo'), ~fifo'[i].newf, Before(i)' # NoWord
               PROVE  Before(i)'.src[1] = cur'.fid /\ Base(Before(i)') = Base(fifo'[i])
    BY DEF FifoJoined, IsRow, Base, NoWord
  <2>1. i + d \in 1..Len(fifo) /\ fifo'[i] = fifo[i + d] /\ Before(i)' = Before(i + d)
    BY <1>0, <1>1, <1>2 DEF Shifts
  <2>2. IsRow(Before(i + d), Base(fifo[i + d]))
    BY <2>1 DEF FifoJoined
  <2> QED BY <2>1, <2>2 DEF IsRow, Base
<1>5. Newest' = Newest \/ Newest' = NoWord
  <2>1. Len(fifo') + 1 \in 1..(Len(fifo') + 1) /\ Len(fifo') + 1 + d = Len(fifo) + 1
    BY <1>0, <1>2
  <2> QED BY <1>1, <2>1 DEF Newest, Shifts
<1> QED BY <1>3, <1>4, <1>5

LEMMA RunKept ==
  ASSUME Keeps, NEW rows \in Seq(Source), IsRun(rows)
  PROVE  IsRun(rows)'
<1>1. ROI \in Nat \ {0}
  BY RowStatsAssumption
<1>2. ASSUME NEW i \in 1..ROI PROVE SentRow(rows[i])'
  <2>1. rows[i] \in Source /\ SentRow(rows[i])
    BY <1>1, <1>2 DEF IsRun
  <2> QED BY <2>1 DEF Keeps
<1> QED BY <1>2 DEF IsRun

LEMMA AnswerRows ==
  ASSUME BoardInv
  PROVE  /\ res # NoAnswer => res.basis.rows \in Seq(Source)
         /\ l.basis.rows \in Seq(Source) /\ q.basis.rows \in Seq(Source)
         /\ trk.rows \in Seq(Source) /\ trk.cnt \in Int
<1>1. res # NoAnswer => res.basis \in Basis
  BY DEF BoardInv, TypeOK, Answers
<1>2. l.basis \in Basis /\ q.basis \in Basis
  BY DEF BoardInv, TypeOK, Entry
<1>3. \A b \in Basis : b.rows \in Seq(Source)
  BY DEF Basis, Source
<1> QED BY <1>1, <1>2, <1>3 DEF BoardInv, TrackerType

PathContext ==
  /\ BoardInv /\ BoardInv' /\ TurnInv /\ TurnInv' /\ HeaderInv /\ RunInv /\ RowsInv /\ PathInv
  /\ ~upl.gap /\ ~upl'.gap /\ Keeps /\ cur'.fid = cur.fid /\ cur'.size = cur.size

\* Nothing enters or leaves the path but an answer that is taken or replaced.
LEMMA PathKept ==
  ASSUME PathContext, fifo' = fifo, trk' = trk, WordInHand',
         f' = f \/ ~f'.active \/ NewestOfFrame',
         Forwarded' => Forwarded /\ pkt' = pkt /\ p'.oy = p.oy,
         res' = res \/ res' = NoAnswer,
         Receptive' /\ l'.valid =>
           (Receptive /\ l' = l) \/ (res # NoAnswer /\ l'.basis = res.basis)
  PROVE  PathInv'
<1> USE DEF PathContext
<1>1. Shifted
  BY SamePath DEF Shifted
<1>2. FifoSent' /\ FifoJoined' /\ (Newest' = Newest \/ Newest' = NoWord)
  BY <1>1, ShiftedPath DEF PathInv
<1>4. NewestOfFrame'
  <2>1. CASE f' = f \/ ~f'.active
    <3>1. Underway' => Underway /\ f' = f
      BY <2>1 DEF Underway
    <3> QED BY <1>2, <3>1 DEF PathInv, NewestOfFrame, IsRow, Base
  <2> QED BY <2>1
<1>5. NewestInHand'
  <2>1. Forwarded' => Good' = Good
    BY DEF Good
  <2> QED BY <1>2, <2>1 DEF PathInv, NewestInHand, Base
<1>6. CollectedSent'
  <2> SUFFICES ASSUME Collecting', NEW i \in 1..trk'.cnt PROVE SentRow(trk.rows[i])'
    BY DEF CollectedSent
  <2>1. Collecting /\ i \in 1..trk.cnt
    BY DEF Collecting
  <2>2. SentRow(trk.rows[i]) /\ trk.rows[i] \in Source
    BY <2>1, AnswerRows DEF PathInv, CollectedSent, RunInv, Collecting
  <2>3. PICK s \in Source : s = trk.rows[i]
    BY <2>2
  <2>4. SentRow(s)'
    BY <2>2, <2>3 DEF Keeps
  <2> QED BY <2>3, <2>4 DEF SentRow
<1>7. AnswersRun'
  <2>1. trk'.busy => Collecting'
    BY DEF PathInv, AnswersRun, Collecting
  <2>2. ASSUME res' # NoAnswer PROVE IsRun(res.basis.rows)'
    <3>1. res' = res /\ IsRun(res.basis.rows) /\ res.basis.rows \in Seq(Source)
      BY <2>2, AnswerRows DEF PathInv, AnswersRun
    <3>2. PICK rows \in Seq(Source) : rows = res.basis.rows
      BY <3>1
    <3>3. IsRun(rows)'
      BY <3>1, <3>2, RunKept
    <3> QED BY <3>1, <3>2, <3>3 DEF IsRun, SentRow
  <2>3. ASSUME Receptive', l'.valid PROVE IsRun(l.basis.rows)'
    <3>1. PICK rows \in Seq(Source) : rows = l'.basis.rows /\ IsRun(rows)
      <4>1. CASE Receptive /\ l' = l
        BY <2>3, <4>1, AnswerRows DEF PathInv, AnswersRun
      <4>2. CASE res # NoAnswer /\ l'.basis = res.basis
        BY <4>2, AnswerRows DEF PathInv, AnswersRun
      <4> QED BY <2>3, <4>1, <4>2
    <3>3. IsRun(rows)'
      BY <3>1, RunKept
    <3> QED BY <3>1, <3>3 DEF IsRun, SentRow
  <2> QED BY <2>1, <2>2, <2>3 DEF AnswersRun
<1> QED BY <1>2, <1>4, <1>5, <1>6, <1>7 DEF PathInv

LEMMA PathHost ==
  ASSUME Lockstep, InOrderFaults, BoardInv, BoardInv', TurnInv, TurnInv', HeaderInv,
         RunInv, RowsInv, PathInv, HostStep
  PROVE  PathInv'
<1>1. CASE RowOut \/ RowLost \/ SendPosition \/ LoseChunk
  <2> SUFFICES ASSUME ~upl'.gap PROVE PathInv'
    BY DEF PathInv
  <2>1. ~upl.gap
    BY <1>1 DEF RowOut, RowLost, SendPosition, LoseChunk, Fault, BoardInv, HostType
  <2>2. Keeps /\ cur'.fid = cur.fid /\ cur'.size = cur.size
    BY <1>1, KeepsHost
  <2>3. \/ UNCHANGED vars
        \/ \E pk \in Packets : RxHeader(pk)
    BY <1>1, HostStepMaps DEF BoardInv
  <2>4. trk' = trk
    BY HostStepMaps DEF BoardInv
  <2>5. CASE UNCHANGED vars
    <3>1. WordInHand'
      BY <2>1, <2>5 DEF PathInv, WordInHand, RowWord, StartsFrame, NewFrame, vars, rxVars, frameVars
    <3>2. UNCHANGED <<state, pkt, p, f, fifo, q, l, res>>
      BY <2>5 DEF vars, rxVars, frameVars
    <3>3. Forwarded' => Forwarded /\ pkt' = pkt /\ p'.oy = p.oy
      BY <3>2 DEF Forwarded, Passed, Good
    <3>4. Receptive' /\ l'.valid => Receptive /\ l' = l
      BY <2>2, <3>2 DEF Receptive, Passed, Underway, Awaiting
    <3>5. PathContext
      BY <2>1, <2>2 DEF PathContext
    <3>6. fifo' = fifo /\ f' = f /\ res' = res
      BY <3>2
    <3> QED BY <2>4, <3>1, <3>3, <3>4, <3>5, <3>6, PathKept
  <2>6. ASSUME NEW pk \in Packets, RxHeader(pk) PROVE PathInv'
    <3>1. /\ p' = FreshRow /\ state' # "Slot" /\ state = "Idle"
          /\ UNCHANGED <<fifo, f, q, l, res>>
      <4>1. pk.kind \in {"row", "pos", "tmpl", "other"}
        BY DEF Packets
      <4> QED BY <2>6, <4>1 DEF RxHeader, frameVars, AfterHeader
    <3>2. p'.word = NoWord /\ ~p'.inwin
      BY <3>1 DEF FreshRow
    <3>5. WordInHand'
      <4>1. state' # "Ctrl"
        BY <2>6 DEF RxHeader, AfterHeader, Packets
      <4> QED BY <3>2, <4>1 DEF WordInHand
    <3>3. ~Passed'
      BY <3>2 DEF Passed
    <3>4. ~Forwarded' /\ (Receptive' => Receptive)
      BY <2>2, <3>1, <3>3 DEF Forwarded, Receptive, Underway, Awaiting
    <3>6. PathContext
      BY <2>1, <2>2 DEF PathContext
    <3>7. Receptive' /\ l'.valid => Receptive /\ l' = l
      BY <3>1, <3>4
    <3>8. fifo' = fifo /\ f' = f /\ res' = res
      BY <3>1
    <3>9. Forwarded' => Forwarded /\ pkt' = pkt /\ p'.oy = p.oy
      BY <3>4
    <3> QED BY <2>4, <3>5, <3>6, <3>7, <3>8, <3>9, PathKept
  <2> QED BY <2>3, <2>5, <2>6
<1>2. CASE SendChunk
  <2>1. upl'.gap
    BY <1>2 DEF SendChunk
  <2> QED BY <2>1 DEF PathInv
<1>3. CASE StartFrame
  <2>1. /\ state = "Idle" /\ ~q.valid /\ fifo = <<>> /\ ~trk.busy /\ res = NoAnswer
        /\ UNCHANGED <<vars, trk>> /\ cur'.fid = cur.fid + 1
    BY <1>3 DEF StartFrame, MaySend, BoardQuiet, TrackerQuiet
  <2>2. UNCHANGED <<state, pkt, p, f, fifo, q, l, res, trk>>
    BY <2>1 DEF vars, rxVars, frameVars
  <2>3. p.word = NoWord /\ ~q.ready
    BY <2>1 DEF TurnInv, BoardInv, TypeOK
  <2>4. f.active => f.fid # cur'.fid
    <3>1. f.active => f.fid \in 1..cur.fid
      BY DEF TurnInv
    <3> QED BY <2>1, <3>1, HostNumbers
  <2>5. ~Passed' /\ ~Underway' /\ ~Awaiting'
    BY <2>1, <2>2, <2>4 DEF Passed, Underway, Awaiting
  <2>6. ~Collecting'
    <3>1. trk.inorder => trk.rows[1][1] \in 0..cur.fid
      BY DEF RunInv
    <3> QED BY <2>1, <3>1, HostNumbers DEF Collecting
  <2>7. Len(fifo') = 0
    BY <2>1, <2>2
  <2>8. FifoSent' /\ FifoJoined'
    BY <2>7 DEF FifoSent, FifoJoined
  <2>9. ~Forwarded' /\ ~Receptive'
    BY <2>1, <2>2, <2>5 DEF Forwarded, Receptive
  <2>10. state' # "Ctrl"
    BY <2>1, <2>2
  <2> QED BY <2>1, <2>2, <2>3, <2>5, <2>6, <2>8, <2>9, <2>10
      DEF PathInv, WordInHand, NewestOfFrame, NewestInHand, CollectedSent, AnswersRun
<1> QED BY <1>1, <1>2, <1>3, RowCases DEF RowsInv

-----------------------------------------------------------------------------
(* The tracker's end of the path.                                           *)

LEMMA TrackRowOpen == ASSUME BoardInv, TurnInv, TrackRow PROVE ~upl.gap
BY KindsKept DEF TrackRow, Offered, BoardInv, TypeOK, TurnInv

\* The rows collected once the tracker has taken one in order.
LEMMA RowCollected ==
  ASSUME BoardInv, TurnInv, RunInv, PathInv, TrackRow, trk'.inorder
  PROVE  /\ fifo[1] \in Word /\ fifo[1].src \in Source /\ SentRow(fifo[1].src)
         /\ fifo[1].src[1] = cur.fid
         /\ \/ /\ fifo[1].newf /\ fifo[1].row = 0 /\ trk'.cnt = 1 /\ Len(trk'.rows) = 1
               /\ trk'.rows[1] = fifo[1].src
            \/ /\ ~fifo[1].newf /\ trk.inorder /\ trk.cnt \in Nat \ {0}
               /\ trk'.cnt = trk.cnt + 1 /\ Len(trk'.rows) = trk.cnt + 1
               /\ \A i \in 1..trk.cnt : trk'.rows[i] = trk.rows[i] /\ trk.rows[i] \in Source
               /\ trk'.rows[trk.cnt + 1] = fifo[1].src
               /\ trk.rows[trk.cnt][1] = cur.fid
               /\ fifo[1].src[2] = trk.rows[trk.cnt][2] + 1
<1>1. ~upl.gap /\ fifo # <<>> /\ 1 \in 1..Len(fifo)
  BY TrackRowOpen, RowTaken
<1>2. fifo[1] \in Word /\ fifo[1].src \in Source /\ SentRow(fifo[1].src)
  BY <1>1, FifoRow DEF PathInv, FifoSent
<1>3. fifo[1].src[1] = cur.fid
  BY <1>2 DEF SentRow
<1>4. CASE fifo[1].newf
  <2>1. fifo[1].row = 0 /\ trk'.cnt = 1 /\ trk'.rows = <<fifo[1].src>>
    BY <1>4, RowTaken
  <2> QED BY <1>2, <1>3, <1>4, <2>1
<1>5. CASE ~fifo[1].newf
  <2>1. /\ trk.inorder /\ fifo[1].row = trk.cnt /\ trk'.cnt = trk.cnt + 1
        /\ trk'.rows = Append(trk.rows, fifo[1].src)
    BY <1>5, RowTaken
  <2>2. trk.rows \in Seq(Source) /\ Len(trk.rows) = trk.cnt /\ trk.cnt \in Nat \ {0}
    <3>1. trk.rows \in Seq(Source) /\ Len(trk.rows) = trk.cnt /\ trk.cnt > 0 /\ trk.cnt \in Int
      BY <2>1 DEF RunInv, BoardInv, TrackerType
    <3> QED BY <3>1
  <2>3. /\ Len(trk'.rows) = trk.cnt + 1 /\ trk'.rows[trk.cnt + 1] = fifo[1].src
        /\ \A i \in 1..trk.cnt : trk'.rows[i] = trk.rows[i] /\ trk.rows[i] \in Source
    BY <1>2, <2>1, <2>2
  <2>4. Before(1) = [kind |-> "row", row |-> trk.cnt - 1, src |-> trk.rows[trk.cnt]]
    BY <2>1 DEF Before
  <2>5. Before(1) # NoWord /\ Before(1).row = trk.cnt - 1 /\ Before(1).src = trk.rows[trk.cnt]
    BY <2>4 DEF NoWord
  <2>6. IsRow(Before(1), Base(fifo[1]))
    BY <1>1, <1>5, <2>5 DEF PathInv, FifoJoined
  <2>7. /\ trk.rows[trk.cnt][1] = cur.fid
        /\ trk.rows[trk.cnt][2] - (trk.cnt - 1) = fifo[1].src[2] - trk.cnt
    BY <2>1, <2>5, <2>6 DEF IsRow, Base
  <2>8. trk.rows[trk.cnt][2] \in Nat /\ fifo[1].src[2] \in Nat
    BY <1>2, <2>2 DEF Source
  <2>9. fifo[1].src[2] = trk.rows[trk.cnt][2] + 1
    <3>1. \A a, b, c \in Int : a - (c - 1) = b - c => b = a + 1
      OBVIOUS
    <3>2. trk.cnt \in Int /\ trk.rows[trk.cnt][2] \in Int /\ fifo[1].src[2] \in Int
      BY <2>2, <2>8
    <3> QED BY <2>7, <3>1, <3>2
  <2> QED BY <1>2, <1>3, <1>5, <2>1, <2>2, <2>3, <2>7, <2>9
<1> QED BY <1>4, <1>5

LEMMA RunTrack ==
  ASSUME BoardInv, TurnInv, RunInv, PathInv, TrackRow, cur' = cur
  PROVE  RunInv'
<1>1. trk'.busy => trk'.inorder /\ trk'.cnt = ROI
  BY RowTaken
<1>2. ASSUME trk'.inorder
      PROVE  /\ trk'.cnt > 0 /\ Len(trk'.rows) = trk'.cnt
             /\ trk'.rows[1][1] \in 0..cur.fid
             /\ \A i \in 1..trk'.cnt :
                  /\ trk'.rows[i][1] = trk'.rows[1][1]
                  /\ trk'.rows[i][2] = trk'.rows[1][2] + i - 1
  <2>1. cur.fid \in 0..cur.fid /\ fifo[1].src[2] \in Nat
    BY <1>2, RowCollected, HostNumbers DEF Source
  <2>2. CASE fifo[1].newf
    <3>1. trk'.cnt = 1 /\ Len(trk'.rows) = 1 /\ trk'.rows[1] = fifo[1].src
      BY <1>2, <2>2, RowCollected
    <3>2. fifo[1].src[1] = cur.fid /\ fifo[1].src[2] = fifo[1].src[2] + 1 - 1
      BY <1>2, <2>1, RowCollected
    <3>3. \A i \in 1..trk'.cnt : i = 1
      BY <3>1
    <3>4. ASSUME NEW i \in 1..trk'.cnt
          PROVE  trk'.rows[i][1] = trk'.rows[1][1] /\ trk'.rows[i][2] = trk'.rows[1][2] + i - 1
      BY <3>1, <3>2, <3>3
    <3> QED BY <2>1, <3>1, <3>2, <3>4
  <2>3. CASE ~fifo[1].newf
    <3>1. /\ trk.inorder /\ trk.cnt \in Nat \ {0}
          /\ trk'.cnt = trk.cnt + 1 /\ Len(trk'.rows) = trk.cnt + 1
          /\ \A i \in 1..trk.cnt : trk'.rows[i] = trk.rows[i]
          /\ trk'.rows[trk.cnt + 1] = fifo[1].src
          /\ trk.rows[trk.cnt][1] = cur.fid /\ fifo[1].src[1] = cur.fid
          /\ fifo[1].src[2] = trk.rows[trk.cnt][2] + 1
      BY <1>2, <2>3, RowCollected
    <3>2. /\ trk.rows[1][1] \in 0..cur.fid
          /\ \A i \in 1..trk.cnt :
               /\ trk.rows[i][1] = trk.rows[1][1]
               /\ trk.rows[i][2] = trk.rows[1][2] + i - 1
      BY <3>1 DEF RunInv
    <3>3. trk'.rows[1] = trk.rows[1] /\ trk.cnt \in 1..trk.cnt /\ trk.rows[1] \in Source
      <4>1. 1 \in 1..trk.cnt /\ trk.cnt \in 1..trk.cnt
        BY <3>1
      <4> QED BY <1>2, <2>3, <3>1, <4>1, RowCollected
    <3>4. trk.rows[1][1] = cur.fid /\ trk.rows[trk.cnt][2] = trk.rows[1][2] + trk.cnt - 1
      BY <3>1, <3>2, <3>3
    <3>5. fifo[1].src[2] = trk.rows[1][2] + (trk.cnt + 1) - 1
      <4>1. trk.rows[1][2] \in Nat
        BY <3>3 DEF Source
      <4> QED BY <3>1, <3>4, <4>1
    <3>6. ASSUME NEW i \in 1..trk'.cnt
          PROVE  trk'.rows[i][1] = trk'.rows[1][1] /\ trk'.rows[i][2] = trk'.rows[1][2] + i - 1
      <4>1. CASE i = trk.cnt + 1
        BY <3>1, <3>3, <3>4, <3>5, <4>1
      <4>2. CASE i # trk.cnt + 1
        <5>1. i \in 1..trk.cnt
          BY <3>1, <4>2
        <5> QED BY <3>1, <3>2, <3>3, <5>1
      <4> QED BY <4>1, <4>2
    <3>7. trk'.cnt > 0
      BY <3>1
    <3> QED BY <3>1, <3>2, <3>3, <3>6, <3>7
  <2> QED BY <2>2, <2>3
<1> QED BY <1>1, <1>2 DEF RunInv

LEMMA RunStep ==
  BoardInv /\ TurnInv /\ RunInv /\ PathInv /\ [BoardNext]_allVars => RunInv'
<1> SUFFICES ASSUME BoardInv, TurnInv, RunInv, PathInv, [BoardNext]_allVars PROVE RunInv'
  OBVIOUS
<1>1. ASSUME trk' = trk, cur'.fid \in Nat, cur'.fid >= cur.fid PROVE RunInv'
  <2>1. \A x \in 0..cur.fid : x \in 0..cur'.fid
    BY <1>1, HostNumbers
  <2> QED BY <1>1, <2>1 DEF RunInv
<1>2. ASSUME trk' = trk, cur' = cur PROVE RunInv'
  BY <1>2 DEF RunInv
<1>3. CASE HostStep
  <2>1. cur'.fid = cur.fid \/ cur'.fid = cur.fid + 1
    <3>1. NextRow => cur'.fid = cur.fid
      BY DEF NextRow, BoardInv, HostType
    <3>2. CASE StartFrame
      BY <3>2 DEF StartFrame
    <3>3. CASE SendRow \/ LoseRow \/ DamageRow \/ DelayRow
      BY <3>1, <3>3 DEF SendRow, LoseRow, DamageRow, DelayRow
    <3>4. CASE \/ SendPosition \/ SendChunk \/ DuplicateRow \/ DamageCopy \/ DeliverDelayed
               \/ LoseChunk
      BY <3>4 DEF SendPosition, SendChunk, DuplicateRow, DamageCopy, DeliverDelayed, LoseChunk
    <3> QED BY <1>3, <3>2, <3>3, <3>4 DEF HostStep
  <2>2. trk' = trk
    BY <1>3, HostStepMaps DEF BoardInv
  <2> QED BY <1>1, <2>1, <2>2, HostNumbers
<1>4. CASE BoardStep
  <2>1. CASE TrackRow /\ NotHost
    BY <2>1, RunTrack DEF NotHost, hostVars
  <2>2. CASE TrackChunk /\ NotHost
    <3>1. /\ trk'.busy = trk.busy /\ trk'.inorder = trk.inorder /\ trk'.cnt = trk.cnt
          /\ trk'.rows = trk.rows /\ cur' = cur
      BY <2>2 DEF TrackChunk, BoardInv, TrackerType, NotHost, hostVars
    <3> QED BY <3>1 DEF RunInv
  <2>3. CASE Answer /\ NotHost
    <3>1. ~trk'.busy /\ ~trk'.inorder
      BY <2>3 DEF Answer, BoardInv, TrackerType
    <3> QED BY <3>1 DEF RunInv
  <2>4. CASE (ReceiveStep \/ SlotStep) /\ UNCHANGED trk /\ NotHost
    BY <1>2, <2>4 DEF NotHost, hostVars
  <2>5. CASE BoardTimeOut \/ BoardTxDone
    BY <1>2, <2>5 DEF BoardTimeOut, BoardTxDone, NotHost, hostVars
  <2> QED BY <1>4, <2>1, <2>2, <2>3, <2>4, <2>5 DEF BoardStep, TrackerStep
<1> QED BY <1>2, <1>3, <1>4 DEF BoardNext, Finished, allVars, hostVars

LEMMA RowCollectedSent ==
  ASSUME BoardInv, TurnInv, RunInv, RunInv', PathInv, TrackRow, trk'.inorder
  PROVE  /\ trk'.rows[1][1] = cur.fid
         /\ \A i \in 1..trk'.cnt : trk'.rows[i] \in Source /\ SentRow(trk'.rows[i])
<1>0. ~upl.gap
  BY TrackRowOpen
<1>1. CASE fifo[1].newf
  <2>1. /\ trk'.cnt = 1 /\ trk'.rows[1] = fifo[1].src /\ fifo[1].src[1] = cur.fid
        /\ fifo[1].src \in Source /\ SentRow(fifo[1].src)
    BY <1>1, RowCollected
  <2>2. \A i \in 1..trk'.cnt : i = 1
    BY <2>1
  <2> QED BY <2>1, <2>2
<1>2. CASE ~fifo[1].newf
  <2>1. /\ trk.inorder /\ trk.cnt \in Nat \ {0} /\ trk'.cnt = trk.cnt + 1
        /\ \A i \in 1..trk.cnt : trk'.rows[i] = trk.rows[i] /\ trk.rows[i] \in Source
        /\ trk'.rows[trk.cnt + 1] = fifo[1].src /\ trk.rows[trk.cnt][1] = cur.fid
        /\ fifo[1].src \in Source /\ SentRow(fifo[1].src)
    BY <1>2, RowCollected
  <2>2. 1 \in 1..trk.cnt /\ trk.cnt \in 1..trk.cnt
    BY <2>1
  <2>3. trk.rows[1][1] = cur.fid
    BY <2>1, <2>2 DEF RunInv
  <2>4. \A i \in 1..trk.cnt : SentRow(trk.rows[i])
    BY <1>0, <2>1, <2>3 DEF PathInv, CollectedSent, Collecting
  <2>5. ASSUME NEW i \in 1..trk'.cnt PROVE trk'.rows[i] \in Source /\ SentRow(trk'.rows[i])
    <3>1. i = trk.cnt + 1 \/ i \in 1..trk.cnt
      BY <2>1
    <3> QED BY <2>1, <2>4, <3>1
  <2> QED BY <2>1, <2>2, <2>3, <2>5
<1> QED BY <1>1, <1>2

\* The receiver and the host stand still, and what the tracker does is not
\* an answer.
LEMMA PathTrackRow ==
  ASSUME BoardInv, BoardInv', TurnInv, TurnInv', RunInv, RunInv', PathInv,
         UNCHANGED <<cur, upl>>, TrackRow
  PROVE  PathInv'
<1>1. ~upl.gap /\ ~upl'.gap
  BY TrackRowOpen
<1>2. UNCHANGED <<state, pkt, p, f, q, l, res>>
  BY DEF TrackRow, rxVars, frameVars
<1>3. Keeps /\ cur'.fid = cur.fid
  BY <1>2, KeepsBoard DEF Held
<1>4. Shifted
  BY RowTakenShifts DEF Shifted
<1>5. FifoSent /\ FifoJoined /\ WordInHand /\ NewestOfFrame /\ NewestInHand /\ AnswersRun
  BY <1>1 DEF PathInv
<1>6. FifoSent' /\ FifoJoined' /\ (Newest' = Newest \/ Newest' = NoWord)
  BY <1>1, <1>3, <1>4, <1>5, ShiftedPath
<1>7. WordInHand'
  BY <1>2, <1>5 DEF WordInHand, RowWord, StartsFrame, NewFrame, TrackRow, rxVars, frameVars
<1>8. NewestOfFrame'
  <2>1. Underway' = Underway
    BY <1>2, <1>3 DEF Underway
  <2> QED BY <1>2, <1>3, <1>5, <1>6, <2>1 DEF NewestOfFrame, IsRow, Base
<1>9. NewestInHand'
  <2>1. Forwarded' = Forwarded /\ Good' = Good
    BY <1>2 DEF Forwarded, Passed, Good
  <2> QED BY <1>2, <1>5, <1>6, <2>1 DEF NewestInHand, Base
<1>11. CollectedSent'
  <2> SUFFICES ASSUME Collecting', NEW i \in 1..trk'.cnt PROVE SentRow(trk'.rows[i])
    BY <1>2 DEF CollectedSent, SentRow, Held, Good
  <2>1. trk'.inorder
    BY DEF Collecting
  <2> QED BY <2>1, RowCollectedSent
<1>10. AnswersRun'
  <2>1. trk'.busy => Collecting'
    <3>1. trk'.busy => trk'.inorder
      BY RowTaken
    <3> QED BY <3>1, RowCollectedSent DEF Collecting
  <2>2. Receptive' = Receptive
    BY <1>2, <1>3 DEF Receptive, Passed, Underway, Awaiting
  <2>3. \A rows : IsRun(rows) => IsRun(rows)'
    BY <1>2 DEF IsRun, SentRow, Held, Good
  <2> QED BY <1>2, <1>5, <2>1, <2>2, <2>3 DEF AnswersRun, IsRun, SentRow, Held, Good
<1> QED BY <1>6, <1>7, <1>8, <1>9, <1>11, <1>10 DEF PathInv

LEMMA PathAnswer ==
  ASSUME BoardInv, BoardInv', TurnInv, TurnInv', RunInv, PathInv, UNCHANGED <<cur, upl>>, Answer
  PROVE  PathInv'
<1>1. ~upl.gap /\ ~upl'.gap /\ trk.busy
  BY DEF Answer, TurnInv
<1>2. UNCHANGED <<state, pkt, p, f, q, l, fifo, nextTag>>
  BY DEF Answer, rxVars, frameVars
<1>3. ~trk'.inorder /\ ~trk'.busy /\ res'.basis.rows = trk.rows
  BY DEF Answer, BoardInv, TrackerType
<1>4. Keeps /\ cur'.fid = cur.fid
  BY <1>2, KeepsBoard DEF Held
<1>5. Shifted
  BY <1>2, <1>3, SamePath DEF Shifted
<1>6. /\ FifoSent /\ FifoJoined /\ WordInHand /\ NewestOfFrame /\ NewestInHand
      /\ CollectedSent /\ AnswersRun
  BY <1>1 DEF PathInv
<1>7. FifoSent' /\ FifoJoined' /\ (Newest' = Newest \/ Newest' = NoWord)
  BY <1>1, <1>4, <1>5, <1>6, ShiftedPath
<1>8. WordInHand'
  BY <1>2, <1>6 DEF WordInHand, RowWord, StartsFrame, NewFrame
<1>9. NewestOfFrame'
  <2>1. Underway' = Underway
    BY <1>2, <1>4 DEF Underway
  <2> QED BY <1>2, <1>4, <1>6, <1>7, <2>1 DEF NewestOfFrame, IsRow, Base
<1>10. NewestInHand'
  <2>1. Forwarded' = Forwarded /\ Good' = Good
    BY <1>2 DEF Forwarded, Passed, Good
  <2> QED BY <1>2, <1>6, <1>7, <2>1 DEF NewestInHand, Base
<1>11. CollectedSent'
  BY <1>3 DEF CollectedSent, Collecting
<1>12. AnswersRun'
  <2>1. IsRun(trk.rows)
    <3>1. Collecting /\ trk.cnt = ROI /\ trk.inorder
      BY <1>1, <1>6 DEF AnswersRun, RunInv
    <3>2. \A i \in 1..ROI : SentRow(trk.rows[i])
      BY <1>6, <3>1 DEF CollectedSent
    <3>3. Len(trk.rows) = ROI /\ \A i \in 1..ROI : trk.rows[i][2] = trk.rows[1][2] + i - 1
      BY <3>1 DEF RunInv
    <3> QED BY <3>2, <3>3 DEF IsRun
  <2>2. Receptive' = Receptive
    BY <1>2, <1>4 DEF Receptive, Passed, Underway, Awaiting
  <2>3. \A rows : IsRun(rows) => IsRun(rows)'
    BY <1>2 DEF IsRun, SentRow, Held, Good
  <2> QED BY <1>2, <1>3, <1>6, <2>1, <2>2, <2>3 DEF AnswersRun, IsRun, SentRow, Held, Good
<1> QED BY <1>7, <1>8, <1>9, <1>10, <1>11, <1>12 DEF PathInv

\* The pending frame, the answer latch and the transmitter.
LEMMA PathSlot ==
  ASSUME BoardInv, BoardInv', TurnInv, TurnInv', HeaderInv, RunInv, RowsInv, PathInv,
         UNCHANGED <<cur, upl, trk>>, SlotStep \/ TimeOut \/ TxDone
  PROVE  PathInv'
<1> SUFFICES ASSUME ~upl.gap PROVE PathInv'
  BY DEF PathInv
<1>1. /\ UNCHANGED <<state, pkt, p, f, fifo, nextTag>> /\ (res' = res \/ res' = NoAnswer)
  BY DEF SlotStep, TakeAnswer, LatchAnswer, EmitPending, TimeOut, TxDone, rxVars, frameVars
<1>2. Keeps /\ cur'.fid = cur.fid /\ cur'.size = cur.size
  BY <1>1, KeepsBoard DEF Held
<1>3. PathContext
  BY <1>2 DEF PathContext
<1>4. WordInHand'
  <2>1. WordInHand
    BY DEF PathInv
  <2> QED BY <1>1, <2>1 DEF WordInHand, RowWord, StartsFrame, NewFrame
<1>5. Forwarded' => Forwarded /\ pkt' = pkt /\ p'.oy = p.oy
  BY <1>1 DEF Forwarded, Passed, Good
<1>6. Receptive' /\ l'.valid =>
        (Receptive /\ l' = l) \/ (res # NoAnswer /\ l'.basis = res.basis)
  <2>1. CASE TakeAnswer
    BY <2>1 DEF TakeAnswer, BoardInv, TypeOK
  <2>2. CASE LatchAnswer
    BY <2>2 DEF LatchAnswer
  <2>3. CASE EmitPending \/ TimeOut \/ TxDone
    <3>1. l' = l /\ (Awaiting' => Awaiting)
      BY <2>3 DEF EmitPending, SlotFreed, TimeOut, TxDone, Awaiting, BoardInv, TypeOK, Entry
    <3> QED BY <1>1, <1>2, <3>1 DEF Receptive, Passed, Underway
  <2> QED BY <2>1, <2>2, <2>3 DEF SlotStep
<1>7. fifo' = fifo /\ f' = f /\ trk' = trk
  BY <1>1
<1> QED BY <1>1, <1>3, <1>4, <1>5, <1>6, <1>7, PathKept

\* The receiver's end of the path.  The word in hand is a row that was sent.
LEMMA WordOfRow ==
  ASSUME BoardInv, TurnInv, RowsInv, WordInHand, ~upl.gap, p.word # NoWord
  PROVE  /\ state = "Body" /\ pkt.kind = "row" /\ pkt.fid = cur.fid /\ p.word \in Word
         /\ p.word.src = <<pkt.fid, pkt.row, Good>> /\ p.word.src \in Source
         /\ p.word.newf = StartsFrame /\ p.word.row \in Int
         /\ SentRow(p.word.src) /\ Base(p.word) = p.oy
         /\ ~NewFrame => f.active /\ f.fid = cur.fid /\ p.oy = f.oy
         /\ p.new = NewFrame /\ pkt.row >= p.oy /\ pkt.row < p.oy + ROI
<1>1. state = "Body" /\ pkt.kind = "row" /\ pkt.fid = cur.fid /\ Held("row")
  <2>1. state = "Body" /\ pkt.kind \in {"row", "tmpl"}
    BY DEF TurnInv, BoardInv, TypeOK
  <2> QED BY <2>1 DEF TurnInv, Held
<1>2. /\ p.word = RowWord /\ p.new = NewFrame /\ (~NewFrame => p.oy = f.oy)
      /\ pkt.row >= p.oy /\ pkt.row < p.oy + ROI
  BY <1>1 DEF WordInHand
<1>3. p.word \in Word
  BY DEF BoardInv, TypeOK
<1>4. pkt.fid \in Fids /\ pkt.row \in Nat /\ p.oy \in Nat /\ Good \in BOOLEAN
  BY <1>1, HostNumbers DEF Good
<1>5. /\ p.word.src = <<pkt.fid, pkt.row, Good>> /\ p.word.newf = StartsFrame
      /\ p.word.row = pkt.row - p.oy
  BY <1>2 DEF RowWord, Good
<1>6. p.word.src \in Source
  BY <1>4, <1>5 DEF Source
<1>7. Base(p.word) = p.oy
  BY <1>4, <1>5 DEF Base
<1>8. SentRow(p.word.src)
  <2>1. /\ pkt.row < cur.size.h /\ pkt.row <= cur.row /\ (~Good => pkt.row < cur.row)
    BY <1>1 DEF RowsInv, HeldInOrder
  <2>2. pkt.row <= pkt.row
    BY <1>4
  <2> QED BY <1>1, <1>5, <2>1, <2>2 DEF SentRow
<1>9. ~NewFrame => f.active /\ f.fid = cur.fid
  BY <1>1 DEF NewFrame
<1> QED BY <1>1, <1>2, <1>3, <1>4, <1>5, <1>6, <1>7, <1>8, <1>9

LEMMA PathPut ==
  ASSUME BoardInv, TurnInv, RunInv, RowsInv, PathInv, ~upl.gap, UNCHANGED <<trk, upl, cur>>,
         WindowEnd \/ PayloadEnd, p.word # NoWord, fifo' = Append(fifo, p.word)
  PROVE  PathInv'
<1> DEFINE w == p.word
<1>0. /\ FifoSent /\ FifoJoined /\ WordInHand /\ NewestOfFrame /\ NewestInHand
      /\ CollectedSent /\ AnswersRun
  BY DEF PathInv
<1>1. /\ state = "Body" /\ pkt.kind = "row" /\ pkt.fid = cur.fid /\ w \in Word
      /\ w.src = <<pkt.fid, pkt.row, Good>> /\ w.src \in Source
      /\ w.newf = StartsFrame
      /\ SentRow(w.src) /\ Base(w) = p.oy
      /\ ~NewFrame => f.active /\ f.fid = cur.fid /\ p.oy = f.oy
      /\ p.new = NewFrame
  BY <1>0, WordOfRow
<1>2. /\ p'.word = NoWord /\ p'.inwin = p.inwin /\ p'.oy = p.oy /\ p'.new = p.new
      /\ UNCHANGED <<pkt, f, q, l, res>> /\ state' \in {"Body", "Commit"}
  BY DEF WindowEnd, PayloadEnd, BoardInv, TypeOK, frameVars
<1>3. /\ Len(fifo) \in Nat /\ Len(fifo') = Len(fifo) + 1
      /\ \A i \in 1..Len(fifo) : fifo'[i] = fifo[i]
      /\ fifo'[Len(fifo) + 1] = w
      /\ \A i \in 1..(Len(fifo) + 1) : Before(i)' = Before(i)
      /\ Newest' = Spot(w)
  BY <1>1, WordPut
<1> HIDE DEF w
<1>4. Held("row")' = Held("row") /\ Good' = Good
  BY <1>1, <1>2 DEF Held, Good
<1>5. \A s : SentRow(s)' = SentRow(s)
  BY <1>2, <1>4 DEF SentRow
<1>6. FifoSent'
  <2> SUFFICES ASSUME NEW i \in 1..Len(fifo') PROVE SentRow(fifo'[i].src)
    BY <1>2, <1>4 DEF FifoSent, SentRow
  <2>1. i \in 1..Len(fifo) \/ i = Len(fifo) + 1
    BY <1>3
  <2> QED BY <1>0, <1>1, <1>3, <2>1 DEF FifoSent
<1>7. FifoJoined'
  <2> SUFFICES ASSUME NEW i \in 1..Len(fifo'), ~fifo'[i].newf, Before(i)' # NoWord
               PROVE  Before(i)'.src[1] = cur.fid /\ Base(Before(i)') = Base(fifo'[i])
    BY DEF FifoJoined, IsRow, Base, NoWord
  <2>1. i \in 1..(Len(fifo) + 1)
    BY <1>3
  <2>2. Before(i)' = Before(i)
    BY <1>3, <2>1
  <2>3. CASE i \in 1..Len(fifo)
    <3>1. fifo'[i] = fifo[i]
      BY <1>3, <2>3
    <3>2. IsRow(Before(i), Base(fifo[i]))
      BY <1>0, <2>2, <2>3, <3>1 DEF FifoJoined
    <3> QED BY <2>2, <3>1, <3>2 DEF IsRow
  <2>4. CASE i = Len(fifo) + 1
    <3>1. fifo'[i] = w /\ Before(i)' = Newest
      BY <1>3, <2>2, <2>4 DEF Newest
    <3>2. Underway /\ p.oy = f.oy
      BY <1>1, <3>1 DEF StartsFrame, Underway
    <3>3. IsRow(Newest, f.oy)
      BY <1>0, <3>1, <3>2 DEF NewestOfFrame
    <3> QED BY <1>1, <3>1, <3>2, <3>3 DEF IsRow
  <2> QED BY <1>3, <2>1, <2>3, <2>4
<1>8. Newest'.src = w.src /\ Base(Newest') = Base(w)
  BY <1>3, SpotRow DEF Base
<1>9. NewestOfFrame'
  <2>1. ASSUME Underway' PROVE Newest'.src[1] = cur.fid /\ Base(Newest') = f.oy
    <3>1. f.active /\ f.fid = cur.fid
      BY <1>2, <2>1 DEF Underway
    <3>2. p.oy = f.oy
      BY <1>1, <3>1 DEF NewFrame
    <3> QED BY <1>1, <1>8, <3>2
  <2> QED BY <1>2, <2>1 DEF NewestOfFrame, IsRow, Base
<1>10. NewestInHand'
  BY <1>1, <1>2, <1>4, <1>8 DEF NewestInHand, Base
<1>11. WordInHand'
  BY <1>2 DEF WordInHand
<1>12. CollectedSent'
  BY <1>0, <1>2, <1>4 DEF CollectedSent, Collecting, SentRow
<1>13. AnswersRun'
  <2>1. Receptive' => Receptive
    BY <1>1, <1>2 DEF Receptive, Passed, Underway, Awaiting
  <2> QED BY <1>0, <1>2, <1>4, <2>1 DEF AnswersRun, Collecting, IsRun, SentRow
<1> QED BY <1>6, <1>7, <1>9, <1>10, <1>11, <1>12, <1>13 DEF PathInv

\* A row that starts the frame, or belongs to a started one, is behind the
\* word in front of which the FIFO ends.
LEMMA StartedRow ==
  ASSUME BoardInv, HeaderInv, TurnInv, RowsInv, PathInv, ~upl.gap, CommitRow,
         FrameWithRow.started
  PROVE  /\ (Passed /\ Forwarded) \/ Underway
         /\ Newest # NoWord => IsRow(Newest, FrameWithRow.oy)
<1>1. /\ pkt.kind = "row" /\ Good /\ state = "Commit" /\ pkt.fid = cur.fid
      /\ FrameWithRow.oy = p.oy
  BY OpenAfterRow
<1>2. p.word = NoWord
  BY <1>1 DEF TurnInv
<1>3. NewestOfFrame /\ NewestInHand
  BY DEF PathInv
<1>4. CASE p.inwin
  <2>1. Passed /\ Forwarded
    BY <1>1, <1>2, <1>4 DEF Passed, Forwarded
  <2>2. Newest # NoWord => Newest.src = <<pkt.fid, pkt.row, Good>> /\ Base(Newest) = p.oy
    BY <1>3, <2>1 DEF NewestInHand
  <2>3. Newest # NoWord => Newest.src[1] = cur.fid
    BY <1>1, <2>2
  <2> QED BY <1>1, <2>1, <2>2, <2>3 DEF IsRow
<1>5. CASE ~p.inwin
  <2>1. f.active /\ f.fid = cur.fid /\ f.started /\ p.oy = f.oy
    BY <1>5, OpenAfterRow
  <2>2. Underway
    BY <2>1 DEF Underway
  <2> QED BY <1>1, <1>3, <2>1, <2>2 DEF NewestOfFrame
<1> QED BY <1>4, <1>5

\* A frame that is complete has been started.
LEMMA SlotStarted ==
  ASSUME BoardInv, HeaderInv, TurnInv, RowsInv, CommitRow, state' = "Slot"
  PROVE  /\ FrameWithRow.started /\ FrameWithRow.inorder /\ HasRoi(cur.size)
         /\ FrameWithRow.rows = cur.size.h /\ FrameWithRow.oy + ROI <= cur.size.h
         /\ n'.oy = FrameWithRow.oy /\ n'.fid = cur.fid
<1> DEFINE g == FrameWithRow
<1>1. g.size = cur.size /\ g.rows \in Nat /\ g.oy = p.oy /\ g.fid = cur.fid
  BY OpenAfterRow
<1>2. g.rows = g.size.h /\ g.inorder /\ HasRoi(g.size) /\ n'.oy = g.oy /\ n'.fid = g.fid
  BY DEF CommitRow, LastRow, NoEntry
<1>3. g.oy + ROI <= g.size.h /\ (g.rows > g.oy => g.started)
  BY <1>2, GoodRow DEF BoardInv
<1> HIDE DEF g
<1>4. g.rows > g.oy
  <2>1. g.oy \in Nat /\ ROI \in Nat \ {0} /\ cur.size.h \in Nat
    BY <1>1, HostNumbers
  <2> QED BY <1>1, <1>2, <1>3, <2>1
<1>5. g.started /\ g.inorder /\ HasRoi(cur.size) /\ g.rows = cur.size.h
      /\ g.oy + ROI <= cur.size.h /\ n'.oy = g.oy /\ n'.fid = cur.fid
  BY <1>1, <1>2, <1>3, <1>4
<1> QED BY <1>5 DEF g

LEMMA PathReceive ==
  ASSUME BoardInv, BoardInv', TurnInv, TurnInv', HeaderInv, PosInv, RunInv, RowsInv, PathInv,
         UNCHANGED <<trk, upl, cur>>, ReceiveStep
  PROVE  PathInv'
<1> SUFFICES ASSUME ~upl.gap PROVE PathInv'
  BY DEF PathInv
<1>1. ASSUME pkt' = pkt, state # "Idle", fifo' = fifo, WordInHand',
             f' = f \/ ~f'.active \/ NewestOfFrame',
             Forwarded' => Forwarded /\ p'.oy = p.oy,
             res' = res, Receptive' /\ l'.valid => Receptive /\ l' = l
      PROVE  PathInv'
  <2>1. Keeps /\ cur'.fid = cur.fid /\ cur'.size = cur.size
    BY <1>1, KeepsBoard DEF Held
  <2>2. PathContext
    BY <2>1 DEF PathContext
  <2>3. /\ Forwarded' => Forwarded /\ pkt' = pkt /\ p'.oy = p.oy
        /\ Receptive' /\ l'.valid =>
             (Receptive /\ l' = l) \/ (res # NoAnswer /\ l'.basis = res.basis)
    BY <1>1
  <2> QED BY <1>1, <2>2, <2>3, PathKept
<1>2. ASSUME pkt' = pkt, state # "Idle", fifo' = fifo, res' = res, l' = l, f' = f \/ ~f'.active,
             p'.word = NoWord, state' # "Ctrl", ~Passed', Receptive' => Receptive
      PROVE  PathInv'
  BY <1>1, <1>2 DEF WordInHand, Forwarded
<1>3. CASE DropEnd \/ CommitPosition \/ CommitBadRow
  <2>1. /\ p'.word = NoWord /\ state' = "Idle" /\ state # "Idle" /\ pkt' = pkt
        /\ fifo' = fifo /\ res' = res /\ l' = l /\ f' = f /\ q' = q
    BY <1>3 DEF DropEnd, CommitPosition, CommitBadRow, Committing, TurnInv, frameVars
  <2>2. ~Passed' /\ (Receptive' => Receptive)
    BY <2>1 DEF Passed, Receptive, Underway, Awaiting
  <2> QED BY <1>2, <2>1, <2>2
<1>4. CASE TemplateHeader \/ CommitTemplate
  BY <1>4 DEF TemplateHeader, CommitTemplate, Committing, TurnInv, Held, BoardInv, TypeOK
<1>5. CASE RowHeader
  <2>1. /\ p'.word = NoWord /\ (state' = "Ctrl" \/ (state' = "Body" /\ ~p'.inwin))
        /\ p'.new = NewFrame /\ (~NewFrame => p'.oy = f.oy)
        /\ (state' = "Ctrl" => pkt.row >= p'.oy /\ pkt.row < p'.oy + ROI)
        /\ state = "HdrA" /\ pkt' = pkt /\ UNCHANGED <<fifo, res, l, f, q>>
    BY <1>5 DEF RowHeader, frameVars
  <2>2. ~Passed' /\ (Receptive' => Receptive)
    BY <2>1 DEF Passed, Receptive, Underway, Awaiting
  <2>3. WordInHand'
    BY <2>1 DEF WordInHand, NewFrame
  <2> QED BY <1>1, <2>1, <2>2, <2>3 DEF Forwarded
<1>6. CASE RowCtrl
  <2>1. /\ p'.word = RowWord /\ RowWord # NoWord /\ state' = "Body" /\ state = "Ctrl"
        /\ p'.new = p.new /\ p'.oy = p.oy
        /\ UNCHANGED <<pkt, f, q, fifo, res, nextTag>>
        /\ l' = IF StartsFrame THEN [l EXCEPT !.valid = FALSE] ELSE l
    BY <1>6 DEF RowCtrl, BoardInv, TypeOK, RowWord, NoWord, frameVars
  <2>2. WordInHand'
    <3>1. /\ p.new = NewFrame /\ (~NewFrame => p.oy = f.oy)
          /\ pkt.row >= p.oy /\ pkt.row < p.oy + ROI
      BY <2>1 DEF PathInv, WordInHand
    <3>2. NewFrame' = NewFrame /\ RowWord' = RowWord
      BY <2>1 DEF NewFrame, RowWord, StartsFrame
    <3> QED BY <2>1, <3>1, <3>2 DEF WordInHand
  <2>3. l'.valid => Receptive /\ l' = l
    <3>1. CASE StartsFrame
      BY <2>1, <3>1 DEF BoardInv, TypeOK
    <3>2. CASE ~StartsFrame
      <4>1. pkt.kind = "row" /\ p.new = NewFrame
        BY <2>1 DEF BoardInv, TypeOK, PathInv, WordInHand
      <4>2. f.active /\ f.fid = pkt.fid /\ f.started
        BY <3>2, <4>1 DEF StartsFrame, NewFrame
      <4>3. Underway
        BY <2>1, <4>1, <4>2 DEF TurnInv, Held, Underway
      <4> QED BY <2>1, <3>2, <4>3 DEF Receptive
    <3> QED BY <3>1, <3>2
  <2>4. ~Forwarded'
    BY <2>1 DEF Forwarded
  <2> QED BY <1>1, <2>1, <2>2, <2>3, <2>4
<1>7. CASE WindowEnd \/ PayloadEnd
  <2>1. /\ p'.word = NoWord /\ p'.inwin = p.inwin /\ p'.oy = p.oy /\ pkt' = pkt
        /\ state = "Body" /\ UNCHANGED <<f, q, l, res>> /\ state' \in {"Body", "Commit"}
    BY <1>7 DEF WindowEnd, PayloadEnd, BoardInv, TypeOK, frameVars
  <2>2. \/ fifo' = fifo /\ (p.word # NoWord => ~Good) /\ state' = "Commit"
        \/ p.word # NoWord /\ fifo' = Append(fifo, p.word)
    BY <1>7 DEF WindowEnd, PayloadEnd, Good
  <2>3. CASE p.word # NoWord /\ fifo' = Append(fifo, p.word)
    BY <1>7, <2>3, PathPut
  <2>4. CASE fifo' = fifo /\ (p.word # NoWord => ~Good) /\ state' = "Commit"
    <3>1. Forwarded' => Forwarded
      BY <2>1, <2>4 DEF Forwarded, Passed, Good
    <3>2. Receptive' => Receptive
      BY <2>1 DEF Receptive, Passed, Underway, Awaiting
    <3>3. WordInHand'
      BY <2>1 DEF WordInHand
    <3> QED BY <1>1, <2>1, <2>4, <3>1, <3>2, <3>3
  <2> QED BY <2>2, <2>3, <2>4
<1>8. CASE CommitClose
  <2>1. /\ ~f'.active /\ p'.word = p.word /\ p'.inwin = p.inwin /\ p'.oy = p.oy
        /\ UNCHANGED <<state, pkt, fifo, q, l, res>> /\ state = "Commit" /\ p.word = NoWord
    BY <1>8 DEF CommitClose, Committing, TurnInv, BoardInv, TypeOK
  <2>2. Forwarded' => Forwarded
    BY <2>1 DEF Forwarded, Passed, Good
  <2>3. Receptive' => Receptive
    BY <2>1 DEF Receptive, Passed, Underway, Awaiting
  <2>4. WordInHand'
    BY <2>1 DEF WordInHand
  <2> QED BY <1>1, <2>1, <2>2, <2>3, <2>4
<1>9. CASE CommitRow
  <2>1. /\ UNCHANGED <<pkt, p, fifo, q, l, res>> /\ state' \in {"Idle", "Slot"}
        /\ state = "Commit" /\ p.word = NoWord
    BY <1>9 DEF CommitRow, Committing, TurnInv
  <2>2. f' = FrameWithRow \/ ~f'.active
    BY <1>9, OpenAfterRow
  <2>3. Newest' = Newest
    BY <2>1 DEF Newest, Before, Spot
  <2>4. NewestOfFrame'
    <3> SUFFICES ASSUME Underway', Newest # NoWord
                 PROVE  Newest.src[1] = cur.fid /\ Base(Newest) = f'.oy
      BY <2>3 DEF NewestOfFrame, IsRow, Base, NoWord
    <3>1. f' = FrameWithRow /\ FrameWithRow.started
      BY <2>2 DEF Underway
    <3> QED BY <1>9, <3>1, StartedRow DEF IsRow
  <2>5. Receptive' => Receptive
    <3>1. FrameWithRow.started => Receptive
      BY <1>9, StartedRow DEF Receptive
    <3>2. Underway' => FrameWithRow.started
      BY <2>2 DEF Underway
    <3>3. state' = "Slot" => FrameWithRow.started
      BY <1>9, SlotStarted
    <3>4. ~Passed' /\ Awaiting' = Awaiting
      BY <2>1 DEF Passed, Awaiting
    <3> QED BY <3>1, <3>2, <3>3, <3>4 DEF Receptive
  <2>6. WordInHand' /\ ~Forwarded'
    BY <2>1 DEF WordInHand, Forwarded, Passed
  <2> QED BY <1>1, <2>1, <2>4, <2>5, <2>6
<1>10. CASE TakeSlot
  <2>1. /\ state' = "Idle" /\ state = "Slot" /\ p' = p /\ p.word = NoWord
        /\ UNCHANGED <<pkt, f, l, fifo, res>>
    BY <1>10 DEF TakeSlot, TurnInv, frameVars
  <2>2. ~Passed' /\ Receptive
    BY <2>1 DEF Passed, Receptive
  <2> QED BY <1>2, <2>1, <2>2
<1> QED
  BY <1>3, <1>4, <1>5, <1>6, <1>7, <1>8, <1>9, <1>10 DEF ReceiveStep

LEMMA PathStep ==
  /\ Lockstep /\ InOrderFaults
  /\ BoardInv /\ SendInv /\ PosInv /\ HeaderInv /\ TurnInv /\ RunInv /\ RowsInv /\ PathInv
  /\ [BoardNext]_allVars
  => PathInv'
<1> SUFFICES ASSUME Lockstep, InOrderFaults, BoardInv, SendInv, PosInv, HeaderInv, TurnInv,
                    RunInv, RowsInv, PathInv, [BoardNext]_allVars
             PROVE  PathInv'
  OBVIOUS
<1>1. BoardInv' /\ TurnInv' /\ RunInv'
  BY BoardStepMaps, TurnStep, RunStep
<1>2. CASE HostStep
  BY <1>1, <1>2, PathHost
<1>3. CASE ReceiveStep /\ UNCHANGED trk /\ NotHost
  BY <1>1, <1>3, PathReceive DEF NotHost, hostVars
<1>4. CASE \/ SlotStep /\ UNCHANGED trk /\ NotHost
           \/ BoardTimeOut \/ BoardTxDone
  BY <1>1, <1>4, PathSlot DEF BoardTimeOut, BoardTxDone, NotHost, hostVars
<1>5. CASE TrackRow /\ NotHost
  BY <1>1, <1>5, PathTrackRow DEF NotHost, hostVars
<1>6. CASE TrackChunk /\ NotHost
  <2>1. upl'.gap
    BY <1>6, KindsKept DEF TrackChunk, Offered, BoardInv, TypeOK, TurnInv, NotHost, hostVars
  <2> QED BY <2>1 DEF PathInv
<1>7. CASE Answer /\ NotHost
  BY <1>1, <1>7, PathAnswer DEF NotHost, hostVars
<1>8. CASE UNCHANGED allVars
  <2>1. UNCHANGED <<cur, upl, trk, state, pkt, p, f, fifo, q, l, res, nextTag>>
    BY <1>8 DEF allVars, vars, rxVars, frameVars, hostVars
  <2> QED BY <2>1
      DEF PathInv, FifoSent, FifoJoined, WordInHand, NewestOfFrame, NewestInHand, CollectedSent,
          AnswersRun, SentRow, Before, Newest, Spot, Base, IsRow, IsRun, Collecting, Receptive,
          Passed, Underway, Awaiting, Forwarded, Held, Good, RowWord, StartsFrame, NewFrame
<1> QED
  BY <1>2, <1>3, <1>4, <1>5, <1>6, <1>7, <1>8
  DEF BoardNext, BoardStep, TrackerStep, Finished

-----------------------------------------------------------------------------
(* What becomes of a frame whose rows have all come in order so far.        *)

InLine == f.active /\ f.fid = cur.fid /\ f.inorder /\ HasRoi(f.size)

\* All rows have been received: the frame waits for its answer.
Complete == state = "Slot" \/ Awaiting
Line == InLine \/ Complete

\* Its origin, and the rows it has received: 0..(FrameRows - 1).
FrameOy == IF InLine THEN f.oy ELSE IF state = "Slot" THEN n.oy ELSE q.oy
FrameRows == IF InLine THEN f.rows ELSE cur.size.h

\* A complete frame has had its last row, so a second one of the same number
\* never becomes complete.
OnceInv ==
  state = "Slot" \/ q.valid =>
    /\ HasRoi(cur.size) /\ cur.row >= cur.size.h - 1
    /\ Held("row") => pkt.row >= cur.size.h - 1
    /\ ~InLine
    /\ IF state = "Slot" THEN ~q.valid /\ n.oy + ROI <= cur.size.h
                         ELSE q.oy + ROI <= cur.size.h

\* A copy of the row that completed the frame.
LastAgain(src) == Complete /\ src[2] = cur.size.h - 1

\* The path holds rows forwarded with the frame's origin, but for its row 0.
Origins(oy) ==
  \A i \in 1..(Len(fifo) + 1) :
    Before(i) # NoWord /\ Before(i).src[1] = cur.fid =>
      \/ Base(Before(i)) = oy \/ Before(i).src[2] = 0 \/ LastAgain(Before(i).src)

\* A damaged row that the frame has received as well comes after its copy.
Spoiled(rows) ==
  \A i \in 1..Len(fifo) :
    ~fifo[i].src[3] /\ fifo[i].src[2] < rows =>
      IF fifo[i].newf THEN LastAgain(fifo[i].src)
      ELSE Before(i) # NoWord => Before(i).src[2] = fifo[i].src[2]

NewestRow(rows) ==
  Underway /\ rows <= f.oy + ROI /\ Newest # NoWord => Newest.src[2] >= rows - 1

Collected(oy, rows) ==
  Collecting =>
    /\ trk.cnt > 1 => trk.rows[1][2] = oy
    /\ \A i \in 1..trk.cnt :
         ~trk.rows[i][3] => \/ trk.rows[i][2] >= rows
                            \/ trk.cnt = 1 /\ LastAgain(trk.rows[1])

\* The rows are the frame's from its origin on, and those damaged are rows it
\* has not received.
Meets(answer, oy, rows) ==
  answer[1][2] = oy /\ \A i \in 1..ROI : ~answer[i][3] => answer[i][2] >= rows

ResMeets(oy, rows) == res # NoAnswer => Meets(res.basis.rows, oy, rows)
LatchMeets(oy, rows) == Receptive /\ l.valid => Meets(l.basis.rows, oy, rows)

\* Nothing on its way to or from the tracker can become a wrong answer to a
\* frame that is, or may still become, complete.
OwnInv ==
  ~upl.gap /\ Line =>
    /\ Origins(FrameOy) /\ Spoiled(FrameRows) /\ NewestRow(FrameRows)
    /\ Collected(FrameOy, FrameRows)
    /\ ResMeets(FrameOy, FrameRows) /\ LatchMeets(FrameOy, FrameRows)

LEMMA BigFrame ==
  ASSUME BoardInv, ROI > 2, HasRoi(cur.size)
  PROVE  cur.size.h \in Nat /\ cur.size.h > 2 /\ cur.size.h >= ROI /\ ROI \in Nat
BY HostNumbers DEF HasRoi

\* The frame a complete one is followed by is not in order.
LEMMA AfterComplete ==
  ASSUME BoardInv, HeaderInv, TurnInv, RowsInv, OnceInv, ROI > 2, CommitRow, q.valid
  PROVE  ~FrameWithRow.inorder
<1>1. HasRoi(cur.size) /\ pkt.row >= cur.size.h - 1 /\ ~InLine /\ pkt.row \in Nat
  BY OpenAfterRow, HostNumbers DEF OnceInv, Held
<1>2. pkt.row > 0
  <2>1. cur.size.h - 1 > 0 /\ cur.size.h \in Nat
    BY <1>1, BigFrame
  <2> QED BY <1>1, <2>1
<1>3. CASE f.active
  <2>1. f.fid = cur.fid /\ FrameWithRow.inorder = (f.inorder /\ pkt.row = f.rows)
    BY <1>3, OpenAfterRow
  <2>2. f.size = cur.size
    BY <1>3, <2>1 DEF RowsInv, OpenInOrder
  <2> QED BY <1>1, <1>3, <2>1, <2>2 DEF InLine
<1>4. CASE ~f.active
  <2>1. FrameWithRow.inorder = (pkt.row = 0)
    BY <1>4, OpenAfterRow
  <2>2. pkt.row # 0
    BY <1>1, <1>2
  <2> QED BY <2>1, <2>2, Zenon
<1> QED BY <1>3, <1>4

LEMMA CompletedOnce ==
  ASSUME Lockstep, InOrderFaults, ROI > 2, BoardInv, HeaderInv, TurnInv, RowsInv, OnceInv,
         [BoardNext]_allVars
  PROVE  OnceInv'
<1>1. ASSUME cur' = cur, pkt' = pkt, Held("row")' => Held("row"), InLine' => InLine,
             IF state' = "Slot" THEN state = "Slot" /\ n' = n /\ (q'.valid => q.valid)
             ELSE q'.valid => state # "Slot" /\ q.valid /\ q'.oy = q.oy
      PROVE  OnceInv'
  BY <1>1 DEF OnceInv
<1>2. ASSUME cur'.size = cur.size, cur'.row \in Nat, cur'.row >= cur.row,
             Held("row")' => state = "Idle" /\ pkt'.row = cur.row,
             InLine' => InLine, state' # "Slot", q'.valid => state # "Slot",
             q' = q
      PROVE  OnceInv'
  <2>1. \A x \in Int : cur.row >= x => cur'.row >= x
    BY <1>2, HostNumbers
  <2>2. cur.size.h - 1 \in Int
    BY HostNumbers
  <2> QED BY <1>2, <2>1, <2>2 DEF OnceInv
<1>3. CASE HostStep
  <2>1. CASE RowOut
    <3>1. PICK quality \in Quality :
            /\ RxHeader(RowPacket(quality))
            /\ NextRow \/ (quality = "good" /\ UNCHANGED cur)
      BY <2>1 DEF RowOut
    <3>2. state = "Idle" /\ pkt'.row = cur.row /\ f' = f /\ q' = q
      BY <3>1 DEF RxHeader, RowPacket, frameVars
    <3>3. state' # "Slot"
      BY <3>1 DEF RxHeader, RowPacket, AfterHeader
    <3>4. cur'.size = cur.size /\ cur'.fid = cur.fid /\ cur'.row \in Nat /\ cur'.row >= cur.row
      BY <3>1, HostNumbers DEF NextRow, BoardInv, HostType
    <3>5. InLine' => InLine
      BY <3>2, <3>4 DEF InLine
    <3> QED BY <1>2, <3>2, <3>3, <3>4, <3>5
  <2>2. CASE RowLost
    <3>1. UNCHANGED <<state, pkt, f, n, q>>
      BY <2>2 DEF RowLost, vars, rxVars, frameVars
    <3>2. cur'.size = cur.size /\ cur'.fid = cur.fid /\ cur'.row = cur.row + 1
      BY <2>2 DEF RowLost, NextRow, BoardInv, HostType
    <3>3. cur.row >= cur.size.h - 1 => cur'.row >= cur.size.h - 1
      BY <3>2, HostNumbers
    <3>4. InLine' = InLine /\ Held("row")' = Held("row")
      BY <3>1, <3>2 DEF InLine, Held
    <3> QED BY <3>1, <3>2, <3>3, <3>4 DEF OnceInv
  <2>3. CASE StartFrame
    <3>1. state' # "Slot" /\ ~q'.valid
      BY <2>3 DEF StartFrame, MaySend, BoardQuiet, vars, rxVars
    <3> QED BY <3>1 DEF OnceInv
  <2>4. CASE SendPosition \/ SendChunk
    <3>1. PICK pk \in Packets : RxHeader(pk) /\ pk.kind # "row"
      <4>1. CASE SendPosition
        <5>1. PICK y \in Positions : RxHeader([kind |-> "pos", y |-> y, quality |-> "good"])
          BY <4>1 DEF SendPosition
        <5>2. [kind |-> "pos", y |-> y, quality |-> "good"] \in Packets
          BY BoardAssumption DEF Packets, Quality
        <5> QED BY <5>1, <5>2
      <4>2. CASE SendChunk
        <5>1. PICK c \in Contents :
                RxHeader([kind |-> "tmpl", chunk |-> upl.chunk, content |-> c,
                          quality |-> "good"])
          BY <4>2 DEF SendChunk
        <5>2. [kind |-> "tmpl", chunk |-> upl.chunk, content |-> c, quality |-> "good"]
                \in Packets
          BY DEF Packets, Quality, BoardInv, HostType
        <5> QED BY <5>1, <5>2
      <4> QED BY <2>4, <4>1, <4>2
    <3>2. state = "Idle" /\ state' # "Slot" /\ pkt'.kind # "row" /\ f' = f /\ q' = q /\ cur' = cur
      <4>1. pk.kind \in {"pos", "tmpl", "other"}
        BY <3>1 DEF Packets
      <4> QED BY <2>4, <3>1, <4>1 DEF RxHeader, AfterHeader, frameVars, SendPosition, SendChunk
    <3>3. (InLine' => InLine) /\ ~Held("row")'
      BY <3>2 DEF InLine, Held
    <3>4. cur'.size = cur.size /\ cur'.row \in Nat /\ cur'.row >= cur.row
      BY <3>2, HostNumbers
    <3> QED BY <1>2, <3>2, <3>3, <3>4
  <2>5. CASE LoseChunk
    <3>1. UNCHANGED <<state, pkt, f, n, q, cur>>
      BY <2>5 DEF LoseChunk, vars, rxVars, frameVars
    <3> QED BY <1>1, <3>1 DEF InLine, Held
  <2> QED BY <1>3, <2>1, <2>2, <2>3, <2>4, <2>5, RowCases DEF RowsInv
<1>4. ASSUME CommitRow, cur' = cur PROVE OnceInv'
  <2>1. /\ pkt' = pkt /\ q' = q /\ state = "Commit" /\ state' \in {"Idle", "Slot"}
        /\ f' = FrameWithRow \/ ~f'.active
    BY <1>4, OpenAfterRow DEF CommitRow
  <2>2. CASE state' = "Slot"
    <3>1. /\ FrameWithRow.inorder /\ HasRoi(cur.size) /\ FrameWithRow.rows = cur.size.h
          /\ FrameWithRow.oy + ROI <= cur.size.h /\ n'.oy = FrameWithRow.oy
      BY <1>4, <2>2, SlotStarted
    <3>2. ~q.valid
      BY <1>4, <3>1, AfterComplete
    <3>3. ~f'.active
      BY <1>4, <2>2 DEF CommitRow, FrameWithRow, BoardInv, TypeOK
    <3>4. pkt.row = cur.size.h - 1
      <4>1. CASE f.active
        <5>1. pkt.row = f.rows /\ cur.size.h = f.rows + 1
          BY <1>4, <3>1, <4>1, OpenAfterRow
        <5> QED BY <5>1, HostNumbers
      <4>2. CASE ~f.active
        <5>1. pkt.row = 0 /\ cur.size.h = 1
          BY <1>4, <3>1, <4>2, OpenAfterRow
        <5> QED BY <5>1
      <4> QED BY <4>1, <4>2
    <3>5. pkt.row <= cur.row
      BY <1>4, OpenAfterRow DEF RowsInv, HeldInOrder, Held
    <3>6. cur.row >= cur.size.h - 1 /\ pkt.row >= cur.size.h - 1
      BY <3>4, <3>5, HostNumbers
    <3> QED BY <1>4, <2>1, <2>2, <3>1, <3>2, <3>3, <3>6 DEF OnceInv, InLine
  <2>3. CASE state' # "Slot" /\ q.valid
    <3>1. ~InLine'
      BY <1>4, <2>1, <2>3, AfterComplete DEF InLine
    <3> QED BY <1>1, <1>4, <2>1, <2>3, <3>1 DEF Held
  <2>4. CASE state' # "Slot" /\ ~q.valid
    BY <2>1, <2>4 DEF OnceInv
  <2> QED BY <2>2, <2>3, <2>4
<1>5. ASSUME TakeSlot, cur' = cur PROVE OnceInv'
  <2>1. /\ state = "Slot" /\ state' = "Idle" /\ q'.oy = n.oy /\ f' = f /\ pkt' = pkt
    BY <1>5 DEF TakeSlot, frameVars, BoardInv, TypeOK, Entry
  <2> QED BY <1>5, <2>1 DEF OnceInv, InLine, Held
<1>6. ASSUME cur' = cur, UNCHANGED <<pkt, f, n, q>>, state # "Idle", state' # "Slot",
             state # "Slot"
      PROVE  OnceInv'
  BY <1>1, <1>6 DEF InLine, Held
<1>7. ASSUME cur' = cur, ReceiveStep PROVE OnceInv'
  <2>1. CASE \/ DropEnd \/ RowHeader \/ RowCtrl \/ TemplateHeader \/ WindowEnd \/ PayloadEnd
             \/ CommitTemplate \/ CommitPosition \/ CommitBadRow
    BY <1>6, <1>7, <2>1
    DEF DropEnd, RowHeader, RowCtrl, TemplateHeader, WindowEnd, PayloadEnd, CommitTemplate,
        CommitPosition, CommitBadRow, Committing, frameVars
  <2>2. CASE CommitClose
    <3>1. /\ ~f'.active /\ state = "Commit" /\ UNCHANGED <<state, pkt, n, q>>
      BY <2>2 DEF CommitClose, Committing, BoardInv, TypeOK
    <3> QED BY <1>1, <1>7, <3>1 DEF InLine, Held
  <2> QED BY <1>4, <1>5, <1>7, <2>1, <2>2 DEF ReceiveStep
<1>8. ASSUME cur' = cur, UNCHANGED <<state, pkt, f, n>>,
             q'.valid => q.valid /\ q'.oy = q.oy
      PROVE  OnceInv'
  <2>1. InLine' = InLine /\ Held("row")' = Held("row")
    BY <1>8 DEF InLine, Held
  <2> QED BY <1>8, <2>1 DEF OnceInv
<1>9. ASSUME cur' = cur, SlotStep \/ TimeOut \/ TxDone PROVE OnceInv'
  <2>1. UNCHANGED <<state, pkt, f, n>>
    BY <1>9 DEF SlotStep, TakeAnswer, LatchAnswer, EmitPending, TimeOut, TxDone, rxVars, frameVars
  <2>2. q'.valid => q.valid /\ q'.oy = q.oy
    BY <1>9 DEF SlotStep, TakeAnswer, LatchAnswer, EmitPending, SlotFreed, TimeOut, TxDone,
                AnswerDue, Awaiting, BoardInv, TypeOK, Entry
  <2> QED BY <1>8, <1>9, <2>1, <2>2
<1>10. CASE TrackerStep /\ NotHost
  <2>1. UNCHANGED <<state, pkt, f, n, q, cur>>
    BY <1>10 DEF TrackerStep, TrackRow, TrackChunk, Answer, rxVars, frameVars, NotHost, hostVars
  <2> QED BY <1>8, <2>1
<1>11. CASE UNCHANGED allVars
  <2>1. UNCHANGED <<state, pkt, f, n, q, cur>>
    BY <1>11 DEF allVars, vars, rxVars, frameVars, hostVars
  <2> QED BY <1>8, <2>1
<1>12. CASE (ReceiveStep \/ SlotStep) /\ UNCHANGED trk /\ NotHost
  BY <1>7, <1>9, <1>12 DEF NotHost, hostVars
<1>13. CASE BoardTimeOut \/ BoardTxDone
  BY <1>9, <1>13 DEF BoardTimeOut, BoardTxDone, NotHost, hostVars
<1> QED BY <1>3, <1>10, <1>11, <1>12, <1>13 DEF BoardNext, BoardStep, Finished

LEMMA LineSize ==
  ASSUME BoardInv, ROI > 2, RowsInv, OnceInv, Line
  PROVE  HasRoi(cur.size) /\ cur.size.h \in Nat /\ cur.size.h > 2 /\ ROI \in Nat
<1>1. HasRoi(cur.size)
  BY DEF Line, InLine, Complete, Awaiting, OnceInv, RowsInv, OpenInOrder
<1> QED BY <1>1, BigFrame

OwnContext ==
  /\ BoardInv /\ BoardInv' /\ TurnInv /\ TurnInv' /\ HeaderInv /\ RunInv /\ RowsInv /\ PathInv
  /\ OnceInv /\ OwnInv /\ ~upl.gap /\ ~upl'.gap
  /\ cur'.fid = cur.fid /\ cur'.size = cur.size

\* The frame has received no row of which a damaged copy was sent.
NoneSpoiled ==
  \A src \in Source : SentRow(src) /\ ~src[3] /\ src[2] < FrameRows' => src[2] < FrameRows

\* The same frame is in line or complete.
SameLine ==
  Line /\ FrameOy' = FrameOy /\ (Complete => Complete') /\ NoneSpoiled
    /\ FrameRows \in Nat /\ FrameRows' \in Nat

LEMMA AnswerKept ==
  ASSUME OwnContext, SameLine, NEW rows \in Seq(Source), IsRun(rows),
         Meets(rows, FrameOy, FrameRows)
  PROVE  Meets(rows, FrameOy, FrameRows)'
<1>1. ROI \in Nat \ {0}
  BY RowStatsAssumption
<1>2. rows[1][2] = FrameOy'
  BY DEF Meets, SameLine
<1>3. ASSUME NEW i \in 1..ROI, ~rows[i][3] PROVE rows[i][2] >= FrameRows'
  <2>1. rows[i] \in Source /\ SentRow(rows[i]) /\ rows[i][2] >= FrameRows
    BY <1>1, <1>3 DEF IsRun, Meets
  <2>2. PICK s \in Source : s = rows[i]
    BY <2>1
  <2>3. s[2] \in Nat /\ ~(s[2] < FrameRows)
    BY <2>1, <2>2 DEF Source, SameLine
  <2>4. ~(s[2] < FrameRows')
    BY <1>3, <2>1, <2>2, <2>3 DEF SameLine, NoneSpoiled
  <2> QED BY <2>2, <2>3, <2>4 DEF SameLine
<1> QED BY <1>2, <1>3 DEF Meets

LEMMA CollectedKept ==
  ASSUME OwnContext, SameLine, trk' = trk PROVE Collected(FrameOy, FrameRows)'
<1> SUFFICES ASSUME Collecting'
             PROVE  /\ trk.cnt > 1 => trk.rows[1][2] = FrameOy'
                    /\ \A i \in 1..trk.cnt :
                         ~trk.rows[i][3] => \/ trk.rows[i][2] >= FrameRows'
                                            \/ trk.cnt = 1 /\ LastAgain(trk.rows[1])'
  BY DEF Collected, LastAgain
<1>1. Collecting
  BY DEF Collecting, OwnContext
<1>2. Collected(FrameOy, FrameRows)
  BY DEF OwnContext, SameLine, OwnInv
<1>3. trk.cnt > 1 => trk.rows[1][2] = FrameOy'
  BY <1>1, <1>2 DEF Collected, SameLine
<1>4. ASSUME NEW i \in 1..trk.cnt, ~trk.rows[i][3]
      PROVE  trk.rows[i][2] >= FrameRows' \/ (trk.cnt = 1 /\ LastAgain(trk.rows[1])')
  <2>1. trk.rows[i] \in Source /\ SentRow(trk.rows[i])
    BY <1>1, AnswerRows DEF OwnContext, PathInv, CollectedSent, RunInv, Collecting
  <2>2. trk.rows[i][2] >= FrameRows \/ (trk.cnt = 1 /\ LastAgain(trk.rows[1]))
    BY <1>1, <1>2, <1>4 DEF Collected
  <2>3. LastAgain(trk.rows[1]) => LastAgain(trk.rows[1])'
    BY DEF LastAgain, SameLine, OwnContext
  <2>4. ASSUME trk.rows[i][2] >= FrameRows PROVE trk.rows[i][2] >= FrameRows'
    <3>1. PICK s \in Source : s = trk.rows[i]
      BY <2>1
    <3>2. s[2] \in Nat /\ ~(s[2] < FrameRows)
      BY <2>4, <3>1 DEF Source, SameLine
    <3>3. ~(s[2] < FrameRows')
      BY <1>4, <2>1, <3>1, <3>2 DEF SameLine, NoneSpoiled
    <3> QED BY <3>1, <3>2, <3>3 DEF SameLine
  <2> QED BY <2>2, <2>3, <2>4
<1> QED BY <1>3, <1>4

\* Nothing enters the path, and an answer leaves it if at all.
LEMMA OwnKept ==
  ASSUME OwnContext, Shifted, Line' => SameLine,
         Line' => NewestRow(FrameRows)' /\ Collected(FrameOy, FrameRows)',
         Line' => res' = res \/ ResMeets(FrameOy, FrameRows)',
         Receptive' /\ l'.valid =>
           (Receptive /\ l' = l) \/ (res # NoAnswer /\ l'.basis = res.basis)
  PROVE  OwnInv'
<1> SUFFICES ASSUME Line'
             PROVE  /\ Origins(FrameOy)' /\ Spoiled(FrameRows)'
                    /\ ResMeets(FrameOy, FrameRows)' /\ LatchMeets(FrameOy, FrameRows)'
  BY DEF OwnInv
<1>0. SameLine /\ BoardInv /\ TurnInv /\ PathInv /\ ~upl.gap
  BY DEF OwnContext
<1>1. PICK d \in {0, 1} : Shifts(d)
  BY DEF Shifted
<1>2. Len(fifo) \in Nat /\ Len(fifo') \in Nat
  BY DEF OwnContext, BoardInv, TypeOK
<1>3. /\ Len(fifo') = Len(fifo) - d
      /\ \A i \in 1..Len(fifo') : fifo'[i] = fifo[i + d] /\ i + d \in 1..Len(fifo)
      /\ \A i \in 1..(Len(fifo') + 1) :
           (Before(i)' = Before(i + d) \/ Before(i)' = NoWord) /\ i + d \in 1..(Len(fifo) + 1)
  BY <1>1, <1>2 DEF Shifts
<1>4. /\ Origins(FrameOy) /\ Spoiled(FrameRows)
      /\ ResMeets(FrameOy, FrameRows) /\ LatchMeets(FrameOy, FrameRows)
  BY <1>0 DEF OwnContext, SameLine, OwnInv
<1>5. \A src : LastAgain(src) => LastAgain(src)'
  BY <1>0 DEF LastAgain, SameLine, OwnContext
<1>6. Origins(FrameOy)'
  <2> SUFFICES ASSUME NEW i \in 1..(Len(fifo') + 1), Before(i)' # NoWord,
                      Before(i)'.src[1] = cur'.fid
               PROVE  \/ Base(Before(i)') = FrameOy' \/ Before(i)'.src[2] = 0
                      \/ LastAgain(Before(i).src)'
    BY DEF Origins, Base, NoWord
  <2>1. Before(i)' = Before(i + d) /\ i + d \in 1..(Len(fifo) + 1)
    BY <1>3
  <2>2. \/ Base(Before(i + d)) = FrameOy \/ Before(i + d).src[2] = 0
        \/ LastAgain(Before(i + d).src)
    BY <1>4, <2>1 DEF Origins, OwnContext
  <2>3. LastAgain(Before(i + d).src) => LastAgain(Before(i).src)'
    BY <1>0, <2>1 DEF LastAgain, SameLine, OwnContext
  <2> QED BY <1>0, <2>1, <2>2, <2>3 DEF SameLine
<1>7. Spoiled(FrameRows)'
  <2> SUFFICES ASSUME NEW i \in 1..Len(fifo'), ~fifo'[i].src[3], fifo'[i].src[2] < FrameRows'
               PROVE  IF fifo'[i].newf THEN LastAgain(fifo[i].src)'
                      ELSE Before(i)' # NoWord => Before(i)'.src[2] = fifo'[i].src[2]
    BY DEF Spoiled, NoWord
  <2>1. fifo'[i] = fifo[i + d] /\ i + d \in 1..Len(fifo)
    BY <1>3
  <2>2. PICK s \in Source : s = fifo[i + d].src /\ SentRow(s)
    BY <1>0, <2>1, FifoRow DEF PathInv, FifoSent
  <2>3. s[2] < FrameRows
    BY <1>0, <2>1, <2>2 DEF SameLine, NoneSpoiled
  <2>4. IF fifo[i + d].newf THEN LastAgain(fifo[i + d].src)
        ELSE Before(i + d) # NoWord => Before(i + d).src[2] = fifo[i + d].src[2]
    BY <1>4, <2>1, <2>2, <2>3 DEF Spoiled
  <2>5. Before(i)' = Before(i + d) \/ Before(i)' = NoWord
    BY <1>2, <1>3
  <2>6. LastAgain(fifo[i + d].src) => LastAgain(fifo[i].src)'
    BY <1>0, <2>1 DEF LastAgain, SameLine, OwnContext
  <2> QED BY <2>1, <2>4, <2>5, <2>6
<1>8. ResMeets(FrameOy, FrameRows)'
  <2>1. CASE res' = res
    <3> SUFFICES ASSUME res # NoAnswer PROVE Meets(res.basis.rows, FrameOy, FrameRows)'
      BY <2>1 DEF ResMeets
    <3>1. PICK rows \in Seq(Source) : rows = res.basis.rows
      BY <1>0, AnswerRows
    <3>2. IsRun(rows) /\ Meets(rows, FrameOy, FrameRows)
      BY <1>0, <1>4, <3>1 DEF PathInv, AnswersRun, ResMeets
    <3>3. Meets(rows, FrameOy, FrameRows)'
      BY <1>0, <3>2, AnswerKept
    <3> QED BY <2>1, <3>1, <3>3 DEF Meets
  <2> QED BY <2>1
<1>9. LatchMeets(FrameOy, FrameRows)'
  <2> SUFFICES ASSUME Receptive', l'.valid PROVE Meets(l.basis.rows, FrameOy, FrameRows)'
    BY DEF LatchMeets
  <2>1. PICK rows \in Seq(Source) :
          rows = l'.basis.rows /\ IsRun(rows) /\ Meets(rows, FrameOy, FrameRows)
    <3>1. CASE Receptive /\ l' = l
      BY <1>0, <1>4, <3>1, AnswerRows DEF PathInv, AnswersRun, LatchMeets
    <3>2. CASE res # NoAnswer /\ l'.basis = res.basis
      BY <1>0, <1>4, <3>2, AnswerRows DEF PathInv, AnswersRun, ResMeets
    <3> QED BY <3>1, <3>2
  <2>2. Meets(rows, FrameOy, FrameRows)'
    BY <1>0, <2>1, AnswerKept
  <2> QED BY <2>1, <2>2 DEF Meets
<1> QED BY <1>6, <1>7, <1>8, <1>9

LEMMA FrameNumbers ==
  ASSUME BoardInv PROVE FrameRows \in Nat /\ FrameOy \in Nat
<1>1. f.rows \in Nat /\ f.oy \in Nat /\ cur.size.h \in Nat
  BY HostNumbers
<1>2. n.oy \in Nat /\ q.oy \in Nat
  BY DEF BoardInv, TypeOK, Entry
<1> QED BY <1>1, <1>2 DEF FrameRows, FrameOy

\* The open frame and the ones that wait stay what they are.
LEMMA LineKept ==
  ASSUME BoardInv, BoardInv', cur'.fid = cur.fid, cur'.size = cur.size,
         f' = f \/ ~(InLine \/ InLine'), n' = n, q'.oy = q.oy, Awaiting' = Awaiting,
         (state' = "Slot") = (state = "Slot")
  PROVE  Line' = Line /\ (Line => SameLine) /\ FrameRows' = FrameRows
<1>1. InLine' = InLine /\ Complete' = Complete
  BY DEF InLine, Complete
<1>2. FrameOy' = FrameOy /\ FrameRows' = FrameRows /\ Line' = Line
  BY <1>1 DEF FrameOy, FrameRows, Line
<1>3. FrameRows \in Nat /\ FrameRows' \in Nat
  BY <1>2, FrameNumbers
<1> QED BY <1>1, <1>2, <1>3 DEF SameLine, NoneSpoiled

LEMMA NewestKept ==
  ASSUME OwnContext, Line, Shifted, Keeps, f' = f \/ ~f'.active, FrameRows' = FrameRows
  PROVE  NewestRow(FrameRows)'
<1>1. FifoSent /\ FifoJoined
  BY DEF OwnContext, PathInv
<1>2. Newest' = Newest \/ Newest' = NoWord
  BY <1>1, ShiftedPath DEF OwnContext
<1>3. Underway' => Underway /\ f' = f
  BY DEF Underway, OwnContext
<1>4. NewestRow(FrameRows)
  BY DEF OwnContext, OwnInv
<1> QED BY <1>2, <1>3, <1>4 DEF NewestRow, NoWord

\* The tracker collects no damaged row the frame has received, and none that
\* was forwarded with another origin.
LEMMA CollectedRow ==
  ASSUME ROI > 2, OwnContext, RunInv', TrackRow, cur' = cur, Line, SameLine,
         FrameRows' = FrameRows
  PROVE  Collected(FrameOy, FrameRows)'
<1> SUFFICES ASSUME trk'.inorder
             PROVE  /\ trk'.cnt > 1 => trk'.rows[1][2] = FrameOy
                    /\ \A i \in 1..trk'.cnt :
                         ~trk'.rows[i][3] => \/ trk'.rows[i][2] >= FrameRows
                                             \/ trk'.cnt = 1 /\ LastAgain(trk'.rows[1])
  <2>1. Complete => Complete'
    BY DEF SameLine
  <2> QED BY <2>1 DEF Collected, Collecting, SameLine, LastAgain
<1>0. BoardInv /\ TurnInv /\ RunInv /\ PathInv /\ ~upl.gap
  BY DEF OwnContext
<1>1. Origins(FrameOy) /\ Spoiled(FrameRows) /\ Collected(FrameOy, FrameRows)
  BY DEF OwnContext, OwnInv
<1>2. /\ 1 \in 1..Len(fifo) /\ fifo[1].src \in Source /\ SentRow(fifo[1].src)
      /\ fifo[1].src[1] = cur.fid /\ fifo[1].src[2] \in Nat
  <2>1. Len(fifo) \in Nat \ {0}
    BY <1>0, RowTaken
  <2>2. fifo[1].src \in Source /\ SentRow(fifo[1].src) /\ fifo[1].src[1] = cur.fid
    BY <1>0, RowCollected
  <2> QED BY <2>1, <2>2 DEF Source
<1>3. HasRoi(cur.size) /\ cur.size.h \in Nat /\ cur.size.h > 2 /\ FrameRows \in Nat
  BY LineSize, FrameNumbers DEF OwnContext
<1>4. fifo[1].src[2] < cur.size.h
  BY <1>2 DEF SentRow
<1>5. CASE fifo[1].newf
  <2>1. trk'.cnt = 1 /\ trk'.rows[1] = fifo[1].src
    BY <1>0, <1>5, RowCollected
  <2>2. ~fifo[1].src[3] => fifo[1].src[2] >= FrameRows \/ LastAgain(fifo[1].src)
    <3>1. ~fifo[1].src[3] /\ fifo[1].src[2] < FrameRows => LastAgain(fifo[1].src)
      BY <1>1, <1>2, <1>5 DEF Spoiled
    <3> QED BY <1>2, <1>3, <3>1
  <2>3. \A i \in 1..trk'.cnt : i = 1
    BY <2>1
  <2> QED BY <2>1, <2>2, <2>3
<1>6. CASE ~fifo[1].newf
  <2>1. /\ trk.inorder /\ trk.cnt \in Nat \ {0} /\ trk'.cnt = trk.cnt + 1
        /\ \A i \in 1..trk.cnt : trk'.rows[i] = trk.rows[i] /\ trk.rows[i] \in Source
        /\ trk'.rows[trk.cnt + 1] = fifo[1].src /\ trk.rows[trk.cnt][1] = cur.fid
        /\ fifo[1].src[2] = trk.rows[trk.cnt][2] + 1
    BY <1>0, <1>6, RowCollected
  <2>2. /\ Before(1) # NoWord /\ Before(1).row = trk.cnt - 1
        /\ Before(1).src = trk.rows[trk.cnt] /\ trk.rows[trk.cnt][2] \in Nat
    <3>1. Before(1) = [kind |-> "row", row |-> trk.cnt - 1, src |-> trk.rows[trk.cnt]]
      BY <2>1 DEF Before
    <3>2. trk.rows[trk.cnt] \in Source
      BY <2>1
    <3> QED BY <3>1, <3>2 DEF NoWord, Source
  <2>3. Collecting
    <3>1. 1 \in 1..trk.cnt /\ trk.cnt \in 1..trk.cnt
      BY <2>1
    <3> QED BY <1>0, <2>1, <3>1 DEF RunInv, Collecting
  <2>4. ~fifo[1].src[3] => fifo[1].src[2] >= FrameRows
    <3>1. ~fifo[1].src[3] /\ fifo[1].src[2] < FrameRows => Before(1).src[2] = fifo[1].src[2]
      BY <1>1, <1>2, <1>6, <2>2 DEF Spoiled
    <3>2. Before(1).src[2] # fifo[1].src[2]
      BY <2>1, <2>2
    <3> QED BY <1>2, <1>3, <3>1, <3>2
  <2>5. trk.cnt = 1 => ~LastAgain(trk.rows[1])
    <3>1. trk.cnt = 1 => fifo[1].src[2] = trk.rows[1][2] + 1 /\ trk.rows[1][2] \in Nat
      BY <2>1, <2>2
    <3>2. LastAgain(trk.rows[1]) => trk.rows[1][2] = cur.size.h - 1
      BY DEF LastAgain
    <3> QED BY <1>3, <1>4, <3>1, <3>2
  <2>6. ASSUME NEW i \in 1..trk'.cnt, ~trk'.rows[i][3] PROVE trk'.rows[i][2] >= FrameRows
    <3>1. CASE i = trk.cnt + 1
      BY <2>1, <2>4, <2>6, <3>1
    <3>2. CASE i # trk.cnt + 1
      <4>1. i \in 1..trk.cnt
        BY <2>1, <3>2
      <4>2. trk'.rows[i] = trk.rows[i]
        BY <2>1, <4>1
      <4>3. trk.rows[i][2] >= FrameRows \/ (trk.cnt = 1 /\ LastAgain(trk.rows[1]))
        BY <1>1, <2>3, <2>6, <4>1, <4>2 DEF Collected
      <4> QED BY <2>5, <4>2, <4>3
    <3> QED BY <3>1, <3>2
  <2>7. trk'.rows[1][2] = FrameOy
    <3>1. trk'.rows[1] = trk.rows[1]
      <4>1. 1 \in 1..trk.cnt
        BY <2>1
      <4> QED BY <2>1, <4>1
    <3>2. CASE trk.cnt > 1
      BY <1>1, <2>3, <3>1, <3>2 DEF Collected
    <3>3. CASE trk.cnt = 1
      <4>1. /\ Base(Before(1)) = trk.rows[1][2] /\ Before(1).src = trk.rows[1]
            /\ trk.rows[1][2] \in Nat /\ fifo[1].src[2] = trk.rows[1][2] + 1
        BY <2>1, <2>2, <3>3 DEF Base
      <4>2. Base(Before(1)) = FrameOy \/ trk.rows[1][2] = 0
        <5>1. 1 \in 1..(Len(fifo) + 1)
          BY <1>2
        <5>2. \/ Base(Before(1)) = FrameOy \/ Before(1).src[2] = 0
              \/ LastAgain(Before(1).src)
          BY <1>1, <2>1, <2>2, <5>1 DEF Origins
        <5> QED BY <2>5, <3>3, <4>1, <5>2
      <4>3. CASE trk.rows[1][2] = 0
        <5>1. Before(2) = Spot(fifo[1]) /\ 2 \in 1..(Len(fifo) + 1)
          BY <1>2 DEF Before
        <5>2. Before(2) # NoWord /\ Before(2).src = fifo[1].src /\ Base(Before(2)) = Base(fifo[1])
          BY <5>1, SpotRow DEF Base
        <5>3. Base(fifo[1]) = FrameOy \/ fifo[1].src[2] = 0 \/ LastAgain(fifo[1].src)
          BY <1>1, <1>2, <5>1, <5>2 DEF Origins
        <5>4. fifo[1].src[2] = 1 /\ ~LastAgain(fifo[1].src)
          BY <1>3, <4>1, <4>3 DEF LastAgain
        <5>5. Base(Before(1)) = Base(fifo[1])
          BY <1>0, <1>2, <1>6, <2>2 DEF PathInv, FifoJoined, IsRow
        <5> QED BY <3>1, <4>1, <5>3, <5>4, <5>5
      <4> QED BY <3>1, <4>1, <4>2, <4>3
    <3> QED BY <2>1, <3>2, <3>3
  <2> QED BY <2>6, <2>7
<1> QED BY <1>5, <1>6

LEMMA OwnTrackRow ==
  ASSUME ROI > 2, OwnContext, RunInv', TrackRow, UNCHANGED <<cur, upl>>
  PROVE  OwnInv'
<1>0. BoardInv /\ BoardInv' /\ RunInv
  BY DEF OwnContext
<1>1. UNCHANGED <<state, pkt, p, f, n, q, l, res>>
  BY DEF TrackRow, rxVars, frameVars
<1>2. Line' = Line /\ (Line => SameLine) /\ FrameRows' = FrameRows
  <2>1. Awaiting' = Awaiting
    BY <1>1 DEF Awaiting
  <2> QED BY <1>0, <1>1, <2>1, LineKept
<1>3. Keeps
  BY <1>1, KeepsBoard DEF Held
<1>4. Shifted
  BY <1>0, RowTakenShifts DEF Shifted
<1>5. Line => NewestRow(FrameRows)'
  BY <1>1, <1>2, <1>3, <1>4, NewestKept
<1>6. Line => Collected(FrameOy, FrameRows)'
  BY <1>2, CollectedRow
<1>7. Receptive' = Receptive /\ l' = l /\ res' = res
  BY <1>1 DEF Receptive, Passed, Underway, Awaiting
<1> QED BY <1>2, <1>4, <1>5, <1>6, <1>7, OwnKept

LEMMA OwnAnswerStep ==
  ASSUME ROI > 2, OwnContext, Answer, UNCHANGED <<cur, upl>>
  PROVE  OwnInv'
<1>0. BoardInv /\ BoardInv' /\ RunInv /\ PathInv /\ ~upl.gap
  BY DEF OwnContext
<1>1. UNCHANGED <<state, pkt, p, f, n, q, l, fifo>>
  BY DEF Answer, rxVars, frameVars
<1>2. trk.busy /\ ~trk'.inorder /\ res'.basis.rows = trk.rows
  BY <1>0 DEF Answer, BoardInv, TrackerType
<1>3. Line' = Line /\ (Line => SameLine) /\ FrameRows' = FrameRows
  <2>1. Awaiting' = Awaiting
    BY <1>1 DEF Awaiting
  <2> QED BY <1>0, <1>1, <2>1, LineKept
<1>4. Keeps
  BY <1>1, KeepsBoard DEF Held
<1>5. Shifted
  BY <1>0, <1>1, <1>2, SamePath DEF Shifted
<1>6. Line => NewestRow(FrameRows)'
  BY <1>1, <1>3, <1>4, <1>5, NewestKept
<1>7. Collected(FrameOy, FrameRows)'
  BY <1>2 DEF Collected, Collecting
<1>8. Line => ResMeets(FrameOy, FrameRows)'
  <2> SUFFICES ASSUME Line PROVE Meets(trk.rows, FrameOy, FrameRows)
    BY <1>2, <1>3 DEF ResMeets, Meets, SameLine
  <2>1. Collecting /\ trk.cnt = ROI
    BY <1>0, <1>2 DEF PathInv, AnswersRun, RunInv
  <2>2. Collected(FrameOy, FrameRows)
    BY DEF OwnContext, OwnInv
  <2>3. trk.cnt > 1 /\ trk.cnt # 1
    BY <2>1, RowStatsAssumption
  <2> QED BY <2>1, <2>2, <2>3 DEF Collected, Meets
<1>9. Receptive' = Receptive /\ l' = l
  BY <1>1 DEF Receptive, Passed, Underway, Awaiting
<1> QED BY <1>3, <1>5, <1>6, <1>7, <1>8, <1>9, OwnKept

\* The pending frame, the answer latch and the transmitter.
LEMMA OwnSlot ==
  ASSUME ROI > 2, OwnContext, SlotStep \/ TimeOut \/ TxDone, UNCHANGED <<cur, upl, trk>>
  PROVE  OwnInv'
<1>0. BoardInv /\ BoardInv'
  BY DEF OwnContext
<1>1. UNCHANGED <<state, pkt, p, f, n, fifo>> /\ (res' = res \/ res' = NoAnswer)
  BY DEF SlotStep, TakeAnswer, LatchAnswer, EmitPending, TimeOut, TxDone, rxVars, frameVars
<1>2. CASE TakeAnswer \/ TimeOut
  <2>1. q.valid /\ ~Awaiting'
    BY <1>0, <1>2 DEF TakeAnswer, TimeOut, AnswerDue, Awaiting, BoardInv, TypeOK, Entry
  <2>2. state # "Slot" /\ ~InLine
    BY <2>1 DEF OwnContext, OnceInv
  <2>3. ~Line'
    BY <1>1, <2>1, <2>2 DEF Line, InLine, Complete
  <2> QED BY <2>3 DEF OwnInv
<1>3. CASE LatchAnswer \/ EmitPending \/ TxDone
  <2>1. q'.oy = q.oy /\ Awaiting' = Awaiting
    BY <1>0, <1>3 DEF LatchAnswer, EmitPending, SlotFreed, TxDone, Awaiting, BoardInv, TypeOK, Entry
  <2>2. Line' = Line /\ (Line => SameLine) /\ FrameRows' = FrameRows
    BY <1>0, <1>1, <2>1, LineKept
  <2>3. Keeps
    BY <1>1, KeepsBoard DEF Held
  <2>4. Shifted
    BY <1>0, <1>1, SamePath DEF Shifted
  <2>5. Line => NewestRow(FrameRows)'
    BY <1>1, <2>2, <2>3, <2>4, NewestKept
  <2>6. Line => Collected(FrameOy, FrameRows)'
    BY <2>2, CollectedKept
  <2>7. Receptive' /\ l'.valid =>
          (Receptive /\ l' = l) \/ (res # NoAnswer /\ l'.basis = res.basis)
    <3>1. CASE LatchAnswer
      BY <3>1 DEF LatchAnswer
    <3>2. CASE EmitPending \/ TxDone
      BY <1>1, <2>1, <3>2 DEF EmitPending, TxDone, Receptive, Passed, Underway
    <3> QED BY <1>3, <3>1, <3>2
  <2>8. Line' => res' = res \/ ResMeets(FrameOy, FrameRows)'
    BY <1>1 DEF ResMeets, NoAnswer
  <2> QED BY <2>2, <2>4, <2>5, <2>6, <2>7, <2>8, OwnKept
<1> QED BY <1>2, <1>3 DEF SlotStep

\* The host sends a row, a command or the next frame.
LEMMA OwnHost ==
  ASSUME Lockstep, InOrderFaults, ROI > 2, BoardInv, BoardInv', TurnInv, TurnInv', HeaderInv,
         RunInv, RowsInv, PathInv, OnceInv, OwnInv, HostStep
  PROVE  OwnInv'
<1>1. CASE RowOut \/ RowLost \/ SendPosition \/ LoseChunk
  <2> SUFFICES ASSUME ~upl'.gap PROVE OwnInv'
    BY DEF OwnInv
  <2>1. ~upl.gap
    BY <1>1 DEF RowOut, RowLost, SendPosition, LoseChunk, Fault, BoardInv, HostType
  <2>2. Keeps /\ cur'.fid = cur.fid /\ cur'.size = cur.size
    BY <1>1, KeepsHost
  <2>3. OwnContext
    BY <2>1, <2>2 DEF OwnContext
  <2>4. UNCHANGED <<f, n, q, l, fifo, res, trk>> /\ (state' = "Slot") = (state = "Slot")
        /\ (Passed' => Passed)
    <3>1. \/ UNCHANGED vars
          \/ \E pk \in Packets : RxHeader(pk)
      BY <1>1, HostStepMaps DEF BoardInv
    <3>2. trk' = trk
      BY HostStepMaps DEF BoardInv
    <3>3. CASE UNCHANGED vars
      BY <3>2, <3>3 DEF vars, rxVars, frameVars, Passed
    <3>4. ASSUME NEW pk \in Packets, RxHeader(pk)
          PROVE  /\ UNCHANGED <<f, n, q, l, fifo, res>> /\ state' # "Slot" /\ state = "Idle"
                 /\ ~Passed'
      <4>1. pk.kind \in {"row", "pos", "tmpl", "other"}
        BY DEF Packets
      <4>2. UNCHANGED <<f, n, q, l, fifo, res>> /\ state' # "Slot" /\ state = "Idle" /\ ~p'.inwin
        BY <3>4, <4>1 DEF RxHeader, AfterHeader, frameVars, FreshRow
      <4> QED BY <4>2 DEF Passed
    <3> QED BY <3>1, <3>2, <3>3, <3>4
  <2>5. Line' = Line /\ (Line => SameLine) /\ FrameRows' = FrameRows
    <3>1. Awaiting' = Awaiting /\ q'.oy = q.oy
      BY <2>4 DEF Awaiting
    <3> QED BY <2>2, <2>4, <3>1, LineKept
  <2>6. Shifted
    BY <2>4, SamePath DEF Shifted
  <2>7. Line => NewestRow(FrameRows)'
    BY <2>2, <2>3, <2>4, <2>5, <2>6, NewestKept
  <2>8. Line => Collected(FrameOy, FrameRows)'
    BY <2>3, <2>4, <2>5, CollectedKept
  <2>9. Receptive' => Receptive
    BY <2>2, <2>4 DEF Receptive, Underway, Awaiting
  <2>10. res' = res /\ l' = l
    BY <2>4
  <2> QED BY <2>3, <2>5, <2>6, <2>7, <2>8, <2>9, <2>10, OwnKept
<1>2. CASE SendChunk
  <2>1. upl'.gap
    BY <1>2 DEF SendChunk
  <2> QED BY <2>1 DEF OwnInv
<1>3. CASE StartFrame
  <2>1. /\ state = "Idle" /\ ~q.valid /\ UNCHANGED <<state, f, q>> /\ cur'.fid = cur.fid + 1
    BY <1>3 DEF StartFrame, MaySend, BoardQuiet, vars, rxVars, frameVars
  <2>2. f.active => f.fid # cur'.fid
    <3>1. f.active => f.fid \in 1..cur.fid
      BY DEF TurnInv
    <3> QED BY <2>1, <3>1, HostNumbers
  <2>3. ~Line'
    BY <2>1, <2>2 DEF Line, InLine, Complete, Awaiting
  <2> QED BY <2>3 DEF OwnInv
<1> QED BY <1>1, <1>2, <1>3, RowCases DEF RowsInv

\* A row of this frame in the path is one the host has sent.
LEMMA BeforeSent ==
  ASSUME BoardInv, TurnInv, RunInv, PathInv, ~upl.gap, NEW i \in 1..(Len(fifo) + 1),
         Before(i) # NoWord, Before(i).src[1] = cur.fid
  PROVE  Before(i).src \in Source /\ Before(i).src[2] \in Nat /\ SentRow(Before(i).src)
<1>1. Before(i).src \in Source
  BY BeforeType
<1>2. Before(i).src[2] \in Nat
  BY <1>1 DEF Source
<1>3. Len(fifo) \in Nat
  BY DEF BoardInv, TypeOK
<1>4. CASE i > 1
  <2>1. i - 1 \in 1..Len(fifo) /\ Before(i) = Spot(fifo[i - 1])
    BY <1>3, <1>4 DEF Before
  <2>2. SentRow(fifo[i - 1].src)
    BY <2>1 DEF PathInv, FifoSent
  <2> QED BY <1>1, <1>2, <2>1, <2>2, SpotRow
<1>5. CASE ~(i > 1)
  <2>1. trk.inorder
    BY <1>5 DEF Before
  <2>2. Before(i).src = trk.rows[trk.cnt]
    BY <1>5, <2>1 DEF Before
  <2>3. trk.cnt \in 1..trk.cnt /\ trk.rows[trk.cnt][1] = trk.rows[1][1]
    <3>1. trk.cnt > 0 /\ trk.cnt \in Int
      BY <2>1, AnswerRows DEF RunInv
    <3>2. trk.cnt \in 1..trk.cnt
      BY <3>1
    <3> QED BY <2>1, <3>2 DEF RunInv
  <2>4. Collecting
    BY <2>1, <2>2, <2>3 DEF Collecting
  <2>5. SentRow(trk.rows[trk.cnt])
    BY <2>3, <2>4 DEF PathInv, CollectedSent
  <2> QED BY <1>1, <1>2, <2>2, <2>5
<1> QED BY <1>4, <1>5

\* What the row in hand is to the frame, once its word is put into the FIFO.
LEMMA RowPut ==
  ASSUME ROI > 2, OwnContext, Line, p.word # NoWord
  PROVE  /\ InLine => Base(p.word) = FrameOy
         /\ ~InLine => LastAgain(p.word.src)
         /\ Underway => p.word.src[2] >= FrameRows - 1
         /\ ~p.word.src[3] /\ p.word.src[2] < FrameRows =>
              IF p.word.newf THEN LastAgain(p.word.src)
              ELSE Newest # NoWord => Newest.src[2] = p.word.src[2]
<1>0. /\ BoardInv /\ TurnInv /\ RunInv /\ RowsInv /\ PathInv /\ ~upl.gap /\ HeaderInv
      /\ WordInHand /\ NewestOfFrame
  BY DEF OwnContext, PathInv
<1>1. /\ state = "Body" /\ pkt.kind = "row" /\ pkt.fid = cur.fid
      /\ p.word.src = <<pkt.fid, pkt.row, Good>>
      /\ p.word.newf = StartsFrame
      /\ SentRow(p.word.src) /\ Base(p.word) = p.oy
      /\ ~NewFrame => f.active /\ f.fid = cur.fid /\ p.oy = f.oy
      /\ p.new = NewFrame /\ pkt.row >= p.oy /\ pkt.row < p.oy + ROI
  BY <1>0, WordOfRow
<1>2. Held("row") /\ p.word.src[2] = pkt.row
  BY <1>1 DEF Held
<1>3. pkt.row \in Nat /\ pkt.row < cur.size.h
  BY <1>0, <1>1, <1>2, HostNumbers DEF SentRow
<1>4. FrameRows \in Nat /\ f.rows \in Nat /\ f.oy \in Nat /\ cur.size.h \in Nat /\ ROI \in Nat
  BY <1>0, FrameNumbers, HostNumbers
<1>5. Underway /\ Newest # NoWord =>
        Newest.src[2] \in Nat /\ Newest.src[2] <= pkt.row
  <2> SUFFICES ASSUME Underway, Newest # NoWord
               PROVE  Newest.src[2] \in Nat /\ Newest.src[2] <= pkt.row
    OBVIOUS
  <2>1. Newest.src[1] = cur.fid
    BY <1>0 DEF NewestOfFrame, IsRow
  <2>2. Len(fifo) + 1 \in 1..(Len(fifo) + 1)
    BY <1>0 DEF BoardInv, TypeOK
  <2>3. SentRow(Newest.src) /\ Newest.src[2] \in Nat
    BY <1>0, <2>1, <2>2, BeforeSent DEF Newest
  <2> QED BY <1>2, <2>3 DEF SentRow
<1>6. ~StartsFrame => Underway /\ p.oy = f.oy
  BY <1>1 DEF StartsFrame, Underway
<1>7. NewestRow(FrameRows)
  BY <1>0 DEF OwnContext, OwnInv
<1>8. CASE InLine
  <2>1. ~NewFrame /\ p.oy = f.oy /\ FrameOy = f.oy /\ FrameRows = f.rows
    BY <1>1, <1>8 DEF InLine, NewFrame, FrameOy, FrameRows
  <2>2. f.rows - 1 <= pkt.row
    BY <1>0, <1>2, <1>8 DEF InLine, RowsInv, OpenInOrder
  <2>3. ASSUME pkt.row < f.rows PROVE ~StartsFrame
    <3>1. f.rows > f.oy
      BY <1>1, <1>3, <1>4, <2>1, <2>3
    <3>2. f.started
      BY <1>0, <1>8, <3>1 DEF InLine, HeaderInv
    <3> QED BY <1>1, <2>1, <3>2 DEF StartsFrame
  <2>4. ASSUME pkt.row < f.rows, Newest # NoWord PROVE Newest.src[2] = pkt.row
    <3>1. Underway
      BY <1>6, <2>3, <2>4
    <3>2. f.rows <= f.oy + ROI
      BY <1>1, <1>3, <1>4, <2>1, <2>2
    <3>3. Newest.src[2] >= f.rows - 1
      BY <1>7, <2>1, <2>4, <3>1, <3>2 DEF NewestRow
    <3>4. Newest.src[2] \in Nat /\ Newest.src[2] <= pkt.row
      BY <1>5, <2>4, <3>1
    <3> QED BY <1>3, <1>4, <2>2, <2>4, <3>3, <3>4
  <2>5. pkt.row >= f.rows - 1
    BY <1>3, <1>4, <2>2
  <2> QED BY <1>1, <1>2, <1>8, <2>1, <2>3, <2>4, <2>5
<1>9. CASE ~InLine
  <2>1. Awaiting /\ Complete /\ q.valid
    BY <1>1, <1>9 DEF Line, Complete, Awaiting
  <2>2. pkt.row >= cur.size.h - 1
    BY <1>2, <2>1 DEF OwnContext, OnceInv
  <2>3. pkt.row = cur.size.h - 1 /\ FrameRows = cur.size.h
    BY <1>3, <1>4, <1>9, <2>2 DEF FrameRows
  <2>4. LastAgain(p.word.src)
    BY <1>2, <2>1, <2>3 DEF LastAgain
  <2>5. ASSUME ~StartsFrame, Newest # NoWord PROVE Newest.src[2] = pkt.row
    <3>1. Underway /\ p.oy = f.oy
      BY <1>6, <2>5
    <3>2. FrameRows <= f.oy + ROI
      BY <1>1, <1>3, <1>4, <2>3, <3>1
    <3>3. Newest.src[2] >= FrameRows - 1
      BY <1>7, <2>5, <3>1, <3>2 DEF NewestRow
    <3>4. Newest.src[2] \in Nat /\ Newest.src[2] <= pkt.row
      BY <1>5, <2>5, <3>1
    <3> QED BY <1>3, <1>4, <2>3, <3>3, <3>4
  <2>6. pkt.row >= FrameRows - 1
    BY <1>3, <1>4, <2>3
  <2> QED BY <1>1, <1>2, <1>9, <2>4, <2>5, <2>6
<1> QED BY <1>8, <1>9

LEMMA OwnPut ==
  ASSUME ROI > 2, OwnContext, UNCHANGED <<trk, upl, cur>>,
         WindowEnd \/ PayloadEnd, p.word # NoWord, fifo' = Append(fifo, p.word)
  PROVE  OwnInv'
<1> DEFINE w == p.word
<1>0. BoardInv /\ BoardInv' /\ TurnInv /\ RowsInv /\ WordInHand /\ ~upl.gap
  BY DEF OwnContext, PathInv
<1>1. w \in Word /\ state = "Body" /\ pkt.kind = "row"
  BY <1>0, WordOfRow
<1>2. UNCHANGED <<pkt, f, n, q, l, res>> /\ state' \in {"Body", "Commit"} /\ p'.inwin = p.inwin
  BY <1>0 DEF WindowEnd, PayloadEnd, BoardInv, TypeOK, frameVars
<1>3. /\ Len(fifo) \in Nat /\ Len(fifo') = Len(fifo) + 1
      /\ \A i \in 1..Len(fifo) : fifo'[i] = fifo[i]
      /\ fifo'[Len(fifo) + 1] = w
      /\ \A i \in 1..(Len(fifo) + 1) : Before(i)' = Before(i)
      /\ Newest' = Spot(w)
  BY <1>0, <1>1, WordPut
<1>4. Line' = Line /\ (Line => SameLine) /\ FrameRows' = FrameRows
  <2>1. Awaiting' = Awaiting /\ q'.oy = q.oy /\ (state' = "Slot") = (state = "Slot")
    BY <1>1, <1>2 DEF Awaiting
  <2> QED BY <1>0, <1>2, <2>1, LineKept
<1> SUFFICES ASSUME Line
             PROVE  /\ Origins(FrameOy)' /\ Spoiled(FrameRows)' /\ NewestRow(FrameRows)'
                    /\ Collected(FrameOy, FrameRows)'
                    /\ ResMeets(FrameOy, FrameRows)' /\ LatchMeets(FrameOy, FrameRows)'
  BY <1>4 DEF OwnInv
<1>5. FrameOy' = FrameOy /\ FrameRows' = FrameRows /\ Complete' = Complete
  BY <1>1, <1>2, <1>4 DEF SameLine, Complete, Awaiting
<1>6. \A src : LastAgain(src)' = (Complete /\ src[2] = cur.size.h - 1)
  BY <1>5 DEF LastAgain
<1>7. /\ InLine => Base(w) = FrameOy
      /\ ~InLine => LastAgain(w.src)
      /\ Underway => w.src[2] >= FrameRows - 1
      /\ ~w.src[3] /\ w.src[2] < FrameRows =>
           IF w.newf THEN LastAgain(w.src)
           ELSE Newest # NoWord => Newest.src[2] = w.src[2]
  BY RowPut
<1>8. /\ Origins(FrameOy) /\ Spoiled(FrameRows)
      /\ ResMeets(FrameOy, FrameRows) /\ LatchMeets(FrameOy, FrameRows)
  BY <1>0 DEF OwnContext, OwnInv
<1>9. Newest' # NoWord /\ Newest'.src = w.src /\ Base(Newest') = Base(w)
  BY <1>3, SpotRow DEF Base
<1> HIDE DEF w
<1>10. Origins(FrameOy)'
  <2> SUFFICES ASSUME NEW i \in 1..(Len(fifo') + 1), Before(i)' # NoWord,
                      Before(i)'.src[1] = cur.fid
               PROVE  \/ Base(Before(i)') = FrameOy \/ Before(i)'.src[2] = 0
                      \/ Complete /\ Before(i)'.src[2] = cur.size.h - 1
    BY <1>5 DEF Origins, LastAgain, Base, NoWord
  <2>1. i \in 1..(Len(fifo) + 1) \/ i = Len(fifo') + 1
    BY <1>3
  <2>2. CASE i \in 1..(Len(fifo) + 1)
    <3>1. Before(i)' = Before(i)
      BY <1>3, <2>2
    <3> QED BY <1>8, <2>2, <3>1 DEF Origins, LastAgain
  <2>3. CASE i = Len(fifo') + 1
    <3>1. Before(i)' = Newest'
      BY <2>3 DEF Newest
    <3> QED BY <1>7, <1>9, <3>1 DEF LastAgain
  <2> QED BY <2>1, <2>2, <2>3
<1>11. Spoiled(FrameRows)'
  <2> SUFFICES ASSUME NEW i \in 1..Len(fifo'), ~fifo'[i].src[3], fifo'[i].src[2] < FrameRows
               PROVE  IF fifo'[i].newf THEN LastAgain(fifo'[i].src)
                      ELSE Before(i)' # NoWord => Before(i)'.src[2] = fifo'[i].src[2]
    BY <1>5 DEF Spoiled, LastAgain, NoWord
  <2>1. i \in 1..(Len(fifo) + 1)
    BY <1>3
  <2>2. Before(i)' = Before(i)
    BY <1>3, <2>1
  <2>3. CASE i \in 1..Len(fifo)
    <3>1. fifo'[i] = fifo[i]
      BY <1>3, <2>3
    <3> QED BY <1>8, <2>2, <2>3, <3>1 DEF Spoiled
  <2>4. CASE i = Len(fifo) + 1
    <3>1. fifo'[i] = w /\ Before(i)' = Newest
      BY <1>3, <2>2, <2>4 DEF Newest
    <3> QED BY <1>7, <3>1
  <2> QED BY <1>3, <2>1, <2>3, <2>4
<1>12. NewestRow(FrameRows)'
  <2>1. Underway' = Underway
    BY <1>2 DEF Underway
  <2> QED BY <1>2, <1>5, <1>7, <1>9, <2>1 DEF NewestRow
<1>13. Collected(FrameOy, FrameRows)'
  BY <1>4, CollectedKept
<1>14. ResMeets(FrameOy, FrameRows)'
  BY <1>2, <1>5, <1>8 DEF ResMeets, Meets
<1>15. LatchMeets(FrameOy, FrameRows)'
  <2>1. Receptive' => Receptive
    BY <1>1, <1>2 DEF Receptive, Passed, Underway, Awaiting
  <2> QED BY <1>2, <1>5, <1>8, <2>1 DEF LatchMeets, Meets
<1> QED BY <1>10, <1>11, <1>12, <1>13, <1>14, <1>15

\* A row of the window of the frame that commits is the newest in the path.
LEMMA CommittedNewest ==
  ASSUME OwnContext, CommitRow, Newest # NoWord, p.inwin
  PROVE  Newest.src[2] = pkt.row
<1>1. pkt.kind = "row" /\ Good /\ state = "Commit" /\ p.word = NoWord
  BY OpenAfterRow DEF OwnContext, TurnInv
<1>2. Forwarded
  BY <1>1 DEF Forwarded, Passed
<1>3. Newest.src = <<pkt.fid, pkt.row, Good>>
  BY <1>2 DEF OwnContext, PathInv, NewestInHand
<1> QED BY <1>3

\* The row is one more of a frame in line or complete.
LEMMA OwnNextRow ==
  ASSUME OwnContext, CommitRow, UNCHANGED <<trk, upl, cur>>, Line' => SameLine,
         Line' => NewestRow(FrameRows)'
  PROVE  OwnInv'
<1>0. /\ BoardInv /\ TurnInv /\ HeaderInv /\ RowsInv /\ PathInv /\ ~upl.gap
  BY DEF OwnContext
<1>1. /\ UNCHANGED <<pkt, p, fifo, q, l, res>> /\ state' \in {"Idle", "Slot"}
      /\ state = "Commit" /\ (f' = FrameWithRow \/ ~f'.active)
  BY <1>0, OpenAfterRow DEF CommitRow
<1>2. Shifted
  BY <1>0, <1>1, SamePath DEF Shifted
<1>3. Receptive' => Receptive
  <2>1. FrameWithRow.started => Receptive
    BY <1>0, StartedRow DEF Receptive
  <2>2. Underway' => FrameWithRow.started
    BY <1>1 DEF Underway
  <2>3. state' = "Slot" => FrameWithRow.started
    BY <1>0, SlotStarted
  <2>4. ~Passed' /\ Awaiting' = Awaiting
    BY <1>1 DEF Passed, Awaiting
  <2> QED BY <2>1, <2>2, <2>3, <2>4 DEF Receptive
<1>4. Line' => Collected(FrameOy, FrameRows)'
  BY CollectedKept
<1>5. res' = res /\ l' = l
  BY <1>1
<1> QED BY <1>2, <1>3, <1>4, <1>5, OwnKept

\* Row 0 opens the frame: the path holds no other row of it.
LEMMA OwnFirstRow ==
  ASSUME ROI > 2, OwnContext, CommitRow, UNCHANGED <<trk, upl, cur>>, ~f.active, ~Awaiting,
         InLine', state' # "Slot"
  PROVE  OwnInv'
<1>0. /\ BoardInv /\ BoardInv' /\ TurnInv /\ RunInv /\ HeaderInv /\ RowsInv /\ PathInv
      /\ ~upl.gap
  BY DEF OwnContext
<1>1. /\ UNCHANGED <<pkt, p, fifo, q, l, res>> /\ state = "Commit" /\ Good
      /\ f' = FrameWithRow /\ FrameWithRow.rows = 1 /\ Held("row")
  <2>1. f' = FrameWithRow
    BY <1>0, OpenAfterRow DEF InLine
  <2> QED BY <1>0, <2>1, OpenAfterRow DEF CommitRow, Held
<1>2. pkt.row = 0
  <2>1. FrameWithRow.inorder = (pkt.row = 0) /\ FrameWithRow.inorder
    BY <1>0, <1>1, OpenAfterRow DEF InLine
  <2> QED BY <2>1, Zenon
<1>3. FrameRows' = 1
  BY <1>1 DEF FrameRows
<1>4. ASSUME NEW src \in Source, SentRow(src) PROVE src[2] = 0 /\ src[3]
  <2>1. src[2] \in Nat /\ src[2] <= 0 /\ (~src[3] => src[2] < 0)
    BY <1>1, <1>2, <1>4 DEF SentRow, Source
  <2> QED BY <2>1
<1>5. ROI \in Nat /\ ROI > 2
  BY RowStatsAssumption
<1>6. \A rows \in Seq(Source) : ~IsRun(rows)
  <2> SUFFICES ASSUME NEW rows \in Seq(Source), IsRun(rows) PROVE FALSE
    OBVIOUS
  <2>1. 1 \in 1..ROI /\ 2 \in 1..ROI /\ Len(rows) = ROI
    BY <1>5 DEF IsRun
  <2>2. rows[1] \in Source /\ rows[2] \in Source
    BY <2>1
  <2>3. SentRow(rows[1]) /\ SentRow(rows[2]) /\ rows[2][2] = rows[1][2] + 2 - 1
    BY <2>1 DEF IsRun
  <2>4. rows[1][2] = 0 /\ rows[2][2] = 0
    BY <1>4, <2>2, <2>3
  <2> QED BY <2>3, <2>4
<1>7. ASSUME NEW i \in 1..(Len(fifo) + 1), Before(i) # NoWord, Before(i).src[1] = cur.fid
      PROVE  Before(i).src[2] = 0
  BY <1>0, <1>4, <1>7, BeforeSent
<1>8. Origins(FrameOy)'
  <2> SUFFICES ASSUME NEW i \in 1..(Len(fifo) + 1), Before(i) # NoWord,
                      Before(i).src[1] = cur.fid
               PROVE  Before(i).src[2] = 0
    BY <1>1 DEF Origins, Before, Spot
  <2> QED BY <1>7
<1>9. Spoiled(FrameRows)'
  <2> SUFFICES ASSUME NEW i \in 1..Len(fifo) PROVE fifo[i].src[3]
    BY <1>1 DEF Spoiled
  <2>1. fifo[i].src \in Source /\ SentRow(fifo[i].src)
    BY <1>0, FifoRow DEF PathInv, FifoSent
  <2> QED BY <1>4, <2>1
<1>10. NewestRow(FrameRows)'
  <2> SUFFICES ASSUME Underway', Newest # NoWord PROVE Newest.src[2] >= 1 - 1
    BY <1>1, <1>3 DEF NewestRow, Newest, Before, Spot
  <2>1. FrameWithRow.started
    BY <1>1 DEF Underway
  <2>2. Newest.src[1] = cur.fid
    BY <1>0, <2>1, StartedRow DEF IsRow
  <2>3. Len(fifo) + 1 \in 1..(Len(fifo) + 1)
    BY <1>0 DEF BoardInv, TypeOK
  <2>4. Newest.src[2] = 0
    BY <1>7, <2>2, <2>3 DEF Newest
  <2> QED BY <2>4
<1>11. Collected(FrameOy, FrameRows)'
  <2> SUFFICES ASSUME Collecting
               PROVE  ~(trk.cnt > 1) /\ \A i \in 1..trk.cnt : trk.rows[i][3]
    BY DEF Collected, Collecting
  <2>1. ASSUME NEW i \in 1..trk.cnt PROVE trk.rows[i][2] = 0 /\ trk.rows[i][3]
    <3>1. trk.rows[i] \in Source /\ SentRow(trk.rows[i])
      BY <1>0, AnswerRows DEF PathInv, CollectedSent, RunInv, Collecting
    <3> QED BY <1>4, <3>1
  <2>2. ASSUME trk.cnt > 1 PROVE FALSE
    <3>1. 1 \in 1..trk.cnt /\ 2 \in 1..trk.cnt
      BY <1>0, <2>2, AnswerRows
    <3>2. trk.rows[2][2] = trk.rows[1][2] + 2 - 1
      BY <1>0, <3>1 DEF RunInv, Collecting
    <3>3. trk.rows[1][2] = 0 /\ trk.rows[2][2] = 0
      BY <2>1, <3>1
    <3> QED BY <3>2, <3>3
  <2> QED BY <2>1, <2>2
<1>12. ResMeets(FrameOy, FrameRows)'
  <2>1. res = NoAnswer
    BY <1>0, <1>6, AnswerRows DEF PathInv, AnswersRun
  <2> QED BY <1>1, <2>1 DEF ResMeets, NoAnswer
<1>13. LatchMeets(FrameOy, FrameRows)'
  <2>1. ~(Receptive /\ l.valid)
    BY <1>0, <1>6, AnswerRows DEF PathInv, AnswersRun
  <2>2. Receptive' => Receptive
    <3>1. FrameWithRow.started => Receptive
      BY <1>0, StartedRow DEF Receptive
    <3>2. ~Passed' /\ Awaiting' = Awaiting
      BY <1>1 DEF Passed, Awaiting, InLine, CommitRow
    <3> QED BY <1>1, <3>1, <3>2 DEF Receptive, Underway
  <2> QED BY <1>1, <2>1, <2>2 DEF LatchMeets
<1> QED BY <1>8, <1>9, <1>10, <1>11, <1>12, <1>13 DEF OwnInv

LEMMA OwnCommit ==
  ASSUME ROI > 2, OwnContext, OnceInv', CommitRow, UNCHANGED <<trk, upl, cur>>
  PROVE  OwnInv'
<1>0. /\ BoardInv /\ BoardInv' /\ TurnInv /\ HeaderInv /\ RowsInv /\ PathInv /\ OnceInv
      /\ ~upl.gap
  BY DEF OwnContext
<1>1. /\ UNCHANGED <<pkt, p, fifo, q, l, res>> /\ state' \in {"Idle", "Slot"}
      /\ state = "Commit" /\ pkt.kind = "row" /\ Good /\ Held("row")
      /\ f' = FrameWithRow \/ ~f'.active
  BY <1>0, OpenAfterRow DEF CommitRow, Held
<1>2. Awaiting' = Awaiting /\ Newest' = Newest
  BY <1>1 DEF Awaiting, Newest, Before, Spot
<1>3. /\ pkt.row \in Nat /\ FrameRows \in Nat /\ f.rows \in Nat /\ f.oy \in Nat
      /\ p.oy \in Nat /\ cur.size.h \in Nat /\ ROI \in Nat
  BY <1>0, <1>1, FrameNumbers, HostNumbers
<1>4. FrameRows' \in Nat
  <2>1. f'.rows \in Nat
    BY <1>0 DEF BoardInv, TypeOK
  <2> QED BY <1>3, <2>1 DEF FrameRows
<1>5. Underway' => f' = FrameWithRow /\ f'.started /\ f'.oy = p.oy /\ FrameWithRow.started
  BY <1>0, <1>1, OpenAfterRow DEF Underway
<1>6. CASE Awaiting
  <2>1. q.valid /\ ~InLine /\ HasRoi(cur.size) /\ pkt.row >= cur.size.h - 1
    BY <1>0, <1>1, <1>6 DEF Awaiting, OnceInv
  <2>2. ~InLine' /\ state' # "Slot"
    BY <1>1, <2>1 DEF OnceInv
  <2>3. FrameOy' = q.oy /\ FrameOy = q.oy /\ FrameRows' = cur.size.h /\ FrameRows = cur.size.h
    BY <1>1, <2>1, <2>2 DEF FrameOy, FrameRows
  <2>4. SameLine
    BY <1>2, <1>3, <1>4, <1>6, <2>3 DEF SameLine, NoneSpoiled, Line, Complete
  <2>5. NewestRow(FrameRows)'
    <3> SUFFICES ASSUME Underway', FrameRows <= f'.oy + ROI, Newest # NoWord
                 PROVE  Newest.src[2] >= FrameRows - 1
      BY <1>2, <2>3 DEF NewestRow, NoWord
    <3>1. CASE p.inwin
      BY <2>1, <2>3, <3>1, CommittedNewest
    <3>2. CASE ~p.inwin
      <4>1. f.active /\ f.fid = cur.fid /\ f.started /\ p.oy = f.oy
        BY <1>0, <1>5, <3>2, OpenAfterRow
      <4>2. Underway /\ f'.oy = f.oy
        BY <1>5, <4>1 DEF Underway
      <4>3. NewestRow(FrameRows)
        BY <1>0, <2>4 DEF OwnContext, OwnInv, SameLine
      <4> QED BY <4>2, <4>3 DEF NewestRow
    <3> QED BY <3>1, <3>2
  <2> QED BY <2>4, <2>5, OwnNextRow
<1>7. CASE ~Awaiting /\ f.active
  <2> SUFFICES ASSUME Line' PROVE SameLine /\ NewestRow(FrameRows)'
    BY OwnNextRow
  <2>1. /\ f.fid = cur.fid /\ p.oy = f.oy /\ FrameWithRow.rows = f.rows + 1
        /\ FrameWithRow.inorder = (f.inorder /\ pkt.row = f.rows) /\ FrameWithRow.oy = p.oy
        /\ FrameWithRow.started = (f.started \/ p.inwin)
    BY <1>0, <1>7, OpenAfterRow
  <2>2. f.size = cur.size
    BY <1>0, <1>7, <2>1 DEF RowsInv, OpenInOrder
  <2>3. /\ FrameWithRow.inorder /\ HasRoi(cur.size) /\ FrameOy' = FrameWithRow.oy
        /\ FrameRows' = FrameWithRow.rows
    <3>1. CASE state' = "Slot"
      <4>1. /\ FrameWithRow.inorder /\ HasRoi(cur.size) /\ n'.oy = FrameWithRow.oy
            /\ FrameWithRow.rows = cur.size.h
        BY <1>0, <3>1, SlotStarted
      <4>2. ~InLine'
        BY <3>1 DEF OnceInv
      <4> QED BY <3>1, <4>1, <4>2 DEF FrameOy, FrameRows
    <3>2. CASE state' # "Slot"
      <4>1. InLine'
        BY <1>2, <1>7, <3>2 DEF Line, Complete
      <4>2. f' = FrameWithRow
        BY <1>1, <4>1 DEF InLine
      <4>3. f'.inorder /\ HasRoi(f'.size) /\ f'.size = cur.size
        BY <1>0, <4>1, <4>2, OpenAfterRow DEF InLine
      <4> QED BY <4>1, <4>2, <4>3 DEF FrameOy, FrameRows
    <3> QED BY <3>1, <3>2
  <2>4. f.inorder /\ pkt.row = f.rows
    BY <2>1, <2>3, Zenon
  <2>5. InLine /\ FrameOy = f.oy /\ FrameRows = f.rows
    BY <1>7, <2>1, <2>2, <2>3, <2>4 DEF InLine, FrameOy, FrameRows
  <2>6. FrameOy' = FrameOy /\ FrameRows' = f.rows + 1
    BY <2>1, <2>3, <2>5
  <2>7. NoneSpoiled
    <3> SUFFICES ASSUME NEW src \in Source, SentRow(src), ~src[3] PROVE src[2] < f.rows
      BY <2>5 DEF NoneSpoiled
    <3> QED BY <1>1, <2>4 DEF SentRow
  <2>8. SameLine
    BY <1>1, <1>3, <1>4, <1>7, <2>5, <2>6, <2>7 DEF SameLine, Line, Complete
  <2>9. NewestRow(FrameRows)'
    <3> SUFFICES ASSUME Underway', FrameRows' <= f'.oy + ROI, Newest # NoWord
                 PROVE  Newest.src[2] >= FrameRows' - 1
      BY <1>2 DEF NewestRow, NoWord
    <3>1. CASE p.inwin
      <4>1. Newest.src[2] = f.rows
        BY <2>4, <3>1, CommittedNewest
      <4> QED BY <1>3, <2>6, <4>1
    <3>2. CASE ~p.inwin
      <4>1. f.started
        BY <1>5, <2>1, <3>2, Zenon
      <4>2. f.rows > f.oy
        BY <1>0, <1>7, <2>1, <2>4, <4>1 DEF RowsInv, OpenInOrder
      <4>3. ~(pkt.row >= p.oy /\ pkt.row < p.oy + ROI)
        BY <1>0, <2>3, <3>2, OpenAfterRow
      <4>4. f.rows + 1 <= f.oy + ROI
        BY <1>5, <2>1, <2>6
      <4> QED BY <1>3, <2>1, <2>4, <4>2, <4>3, <4>4
    <3> QED BY <3>1, <3>2
  <2> QED BY <2>8, <2>9
<1>8. CASE ~Awaiting /\ ~f.active
  <2>1. CASE state' = "Slot"
    <3>1. HasRoi(cur.size) /\ cur.size.h = 1
      BY <1>0, <1>8, <2>1, SlotStarted, OpenAfterRow
    <3> QED BY <1>0, <3>1, BigFrame
  <2>2. CASE state' # "Slot" /\ InLine'
    BY <1>8, <2>2, OwnFirstRow
  <2>3. CASE state' # "Slot" /\ ~InLine'
    BY <1>2, <1>8, <2>3 DEF OwnInv, Line, Complete
  <2> QED BY <2>1, <2>2, <2>3
<1> QED BY <1>6, <1>7, <1>8

LEMMA OwnReceive ==
  ASSUME ROI > 2, OwnContext, OnceInv', ReceiveStep, UNCHANGED <<trk, upl, cur>>
  PROVE  OwnInv'
<1>0. BoardInv /\ BoardInv' /\ TurnInv /\ PathInv /\ ~upl.gap
  BY DEF OwnContext
<1>1. ASSUME pkt' = pkt, state # "Idle", state # "Slot", state' # "Slot", fifo' = fifo, n' = n,
             q' = q, res' = res, f' = f \/ ~(InLine \/ f'.active),
             Receptive' /\ l'.valid => Receptive /\ l' = l
      PROVE  OwnInv'
  <2>1. Line' = Line /\ (Line => SameLine) /\ FrameRows' = FrameRows
    <3>1. Awaiting' = Awaiting /\ q'.oy = q.oy /\ (state' = "Slot") = (state = "Slot")
      BY <1>1 DEF Awaiting
    <3>2. f' = f \/ ~(InLine \/ InLine')
      BY <1>1 DEF InLine
    <3> QED BY <1>0, <1>1, <3>1, <3>2, LineKept
  <2>2. Keeps
    BY <1>1, KeepsBoard DEF Held
  <2>3. Shifted
    BY <1>0, <1>1, SamePath DEF Shifted
  <2>4. Line => NewestRow(FrameRows)'
    BY <1>1, <2>1, <2>2, <2>3, NewestKept
  <2>5. Line => Collected(FrameOy, FrameRows)'
    BY <2>1, CollectedKept
  <2>6. /\ res' = res
        /\ Receptive' /\ l'.valid =>
             (Receptive /\ l' = l) \/ (res # NoAnswer /\ l'.basis = res.basis)
    BY <1>1
  <2> QED BY <2>1, <2>3, <2>4, <2>5, <2>6, OwnKept
<1>2. CASE DropEnd \/ CommitPosition \/ CommitBadRow
  <2>1. /\ state' = "Idle" /\ state # "Idle" /\ state # "Slot"
        /\ UNCHANGED <<pkt, fifo, n, q, res, l, f>>
    BY <1>2 DEF DropEnd, CommitPosition, CommitBadRow, Committing, frameVars
  <2>2. Receptive' => Receptive
    BY <2>1 DEF Passed, Receptive, Underway, Awaiting
  <2> QED BY <1>1, <2>1, <2>2
<1>3. CASE TemplateHeader \/ CommitTemplate
  BY <1>0, <1>3
  DEF TemplateHeader, CommitTemplate, Committing, TurnInv, Held, BoardInv, TypeOK
<1>4. CASE RowHeader
  <2>1. /\ state = "HdrA" /\ (state' = "Ctrl" \/ (state' = "Body" /\ ~p'.inwin))
        /\ UNCHANGED <<pkt, fifo, n, q, res, l, f>>
    BY <1>4 DEF RowHeader, frameVars
  <2>2. Receptive' => Receptive
    BY <2>1 DEF Passed, Receptive, Underway, Awaiting
  <2> QED BY <1>1, <2>1, <2>2
<1>5. CASE RowCtrl
  <2>1. /\ state = "Ctrl" /\ state' = "Body"
        /\ UNCHANGED <<pkt, fifo, n, q, res, f>>
        /\ l' = IF StartsFrame THEN [l EXCEPT !.valid = FALSE] ELSE l
    BY <1>5 DEF RowCtrl, frameVars
  <2>2. l'.valid => Receptive /\ l' = l
    <3>1. CASE StartsFrame
      BY <1>0, <2>1, <3>1 DEF BoardInv, TypeOK
    <3>2. CASE ~StartsFrame
      <4>1. pkt.kind = "row" /\ p.new = NewFrame
        BY <1>0, <2>1 DEF BoardInv, TypeOK, PathInv, WordInHand
      <4>2. f.active /\ f.fid = pkt.fid /\ f.started
        BY <3>2, <4>1 DEF StartsFrame, NewFrame
      <4>3. Underway
        BY <1>0, <2>1, <4>1, <4>2 DEF TurnInv, Held, Underway
      <4> QED BY <2>1, <3>2, <4>3 DEF Receptive
    <3> QED BY <3>1, <3>2
  <2> QED BY <1>1, <2>1, <2>2
<1>6. CASE WindowEnd \/ PayloadEnd
  <2>1. /\ p'.inwin = p.inwin /\ state = "Body" /\ state' \in {"Body", "Commit"}
        /\ UNCHANGED <<pkt, f, n, q, l, res>>
    BY <1>0, <1>6 DEF WindowEnd, PayloadEnd, BoardInv, TypeOK, frameVars
  <2>2. fifo' = fifo \/ (p.word # NoWord /\ fifo' = Append(fifo, p.word))
    BY <1>6 DEF WindowEnd, PayloadEnd
  <2>3. CASE fifo' = fifo
    <3>1. Receptive' => Receptive
      BY <2>1 DEF Passed, Receptive, Underway, Awaiting
    <3> QED BY <1>1, <2>1, <2>3, <3>1
  <2> QED BY <1>6, <2>2, <2>3, OwnPut
<1>7. CASE CommitClose
  <2>1. /\ ~f'.active /\ p'.inwin = p.inwin /\ state = "Commit" /\ pkt.fid # f.fid
        /\ UNCHANGED <<state, pkt, fifo, n, q, res, l>> /\ pkt.kind = "row"
    BY <1>0, <1>7 DEF CommitClose, Committing, RowGood, BoardInv, TypeOK
  <2>2. ~InLine
    BY <1>0, <2>1 DEF TurnInv, Held, InLine
  <2>3. Receptive' => Receptive
    BY <2>1 DEF Passed, Receptive, Underway, Awaiting
  <2> QED BY <1>1, <2>1, <2>2, <2>3
<1>8. CASE CommitRow
  BY <1>8, OwnCommit
<1>9. CASE TakeSlot
  <2>1. /\ state = "Slot" /\ state' = "Idle" /\ ~q.valid /\ q'.oy = n.oy
        /\ UNCHANGED <<pkt, p, fifo, n, res, l, f>>
    BY <1>0, <1>9 DEF TakeSlot, BoardInv, TypeOK, Entry, frameVars
  <2>2. ~InLine /\ ~InLine' /\ Complete /\ Line
    BY <2>1 DEF OwnContext, OnceInv, InLine, Complete, Line
  <2>3. FrameOy' = FrameOy /\ FrameRows' = FrameRows
    BY <2>1, <2>2 DEF FrameOy, FrameRows
  <2>4. Line' => SameLine
    <3>1. FrameRows \in Nat
      BY <1>0, FrameNumbers
    <3> QED BY <2>2, <2>3, <3>1 DEF SameLine, NoneSpoiled, Line
  <2>5. Keeps
    BY <2>1, KeepsBoard DEF Held
  <2>6. Shifted
    BY <1>0, <2>1, SamePath DEF Shifted
  <2>7. NewestRow(FrameRows)'
    BY <2>1, <2>2, <2>3, <2>5, <2>6, NewestKept
  <2>8. Line' => Collected(FrameOy, FrameRows)'
    BY <2>4, CollectedKept
  <2>9. Receptive /\ l' = l /\ res' = res
    BY <2>1 DEF Receptive
  <2> QED BY <2>4, <2>6, <2>7, <2>8, <2>9, OwnKept
<1> QED
  BY <1>2, <1>3, <1>4, <1>5, <1>6, <1>7, <1>8, <1>9 DEF ReceiveStep

LEMMA OwnStep ==
  ASSUME Lockstep, InOrderFaults, ROI > 2,
         BoardInv, SendInv, PosInv, HeaderInv, TurnInv, RunInv, RowsInv, PathInv, OnceInv, OwnInv,
         [BoardNext]_allVars
  PROVE  OwnInv'
<1>1. BoardInv' /\ TurnInv' /\ RunInv' /\ OnceInv'
  BY BoardStepMaps, TurnStep, RunStep, CompletedOnce
<1>2. CASE HostStep
  BY <1>1, <1>2, OwnHost
<1>3. ASSUME UNCHANGED <<cur, upl>>, ~upl.gap PROVE OwnContext
  BY <1>1, <1>3 DEF OwnContext
<1>4. CASE upl.gap /\ UNCHANGED <<cur, upl>>
  BY <1>4 DEF OwnInv
<1>5. CASE ReceiveStep /\ UNCHANGED trk /\ NotHost
  BY <1>1, <1>3, <1>4, <1>5, OwnReceive DEF NotHost, hostVars
<1>6. CASE \/ SlotStep /\ UNCHANGED trk /\ NotHost
           \/ BoardTimeOut \/ BoardTxDone
  BY <1>3, <1>4, <1>6, OwnSlot DEF BoardTimeOut, BoardTxDone, NotHost, hostVars
<1>7. CASE TrackRow /\ NotHost
  BY <1>1, <1>3, <1>4, <1>7, OwnTrackRow DEF NotHost, hostVars
<1>8. CASE TrackChunk /\ NotHost
  <2>1. upl.gap
    BY <1>8, KindsKept DEF TrackChunk, Offered, BoardInv, TypeOK, TurnInv
  <2> QED BY <1>4, <1>8, <2>1 DEF NotHost, hostVars
<1>9. CASE Answer /\ NotHost
  BY <1>3, <1>4, <1>9, OwnAnswerStep DEF NotHost, hostVars
<1>10. CASE UNCHANGED allVars
  <2>1. UNCHANGED <<cur, upl, trk, state, pkt, p, f, n, fifo, q, l, res>>
    BY <1>10 DEF allVars, vars, rxVars, frameVars, hostVars
  <2> QED BY <2>1
      DEF OwnInv, Line, InLine, Complete, FrameOy, FrameRows, Origins, Spoiled, NewestRow,
          Collected, ResMeets, LatchMeets, Meets, LastAgain, Before, Newest, Spot, Base,
          Collecting, Receptive, Passed, Underway, Awaiting
<1> QED
  BY <1>2, <1>5, <1>6, <1>7, <1>8, <1>9, <1>10
  DEF BoardNext, BoardStep, TrackerStep, Finished

\* The answer a frame takes is the one computed from its own rows.
LEMMA AnswerTaken ==
  ASSUME ROI > 2, BoardInv, TurnInv, PathInv, RowsInv, OnceInv, OwnInv, TakeAnswer
  PROVE  q'.basis.rows = [i \in 1..ROI |-> <<q'.fid, q'.oy + i - 1, TRUE>>]
<1>1. Awaiting /\ q.valid /\ l.valid
  BY DEF TakeAnswer, AnswerDue, Awaiting, Matching
<1>2. q'.basis = l.basis /\ q'.fid = q.fid /\ q'.oy = q.oy
  BY DEF TakeAnswer, BoardInv, TypeOK, Entry
<1>3. q.fid = cur.fid /\ ~upl.gap
  BY <1>1 DEF TurnInv
<1>4. ~InLine /\ state # "Slot" /\ Line
  BY <1>1 DEF OnceInv, Line, Complete
<1>5. FrameOy = q.oy /\ FrameRows = cur.size.h
  BY <1>4 DEF FrameOy, FrameRows
<1>6. Receptive
  BY <1>1 DEF Receptive
<1>7. PICK rows \in Seq(Source) : rows = l.basis.rows
  BY AnswerRows
<1>8. IsRun(rows) /\ Meets(rows, q.oy, cur.size.h)
  BY <1>1, <1>3, <1>4, <1>5, <1>6, <1>7 DEF PathInv, AnswersRun, OwnInv, LatchMeets
<1>9. ASSUME NEW i \in 1..ROI PROVE rows[i] = <<q.fid, q.oy + i - 1, TRUE>>
  <2>1. PICK s \in Source : s = rows[i]
    <3>1. i \in 1..Len(rows)
      BY <1>8 DEF IsRun
    <3> QED BY <3>1
  <2>2. SentRow(s) /\ s[2] = q.oy + i - 1
    BY <1>8, <2>1 DEF IsRun, Meets
  <2>3. s[1] = q.fid
    BY <1>3, <2>2 DEF SentRow
  <2>4. s[3]
    <3>1. s[2] \in Nat /\ cur.size.h \in Nat /\ s[2] < cur.size.h
      BY <2>2, HostNumbers DEF SentRow, Source
    <3>2. ~s[3] => s[2] >= cur.size.h
      BY <1>8, <2>1 DEF Meets
    <3> QED BY <3>1, <3>2
  <2>5. s = <<s[1], s[2], s[3]>> /\ s[3] \in BOOLEAN
    BY DEF Source
  <2> QED BY <2>1, <2>2, <2>3, <2>4, <2>5
<1>10. rows = [i \in 1..ROI |-> rows[i]]
  BY <1>8 DEF IsRun
<1>11. rows = [i \in 1..ROI |-> <<q.fid, q.oy + i - 1, TRUE>>]
  BY <1>9, <1>10
<1> QED BY <1>2, <1>7, <1>11

LEMMA OwnAnswerKept ==
  ASSUME ROI > 2, BoardInv, PosInv, TurnInv, PathInv, RowsInv, OnceInv, OwnInv, OwnAnswer,
         [BoardNext]_allVars
  PROVE  OwnAnswer'
<1>1. ASSUME q' = q \/ ~q'.ready \/ "tracked" \notin q'.flags PROVE OwnAnswer'
  BY <1>1 DEF OwnAnswer
<1>2. CASE HostStep
  <2>1. q' = q
    <3>1. \/ UNCHANGED vars
          \/ \E pk \in Packets : RxHeader(pk)
      BY <1>2, HostStepMaps DEF BoardInv
    <3> QED BY <3>1 DEF vars, RxHeader
  <2> QED BY <1>1, <2>1
<1>3. CASE ReceiveStep
  <2>1. CASE TakeSlot
    <3>1. q'.ready = n.ready /\ ~n.ready
      BY <2>1 DEF TakeSlot, PosInv, BoardInv, TypeOK, Entry
    <3> QED BY <1>1, <3>1
  <2>2. CASE ~TakeSlot
    <3>1. q' = q
      BY <1>3, <2>2
      DEF ReceiveStep, DropEnd, RowHeader, RowCtrl, TemplateHeader, WindowEnd, PayloadEnd,
          CommitTemplate, CommitPosition, CommitBadRow, CommitClose, CommitRow
    <3> QED BY <1>1, <3>1
  <2> QED BY <2>1, <2>2
<1>4. CASE TakeAnswer
  BY <1>4, AnswerTaken DEF OwnAnswer
<1>5. CASE LatchAnswer \/ TxDone \/ TrackerStep \/ UNCHANGED allVars
  <2>1. q' = q
    BY <1>5 DEF LatchAnswer, TxDone, TrackerStep, TrackRow, TrackChunk, Answer, allVars, vars
  <2> QED BY <1>1, <2>1
<1>6. CASE EmitPending
  <2>1. ~q'.ready
    BY <1>6 DEF EmitPending, SlotFreed, BoardInv, TypeOK, Entry
  <2> QED BY <1>1, <2>1
<1>7. CASE TimeOut
  <2>1. q'.flags = {"timeout"}
    BY <1>7 DEF TimeOut, BoardInv, TypeOK, Entry
  <2> QED BY <1>1, <2>1
<1> QED
  BY <1>2, <1>3, <1>4, <1>5, <1>6, <1>7
  DEF BoardNext, BoardStep, BoardTimeOut, BoardTxDone, SlotStep, Finished

\* A frame reported as tracked carries the answer computed from its own rows,
\* all of its region of interest, undamaged and in order: for a host that
\* waits, on a network that loses, doubles and damages rows but delivers a
\* damaged one only once and overtakes none, and a region of more than two
\* rows.
THEOREM AnswerIsOwn ==
  ASSUME Lockstep, InOrderFaults, ROI > 2 PROVE BoardSpec => []OwnAnswer
<1> DEFINE Inv == /\ BoardInv /\ SendInv /\ PosInv /\ HeaderInv /\ TurnInv /\ RunInv /\ RowsInv
                  /\ PathInv /\ OnceInv /\ OwnInv /\ OwnAnswer
<1>1. BoardInit => Inv
  <2> SUFFICES ASSUME BoardInit PROVE Inv
    OBVIOUS
  <2>0. /\ state = "Idle" /\ p.word = NoWord /\ ~f.active /\ fifo = <<>> /\ ~q.valid /\ ~q.ready
        /\ ~l.valid /\ res = NoAnswer /\ ~trk.busy /\ ~trk.inorder /\ delayed = Nothing
        /\ cur.row = 1 /\ cur.size.h = 1
    BY DEF BoardInit, Init, TrackerInit, NoFrame, NoEntry, FreshRow, NoLatch
  <2>1. BoardInv
    BY BoardInitInv
  <2>2. SendInv
    BY DEF BoardInit, SendInv, BetweenFrames
  <2>3. PosInv
    BY DEF BoardInit, Init, PosInv, NoEntry, NoReply, Tells
  <2>4. HeaderInv
    BY DEF BoardInit, Init, HeaderInv, HeaderRead, NoFrame
  <2>5. TurnInv
    BY DEF BoardInit, Init, TrackerInit, TurnInv, Held, AllKind, NoFrame, NoEntry, FreshRow
  <2>6. RunInv /\ RowsInv
    BY <2>0 DEF RunInv, RowsInv, HeldInOrder, OpenInOrder, Held
  <2>7. ~Passed /\ ~Underway /\ ~Awaiting /\ ~Collecting
    BY <2>0 DEF Passed, Underway, Awaiting, Collecting
  <2>8. PathInv
    BY <2>0, <2>7
    DEF PathInv, FifoSent, FifoJoined, WordInHand, NewestOfFrame, NewestInHand, Forwarded,
        CollectedSent, AnswersRun
  <2>9. OnceInv /\ OwnInv /\ OwnAnswer
    BY <2>0, <2>7 DEF OnceInv, OwnInv, OwnAnswer, Line, InLine, Complete
  <2> QED BY <2>1, <2>2, <2>3, <2>4, <2>5, <2>6, <2>8, <2>9
<1>2. Inv /\ [BoardNext]_allVars => Inv'
  <2> SUFFICES ASSUME Inv, [BoardNext]_allVars PROVE Inv'
    OBVIOUS
  <2>1. BoardInv' /\ SendInv' /\ PosInv' /\ HeaderInv' /\ TurnInv'
    BY BoardStepMaps, SendStep, PosStep, HeaderStep, TurnStep DEF BoardInv
  <2>2. RunInv' /\ RowsInv' /\ PathInv'
    BY RunStep, RowsStep, PathStep
  <2>3. OnceInv' /\ OwnInv' /\ OwnAnswer'
    BY CompletedOnce, OwnStep, OwnAnswerKept
  <2> QED BY <2>1, <2>2, <2>3
<1>3. Inv => OwnAnswer
  OBVIOUS
<1> HIDE DEF Inv
<1> QED BY <1>1, <1>2, <1>3, PTL DEF BoardSpec

-----------------------------------------------------------------------------
(* A frame without a fault, in lockstep: whatever happened to the frames     *)
(* before, all of its rows reach the tracker, which answers it.              *)

\* None of the rows of the frame being sent has met a fault.
Unhit == cur.fid # 0 /\ cur.fid \notin hit

\* The rows of the frame that the receiver has committed.
Uncommitted == Held("row") /\ state # "Slot"
Arrived == IF Uncommitted THEN cur.row - 1 ELSE cur.row

\* Rows arrive one after the other, in order and good.
UnhitRow ==
  /\ delayed = Nothing /\ Arrived \in 0..cur.size.h
  /\ Uncommitted =>
       /\ pkt.row = Arrived /\ pkt.size = cur.size /\ Good
       /\ Arrived < cur.size.h /\ state # "Drop"

\* The receiver's frame registers follow them, and a frame is handed over once
\* all have arrived.
UnhitFrame ==
  /\ Arrived = 0 => ~(f.active /\ f.fid = cur.fid)
  /\ Arrived \in 1..(cur.size.h - 1) =>
       /\ f.active /\ f.fid = cur.fid /\ f.rows = Arrived /\ f.inorder /\ f.size = cur.size
       /\ f.started => f.rows > f.oy
  /\ Arrived = cur.size.h => ~f.active
  /\ state = "Slot" \/ q.valid =>
       /\ Arrived = cur.size.h /\ HasRoi(cur.size) /\ ~(state = "Slot" /\ q.valid)

\* The frame will be or is matched and its answer has not been taken.
Owed == HasRoi(cur.size) /\ (Arrived = cur.size.h => state = "Slot" \/ Awaiting)

\* The tag the frame has, or will have.
FrameTag ==
  IF Arrived = 0 THEN nextTag
  ELSE IF Arrived < cur.size.h THEN f.tag
  ELSE IF state = "Slot" THEN n.tag ELSE q.tag

\* Rows of the window: those forwarded, and those the tracker has taken.
InWindow(k) == IF k <= 0 THEN 0 ELSE IF k >= ROI THEN ROI ELSE k
RowsOut ==
  (IF Arrived = 0 THEN 0
   ELSE IF Arrived < cur.size.h THEN InWindow(f.rows - f.oy) ELSE ROI)
    + (IF Passed THEN 1 ELSE 0)
RowsTaken == RowsOut - Len(fifo) - (IF p.word # NoWord THEN 1 ELSE 0)

WordOf(w, k) == w.row = k /\ w.tag = FrameTag /\ (w.newf <=> k = 0)

\* The rows on their way are those the tracker has not taken.
UnhitPath ==
  /\ RowsTaken \in 0..ROI /\ RowsOut \in 0..ROI
  /\ \A i \in 1..Len(fifo) : WordOf(fifo[i], RowsTaken + i - 1)
  /\ p.word # NoWord => WordOf(p.word, RowsOut - 1)

\* The tracker counts what it has taken, answers after the last row, and the
\* answer stays until the frame waits for it.
Collects == ~trk.busy /\ res = NoAnswer
Answered ==
  \/ trk.busy /\ res = NoAnswer
  \/ ~trk.busy /\ res # NoAnswer /\ res.tag = FrameTag
  \/ ~trk.busy /\ res = NoAnswer /\ l.valid /\ l.tag = FrameTag
UnhitTracker ==
  /\ RowsTaken = 0 => Collects
  /\ RowsTaken > 0 => trk.tag = FrameTag
  /\ RowsTaken \in 1..(ROI - 1) => Collects /\ trk.inorder /\ trk.cnt = RowsTaken
  /\ RowsTaken = ROI => Answered

UnhitInv ==
  Unhit => UnhitRow /\ UnhitFrame /\ (Owed => UnhitPath /\ UnhitTracker)

\* What has been reported and will be, of frames with and without a fault.
ReportInv ==
  /\ cur.fid # 0 => cur.size = script[cur.fid].size
  /\ f.active => f.fid = cur.fid \/ f.fid \in hit
  /\ q.ready => q.fid \in hit \/ "tracked" \in q.flags
  /\ \A r \in FrameReports : r.fid \in 1..cur.fid

LEMMA UnhitTypes ==
  ASSUME BoardInv, TurnInv, ReportInv, Unhit
  PROVE  /\ cur.fid \in Nat \ {0} /\ cur.size \in Sizes /\ script[cur.fid] \in Frames
         /\ cur.size.h \in Nat \ {0} /\ cur.size.w \in Nat \ {0} /\ cur.row \in Nat
         /\ ROI \in Nat \ {0} /\ f.rows \in Nat /\ f.oy \in Nat /\ p.oy \in Nat
         /\ Len(fifo) \in Nat /\ Arrived \in Int /\ RowsOut \in Int /\ RowsTaken \in Int
<1>1. cur.fid \in Nat \ {0} /\ cur.row \in Nat
  BY DEF BoardInv, HostType, Unhit
<1>2. script[cur.fid] \in Frames /\ cur.size = script[cur.fid].size
  BY <1>1 DEF TurnInv, ReportInv
<1>3. cur.size \in Sizes
  BY <1>2 DEF Frames
<1>4. cur.size.h \in Nat \ {0} /\ cur.size.w \in Nat \ {0} /\ ROI \in Nat \ {0}
  BY <1>3, RowStatsAssumption
<1>5. /\ f.rows \in Nat /\ f.oy \in Nat /\ p.oy \in Nat /\ Len(fifo) \in Nat
  BY DEF BoardInv, TypeOK
<1>6. Arrived \in Int
  BY <1>1 DEF Arrived
<1>7. InWindow(f.rows - f.oy) \in Int
  BY <1>4, <1>5 DEF InWindow
<1>8. RowsOut \in Int
  BY <1>4, <1>7 DEF RowsOut
<1>9. RowsTaken \in Int
  BY <1>5, <1>8 DEF RowsTaken
<1> QED BY <1>1, <1>2, <1>3, <1>4, <1>5, <1>6, <1>8, <1>9

\* Nothing of the path moves.
LEMMA PathSame ==
  ASSUME UnhitPath, UnhitTracker, UNCHANGED <<fifo, trk, res, l>>, p'.word = p.word,
         RowsOut' = RowsOut, FrameTag' = FrameTag
  PROVE  UnhitPath' /\ UnhitTracker'
<1>1. RowsTaken' = RowsTaken
  BY DEF RowsTaken
<1>2. UnhitPath'
  BY <1>1 DEF UnhitPath, WordOf
<1>3. UnhitTracker'
  BY <1>1 DEF UnhitTracker, Collects, Answered
<1> QED BY <1>2, <1>3

\* A row or a word moves, a frame register does not.
LEMMA FrameSame ==
  ASSUME UnhitRow, UnhitFrame, UNCHANGED <<cur, delayed, f, nextTag, n, pkt>>,
         q'.valid => q.valid, q'.tag = q.tag, q.ready => q'.ready \/ ~q'.valid,
         (state' = "Slot") = (state = "Slot"),
         (state' = "Idle") = (state = "Idle") \/ pkt.kind # "row", state' # "Drop" \/ state' = state
  PROVE  /\ UnhitRow' /\ UnhitFrame' /\ Arrived' = Arrived /\ FrameTag' = FrameTag
         /\ Owed' => Owed
<1>1. Uncommitted' = Uncommitted
  BY DEF Uncommitted, Held
<1>2. Arrived' = Arrived
  BY <1>1 DEF Arrived
<1>3. UnhitRow'
  BY <1>1, <1>2 DEF UnhitRow, Good
<1>4. UnhitFrame'
  BY <1>2 DEF UnhitFrame
<1>5. FrameTag' = FrameTag
  BY <1>2 DEF FrameTag
<1>6. Owed' => Owed
  BY <1>2 DEF Owed, Awaiting
<1> QED BY <1>2, <1>3, <1>4, <1>5, <1>6

\* While a template is uploaded the frame before it has been answered.
LEMMA GapOwesNothing ==
  ASSUME BoardInv, SendInv, TurnInv, UnhitRow, upl.gap PROVE ~Owed
<1>1. BetweenFrames /\ ~Held("row") /\ ~q.valid /\ state # "Slot"
  BY DEF SendInv, TurnInv, Held
<1>2. Arrived = cur.size.h
  BY <1>1 DEF Arrived, Uncommitted, BetweenFrames
<1> QED BY <1>1, <1>2 DEF Owed, Awaiting

LEMMA UnhitHost ==
  ASSUME Lockstep, BoardInv, SendInv, TurnInv, UnhitInv, ReportInv, HostStep
  PROVE  UnhitInv'
<1> SUFFICES ASSUME Unhit'
             PROVE  UnhitRow' /\ UnhitFrame' /\ (Owed' => UnhitPath' /\ UnhitTracker')
  BY DEF UnhitInv
<1>1. CASE StartFrame
  <2>1. PICK s \in Sizes : cur' = [fid |-> cur.fid + 1, size |-> s, row |-> 0]
    BY <1>1 DEF StartFrame
  <2>2. /\ BoardQuiet /\ delayed = Nothing /\ delayed' = delayed
        /\ UNCHANGED <<state, pkt, p, f, nextTag, n, q, l, fifo, res, trk>>
    BY <1>1 DEF StartFrame, MaySend, vars, rxVars, frameVars
  <2>3. /\ state' = "Idle" /\ ~q'.valid /\ fifo' = <<>> /\ ~trk'.busy /\ res' = NoAnswer
    BY <2>2 DEF BoardQuiet, TrackerQuiet
  <2>4. s.h \in Nat \ {0} /\ ROI \in Nat \ {0}
    BY RowStatsAssumption
  <2>5. Arrived' = 0 /\ ~Uncommitted'
    BY <2>1, <2>3 DEF Arrived, Uncommitted, Held
  <2>6. UnhitRow'
    BY <2>1, <2>2, <2>4, <2>5 DEF UnhitRow
  <2>7. f'.active => f'.fid # cur'.fid
    BY <2>1, <2>2 DEF TurnInv, BoardInv, HostType
  <2>8. UnhitFrame'
    BY <2>1, <2>3, <2>4, <2>5, <2>7 DEF UnhitFrame
  <2>9. p'.word = NoWord /\ ~Passed'
    BY <2>2, <2>3 DEF TurnInv, Passed
  <2>10. RowsOut' = 0 /\ RowsTaken' = 0
    BY <2>3, <2>5, <2>9 DEF RowsOut, RowsTaken
  <2>11. UnhitPath'
    BY <2>3, <2>4, <2>9, <2>10 DEF UnhitPath
  <2>12. UnhitTracker'
    BY <2>3, <2>4, <2>10 DEF UnhitTracker, Collects
  <2> QED BY <2>6, <2>8, <2>11, <2>12
<1>2. CASE SendPosition \/ SendChunk
  <2>1. /\ BetweenFrames /\ BoardQuiet /\ delayed = Nothing /\ UNCHANGED <<cur, delayed, hit>>
    BY <1>2 DEF SendPosition, SendChunk, MaySend
  <2>2. /\ pkt'.kind # "row" /\ state' # "Slot" /\ UNCHANGED <<f, n, q>>
    BY <1>2 DEF SendPosition, SendChunk, RxHeader, AfterHeader, frameVars
  <2>3. ~q.valid /\ state = "Idle"
    BY <2>1 DEF BoardQuiet
  <2>4. ~Uncommitted /\ ~Uncommitted' /\ Arrived = cur.size.h /\ Arrived' = Arrived
    BY <2>1, <2>2, <2>3 DEF Arrived, Uncommitted, Held, BetweenFrames
  <2>5. UnhitRow /\ UnhitFrame
    BY <2>1 DEF UnhitInv, Unhit
  <2>6. UnhitRow' /\ UnhitFrame' /\ ~Owed'
    BY <2>1, <2>2, <2>3, <2>4, <2>5 DEF UnhitRow, UnhitFrame, Owed, Awaiting
  <2> QED BY <2>6
<1>3. CASE LoseChunk
  <2>1. UNCHANGED <<vars, trk, cur, delayed, hit>>
    BY <1>3 DEF LoseChunk, Fault
  <2>2. UnhitRow /\ UnhitFrame /\ (Owed => UnhitPath /\ UnhitTracker)
    BY <2>1 DEF UnhitInv, Unhit
  <2>3. UNCHANGED <<state, pkt, p, f, nextTag, n, q, l, fifo, res>>
    BY <2>1 DEF vars, rxVars, frameVars
  <2>4. /\ UnhitRow' /\ UnhitFrame' /\ Arrived' = Arrived /\ FrameTag' = FrameTag
        /\ Owed' => Owed
    BY <2>1, <2>2, <2>3, FrameSame
  <2>5. RowsOut' = RowsOut
    BY <2>1, <2>3, <2>4 DEF RowsOut, Passed
  <2> QED BY <2>1, <2>2, <2>3, <2>4, <2>5, PathSame
<1>4. CASE SendRow
  <2>1. /\ ~BetweenFrames /\ cur'.row = cur.row + 1 /\ cur'.fid = cur.fid
        /\ cur'.size = cur.size /\ UNCHANGED <<trk, delayed, hit>>
    BY <1>4 DEF SendRow, NextRow, BoardInv, HostType
  <2>2. /\ pkt'.kind = "row" /\ pkt'.row = cur.row /\ pkt'.size = cur.size
        /\ pkt'.quality = "good"
        /\ p' = FreshRow /\ state = "Idle" /\ state' = "HdrA"
        /\ UNCHANGED <<f, nextTag, n, q, l, fifo, res>>
    BY <1>4 DEF SendRow, RxHeader, RowPacket, AfterHeader, frameVars
  <2>3. UnhitRow /\ UnhitFrame /\ (Owed => UnhitPath /\ UnhitTracker)
    BY <2>1 DEF UnhitInv, Unhit
  <2>4. cur.row \in Nat /\ cur.size.h \in Nat
    BY HostNumbers
  <2>5. Arrived = cur.row /\ Uncommitted' /\ Arrived' = Arrived
    BY <2>1, <2>2, <2>4 DEF Arrived, Uncommitted, Held
  <2>6. Arrived < cur.size.h
    BY <2>1, <2>3, <2>4, <2>5 DEF UnhitRow, BetweenFrames
  <2>7. UnhitRow'
    BY <2>1, <2>2, <2>3, <2>5, <2>6 DEF UnhitRow, Good
  <2>8. UnhitFrame'
    BY <2>1, <2>2, <2>3, <2>4, <2>5, <2>6 DEF UnhitFrame
  <2>9. Owed' => Owed
    BY <2>1, <2>2, <2>4, <2>5, <2>6 DEF Owed, Awaiting, HasRoi
  <2>10. FrameTag' = FrameTag
    BY <2>1, <2>2, <2>5 DEF FrameTag
  <2>11. ~Passed /\ ~Passed' /\ p.word = NoWord /\ p'.word = NoWord
    BY <2>2 DEF Passed, TurnInv, FreshRow
  <2>12. RowsOut' = RowsOut
    BY <2>1, <2>2, <2>5, <2>11 DEF RowsOut
  <2> QED BY <2>1, <2>2, <2>3, <2>7, <2>8, <2>9, <2>10, <2>11, <2>12, PathSame
<1>5. CASE DuplicateRow \/ LoseRow \/ DamageRow \/ DamageCopy \/ DelayRow
  <2>1. hit' = hit \cup {cur.fid} /\ cur'.fid = cur.fid
    BY <1>5 DEF DuplicateRow, LoseRow, DamageRow, DamageCopy, DelayRow, RowFault, NextRow,
                BoardInv, HostType
  <2> QED BY <2>1 DEF Unhit
<1>6. CASE DeliverDelayed
  <2>1. Unhit /\ delayed # Nothing
    BY <1>6 DEF DeliverDelayed, Unhit
  <2> QED BY <2>1 DEF UnhitInv, UnhitRow
<1> QED
  BY <1>1, <1>2, <1>3, <1>4, <1>5, <1>6 DEF HostStep

\* A row that reaches S_CTRL is the next of the window: its word carries its
\* number, the tag of the frame, and new_frame if it is the first.
LEMMA UnhitWord ==
  ASSUME BoardInv, HeaderInv, TurnInv, ReportInv, Unhit, UnhitRow, UnhitFrame, state = "Ctrl"
  PROVE  /\ WordOf(RowWord, RowsOut) /\ RowsOut \in 0..(ROI - 1) /\ HasRoi(cur.size)
         /\ (StartsFrame <=> RowsOut = 0) /\ RowWord # NoWord
<1>0. /\ cur.size.h \in Nat \ {0} /\ ROI \in Nat \ {0} /\ f.rows \in Nat /\ f.oy \in Nat
      /\ p.oy \in Nat /\ Arrived \in Int /\ RowsOut \in Int
  BY UnhitTypes
<1>1. pkt.kind = "row" /\ Held("row") /\ Uncommitted /\ pkt.fid = cur.fid
  BY DEF BoardInv, TypeOK, Held, Uncommitted, TurnInv
<1>2. pkt.row = Arrived /\ pkt.size = cur.size /\ Good /\ Arrived \in 0..(cur.size.h - 1)
  BY <1>0, <1>1 DEF UnhitRow
<1>3. p.inwin /\ p.new = NewFrame /\ HeaderRead
  BY <1>1, <1>2 DEF HeaderInv, HeaderRead
<1>4. HasRoi(RowSize) /\ Arrived >= p.oy /\ Arrived < p.oy + ROI /\ (~NewFrame => p.oy = f.oy)
  BY <1>2, <1>3 DEF HeaderInv
<1>5. ~Passed
  BY DEF Passed
<1>6. RowWord.row = Arrived - p.oy /\ RowWord.newf = StartsFrame /\ RowWord # NoWord
      /\ RowWord.tag = IF p.new THEN nextTag ELSE f.tag
  BY <1>2 DEF RowWord, NoWord
<1>7. CASE Arrived = 0
  <2>1. p.new /\ RowSize = cur.size
    BY <1>1, <1>2, <1>3, <1>7 DEF UnhitFrame, NewFrame, RowSize
  <2>2. RowsOut = 0 /\ FrameTag = nextTag
    BY <1>5, <1>7 DEF RowsOut, FrameTag
  <2>3. p.oy = 0
    BY <1>0, <1>4, <1>7
  <2>4. StartsFrame /\ RowWord.row = RowsOut /\ RowWord.tag = FrameTag
    BY <1>6, <1>7, <2>1, <2>2, <2>3 DEF StartsFrame
  <2>5. WordOf(RowWord, RowsOut)
    BY <1>6, <2>2, <2>4 DEF WordOf
  <2> QED BY <1>0, <1>4, <1>6, <2>1, <2>2, <2>4, <2>5
<1>8. CASE Arrived # 0
  <2>1. Arrived \in 1..(cur.size.h - 1)
    BY <1>0, <1>2, <1>8
  <2>2. /\ f.active /\ f.fid = cur.fid /\ f.rows = Arrived /\ f.inorder /\ f.size = cur.size
        /\ f.started => f.rows > f.oy
    BY <2>1 DEF UnhitFrame
  <2>3. ~NewFrame /\ ~p.new /\ p.oy = f.oy /\ RowSize = cur.size
    BY <1>1, <1>3, <1>4, <2>2 DEF NewFrame, RowSize
  <2>4. FrameTag = f.tag /\ Arrived < cur.size.h
    BY <1>0, <1>8, <2>1 DEF FrameTag
  <2>5. RowsOut = Arrived - p.oy /\ RowsOut \in 0..(ROI - 1)
    BY <1>0, <1>4, <1>5, <1>8, <2>2, <2>3, <2>4 DEF RowsOut, InWindow
  <2>6. f.started <=> f.rows > f.oy
    <3>1. f.rows > f.oy => f.started
      BY <1>4, <2>2, <2>3 DEF HeaderInv
    <3> QED BY <2>2, <3>1
  <2>7. StartsFrame <=> RowsOut = 0
    <3>1. RowsOut = 0 <=> ~(f.rows > f.oy)
      BY <1>0, <2>2, <2>3, <2>5
    <3> QED BY <2>3, <2>6, <3>1 DEF StartsFrame
  <2>8. HasRoi(cur.size)
    BY <1>4, <2>3
  <2>9. WordOf(RowWord, RowsOut)
    <3>1. RowWord.row = RowsOut /\ RowWord.tag = FrameTag
      BY <1>6, <2>3, <2>4, <2>5
    <3>2. RowWord.newf <=> RowsOut = 0
      BY <1>6, <2>7
    <3> QED BY <3>1, <3>2 DEF WordOf
  <2> QED BY <1>6, <2>5, <2>7, <2>8, <2>9
<1> QED BY <1>7, <1>8

\* The word enters the FIFO.
LEMMA UnhitPut ==
  ASSUME BoardInv, TurnInv, ReportInv, Unhit, UnhitPath, UnhitTracker, p.word # NoWord,
         fifo' = Append(fifo, p.word), UNCHANGED <<trk, res, l>>, p'.word = NoWord,
         RowsOut' = RowsOut, FrameTag' = FrameTag
  PROVE  UnhitPath' /\ UnhitTracker'
<1>0. /\ Len(fifo) \in Nat /\ RowsOut \in Int /\ RowsTaken \in Int
  BY UnhitTypes
<1>1. Len(fifo') = Len(fifo) + 1 /\ Len(fifo) \in Nat
  BY DEF BoardInv, TypeOK
<1>2. /\ \A i \in 1..Len(fifo) : fifo'[i] = fifo[i]
      /\ fifo'[Len(fifo) + 1] = p.word
  BY DEF BoardInv, TypeOK
<1>3. RowsTaken' = RowsTaken
  BY <1>0, <1>1 DEF RowsTaken
<1>4. RowsOut - 1 = RowsTaken + (Len(fifo) + 1) - 1
  BY <1>0, <1>1 DEF RowsTaken
<1>5. ASSUME NEW i \in 1..Len(fifo') PROVE WordOf(fifo'[i], RowsTaken + i - 1)
  <2>1. CASE i \in 1..Len(fifo)
    BY <1>2, <2>1 DEF UnhitPath
  <2>2. CASE i = Len(fifo) + 1
    BY <1>2, <1>4, <2>2 DEF UnhitPath
  <2> QED BY <1>1, <2>1, <2>2
<1>6. UnhitPath'
  BY <1>3, <1>5 DEF UnhitPath, WordOf
<1>7. UnhitTracker'
  BY <1>3 DEF UnhitTracker, Collects, Answered
<1> QED BY <1>6, <1>7

\* The open frame with the row that commits.
LEMMA UnhitJoins ==
  ASSUME BoardInv, HeaderInv, TurnInv, ReportInv, Unhit, UnhitRow, UnhitFrame, CommitRow
  PROVE  /\ Uncommitted /\ Arrived \in 0..(cur.size.h - 1) /\ ~Passed' /\ p.word = NoWord
         /\ FrameWithRow.active /\ FrameWithRow.fid = cur.fid
         /\ FrameWithRow.rows = Arrived + 1
         /\ FrameWithRow.inorder /\ FrameWithRow.size = cur.size
         /\ FrameWithRow.tag = FrameTag /\ FrameWithRow.oy \in Nat
         /\ FrameWithRow.started => FrameWithRow.rows > FrameWithRow.oy
         /\ HasRoi(cur.size) =>
              /\ RowsOut = InWindow(FrameWithRow.rows - FrameWithRow.oy)
              /\ FrameWithRow.oy + ROI <= cur.size.h
<1>0. /\ cur.size.h \in Nat \ {0} /\ ROI \in Nat \ {0} /\ f.rows \in Nat /\ f.oy \in Nat
      /\ p.oy \in Nat /\ Arrived \in Int /\ RowsOut \in Int
  BY UnhitTypes
<1>1. /\ pkt.kind = "row" /\ Held("row") /\ Uncommitted /\ pkt.fid = cur.fid
      /\ state = "Commit" /\ state' \in {"Idle", "Slot"} /\ p.word = NoWord
  BY DEF CommitRow, Committing, RowGood, Held, Uncommitted, TurnInv
<1>2. pkt.row = Arrived /\ pkt.size = cur.size /\ Good /\ Arrived \in 0..(cur.size.h - 1)
  BY <1>0, <1>1 DEF UnhitRow
<1>3. HeaderRead /\ ~Passed' /\ (Passed <=> p.inwin)
  <2>1. HeaderRead /\ (Passed <=> p.inwin)
    BY <1>1, <1>2 DEF HeaderRead, Passed
  <2>2. ~Passed'
    BY <1>1 DEF Passed
  <2> QED BY <2>1, <2>2
<1>4. /\ p.inwin <=> HasRoi(RowSize) /\ Arrived >= p.oy /\ Arrived < p.oy + ROI
      /\ ~NewFrame => p.oy = f.oy
      /\ NewFrame /\ HasRoi(cur.size) => p.oy + ROI <= cur.size.h
  BY <1>2, <1>3 DEF HeaderInv
<1>5. CASE Arrived = 0
  <2>1. ~f.active
    BY <1>1, <1>5 DEF CommitRow, UnhitFrame
  <2>2. NewFrame /\ RowSize = cur.size
    BY <1>2, <2>1 DEF NewFrame, RowSize
  <2>3. /\ FrameWithRow.active /\ FrameWithRow.fid = cur.fid /\ FrameWithRow.rows = 1
        /\ FrameWithRow.inorder /\ FrameWithRow.size = cur.size
        /\ FrameWithRow.tag = nextTag /\ FrameWithRow.oy = p.oy
        /\ FrameWithRow.started <=> p.inwin
    BY <1>1, <1>2, <1>5, <2>1 DEF FrameWithRow
  <2>4. RowsOut = (IF p.inwin THEN 1 ELSE 0) /\ FrameTag = nextTag
    BY <1>3, <1>5 DEF RowsOut, FrameTag
  <2>5. p.inwin => p.oy = 0
    BY <1>0, <1>4, <1>5
  <2>6. HasRoi(cur.size) => RowsOut = InWindow(1 - p.oy)
    <3>1. HasRoi(cur.size) => (p.inwin <=> p.oy = 0)
      BY <1>0, <1>4, <1>5, <2>2
    <3>2. InWindow(1 - p.oy) = IF p.oy = 0 THEN 1 ELSE 0
      BY <1>0 DEF InWindow
    <3> QED BY <2>4, <3>1, <3>2
  <2> QED BY <1>0, <1>1, <1>2, <1>3, <1>4, <1>5, <2>2, <2>3, <2>4, <2>5, <2>6
<1>6. CASE Arrived # 0
  <2>1. Arrived \in 1..(cur.size.h - 1)
    BY <1>0, <1>2, <1>6
  <2>2. /\ f.active /\ f.fid = cur.fid /\ f.rows = Arrived /\ f.inorder /\ f.size = cur.size
        /\ f.started => f.rows > f.oy
    BY <2>1 DEF UnhitFrame
  <2>3. ~NewFrame /\ p.oy = f.oy /\ RowSize = cur.size
    BY <1>1, <1>4, <2>2 DEF NewFrame, RowSize
  <2>4. /\ FrameWithRow.active /\ FrameWithRow.fid = cur.fid
        /\ FrameWithRow.rows = Arrived + 1
        /\ FrameWithRow.inorder /\ FrameWithRow.size = cur.size
        /\ FrameWithRow.tag = f.tag /\ FrameWithRow.oy = f.oy
        /\ FrameWithRow.started <=> f.started \/ p.inwin
    BY <1>2, <2>2 DEF FrameWithRow, BoardInv, TypeOK
  <2>5. FrameTag = f.tag /\ Arrived < cur.size.h
    BY <1>0, <1>6, <2>1 DEF FrameTag
  <2>6. RowsOut = InWindow(Arrived - f.oy) + (IF p.inwin THEN 1 ELSE 0)
    BY <1>3, <1>6, <2>2, <2>5 DEF RowsOut
  <2>7. HasRoi(cur.size) => RowsOut = InWindow(Arrived + 1 - f.oy)
    BY <1>0, <1>4, <2>3, <2>6 DEF InWindow
  <2>8. FrameWithRow.started => Arrived + 1 > f.oy
    BY <1>0, <1>4, <2>2, <2>3, <2>4
  <2>9. HasRoi(cur.size) => f.oy + ROI <= cur.size.h
    BY <2>2 DEF HeaderInv
  <2>10. f.oy \in Nat
    BY <1>0
  <2>11. HasRoi(cur.size) => RowsOut = InWindow(FrameWithRow.rows - FrameWithRow.oy)
    <3>1. FrameWithRow.rows - FrameWithRow.oy = Arrived + 1 - f.oy
      <4>1. FrameWithRow.rows = Arrived + 1 /\ FrameWithRow.oy = f.oy
        BY <2>4
      <4>2. Arrived \in Int /\ f.oy \in Nat
        BY <1>0
      <4> QED BY <4>1, <4>2
    <3> QED BY <2>7, <3>1
  <2>12. FrameWithRow.started => FrameWithRow.rows > FrameWithRow.oy
    BY <2>4, <2>8
  <2> QED BY <1>1, <1>2, <1>3, <2>4, <2>5, <2>9, <2>10, <2>11, <2>12
<1> QED BY <1>5, <1>6

\* A row of a frame without a fault commits.
LEMMA UnhitCommit ==
  ASSUME BoardInv, BoardInv', HeaderInv, TurnInv, ReportInv, Unhit, UnhitRow, UnhitFrame,
         Owed => UnhitPath /\ UnhitTracker, CommitRow,
         UNCHANGED <<cur, delayed, trk>>
  PROVE  UnhitRow' /\ UnhitFrame' /\ (Owed' => UnhitPath' /\ UnhitTracker')
<1>0. /\ cur.row \in Nat /\ cur.size.h \in Nat \ {0} /\ ROI \in Nat \ {0}
      /\ f.rows \in Nat /\ f.oy \in Nat /\ Arrived \in Int /\ RowsOut \in Int
  BY UnhitTypes
<1> DEFINE g == FrameWithRow
<1>1. /\ Uncommitted /\ Arrived \in 0..(cur.size.h - 1) /\ ~Passed' /\ p.word = NoWord
      /\ g.active /\ g.fid = cur.fid /\ g.rows = Arrived + 1
      /\ g.inorder /\ g.size = cur.size /\ g.tag = FrameTag /\ g.oy \in Nat
      /\ g.started => g.rows > g.oy
      /\ HasRoi(cur.size) =>
           /\ RowsOut = InWindow(g.rows - g.oy) /\ g.oy + ROI <= cur.size.h
  BY UnhitJoins
<1> HIDE DEF g
<1>2. /\ UNCHANGED <<pkt, p, q, l, fifo, res>> /\ state' \in {"Idle", "Slot"}
  BY DEF CommitRow
<1>3. ~Uncommitted' /\ Arrived' = Arrived + 1
  BY <1>0, <1>1, <1>2 DEF Arrived, Uncommitted, Held
<1>4. UnhitRow'
  BY <1>0, <1>1, <1>3 DEF UnhitRow
<1>5. ~q.valid /\ (HasRoi(cur.size) => Owed)
  BY <1>0, <1>1 DEF UnhitFrame, Owed
<1>6. ASSUME RowsOut' = RowsOut, FrameTag' = FrameTag, HasRoi(cur.size)
      PROVE  UnhitPath' /\ UnhitTracker'
  BY <1>1, <1>2, <1>5, <1>6, PathSame
<1>7. HasRoi(cur.size)' = HasRoi(cur.size)
  OBVIOUS
<1>8. CASE ~LastRow
  <2>1. f' = g /\ state' = "Idle" /\ g.rows # cur.size.h
    BY <1>1, <1>8 DEF CommitRow, LastRow, g
  <2>2. Arrived' \in 1..(cur.size.h - 1)
    BY <1>0, <1>1, <1>3, <2>1
  <2>3. UnhitFrame'
    BY <1>0, <1>1, <1>2, <1>3, <1>5, <2>1, <2>2 DEF UnhitFrame
  <2>4. FrameTag' = FrameTag
    BY <1>0, <1>1, <2>1, <2>2 DEF FrameTag
  <2>5. HasRoi(cur.size) => RowsOut' = RowsOut
    <3>1. RowsOut' = InWindow(g.rows - g.oy) + 0
      BY <1>0, <1>1, <2>1, <2>2 DEF RowsOut, InWindow
    <3>2. HasRoi(cur.size) => RowsOut = InWindow(g.rows - g.oy) /\ RowsOut \in Int
      BY <1>0, <1>1
    <3> QED BY <3>1, <3>2
  <2>6. Owed' => HasRoi(cur.size)
    BY DEF Owed
  <2> QED BY <1>4, <1>6, <2>3, <2>4, <2>5, <2>6
<1>9. CASE LastRow
  <2>1. /\ ~f'.active /\ g.rows = cur.size.h
        /\ \/ /\ HasRoi(cur.size) /\ n'.tag = g.tag /\ state' = "Slot"
           \/ ~HasRoi(cur.size) /\ state' = "Idle"
    <3>1. g.rows = cur.size.h
      BY <1>1, <1>9 DEF LastRow, g
    <3>2. /\ f' = [g EXCEPT !.active = FALSE]
          /\ \/ HasRoi(g.size) /\ n'.tag = g.tag /\ state' = "Slot"
             \/ ~(g.inorder /\ HasRoi(g.size)) /\ state' = "Idle"
      BY <1>9 DEF CommitRow, LastRow, g, NoEntry
    <3>3. [g EXCEPT !.active = FALSE].active = FALSE
      BY DEF g, FrameWithRow, BoardInv, TypeOK
    <3> QED BY <1>1, <3>1, <3>2, <3>3
  <2>2. Arrived' = cur.size.h /\ cur.size.h \in Nat \ {0}
    BY <1>0, <1>1, <1>3, <2>1
  <2>3. UnhitFrame'
    BY <1>2, <1>5, <2>1, <2>2 DEF UnhitFrame
  <2>4. ASSUME HasRoi(cur.size) PROVE UnhitPath' /\ UnhitTracker'
    <3>1. FrameTag' = FrameTag
      BY <1>1, <2>1, <2>2, <2>4 DEF FrameTag
    <3>2. RowsOut' = ROI
      BY <1>0, <1>1, <2>2 DEF RowsOut
    <3>3. InWindow(g.rows - g.oy) = ROI
      BY <1>0, <1>1, <2>1, <2>4 DEF InWindow
    <3> QED BY <1>1, <1>6, <2>4, <3>1, <3>2, <3>3
  <2>5. Owed' => HasRoi(cur.size)
    BY DEF Owed
  <2> QED BY <1>4, <2>3, <2>4, <2>5
<1> QED BY <1>8, <1>9

\* The receiver's steps while a frame without a fault is the last one sent.
LEMMA UnhitReceive ==
  ASSUME BoardInv, BoardInv', SendInv, HeaderInv, TurnInv, ReportInv, Unhit, UnhitInv,
         ReceiveStep, UNCHANGED <<trk, cur, delayed, upl, hit, script>>
  PROVE  UnhitRow' /\ UnhitFrame' /\ (Owed' => UnhitPath' /\ UnhitTracker')
<1>0. /\ cur.row \in Nat /\ cur.size.h \in Nat \ {0} /\ ROI \in Nat \ {0}
      /\ f.rows \in Nat /\ f.oy \in Nat /\ Len(fifo) \in Nat /\ Arrived \in Int
      /\ RowsOut \in Int /\ RowsTaken \in Int
  BY UnhitTypes
<1>1. UnhitRow /\ UnhitFrame /\ (Owed => UnhitPath /\ UnhitTracker)
  BY DEF UnhitInv
<1>2. pkt.kind = "row" /\ state # "Idle" /\ state # "Slot" =>
        /\ Uncommitted /\ pkt.fid = cur.fid /\ pkt.row = Arrived /\ pkt.size = cur.size
        /\ Good /\ Arrived < cur.size.h /\ state # "Drop"
  BY <1>1 DEF Uncommitted, Held, UnhitRow, TurnInv
<1>3. Owed => ~upl.gap
  BY <1>1, GapOwesNothing
<1>4. CASE DropEnd \/ TemplateHeader \/ CommitTemplate \/ CommitPosition
  <2>1. /\ state \notin {"Idle", "Slot"} /\ pkt.kind # "row" /\ state' \notin {"Slot", "Drop"}
        /\ UNCHANGED <<pkt, frameVars, q, l, fifo, res>>
    BY <1>2, <1>4
    DEF DropEnd, TemplateHeader, CommitTemplate, CommitPosition, Committing, BoardInv, TypeOK
  <2>2. /\ UnhitRow' /\ UnhitFrame' /\ Arrived' = Arrived /\ FrameTag' = FrameTag
        /\ Owed' => Owed
    BY <1>1, <2>1, FrameSame DEF frameVars
  <2>3. Owed => p'.word = p.word
    BY <1>3, <1>4, <2>1
    DEF DropEnd, TemplateHeader, CommitTemplate, CommitPosition, TurnInv, Held, BoardInv, TypeOK
  <2>4. RowsOut' = RowsOut
    BY <2>1, <2>2 DEF RowsOut, Passed, frameVars
  <2> QED BY <1>1, <2>1, <2>2, <2>3, <2>4, PathSame
<1>5. CASE RowHeader
  <2>1. /\ state = "HdrA" /\ state' \in {"Ctrl", "Body"} /\ (state' = "Body" => ~p'.inwin)
        /\ p'.word = NoWord /\ UNCHANGED <<pkt, frameVars, q, l, fifo, res>>
    BY <1>5 DEF RowHeader
  <2>2. /\ UnhitRow' /\ UnhitFrame' /\ Arrived' = Arrived /\ FrameTag' = FrameTag
        /\ Owed' => Owed
    BY <1>1, <2>1, FrameSame DEF frameVars
  <2>3. ~Passed /\ ~Passed' /\ p.word = NoWord
    BY <2>1 DEF Passed, TurnInv
  <2>4. RowsOut' = RowsOut
    BY <2>1, <2>2, <2>3 DEF RowsOut, frameVars
  <2> QED BY <1>1, <2>1, <2>2, <2>3, <2>4, PathSame
<1>6. CASE RowCtrl
  <2>1. /\ state = "Ctrl" /\ state' = "Body" /\ p'.word = RowWord /\ p'.inwin = p.inwin
        /\ l' = (IF StartsFrame THEN [l EXCEPT !.valid = FALSE] ELSE l)
        /\ UNCHANGED <<pkt, frameVars, q, fifo, res>>
    BY <1>6 DEF RowCtrl, BoardInv, TypeOK
  <2>2. /\ UnhitRow' /\ UnhitFrame' /\ Arrived' = Arrived /\ FrameTag' = FrameTag
        /\ Owed' => Owed
    BY <1>1, <2>1, FrameSame DEF frameVars
  <2>3. /\ WordOf(RowWord, RowsOut) /\ RowsOut \in 0..(ROI - 1) /\ HasRoi(cur.size)
        /\ (StartsFrame <=> RowsOut = 0) /\ RowWord # NoWord
    BY <1>1, <2>1, UnhitWord
  <2>4. pkt.kind = "row" /\ p.inwin /\ p.word = NoWord
    BY <2>1 DEF BoardInv, TypeOK, HeaderInv, TurnInv
  <2>5. ~Passed /\ Passed'
    BY <2>1, <2>4 DEF Passed
  <2>6. RowsOut' = RowsOut + 1
    <3>1. InWindow(f.rows - f.oy)' = InWindow(f.rows - f.oy) /\ InWindow(f.rows - f.oy) \in Int
      BY <1>0, <2>1 DEF frameVars, InWindow
    <3> QED BY <1>0, <2>1, <2>2, <2>5, <3>1 DEF RowsOut, frameVars
  <2>7. RowsTaken' = RowsTaken
    BY <1>0, <2>1, <2>3, <2>4, <2>6 DEF RowsTaken
  <2>8. ASSUME Owed PROVE UnhitPath' /\ UnhitTracker'
    <3>1. UnhitPath /\ UnhitTracker
      BY <1>1, <2>8
    <3>2. WordOf(p.word, RowsOut - 1)'
      <4>1. RowsOut' - 1 = RowsOut
        BY <2>3, <2>6
      <4>2. p'.word.row = RowsOut /\ p'.word.tag = FrameTag /\ (p'.word.newf <=> RowsOut = 0)
        BY <2>1, <2>3 DEF WordOf
      <4> QED BY <2>2, <4>1, <4>2 DEF WordOf
    <3>3. UnhitPath'
      <4>1. RowsTaken' \in 0..ROI /\ RowsOut' \in 0..ROI
        BY <1>0, <2>3, <2>6, <2>7, <3>1 DEF UnhitPath
      <4>2. \A i \in 1..Len(fifo') : WordOf(fifo[i], RowsTaken + i - 1)'
        BY <2>1, <2>2, <2>7, <3>1 DEF UnhitPath, WordOf
      <4> QED BY <3>2, <4>1, <4>2 DEF UnhitPath
    <3>4. RowsTaken = ROI => FALSE
      BY <1>0, <2>3 DEF RowsTaken
    <3>5. UnhitTracker'
      BY <2>1, <2>2, <2>7, <3>1, <3>4 DEF UnhitTracker, Collects
    <3> QED BY <3>3, <3>5
  <2> QED BY <2>2, <2>8
<1>7. CASE WindowEnd \/ PayloadEnd
  <2>1. /\ state = "Body" /\ state' \in {"Body", "Commit"} /\ p'.word = NoWord
        /\ p'.inwin = p.inwin
        /\ UNCHANGED <<pkt, frameVars, q, l, res>>
    BY <1>7 DEF WindowEnd, PayloadEnd, BoardInv, TypeOK
  <2>2. /\ UnhitRow' /\ UnhitFrame' /\ Arrived' = Arrived /\ FrameTag' = FrameTag
        /\ Owed' => Owed
    BY <1>1, <2>1, FrameSame DEF frameVars
  <2>3. RowsOut' = RowsOut
    BY <2>1, <2>2 DEF RowsOut, Passed, frameVars
  <2>4. Owed => pkt.kind = "row" /\ Good
    BY <1>2, <1>3, <2>1 DEF BoardInv, TypeOK, TurnInv, Held
  <2>5. Owed => fifo' = IF p.word = NoWord THEN fifo ELSE Append(fifo, p.word)
    BY <1>7, <2>4 DEF WindowEnd, PayloadEnd, Good
  <2>6. ASSUME Owed PROVE UnhitPath' /\ UnhitTracker'
    <3>1. CASE p.word = NoWord
      BY <1>1, <2>1, <2>2, <2>3, <2>5, <2>6, <3>1, PathSame
    <3>2. CASE p.word # NoWord
      BY <1>1, <2>1, <2>2, <2>3, <2>5, <2>6, <3>2, UnhitPut
    <3> QED BY <3>1, <3>2
  <2> QED BY <2>2, <2>6
<1>8. CASE CommitBadRow
  BY <1>2, <1>8 DEF CommitBadRow, Committing, RowGood
<1>9. CASE CommitClose
  <2>1. /\ state = "Commit" /\ pkt.kind = "row" /\ f.active /\ pkt.fid # f.fid
        /\ state' = state /\ ~f'.active /\ p'.word = p.word /\ p'.inwin = p.inwin
        /\ UNCHANGED <<pkt, nextTag, n, q, l, fifo, res>>
    BY <1>9 DEF CommitClose, Committing, RowGood, BoardInv, TypeOK
  <2>2. Arrived \in 0..(cur.size.h - 1) /\ ~(Arrived \in 1..(cur.size.h - 1))
    BY <1>0, <1>1, <1>2, <2>1 DEF UnhitRow, UnhitFrame
  <2>3. Arrived = 0 /\ Uncommitted' = Uncommitted
    BY <1>0, <2>1, <2>2 DEF Uncommitted, Held
  <2>4. Arrived' = Arrived /\ FrameTag' = FrameTag /\ RowsOut' = RowsOut
    BY <2>1, <2>3 DEF Arrived, FrameTag, RowsOut, Passed
  <2>5. UnhitRow' /\ UnhitFrame' /\ (Owed' => Owed)
    BY <1>0, <1>1, <2>1, <2>2, <2>3, <2>4 DEF UnhitRow, UnhitFrame, Owed, Awaiting, Good
  <2> QED BY <1>1, <2>1, <2>4, <2>5, PathSame
<1>10. CASE CommitRow
  BY <1>1, <1>10, UnhitCommit
<1>11. CASE TakeSlot
  <2>1. /\ state = "Slot" /\ state' = "Idle" /\ ~q.valid /\ q'.valid /\ q'.tag = n.tag
        /\ UNCHANGED <<pkt, p, frameVars, l, fifo, res>>
    BY <1>11 DEF TakeSlot, BoardInv, TypeOK, Entry
  <2>2. ~Uncommitted /\ ~Uncommitted' /\ Arrived' = Arrived /\ Arrived = cur.size.h
    BY <1>1, <2>1 DEF Uncommitted, Arrived, Held, UnhitFrame
  <2>3. UnhitRow' /\ UnhitFrame'
    BY <1>1, <2>1, <2>2 DEF UnhitRow, UnhitFrame, frameVars
  <2>4. Owed' => Owed
    BY <2>1, <2>2 DEF Owed
  <2>5. cur.size.h # 0 /\ ~(cur.size.h < cur.size.h)
    BY <1>0
  <2>6. FrameTag' = FrameTag /\ RowsOut' = RowsOut
    BY <2>1, <2>2, <2>5 DEF FrameTag, RowsOut, Passed
  <2> QED BY <1>1, <2>1, <2>3, <2>4, <2>6, PathSame
<1> QED
  BY <1>4, <1>5, <1>6, <1>7, <1>8, <1>9, <1>10, <1>11 DEF ReceiveStep

\* The tracker counts a row that follows on those it has taken.
LEMMA RowCounted ==
  ASSUME BoardInv, TrackRow
  PROVE  /\ Len(fifo) \in Nat \ {0} /\ ~trk.busy /\ Len(fifo') = Len(fifo) - 1
         /\ \A i \in 1..Len(fifo') : fifo'[i] = fifo[i + 1]
         /\ fifo[1].newf /\ fifo[1].row = 0 =>
              /\ trk'.tag = fifo[1].tag /\ trk'.inorder /\ trk'.cnt = 1
              /\ trk'.busy <=> 0 = ROI - 1
         /\ ~fifo[1].newf /\ trk.inorder /\ fifo[1].row = trk.cnt =>
              /\ trk'.tag = trk.tag /\ trk'.inorder /\ trk'.cnt = trk.cnt + 1
              /\ trk'.busy <=> trk.cnt = ROI - 1
<1> DEFINE w == Head(fifo)
           g == IF w.newf THEN RestartFrame(w) ELSE ContinueFrame(w)
<1>1. fifo \in Seq(Word) /\ fifo # <<>> /\ fifo' = Tail(fifo) /\ ~trk.busy
  BY DEF TrackRow, Offered, BoardInv, TypeOK
<1>2. /\ Len(fifo) \in Nat \ {0} /\ w = fifo[1] /\ Len(fifo') = Len(fifo) - 1
      /\ \A i \in 1..Len(fifo') : fifo'[i] = fifo[i + 1]
  BY <1>1
<1>3. trk' = [g EXCEPT !.cnt = g.cnt + 1,
                       !.rows = IF g.inorder THEN Append(g.rows, w.src) ELSE <<>>,
                       !.busy = g.inorder /\ g.cnt = ROI - 1]
  BY DEF TrackRow
<1>4. w.newf => (g.inorder <=> w.row = 0) /\ g.cnt = 0 /\ g.tag = w.tag
  BY DEF RestartFrame, BoardInv, TrackerType
<1>5. ~w.newf => /\ g.inorder <=> trk.inorder /\ w.row = trk.cnt
                 /\ g.cnt = trk.cnt /\ g.tag = trk.tag
  BY DEF ContinueFrame, BoardInv, TrackerType
<1>6. g = [busy |-> g.busy, tag |-> g.tag, cnt |-> g.cnt, inorder |-> g.inorder,
           rows |-> g.rows, pending |-> g.pending, shadow |-> g.shadow, tmpl |-> g.tmpl]
  BY DEF RestartFrame, ContinueFrame, BoardInv, TrackerType
<1> HIDE DEF g, w
<1>7. /\ trk'.inorder = g.inorder /\ trk'.cnt = g.cnt + 1 /\ trk'.tag = g.tag
      /\ trk'.busy = (g.inorder /\ g.cnt = ROI - 1)
  BY <1>3, <1>6
<1>8. ASSUME w.newf, w.row = 0
      PROVE  /\ trk'.tag = w.tag /\ trk'.inorder /\ trk'.cnt = 1
             /\ trk'.busy <=> 0 = ROI - 1
  <2>1. g.inorder /\ g.cnt = 0 /\ g.tag = w.tag
    BY <1>4, <1>8
  <2>2. trk'.busy <=> 0 = ROI - 1
    BY <1>7, <2>1
  <2>3. trk'.tag = w.tag /\ trk'.inorder
    BY <1>7, <2>1
  <2>4. trk'.cnt = 1
    BY <1>7, <2>1
  <2> QED BY <2>2, <2>3, <2>4
<1>9. ASSUME ~w.newf, trk.inorder, w.row = trk.cnt
      PROVE  /\ trk'.tag = trk.tag /\ trk'.inorder /\ trk'.cnt = trk.cnt + 1
             /\ trk'.busy <=> trk.cnt = ROI - 1
  BY <1>5, <1>7, <1>9
<1> QED BY <1>1, <1>2, <1>8, <1>9

\* The tracker takes the next row of the window.
LEMMA UnhitTaken ==
  ASSUME BoardInv, TurnInv, ReportInv, Unhit, UnhitPath, UnhitTracker, TrackRow,
         UNCHANGED <<p, l, res>>, RowsOut' = RowsOut, FrameTag' = FrameTag
  PROVE  UnhitPath' /\ UnhitTracker'
<1>0. /\ ROI \in Nat \ {0} /\ Len(fifo) \in Nat /\ RowsOut \in Int /\ RowsTaken \in Int
  BY UnhitTypes
<1>1. /\ Len(fifo) \in Nat \ {0} /\ ~trk.busy /\ Len(fifo') = Len(fifo) - 1
      /\ \A i \in 1..Len(fifo') : fifo'[i] = fifo[i + 1]
  BY RowCounted
<1>2. WordOf(fifo[1], RowsTaken)
  <2>1. 1 \in 1..Len(fifo) /\ RowsTaken + 1 - 1 = RowsTaken
    BY <1>0, <1>1
  <2> QED BY <2>1 DEF UnhitPath
<1>3. RowsTaken' = RowsTaken + 1 /\ RowsTaken \in 0..(ROI - 1) /\ ROI \in Nat \ {0}
  <2>1. RowsTaken' = RowsTaken + 1
    BY <1>0, <1>1 DEF RowsTaken
  <2>2. RowsTaken < RowsOut
    BY <1>0, <1>1 DEF RowsTaken
  <2> QED BY <1>0, <2>1, <2>2 DEF UnhitPath
<1>4. UnhitPath'
  <2>1. ASSUME NEW i \in 1..Len(fifo') PROVE WordOf(fifo'[i], RowsTaken' + i - 1)
    <3>1. i + 1 \in 1..Len(fifo) /\ RowsTaken' + i - 1 = RowsTaken + (i + 1) - 1
      BY <1>1, <1>3
    <3> QED BY <1>1, <3>1 DEF UnhitPath
  <2>2. p'.word # NoWord => WordOf(p.word, RowsOut - 1)'
    BY DEF UnhitPath, WordOf
  <2>3. \A i \in 1..Len(fifo') : WordOf(fifo[i], RowsTaken + i - 1)'
    BY <2>1 DEF WordOf
  <2>4. RowsTaken' \in 0..ROI /\ RowsOut' \in 0..ROI
    BY <1>3 DEF UnhitPath
  <2> QED BY <2>2, <2>3, <2>4 DEF UnhitPath
<1>5. res = NoAnswer /\ trk'.tag = FrameTag /\ trk'.inorder /\ trk'.cnt = RowsTaken'
      /\ (trk'.busy <=> RowsTaken' = ROI)
  <2>1. CASE RowsTaken = 0
    <3>1. fifo[1].newf /\ fifo[1].row = 0 /\ fifo[1].tag = FrameTag /\ res = NoAnswer
      BY <1>2, <2>1 DEF WordOf, UnhitTracker, Collects
    <3>2. trk'.tag = FrameTag /\ trk'.inorder /\ trk'.cnt = 1 /\ (trk'.busy <=> 0 = ROI - 1)
      BY <3>1, RowCounted
    <3> QED BY <1>3, <2>1, <3>1, <3>2
  <2>2. CASE RowsTaken # 0
    <3>1. RowsTaken \in 1..(ROI - 1) /\ RowsTaken > 0
      BY <1>3, <2>2
    <3>2. trk.tag = FrameTag /\ trk.inorder /\ trk.cnt = RowsTaken /\ res = NoAnswer
      BY <3>1 DEF UnhitTracker, Collects
    <3>3. ~fifo[1].newf /\ fifo[1].row = trk.cnt
      BY <1>2, <2>2, <3>2 DEF WordOf
    <3>4. /\ trk'.tag = trk.tag /\ trk'.inorder /\ trk'.cnt = trk.cnt + 1
          /\ trk'.busy <=> trk.cnt = ROI - 1
      BY <3>2, <3>3, RowCounted
    <3> QED BY <1>3, <3>2, <3>4
  <2> QED BY <2>1, <2>2
<1>6. UnhitTracker'
  BY <1>3, <1>5 DEF UnhitTracker, Collects, Answered
<1> QED BY <1>4, <1>6

\* A frame that waits has had all of its rows forwarded and, when nothing is
\* left on the way, all taken.
LEMMA UnhitWaits ==
  ASSUME BoardInv, TurnInv, ReportInv, Unhit, UnhitInv, Awaiting
  PROVE  /\ Owed /\ Arrived = cur.size.h /\ state # "Slot" /\ FrameTag = q.tag
         /\ fifo = <<>> => RowsTaken = ROI
<1>0. /\ cur.size.h \in Nat \ {0} /\ ROI \in Nat \ {0} /\ f.rows \in Nat /\ f.oy \in Nat
      /\ Len(fifo) \in Nat /\ Arrived \in Int /\ RowsOut \in Int /\ RowsTaken \in Int
  BY UnhitTypes
<1>1. /\ UnhitRow /\ UnhitFrame /\ q.valid /\ Arrived = cur.size.h /\ HasRoi(cur.size)
      /\ state # "Slot"
  BY DEF UnhitInv, UnhitFrame, Awaiting
<1>2. Owed /\ UnhitPath
  BY <1>1 DEF Owed, UnhitInv
<1>3. FrameTag = q.tag
  BY <1>0, <1>1 DEF FrameTag
<1>4. ~Uncommitted /\ ~upl.gap
  BY <1>0, <1>1 DEF UnhitRow, TurnInv
<1>5. ~Held("row") /\ ~Held("tmpl")
  BY <1>1, <1>4 DEF Uncommitted, TurnInv
<1>6. ~Passed /\ p.word = NoWord
  BY <1>5 DEF Passed, Held, TurnInv, BoardInv, TypeOK
<1>7. RowsOut = ROI
  BY <1>0, <1>1, <1>6 DEF RowsOut
<1>8. fifo = <<>> => RowsTaken = ROI
  BY <1>0, <1>6, <1>7 DEF RowsTaken
<1> QED BY <1>1, <1>2, <1>3, <1>8

\* A frame without a fault does not time out.
LEMMA UnhitInTime ==
  ASSUME Patient, BoardInv, TurnInv, ReportInv, Unhit, UnhitInv, BoardTimeOut PROVE FALSE
<1>1. Awaiting /\ ~Matching /\ TrackerQuiet
  BY DEF BoardTimeOut, TimeOut
<1>2. Owed /\ FrameTag = q.tag /\ RowsTaken = ROI
  BY <1>1, UnhitWaits DEF TrackerQuiet
<1>3. Answered
  BY <1>2 DEF UnhitInv, UnhitTracker
<1> QED BY <1>1, <1>2, <1>3 DEF Answered, TrackerQuiet, Matching

\* The steps of the tracker and of the slot.
LEMMA UnhitTrack ==
  ASSUME BoardInv, BoardInv', SendInv, TurnInv, ReportInv, Unhit, UnhitInv,
         TrackerStep \/ ((SlotStep \/ TxDone) /\ UNCHANGED trk),
         UNCHANGED <<cur, delayed, upl, hit, script>>
  PROVE  UnhitRow' /\ UnhitFrame' /\ (Owed' => UnhitPath' /\ UnhitTracker')
<1>0. /\ cur.size.h \in Nat \ {0} /\ ROI \in Nat \ {0} /\ f.rows \in Nat /\ f.oy \in Nat
      /\ Len(fifo) \in Nat /\ Arrived \in Int /\ RowsOut \in Int /\ RowsTaken \in Int
  BY UnhitTypes
<1>1. UnhitRow /\ UnhitFrame /\ (Owed => UnhitPath /\ UnhitTracker)
  BY DEF UnhitInv
<1>2. UNCHANGED <<state, pkt, p, f, nextTag, n>>
  BY DEF TrackerStep, TrackRow, TrackChunk, Answer, SlotStep, TakeAnswer, LatchAnswer,
         EmitPending, TxDone, rxVars, frameVars
<1>3. (q'.valid => q.valid) /\ q'.tag = q.tag /\ (q.ready => q'.ready \/ ~q'.valid)
  <2>1. CASE TakeAnswer
    BY <2>1 DEF TakeAnswer, AnswerDue, Awaiting, BoardInv, TypeOK, Entry
  <2>2. CASE EmitPending
    BY <2>2 DEF EmitPending, SlotFreed, BoardInv, TypeOK, Entry
  <2>3. CASE TrackerStep \/ LatchAnswer \/ TxDone
    BY <2>3 DEF TrackerStep, TrackRow, TrackChunk, Answer, LatchAnswer, TxDone
  <2> QED BY <2>1, <2>2, <2>3 DEF SlotStep
<1>4. /\ UnhitRow' /\ UnhitFrame' /\ Arrived' = Arrived /\ FrameTag' = FrameTag
      /\ Owed' => Owed
  BY <1>1, <1>2, <1>3, FrameSame
<1>5. RowsOut' = RowsOut
  BY <1>2, <1>4 DEF RowsOut, Passed
<1> SUFFICES ASSUME Owed' PROVE UnhitPath' /\ UnhitTracker'
  BY <1>4
<1>6. UnhitPath /\ UnhitTracker /\ RowsTaken \in 0..ROI /\ ~upl.gap
  BY <1>1, <1>4, GapOwesNothing DEF UnhitPath
<1>7. CASE TrackRow
  BY <1>2, <1>4, <1>5, <1>6, <1>7, UnhitTaken DEF TrackRow
<1>8. CASE TrackChunk
  <2>1. Head(fifo) = fifo[1] /\ 1 \in 1..Len(fifo) /\ fifo[1].kind = "tmpl"
    BY <1>8 DEF TrackChunk, Offered, BoardInv, TypeOK
  <2> QED BY <1>6, <2>1 DEF TurnInv, AllKind
<1>9. CASE Answer
  <2>1. /\ trk.busy /\ res = NoAnswer /\ res' # NoAnswer /\ res'.tag = trk.tag
        /\ ~trk'.busy /\ trk'.tag = trk.tag /\ UNCHANGED <<fifo, l>>
    BY <1>9 DEF Answer, NoAnswer, BoardInv, TrackerType
  <2>2. RowsTaken = ROI /\ trk.tag = FrameTag /\ ROI \in Nat \ {0}
    BY <1>0, <1>6, <2>1 DEF UnhitTracker, Collects
  <2>3. RowsTaken' = RowsTaken
    BY <1>2, <1>5, <2>1 DEF RowsTaken
  <2>4. UnhitPath'
    BY <1>2, <1>4, <1>5, <1>6, <2>1, <2>3 DEF UnhitPath, WordOf
  <2>5. UnhitTracker'
    BY <1>4, <2>1, <2>2, <2>3 DEF UnhitTracker, Answered
  <2> QED BY <2>4, <2>5
<1>10. CASE LatchAnswer /\ UNCHANGED trk
  <2>1. /\ res # NoAnswer /\ res' = NoAnswer /\ l'.valid /\ l'.tag = res.tag
        /\ UNCHANGED <<fifo, trk>>
    BY <1>10 DEF LatchAnswer
  <2>2. RowsTaken = ROI /\ res.tag = FrameTag /\ ~trk.busy /\ trk.tag = FrameTag
        /\ ROI \in Nat \ {0}
    BY <1>0, <1>6, <2>1 DEF UnhitTracker, Collects, Answered
  <2>3. RowsTaken' = RowsTaken
    BY <1>2, <1>5, <2>1 DEF RowsTaken
  <2>4. UnhitPath'
    BY <1>2, <1>4, <1>5, <1>6, <2>1, <2>3 DEF UnhitPath, WordOf
  <2>5. UnhitTracker'
    BY <1>4, <2>1, <2>2, <2>3 DEF UnhitTracker, Answered
  <2> QED BY <2>4, <2>5
<1>11. CASE TakeAnswer \/ EmitPending
  <2>1. q.valid /\ ~Awaiting'
    <3>1. CASE TakeAnswer
      BY <3>1 DEF TakeAnswer, AnswerDue, Awaiting, SlotFreed, BoardInv, TypeOK, Entry
    <3>2. CASE EmitPending
      BY <3>2 DEF EmitPending, AnswerDue, Awaiting, SlotFreed, BoardInv, TypeOK, Entry
    <3> QED BY <1>11, <3>1, <3>2
  <2>2. Arrived' = cur'.size.h /\ state' # "Slot"
    BY <1>1, <1>2, <1>4, <2>1 DEF UnhitFrame
  <2> QED BY <2>1, <2>2 DEF Owed
<1>12. CASE TxDone /\ UNCHANGED trk
  BY <1>2, <1>4, <1>5, <1>6, <1>12, PathSame DEF TxDone
<1> QED
  BY <1>7, <1>8, <1>9, <1>10, <1>11, <1>12 DEF TrackerStep, SlotStep

LEMMA UnhitStep ==
  ASSUME Lockstep, Patient, BoardInv, BoardInv', SendInv, HeaderInv, TurnInv, ReportInv,
         UnhitInv, [BoardNext]_allVars
  PROVE  UnhitInv'
<1>1. CASE HostStep
  BY <1>1, UnhitHost
<1>2. ASSUME UNCHANGED <<cur, delayed, upl, hit, script>>, Unhit =>
               UnhitRow' /\ UnhitFrame' /\ (Owed' => UnhitPath' /\ UnhitTracker')
      PROVE  UnhitInv'
  BY <1>2 DEF UnhitInv, Unhit
<1>3. CASE ReceiveStep /\ UNCHANGED trk /\ NotHost
  BY <1>2, <1>3, UnhitReceive DEF NotHost, hostVars
<1>4. CASE (TrackerStep \/ (SlotStep /\ UNCHANGED trk)) /\ NotHost
  <2>1. UNCHANGED <<cur, delayed, upl, hit, script>>
    BY <1>4 DEF NotHost, hostVars
  <2> QED BY <1>2, <1>4, <2>1, UnhitTrack
<1>5. CASE BoardTimeOut
  BY <1>2, <1>5, UnhitInTime DEF BoardTimeOut, NotHost, hostVars
<1>6. CASE BoardTxDone
  BY <1>2, <1>6, UnhitTrack DEF BoardTxDone
<1>7. CASE UNCHANGED allVars
  <2>1. UNCHANGED <<state, pkt, p, f, nextTag, n, q, l, fifo, res, trk, cur, delayed, upl, hit,
                    script>>
    BY <1>7 DEF allVars, vars, rxVars, frameVars, hostVars
  <2>2. ASSUME Unhit
        PROVE  UnhitRow' /\ UnhitFrame' /\ (Owed' => UnhitPath' /\ UnhitTracker')
    <3>1. UnhitRow /\ UnhitFrame /\ (Owed => UnhitPath /\ UnhitTracker)
      BY <2>2 DEF UnhitInv
    <3>2. /\ UnhitRow' /\ UnhitFrame' /\ Arrived' = Arrived /\ FrameTag' = FrameTag
          /\ Owed' => Owed
      BY <2>1, <3>1, FrameSame
    <3>3. RowsOut' = RowsOut
      BY <2>1, <3>2 DEF RowsOut, Passed
    <3> QED BY <2>1, <3>1, <3>2, <3>3, PathSame
  <2> QED BY <1>2, <2>1, <2>2
<1> QED
  BY <1>1, <1>3, <1>4, <1>5, <1>6, <1>7 DEF BoardNext, BoardStep, Finished

\* What FaultContained says of one report, of a frame that was begun.
Contained(r) ==
  /\ r.fid \in 1..cur.fid
  /\ r.fid \notin hit =>
       /\ "complete" \in r.flags
       /\ HasRoi(script[r.fid].size) => "tracked" \in r.flags

LEMMA ReportsContained ==
  (\A r \in FrameReports : Contained(r))
    <=> FaultContained /\ \A r \in FrameReports : r.fid \in 1..cur.fid
BY DEF Contained, FaultContained

\* What the host does leaves the reports and their frames alone.
LEMMA ReportHost ==
  ASSUME Lockstep, BoardInv, SendInv, TurnInv, UnhitInv, ReportInv, FaultContained, HostStep
  PROVE  ReportInv' /\ FaultContained'
<1>1. UNCHANGED <<f, q, tx, sent>>
  BY DEF HostStep, StartFrame, SendRow, SendPosition, SendChunk, LoseRow, DuplicateRow,
         DamageRow, DamageCopy, DelayRow, DeliverDelayed, LoseChunk, RxHeader, vars, frameVars
<1>2. FrameReports' = FrameReports
  BY <1>1 DEF FrameReports
<1>3. cur.fid \in Nat /\ script \in Seq(Frames) /\ Len(script) = cur.fid
  BY DEF BoardInv, HostType, TurnInv
<1>4. /\ \A r \in FrameReports : Contained(r)
      /\ \A r \in FrameReports : r.fid \in 1..cur.fid
  BY ReportsContained DEF ReportInv
<1>5. CASE StartFrame
  <2>1. PICK s \in Sizes : /\ cur' = [fid |-> cur.fid + 1, size |-> s, row |-> 0]
                           /\ script' = Append(script, [size |-> s, tmpl |-> upl.whole])
    BY <1>5 DEF StartFrame
  <2>2. hit' = hit /\ BetweenFrames /\ state = "Idle"
    BY <1>5 DEF StartFrame, MaySend, BoardQuiet
  <2>3. [size |-> s, tmpl |-> upl.whole] \in Frames
    BY DEF Frames, BoardInv, HostType
  <2>4. /\ \A i \in 1..cur.fid : script'[i] = script[i]
        /\ script'[cur.fid + 1] = [size |-> s, tmpl |-> upl.whole]
    BY <1>3, <2>1, <2>3
  <2>5. ASSUME f.active PROVE f.fid \in hit
    <3>1. f.fid \in 1..cur.fid
      BY <2>5 DEF TurnInv
    <3>2. CASE f.fid = cur.fid /\ cur.fid \notin hit
      <4>1. Unhit /\ UnhitFrame
        BY <1>3, <3>1, <3>2 DEF Unhit, UnhitInv
      <4>2. Arrived = cur.size.h
        BY <2>2 DEF Arrived, Uncommitted, Held, BetweenFrames
      <4> QED BY <2>5, <4>1, <4>2 DEF UnhitFrame
    <3> QED BY <2>5, <3>2 DEF ReportInv
  <2>6. \A r \in FrameReports' : Contained(r)'
    BY <1>2, <1>3, <1>4, <2>1, <2>2, <2>4 DEF Contained
  <2>7. \A r \in FrameReports' : r.fid \in 1..cur'.fid
    BY <2>6 DEF Contained
  <2>8. FaultContained'
    BY <2>6 DEF Contained, FaultContained
  <2>9. cur'.size = script'[cur'.fid].size
    <3>1. cur'.size = s /\ cur'.fid = cur.fid + 1
      BY <2>1
    <3>2. script'[cur.fid + 1].size = s
      BY <2>4
    <3> QED BY <3>1, <3>2
  <2>10. (f'.active => f'.fid \in hit') /\ (q'.ready => q'.fid \in hit' \/ "tracked" \in q'.flags)
    BY <1>1, <2>2, <2>5 DEF ReportInv
  <2> QED BY <2>7, <2>8, <2>9, <2>10 DEF ReportInv
<1>6. CASE ~StartFrame
  <2>1. /\ cur'.fid = cur.fid /\ cur'.size = cur.size /\ script' = script
        /\ hit \subseteq hit'
    BY <1>6 DEF HostStep, SendRow, SendPosition, SendChunk, LoseRow, DuplicateRow,
         DamageRow, DamageCopy, DelayRow, DeliverDelayed, LoseChunk, NextRow, RowFault, Fault,
         BoardInv, HostType
  <2>2. \A r \in FrameReports' : Contained(r)'
    BY <1>2, <1>4, <2>1 DEF Contained
  <2>3. FaultContained' /\ \A r \in FrameReports' : r.fid \in 1..cur'.fid
    BY <2>2 DEF Contained, FaultContained
  <2> QED BY <1>1, <2>1, <2>3 DEF ReportInv
<1> QED BY <1>5, <1>6

\* A frame that is reported while it closes has had a fault, or is complete
\* and too small to be matched.
LEMMA ReportClosed ==
  ASSUME BoardInv, BoardInv', HeaderInv, TurnInv, UnhitInv, ReportInv,
         CommitClose \/ CommitRow, UNCHANGED <<cur, script, hit>>
  PROVE  /\ tx'.kind = "frame" /\ tx' # tx => Contained(tx')
         /\ f'.active => f'.fid = cur.fid
<1>1. pkt.kind = "row" /\ Held("row") /\ pkt.fid = cur.fid /\ cur.fid \in Nat \ {0}
  BY DEF CommitClose, CommitRow, Committing, RowGood, Held, TurnInv, BoardInv, HostType
<1>2. CASE CommitClose
  <2>1. /\ f.active /\ f.fid # cur.fid /\ tx'.fid = f.fid /\ ~f'.active
    BY <1>1, <1>2 DEF CommitClose, Report, BoardInv, TypeOK
  <2>2. f.fid \in hit /\ f.fid \in 1..cur.fid
    BY <2>1 DEF ReportInv, TurnInv
  <2> QED BY <2>1, <2>2 DEF Contained
<1>3. CASE CommitRow
  <2>1. FrameWithRow.fid = cur.fid
    BY <1>1, <1>3, GoodRow DEF BoardInv
  <2>2. f' = FrameWithRow \/ ~f'.active
    <3>1. [FrameWithRow EXCEPT !.active = FALSE].active = FALSE
      BY DEF FrameWithRow, BoardInv, TypeOK
    <3> QED BY <1>3, <3>1 DEF CommitRow
  <2>3. ASSUME tx' # tx PROVE Contained(tx')
    <3>1. /\ tx'.fid = cur.fid /\ "complete" \in tx'.flags
          /\ ~(FrameWithRow.inorder /\ HasRoi(FrameWithRow.size))
      BY <1>3, <2>1, <2>3 DEF CommitRow, Report
    <3>2. ASSUME Unhit PROVE ~HasRoi(script[cur.fid].size)
      <4>1. UnhitRow /\ UnhitFrame
        BY <3>2 DEF UnhitInv
      <4>2. FrameWithRow.inorder /\ FrameWithRow.size = cur.size
        BY <1>3, <3>2, <4>1, UnhitJoins
      <4> QED BY <1>1, <3>1, <4>2 DEF ReportInv
    <3> QED BY <1>1, <3>1, <3>2 DEF Contained, Unhit
  <2> QED BY <2>1, <2>2, <2>3
<1> QED BY <1>2, <1>3

\* The frame that waits is reported as it was answered.
LEMMA ReportEmitted ==
  ASSUME BoardInv, TurnInv, ReportInv, EmitPending PROVE Contained(tx')
<1>1. /\ q.ready /\ q.valid /\ tx'.fid = q.fid /\ "complete" \in tx'.flags
      /\ q.flags \subseteq tx'.flags
  BY DEF EmitPending, Report, BoardInv, TypeOK
<1>2. q.fid = cur.fid /\ cur.fid \in Nat \ {0}
  BY <1>1 DEF TurnInv, BoardInv, HostType
<1>3. q.fid \in hit \/ "tracked" \in q.flags
  BY <1>1 DEF ReportInv
<1> QED BY <1>1, <1>2, <1>3 DEF Contained

LEMMA ReportStep ==
  ASSUME Lockstep, Patient, BoardInv, BoardInv', SendInv, PosInv, HeaderInv, TurnInv, UnhitInv,
         ReportInv, FaultContained, [BoardNext]_allVars
  PROVE  ReportInv' /\ FaultContained'
<1>1. CASE HostStep
  BY <1>1, ReportHost
<1>2. ASSUME UNCHANGED <<cur, script, hit>>,
             tx' = tx \/ tx'.kind # "frame" \/ Contained(tx'),
             sent' = sent \/ sent' = sent \cup {tx},
             f'.active => f'.fid = cur.fid \/ f'.fid \in hit,
             q'.ready => q'.fid \in hit \/ "tracked" \in q'.flags
      PROVE  ReportInv' /\ FaultContained'
  <2>1. \A r \in FrameReports : Contained(r)
    BY ReportsContained DEF ReportInv
  <2>2. ASSUME NEW r \in FrameReports' PROVE Contained(r)
    <3>1. r.kind = "frame" /\ (r \in sent \/ r = tx \/ r = tx')
      BY <1>2, <2>2 DEF FrameReports
    <3> QED BY <1>2, <2>1, <3>1 DEF FrameReports
  <2>3. FaultContained' /\ \A r \in FrameReports' : r.fid \in 1..cur'.fid
    BY <1>2, <2>2 DEF Contained, FaultContained
  <2> QED BY <1>2, <2>3 DEF ReportInv
<1>3. f.active => f.fid = cur.fid \/ f.fid \in hit
  BY DEF ReportInv
<1>4. q.ready => q.fid \in hit \/ "tracked" \in q.flags
  BY DEF ReportInv
<1>5. CASE ReceiveStep /\ UNCHANGED trk /\ NotHost
  <2>1. UNCHANGED <<cur, script, hit>>
    BY <1>5 DEF NotHost, hostVars
  <2>2. CASE CommitClose \/ CommitRow
    <3>1. UNCHANGED <<q, sent>>
      BY <2>2 DEF CommitClose, CommitRow
    <3> QED BY <1>2, <1>4, <2>1, <2>2, <3>1, ReportClosed
  <2>3. CASE TakeSlot
    <3>1. q'.ready = n.ready /\ UNCHANGED <<f, tx, sent>>
      BY <2>3 DEF TakeSlot, frameVars, BoardInv, TypeOK, Entry
    <3> QED BY <1>2, <1>3, <2>1, <3>1 DEF PosInv
  <2>4. CASE ~(CommitClose \/ CommitRow \/ TakeSlot)
    <3>1. UNCHANGED <<f, q, sent>> /\ (tx' = tx \/ tx'.kind \in {"tack", "pack"})
      BY <1>5, <2>4 DEF ReceiveStep, DropEnd, RowHeader, RowCtrl, TemplateHeader, WindowEnd,
           PayloadEnd, CommitTemplate, CommitPosition, CommitBadRow, frameVars
    <3> QED BY <1>2, <1>3, <1>4, <2>1, <3>1
  <2> QED BY <2>2, <2>3, <2>4
<1>6. CASE (SlotStep \/ TrackerStep) /\ NotHost
  <2>1. UNCHANGED <<cur, script, hit>>
    BY <1>6 DEF NotHost, hostVars
  <2>2. CASE TakeAnswer
    <3>1. "tracked" \in q'.flags /\ UNCHANGED <<f, tx, sent>>
      BY <2>2 DEF TakeAnswer, frameVars, BoardInv, TypeOK, Entry
    <3> QED BY <1>2, <1>3, <2>1, <3>1
  <2>3. CASE EmitPending
    <3>1. ~q'.ready /\ UNCHANGED <<f, sent>>
      BY <2>3 DEF EmitPending, SlotFreed, frameVars, BoardInv, TypeOK, Entry
    <3> QED BY <1>2, <1>3, <2>1, <2>3, <3>1, ReportEmitted
  <2>4. CASE LatchAnswer \/ TrackerStep
    <3>1. UNCHANGED <<f, q, tx, sent>>
      BY <2>4 DEF LatchAnswer, TrackerStep, TrackRow, TrackChunk, Answer, frameVars
    <3> QED BY <1>2, <1>3, <1>4, <2>1, <3>1
  <2> QED BY <1>6, <2>2, <2>3, <2>4 DEF SlotStep
<1>7. CASE BoardTimeOut
  <2>1. UNCHANGED <<cur, script, hit, f, tx, sent>> /\ q.valid /\ q'.fid = q.fid
    BY <1>7 DEF BoardTimeOut, TimeOut, Awaiting, NotHost, hostVars, frameVars, BoardInv, TypeOK,
                Entry
  <2>2. ~Unhit /\ q.fid = cur.fid /\ cur.fid # 0
    BY <1>7, <2>1, UnhitInTime DEF TurnInv
  <2> QED BY <1>2, <1>3, <2>1, <2>2 DEF Unhit
<1>8. CASE BoardTxDone
  <2>1. /\ UNCHANGED <<cur, script, hit, f, q>> /\ tx'.kind # "frame"
        /\ (sent' = sent \/ sent' = sent \cup {tx})
    BY <1>8 DEF BoardTxDone, TxDone, NoReply, frameVars
  <2> QED BY <1>2, <1>3, <1>4, <2>1
<1>9. CASE UNCHANGED allVars
  <2>1. UNCHANGED <<cur, script, hit, f, q, tx, sent>>
    BY <1>9 DEF allVars, vars, frameVars, hostVars
  <2> QED BY <1>2, <1>3, <1>4, <2>1
<1> QED
  BY <1>1, <1>5, <1>6, <1>7, <1>8, <1>9 DEF BoardNext, BoardStep, Finished

\* Damage to one frame never spreads: a frame none of whose own rows was lost,
\* doubled, damaged or overtaken is reported complete and, when it is large
\* enough, tracked, whatever happened to the frames before it; for a host that
\* waits for each reply (board_link3.py, _wait) and a timeout longer than the
\* tracker needs (row_stats.v, TRK_TIMEOUT).
THEOREM FaultsContained ==
  ASSUME Lockstep, Patient PROVE BoardSpec => []FaultContained
<1> DEFINE Inv == /\ BoardInv /\ SendInv /\ PosInv /\ HeaderInv /\ TurnInv
                  /\ UnhitInv /\ ReportInv /\ FaultContained
<1>1. BoardInit => Inv
  <2> SUFFICES ASSUME BoardInit PROVE Inv
    OBVIOUS
  <2>1. BoardInv
    BY BoardInitInv
  <2>2. SendInv
    BY DEF BoardInit, SendInv, BetweenFrames
  <2>3. PosInv
    BY DEF BoardInit, Init, PosInv, NoEntry, NoReply, Tells
  <2>4. HeaderInv
    BY DEF BoardInit, Init, HeaderInv, HeaderRead, NoFrame
  <2>5. TurnInv
    BY DEF BoardInit, Init, TrackerInit, TurnInv, Held, AllKind, NoFrame, NoEntry, FreshRow
  <2>6. UnhitInv
    BY DEF BoardInit, UnhitInv, Unhit
  <2>7. FrameReports = {}
    BY DEF BoardInit, Init, FrameReports, NoReply
  <2>8. ReportInv /\ FaultContained
    BY <2>7 DEF BoardInit, Init, ReportInv, FaultContained, NoFrame, NoEntry
  <2> QED BY <2>1, <2>2, <2>3, <2>4, <2>5, <2>6, <2>8
<1>2. Inv /\ [BoardNext]_allVars => Inv'
  <2> SUFFICES ASSUME Inv, [BoardNext]_allVars PROVE Inv'
    OBVIOUS
  <2>1. BoardInv' /\ [Next]_vars
    BY BoardStepMaps
  <2>2. SendInv'
    BY SendStep DEF BoardInv
  <2>3. PosInv'
    BY PosStep
  <2>4. HeaderInv'
    BY <2>1, HeaderStep DEF BoardInv
  <2>5. TurnInv'
    BY TurnStep
  <2>6. UnhitInv'
    BY <2>1, UnhitStep
  <2>7. ReportInv' /\ FaultContained'
    BY <2>1, ReportStep
  <2> QED BY <2>1, <2>2, <2>3, <2>4, <2>5, <2>6, <2>7
<1>3. Inv => FaultContained
  OBVIOUS
<1> QED BY <1>1, <1>2, <1>3, PTL DEF BoardSpec

=============================================================================
