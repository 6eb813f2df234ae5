--------------------------- MODULE RowStats_proofs ---------------------------
(***************************************************************************)
(* Theorems about the receiver in an arbitrary environment: any packets,    *)
(* any answers, a FIFO read at any pace.                                    *)
(***************************************************************************)
EXTENDS RowStats, TLAPS

\* The origin computed by the clamp of S_HDR_A2 lies in the frame, and is the
\* clamp the host computes (trackers.py, origin: np.clip(t - off, 0, size - ROI)).
LEMMA OriginClamp ==
  ASSUME NEW t \in Nat, NEW h \in Nat, h >= ROI
  PROVE  /\ Origin(t, h) \in 0..(h - ROI)
         /\ Origin(t, h) = LET low == IF t - OFF < h - ROI THEN t - OFF ELSE h - ROI
                           IN IF low > 0 THEN low ELSE 0
BY RowStatsAssumption DEF Origin

LEMMA OriginType ==
  ASSUME NEW t \in Nat, NEW h \in Nat
  PROVE  Origin(t, h) \in Nat
BY RowStatsAssumption DEF Origin

LEMMA ConstantTypes ==
  /\ NoFrame \in [active : BOOLEAN, fid : Fids, rows : Nat, size : Sizes,
                  inorder : BOOLEAN, started : BOOLEAN, tag : Tags, oy : Nat]
  /\ FreshRow \in [new : BOOLEAN, oy : Nat, inwin : BOOLEAN, word : Word]
  /\ NoEntry \in Entry
  /\ NoBasis \in Basis
  /\ \A s \in Sizes : s.w \in Nat /\ s.h \in Nat
<1>1. 0 \in Tags
  BY RowStatsAssumption DEF Tags
<1>2. NoBasis \in Basis
  BY DEF NoBasis, Basis
<1>3. (CHOOSE i \in Fids : TRUE) \in Fids /\ (CHOOSE s \in Sizes : TRUE) \in Sizes
  BY RowStatsAssumption
<1>4. NoFrame \in [active : BOOLEAN, fid : Fids, rows : Nat, size : Sizes,
                   inorder : BOOLEAN, started : BOOLEAN, tag : Tags, oy : Nat]
  BY <1>1, <1>3 DEF NoFrame
<1>5. FreshRow \in [new : BOOLEAN, oy : Nat, inwin : BOOLEAN, word : Word]
  BY DEF FreshRow, Word
<1>6. NoFrame.fid \in Fids
  BY <1>4
<1>7. NoEntry \in Entry
  BY <1>1, <1>2, <1>6 DEF NoEntry, Entry
<1> QED BY <1>2, <1>4, <1>5, <1>7, RowStatsAssumption

-----------------------------------------------------------------------------
(* Type correctness.                                                        *)

LEMMA InitType == Init => TypeOK
<1> SUFFICES ASSUME Init PROVE TypeOK
  OBVIOUS
<1>1. NoPacket \in Packets /\ NoWord \in Word
  BY DEF NoPacket, Packets, Word
<1>2. 0 \in Tags
  BY RowStatsAssumption DEF Tags
<1>3. NoLatch \in [valid : BOOLEAN, tag : Tags, y : Nat, good : BOOLEAN, basis : Basis]
  BY <1>2, ConstantTypes DEF NoLatch
<1>4. q.ready => q.valid
  BY DEF Init, NoEntry
<1>5. NoReply \in Reply /\ NoAnswer \in Answers \cup {NoAnswer}
  BY DEF Reply
<1>6. fifo \in Seq(Word) /\ Len(fifo) <= FifoRows
  BY RowStatsAssumption DEF Init
<1>7. p.word = NoWord
  BY DEF Init, FreshRow
<1> QED
  BY <1>1, <1>2, <1>3, <1>4, <1>5, <1>6, <1>7, ConstantTypes DEF Init, TypeOK

\* The two words the FSM pushes are FIFO words.
LEMMA WordType ==
  ASSUME TypeOK
  PROVE  /\ state = "Ctrl" => RowWord \in Word
         /\ state = "TmplHdr" => ChunkWord \in Word
         /\ NoWord \in Word
<1>1. ASSUME state = "Ctrl" PROVE RowWord \in Word
  <2>1. pkt.kind = "row" /\ pkt \in Packets
    BY <1>1 DEF TypeOK
  <2>2. pkt.fid \in Fids /\ pkt.row \in Nat
    BY <2>1 DEF Packets
  <2>3. p.new \in BOOLEAN /\ p.oy \in Nat /\ f.started \in BOOLEAN
    BY DEF TypeOK
  <2>4. (IF p.new THEN nextTag ELSE f.tag) \in Tags
    BY DEF TypeOK
  <2>5. StartsFrame \in BOOLEAN
    BY <2>3 DEF StartsFrame
  <2>6. pkt.row - p.oy \in Int
    BY <2>2, <2>3
  <2>7. <<pkt.fid, pkt.row, pkt.quality = "good">> \in Fids \X Nat \X BOOLEAN
    BY <2>2
  <2> QED BY <2>4, <2>5, <2>6, <2>7 DEF RowWord, Word
<1>2. ASSUME state = "TmplHdr" PROVE ChunkWord \in Word
  <2>1. pkt.kind = "tmpl" /\ pkt \in Packets
    BY <1>2 DEF TypeOK
  <2> QED BY <2>1 DEF Packets, ChunkWord, Word
<1> QED BY <1>1, <1>2 DEF Word

\* A FIFO frame that was begun has room at its end (the ready of its ctrl word).
LEMMA AppendType ==
  ASSUME TypeOK, p.word # NoWord
  PROVE  Append(fifo, p.word) \in Seq(Word) /\ Len(Append(fifo, p.word)) <= FifoRows
<1>1. fifo \in Seq(Word) /\ p.word \in Word /\ Len(fifo) < FifoRows
  BY DEF TypeOK
<1>2. Len(Append(fifo, p.word)) = Len(fifo) + 1 /\ Len(fifo) \in Nat
  BY <1>1
<1> QED BY <1>1, <1>2, RowStatsAssumption

\* A good row leaves the frame registers with values of their kind.
LEMMA CommitRowType == TypeOK /\ CommitRow => TypeOK'
<1> SUFFICES ASSUME TypeOK, CommitRow PROVE TypeOK'
  OBVIOUS
<1> USE DEF TypeOK
<1> DEFINE Frame == [active : BOOLEAN, fid : Fids, rows : Nat, size : Sizes,
                     inorder : BOOLEAN, started : BOOLEAN, tag : Tags, oy : Nat]
           g == FrameWithRow
<1>1. /\ pkt.fid \in Fids /\ pkt.row \in Nat /\ pkt.size \in Sizes
      /\ p.inwin \in BOOLEAN /\ p.oy \in Nat /\ f \in Frame /\ nextTag \in Tags
  BY DEF CommitRow, RowGood, Packets
<1>2. g \in Frame
  <2>1. CASE f.active
    <3>1. /\ f.rows + 1 \in Nat
          /\ (f.inorder /\ pkt.row = f.rows) \in BOOLEAN
          /\ (f.started \/ p.inwin) \in BOOLEAN
      BY <1>1
    <3>2. g = [f EXCEPT !.rows = f.rows + 1, !.inorder = f.inorder /\ pkt.row = f.rows,
                        !.started = f.started \/ p.inwin]
      BY <2>1 DEF FrameWithRow
    <3> QED BY <1>1, <3>1, <3>2
  <2>2. CASE ~f.active
    BY <1>1, <2>2 DEF FrameWithRow
  <2> QED BY <2>1, <2>2
<1>3. nextTag' \in Tags
  <2>1. nextTag \in Nat /\ NTags \in Nat \ {0}
    BY <1>1, RowStatsAssumption DEF Tags
  <2>2. (nextTag + 1) % NTags \in 0..(NTags - 1)
    BY <2>1
  <2>3. nextTag' = nextTag \/ nextTag' = (nextTag + 1) % NTags
    BY DEF CommitRow
  <2> QED BY <1>1, <2>2, <2>3 DEF Tags
<1>4. f' \in Frame
  <2>1. [g EXCEPT !.active = FALSE] \in Frame
    BY <1>2
  <2> QED BY <1>2, <2>1 DEF CommitRow
<1>5. n' \in Entry
  <2>1. Cropped(g.size) \in BOOLEAN
    BY DEF Cropped, HasRoi, Exact
  <2> DEFINE e == [NoEntry EXCEPT !.num = framesDone + 1, !.fid = g.fid, !.tag = g.tag,
                                  !.oy = g.oy, !.crop = Cropped(g.size)]
  <2>2. framesDone + 1 \in Nat /\ g.fid \in Fids /\ g.tag \in Tags /\ g.oy \in Nat
    BY <1>2
  <2> HIDE DEF g
  <2>3. e \in Entry
    BY <2>1, <2>2, ConstantTypes DEF Entry
  <2>4. n' = n \/ n' = e
    BY DEF CommitRow, g
  <2> QED BY <2>3, <2>4
<1>6. tx' \in Reply
  <2>1. {"complete"} \cup CropFlag(Cropped(g.size)) \in SUBSET Flags
    BY DEF CropFlag, Flags
  <2>2. framesDone + 1 \in Nat /\ g.fid \in Fids
    BY <1>2
  <2> HIDE DEF g
  <2>3. Report(framesDone + 1, g.fid, {"complete"} \cup CropFlag(Cropped(g.size)), 0) \in Reply
    BY <2>1, <2>2 DEF Report, Reply, FrameReport
  <2>4. tx' = tx \/ tx' = Report(framesDone + 1, g.fid,
                                 {"complete"} \cup CropFlag(Cropped(g.size)), 0)
    BY DEF CommitRow, g
  <2> QED BY <2>3, <2>4
<1>7. framesDone' \in Nat /\ state' \in {"Idle", "Slot"}
  BY DEF CommitRow
<1> HIDE DEF g
<1> QED
  BY <1>3, <1>4, <1>5, <1>6, <1>7 DEF CommitRow

\* One step per action of the specification.
LEMMA StepType == TypeOK /\ [Next]_vars => TypeOK'
<1> SUFFICES ASSUME TypeOK, [Next]_vars PROVE TypeOK'
  OBVIOUS
<1> USE DEF TypeOK
<1>1. ASSUME NEW pk \in Packets, RxHeader(pk) PROVE TypeOK'
  <2>1. pk.kind \in {"row", "pos", "tmpl", "other"}
    BY DEF Packets
  <2>2. /\ pk.kind = "row" => state' \in {"Commit", "HdrA"}
        /\ pk.kind = "pos" => state' = "Commit"
        /\ pk.kind = "tmpl" => state' \in {"Commit", "TmplHdr"}
        /\ pk.kind = "other" => state' = "Drop"
    BY <1>1 DEF RxHeader, AfterHeader
  <2>3. p'.word = NoWord
    BY <1>1 DEF RxHeader, FreshRow
  <2> QED BY <1>1, <2>1, <2>2, <2>3, ConstantTypes DEF RxHeader, frameVars
<1>2. CASE DropEnd
  BY <1>2 DEF DropEnd, frameVars
<1>3. CASE RowHeader
  <2>1. pkt.size.h \in Nat /\ pkt.size.w \in Nat /\ pkt.row \in Nat
    BY <1>3, RowStatsAssumption DEF RowHeader, Packets
  <2>2. (IF NewFrame THEN Origin(pos, pkt.size.h) ELSE f.oy) \in Nat
    BY <2>1, OriginType
  <2>3. p' \in [new : BOOLEAN, oy : Nat, inwin : BOOLEAN, word : Word]
    <3>1. NewFrame \in BOOLEAN
      BY DEF NewFrame
    <3> QED BY <1>3, <2>2, <3>1, WordType DEF RowHeader
  <2> QED BY <1>3, <2>3 DEF RowHeader, frameVars
<1>4. CASE RowCtrl
  <2>1. p' \in [new : BOOLEAN, oy : Nat, inwin : BOOLEAN, word : Word]
    BY <1>4, WordType DEF RowCtrl
  <2>2. l' \in [valid : BOOLEAN, tag : Tags, y : Nat, good : BOOLEAN, basis : Basis]
    BY <1>4 DEF RowCtrl
  <2> QED BY <1>4, <2>1, <2>2 DEF RowCtrl, FifoReady, frameVars
<1>5. CASE TemplateHeader
  <2>1. p' \in [new : BOOLEAN, oy : Nat, inwin : BOOLEAN, word : Word]
    BY <1>5, WordType DEF TemplateHeader
  <2> QED BY <1>5, <2>1 DEF TemplateHeader, FifoReady, frameVars
<1>6. CASE WindowEnd
  <2>1. p' \in [new : BOOLEAN, oy : Nat, inwin : BOOLEAN, word : Word]
    BY <1>6, WordType DEF WindowEnd
  <2>2. p'.word = NoWord
    BY <1>6 DEF WindowEnd
  <2>3. fifo' \in Seq(Word) /\ Len(fifo') <= FifoRows
    BY <1>6, AppendType DEF WindowEnd
  <2> QED BY <1>6, <2>1, <2>2, <2>3 DEF WindowEnd, frameVars
<1>7. CASE PayloadEnd
  <2>1. p' \in [new : BOOLEAN, oy : Nat, inwin : BOOLEAN, word : Word]
    BY <1>7, WordType DEF PayloadEnd
  <2>2. p'.word = NoWord
    BY <1>7 DEF PayloadEnd
  <2>3. fifo' \in Seq(Word) /\ Len(fifo') <= FifoRows
    BY <1>7, AppendType DEF PayloadEnd
  <2> QED BY <1>7, <2>1, <2>2, <2>3 DEF PayloadEnd, frameVars
<1>8. CASE CommitTemplate
  <2>1. tx' \in Reply
    BY <1>8 DEF CommitTemplate, Committing, Packets, Reply
  <2> QED BY <1>8, <2>1 DEF CommitTemplate, frameVars
<1>9. CASE CommitPosition
  <2>1. pkt.kind = "pos" /\ pkt.y \in Nat
    BY <1>9 DEF CommitPosition, Packets
  <2>2. tx' \in Reply /\ pos' \in Nat
    BY <1>9, <2>1 DEF CommitPosition, Reply
  <2> QED BY <1>9, <2>2 DEF CommitPosition, frameVars
<1>10. CASE CommitBadRow
  BY <1>10 DEF CommitBadRow, frameVars
<1>11. CASE CommitClose
  <2>1. tx' \in Reply
    <3>1. {"closed"} \cup CropFlag(Cropped(f.size)) \in SUBSET Flags
      BY DEF CropFlag, Flags
    <3> QED BY <1>11, <3>1 DEF CommitClose, Report, Reply, FrameReport
  <2>2. f' \in [active : BOOLEAN, fid : Fids, rows : Nat, size : Sizes,
                inorder : BOOLEAN, started : BOOLEAN, tag : Tags, oy : Nat]
    BY <1>11 DEF CommitClose
  <2>3. p' \in [new : BOOLEAN, oy : Nat, inwin : BOOLEAN, word : Word] /\ p'.word = p.word
    BY <1>11 DEF CommitClose
  <2> QED BY <1>11, <2>1, <2>2, <2>3 DEF CommitClose
<1>12. CASE CommitRow
  BY <1>12, CommitRowType
<1>13. CASE TakeSlot
  <2>1. q' \in Entry /\ q'.valid
    BY <1>13 DEF TakeSlot, Entry
  <2> QED BY <1>13, <2>1 DEF TakeSlot, frameVars
<1>14. CASE TakeAnswer
  <2>1. q' \in Entry /\ q'.valid /\ pos' \in Nat
    <3> DEFINE y == IF l.good THEN q.oy + l.y + MARGIN ELSE pos
               fl == {"tracked"} \cup IF l.good THEN {"good"} ELSE {}
    <3>1. y \in Nat
      BY RowStatsAssumption DEF Entry
    <3>2. fl \in SUBSET Flags
      BY DEF Flags
    <3>3. l.basis \in Basis /\ q.valid
      BY <1>14 DEF TakeAnswer, AnswerDue, Awaiting
    <3>4. /\ q' = [q EXCEPT !.ready = TRUE, !.y = y, !.basis = l.basis, !.flags = fl]
          /\ pos' = y
      BY <1>14 DEF TakeAnswer
    <3> HIDE DEF y, fl
    <3> QED BY <3>1, <3>2, <3>3, <3>4 DEF Entry
  <2>2. l' \in [valid : BOOLEAN, tag : Tags, y : Nat, good : BOOLEAN, basis : Basis]
    BY <1>14 DEF TakeAnswer
  <2> QED BY <1>14, <2>1, <2>2 DEF TakeAnswer, rxVars, frameVars
<1>15. CASE LatchAnswer
  <2>1. l' \in [valid : BOOLEAN, tag : Tags, y : Nat, good : BOOLEAN, basis : Basis]
    BY <1>15 DEF LatchAnswer, Answers
  <2> QED BY <1>15, <2>1 DEF LatchAnswer, rxVars, frameVars
<1>16. CASE EmitPending
  <2>1. tx' \in Reply
    <3>1. {"complete"} \cup CropFlag(q.crop) \cup q.flags \in SUBSET Flags
      BY DEF CropFlag, Flags, Entry
    <3> QED BY <1>16, <3>1 DEF EmitPending, SlotFreed, Report, Reply, FrameReport, Entry
  <2>2. q' \in Entry /\ ~q'.ready
    BY <1>16 DEF EmitPending, SlotFreed, Entry
  <2> QED BY <1>16, <2>1, <2>2 DEF EmitPending, SlotFreed, rxVars, frameVars
<1>17. CASE TimeOut
  <2>1. q' \in Entry /\ q'.valid
    <3>1. {"timeout"} \in SUBSET Flags /\ q.valid
      BY <1>17 DEF TimeOut, Awaiting, Flags
    <3> QED BY <1>17, <3>1 DEF TimeOut, Entry
  <2> QED BY <1>17, <2>1 DEF TimeOut, rxVars, frameVars
<1>18. CASE TxDone
  <2>1. sent' \subseteq FrameReport /\ tx' \in Reply
    BY <1>18 DEF TxDone, Reply, FrameReport
  <2> QED BY <1>18, <2>1 DEF TxDone, rxVars, frameVars
<1>19. CASE FifoRead
  <2>1. fifo' \in Seq(Word) /\ Len(fifo') < Len(fifo)
    BY <1>19 DEF FifoRead
  <2>2. p' = p /\ Len(fifo') < FifoRows
    BY <1>19, <2>1, RowStatsAssumption DEF FifoRead, rxVars
  <2>3. fifo' \in Seq(Word) /\ Len(fifo') <= FifoRows
    BY <2>1, <2>2, RowStatsAssumption
  <2> QED BY <1>19, <2>2, <2>3 DEF FifoRead, rxVars, frameVars
<1>20. CASE AnswerArrives
  BY <1>20 DEF AnswerArrives, rxVars, frameVars
<1>21. CASE UNCHANGED vars
  BY <1>21 DEF vars, rxVars, frameVars
<1> QED
  BY <1>1, <1>2, <1>3, <1>4, <1>5, <1>6, <1>7, <1>8, <1>9, <1>10, <1>11, <1>12,
     <1>13, <1>14, <1>15, <1>16, <1>17, <1>18, <1>19, <1>20, <1>21
  DEF Next, ReceiveStep, SlotStep

\* The receiver never leaves its types.
THEOREM TypeCorrect == Spec => []TypeOK
BY InitType, StepType, PTL DEF Spec

-----------------------------------------------------------------------------
(* Stall (a).  The stall in S_HDR_A looks at the pending frame before the    *)
(* ctrl word is pushed; the row commits many clocks later.  What holds in   *)
(* between is that a row that starts a cropped frame still has no answer    *)
(* outstanding: the pending slot is only filled in S_SLOT.                  *)

RowInFlight ==
  /\ state \in {"Ctrl", "Body", "Commit"}
  /\ pkt.kind = "row" /\ pkt.quality # "short"

OriginInv ==
  /\ OriginWaits
  /\ state = "Slot" => ~f.active
  /\ RowInFlight /\ NewFrame /\ ~Exact(pkt.size) => ~Awaiting

\* The strengthened form of stall (a) is kept by every action.
LEMMA OriginStep == TypeOK /\ OriginInv /\ [Next]_vars => OriginInv'
<1> SUFFICES ASSUME TypeOK, OriginInv, [Next]_vars PROVE OriginInv'
  OBVIOUS
<1> USE DEF OriginInv, OriginWaits, RowInFlight, Awaiting, NewFrame
<1>1. ASSUME NEW pk \in Packets, RxHeader(pk) PROVE OriginInv'
  <2>1. pk.kind \in {"row", "pos", "tmpl", "other"}
    BY DEF Packets
  <2>2. state' \in {"Drop", "HdrA", "TmplHdr", "Commit"}
    BY <1>1, <2>1 DEF RxHeader, AfterHeader
  <2>3. state' = "Commit" /\ pk.kind = "row" => pk.quality = "short"
    BY <1>1 DEF RxHeader, AfterHeader
  <2> QED BY <1>1, <2>2, <2>3 DEF RxHeader, frameVars
<1>2. CASE DropEnd
  BY <1>2 DEF DropEnd, frameVars
<1>3. CASE RowHeader
  BY <1>3 DEF RowHeader, OriginStall, frameVars
<1>4. CASE RowCtrl
  BY <1>4 DEF RowCtrl, frameVars
<1>5. CASE TemplateHeader
  BY <1>5 DEF TemplateHeader, frameVars, TypeOK
<1>6. CASE WindowEnd
  BY <1>6 DEF WindowEnd, frameVars
<1>7. CASE PayloadEnd
  BY <1>7 DEF PayloadEnd, frameVars
<1>8. CASE CommitTemplate \/ CommitPosition \/ CommitBadRow
  BY <1>8 DEF CommitTemplate, CommitPosition, CommitBadRow, frameVars
<1>9. CASE CommitClose
  <2>1. /\ state = "Commit" /\ state' = "Commit" /\ pkt' = pkt /\ q' = q
        /\ f.active /\ pkt.fid # f.fid /\ f' = [f EXCEPT !.active = FALSE]
    BY <1>9 DEF CommitClose, Committing
  <2>2. ~f'.active
    BY <2>1 DEF TypeOK
  <2> QED BY <2>1, <2>2
<1>10. CASE CommitRow
  <2>1. /\ state = "Commit" /\ pkt.kind = "row" /\ pkt.quality = "good" /\ q' = q
        /\ f.active => pkt.fid = f.fid
    BY <1>10 DEF CommitRow, Committing, RowGood, Good
  <2>2. Cropped(FrameWithRow.size) => ~Awaiting
    <3>1. CASE f.active
      BY <2>1, <3>1 DEF FrameWithRow, TypeOK
    <3>2. CASE ~f.active
      BY <2>1, <3>2 DEF FrameWithRow, Cropped
    <3> QED BY <3>1, <3>2
  <2>3. \/ f' = FrameWithRow /\ state' = "Idle"
        \/ /\ f' = [FrameWithRow EXCEPT !.active = FALSE]
           /\ state' = "Slot"
           /\ n' = [NoEntry EXCEPT !.num = framesDone + 1, !.fid = FrameWithRow.fid,
                                   !.tag = FrameWithRow.tag, !.oy = FrameWithRow.oy,
                                   !.crop = Cropped(FrameWithRow.size)]
        \/ f' = [FrameWithRow EXCEPT !.active = FALSE] /\ state' = "Idle"
    BY <1>10 DEF CommitRow
  <2>4. [FrameWithRow EXCEPT !.active = FALSE].active = FALSE
    BY DEF FrameWithRow, TypeOK
  <2>5. CASE state' = "Slot"
    <3>1. ~f'.active
      BY <2>3, <2>4, <2>5
    <3>2. n'.crop = Cropped(FrameWithRow.size)
      BY <2>3, <2>5 DEF NoEntry
    <3> QED BY <2>1, <2>2, <2>5, <3>1, <3>2
  <2>6. CASE state' = "Idle"
    <3>1. f' = FrameWithRow \/ ~f'.active
      BY <2>3, <2>4, <2>6
    <3> QED BY <2>1, <2>2, <2>6, <3>1
  <2> QED BY <2>3, <2>5, <2>6
<1>11. CASE TakeSlot
  BY <1>11 DEF TakeSlot, frameVars
<1>12. CASE TakeAnswer
  <2>1. q'.ready
    BY <1>12 DEF TakeAnswer, TypeOK, Entry
  <2> QED BY <1>12, <2>1 DEF TakeAnswer, rxVars, frameVars
<1>13. CASE TimeOut
  <2>1. q'.ready
    BY <1>13 DEF TimeOut, TypeOK, Entry
  <2> QED BY <1>13, <2>1 DEF TimeOut, rxVars, frameVars
<1>14. CASE EmitPending
  <2>1. ~q'.valid
    BY <1>14 DEF EmitPending, SlotFreed, TypeOK, Entry
  <2> QED BY <1>14, <2>1 DEF EmitPending, SlotFreed, rxVars, frameVars
<1>15. CASE LatchAnswer \/ TxDone \/ FifoRead \/ AnswerArrives
  BY <1>15 DEF LatchAnswer, TxDone, FifoRead, AnswerArrives, rxVars, frameVars
<1>16. CASE UNCHANGED vars
  BY <1>16 DEF vars, rxVars, frameVars
<1> QED
  BY <1>1, <1>2, <1>3, <1>4, <1>5, <1>6, <1>7, <1>8, <1>9, <1>10, <1>11, <1>12,
     <1>13, <1>14, <1>15, <1>16
  DEF Next, ReceiveStep, SlotStep

\* No answer moves the position under a cropped frame (stall (a), S_HDR_A).
THEOREM OriginSafe == Spec => []OriginWaits
<1>1. Init => OriginInv
  BY DEF Init, OriginInv, OriginWaits, RowInFlight, NoFrame, NoEntry, Awaiting
<1>2. OriginInv => OriginWaits
  BY DEF OriginInv
<1> QED BY <1>1, <1>2, OriginStep, TypeCorrect, PTL DEF Spec

-----------------------------------------------------------------------------
(* Every frame is reported once, in order: the receiver, in an arbitrary    *)
(* environment, implements FrameService.  Of all its actions only a few    *)
(* touch the frames that wait or are reported; Events sorts them out once, *)
(* and each theorem then has one case per kind of event.                   *)

\* Nothing closes, moves or is reported; a frame may open.
QuietEvent ==
  /\ framesDone' = framesDone /\ q'.valid = q.valid /\ q'.num = q.num
  /\ n' = n /\ sent' = sent
  /\ (state' = "Slot") = (state = "Slot")
  /\ tx' = tx \/ (tx.kind # "frame" /\ tx'.kind # "frame")
  /\ f'.active = f.active \/ ~f.active

\* A frame closes and its report is handed to the transmitter.
ReportEvent ==
  /\ framesDone' = framesDone + 1 /\ q' = q /\ sent' = sent /\ ~f'.active
  /\ state # "Slot" /\ state' # "Slot"
  /\ tx.kind # "frame" /\ tx'.kind = "frame" /\ tx'.num = framesDone + 1
  /\ ~Waited(tx')

\* A frame closes and is held in S_SLOT.
HoldEvent ==
  /\ framesDone' = framesDone + 1 /\ q' = q /\ sent' = sent /\ ~f'.active
  /\ state # "Slot" /\ state' = "Slot" /\ n'.num = framesDone + 1
  /\ tx' = tx

MoveEvent ==
  /\ state = "Slot" /\ state' # "Slot" /\ ~q.valid /\ q'.valid /\ q'.num = n.num
  /\ framesDone' = framesDone /\ n' = n /\ tx' = tx /\ sent' = sent /\ f' = f

EmitEvent ==
  /\ q.valid /\ ~q'.valid /\ tx.kind # "frame"
  /\ tx'.kind = "frame" /\ tx'.num = q.num
  /\ framesDone' = framesDone /\ n' = n /\ sent' = sent /\ f' = f /\ state' = state

SendEvent ==
  /\ tx'.kind # "frame"
  /\ sent' = IF tx.kind = "frame" THEN sent \cup {tx} ELSE sent
  /\ framesDone' = framesDone /\ n' = n /\ q' = q /\ f' = f /\ state' = state

\* A good row either opens or continues a frame, or closes it in one of two ways.
LEMMA CommitRowEvent ==
  TypeOK /\ CommitRow => QuietEvent \/ ReportEvent \/ HoldEvent
<1> SUFFICES ASSUME TypeOK, CommitRow PROVE QuietEvent \/ ReportEvent \/ HoldEvent
  OBVIOUS
<1>1. /\ q' = q /\ sent' = sent /\ state = "Commit" /\ tx.kind # "frame" /\ tx = NoReply
  BY DEF CommitRow, Committing, NoReply
<1>2. FrameWithRow.active /\ [FrameWithRow EXCEPT !.active = FALSE].active = FALSE
  BY DEF FrameWithRow, TypeOK
<1>3. CASE ~LastRow
  <2>1. f' = FrameWithRow /\ state' = "Idle" /\ framesDone' = framesDone /\ n' = n /\ tx' = tx
    BY <1>3 DEF CommitRow
  <2>2. f'.active = f.active \/ ~f.active
    BY <1>2, <2>1 DEF TypeOK
  <2> QED BY <1>1, <2>1, <2>2 DEF QuietEvent
<1>4. CASE LastRow /\ FrameWithRow.inorder /\ HasRoi(FrameWithRow.size)
  <2>1. /\ f' = [FrameWithRow EXCEPT !.active = FALSE]
        /\ framesDone' = framesDone + 1 /\ state' = "Slot" /\ tx' = tx
        /\ n' = [NoEntry EXCEPT !.num = framesDone + 1, !.fid = FrameWithRow.fid,
                                !.tag = FrameWithRow.tag, !.oy = FrameWithRow.oy,
                                !.crop = Cropped(FrameWithRow.size)]
    BY <1>4 DEF CommitRow
  <2>2. n'.num = framesDone + 1
    BY <2>1 DEF NoEntry
  <2> QED BY <1>1, <1>2, <2>1, <2>2 DEF HoldEvent
<1>5. CASE LastRow /\ ~(FrameWithRow.inorder /\ HasRoi(FrameWithRow.size))
  <2>1. /\ f' = [FrameWithRow EXCEPT !.active = FALSE]
        /\ framesDone' = framesDone + 1 /\ state' = "Idle"
        /\ tx' = Report(framesDone + 1, FrameWithRow.fid,
                        {"complete"} \cup CropFlag(Cropped(FrameWithRow.size)), 0)
    BY <1>5 DEF CommitRow
  <2>2. tx'.kind = "frame" /\ tx'.num = framesDone + 1 /\ ~Waited(tx')
    BY <2>1 DEF Report, CropFlag, Waited
  <2> QED BY <1>1, <1>2, <2>1, <2>2 DEF ReportEvent
<1> QED BY <1>3, <1>4, <1>5

\* What a step can do to the frames that wait and the reports.
LEMMA Events ==
  TypeOK /\ [Next]_vars =>
    QuietEvent \/ ReportEvent \/ HoldEvent \/ MoveEvent \/ EmitEvent \/ SendEvent
<1> SUFFICES ASSUME TypeOK, [Next]_vars
             PROVE  QuietEvent \/ ReportEvent \/ HoldEvent \/ MoveEvent \/ EmitEvent
                      \/ SendEvent
  OBVIOUS
<1>1. ASSUME NEW pk \in Packets, RxHeader(pk) PROVE QuietEvent
  <2>1. pk.kind \in {"row", "pos", "tmpl", "other"}
    BY DEF Packets
  <2>2. state' # "Slot"
    BY <1>1, <2>1 DEF RxHeader, AfterHeader
  <2> QED BY <1>1, <2>2 DEF RxHeader, frameVars, QuietEvent
<1>2. CASE DropEnd \/ RowHeader \/ RowCtrl \/ TemplateHeader \/ WindowEnd \/ PayloadEnd
  BY <1>2 DEF DropEnd, RowHeader, RowCtrl, TemplateHeader, WindowEnd, PayloadEnd,
              frameVars, QuietEvent
<1>3. CASE CommitTemplate
  BY <1>3 DEF CommitTemplate, Committing, NoReply, frameVars, QuietEvent
<1>4. CASE CommitPosition
  BY <1>4 DEF CommitPosition, Committing, NoReply, frameVars, QuietEvent
<1>5. CASE CommitBadRow
  BY <1>5 DEF CommitBadRow, Committing, frameVars, QuietEvent
<1>6. CASE CommitClose
  <2>1. /\ tx' = Report(framesDone + 1, f.fid,
                        {"closed"} \cup CropFlag(Cropped(f.size)), 0)
        /\ tx = NoReply
    BY <1>6 DEF CommitClose, Committing
  <2>2. /\ tx.kind # "frame" /\ tx'.kind = "frame" /\ tx'.num = framesDone + 1
        /\ ~Waited(tx')
    BY <2>1 DEF Report, CropFlag, Waited, NoReply
  <2>3. ~f'.active
    BY <1>6 DEF CommitClose, TypeOK
  <2> QED BY <1>6, <2>2, <2>3 DEF CommitClose, Committing, ReportEvent
<1>7. CASE CommitRow
  BY <1>7, CommitRowEvent
<1>8. CASE TakeSlot
  <2>1. q'.valid /\ q'.num = n.num
    BY <1>8 DEF TakeSlot, TypeOK, Entry
  <2> QED BY <1>8, <2>1 DEF TakeSlot, frameVars, MoveEvent
<1>9. CASE TakeAnswer
  <2>1. q'.valid = q.valid /\ q'.num = q.num
    BY <1>9 DEF TakeAnswer, TypeOK, Entry
  <2> QED BY <1>9, <2>1 DEF TakeAnswer, rxVars, frameVars, QuietEvent
<1>10. CASE TimeOut
  <2>1. q'.valid = q.valid /\ q'.num = q.num
    BY <1>10 DEF TimeOut, TypeOK, Entry
  <2> QED BY <1>10, <2>1 DEF TimeOut, rxVars, frameVars, QuietEvent
<1>11. CASE LatchAnswer \/ FifoRead \/ AnswerArrives
  BY <1>11 DEF LatchAnswer, FifoRead, AnswerArrives, rxVars, frameVars, QuietEvent
<1>12. CASE EmitPending
  <2>1. q.valid /\ ~q'.valid
    BY <1>12 DEF EmitPending, SlotFreed, TypeOK, Entry
  <2>2. tx.kind # "frame" /\ tx'.kind = "frame" /\ tx'.num = q.num
    BY <1>12 DEF EmitPending, Report, NoReply
  <2> QED BY <1>12, <2>1, <2>2 DEF EmitPending, rxVars, frameVars, EmitEvent
<1>13. CASE TxDone
  BY <1>13 DEF TxDone, NoReply, rxVars, frameVars, SendEvent
<1>14. CASE UNCHANGED vars
  BY <1>14 DEF vars, rxVars, frameVars, QuietEvent
<1> QED
  BY <1>1, <1>2, <1>3, <1>4, <1>5, <1>6, <1>7, <1>8, <1>9, <1>10, <1>11, <1>12,
     <1>13, <1>14
  DEF Next, ReceiveStep, SlotStep

-----------------------------------------------------------------------------
(* What the events do to Waiting and Reported.                              *)

\* Each kind of event as a step of the sets of waiting and reported numbers.
LEMMA QuietSets ==
  ASSUME QuietEvent PROVE Waiting' = Waiting /\ Reported' = Reported
BY DEF QuietEvent, Waiting, Reported

LEMMA ReportSets ==
  ASSUME ReportEvent
  PROVE  Waiting' = Waiting /\ Reported' = Reported \cup {framesDone + 1}
BY DEF ReportEvent, Waiting, Reported

LEMMA HoldSets ==
  ASSUME HoldEvent
  PROVE  Waiting' = Waiting \cup {framesDone + 1} /\ Reported' = Reported
BY DEF HoldEvent, Waiting, Reported

LEMMA MoveSets ==
  ASSUME MoveEvent PROVE Waiting' = Waiting /\ Reported' = Reported
BY DEF MoveEvent, Waiting, Reported

LEMMA SendSets ==
  ASSUME SendEvent PROVE Waiting' = Waiting /\ Reported' = Reported
<1>1. Waiting' = Waiting
  BY DEF SendEvent, Waiting
<1>2. CASE tx.kind = "frame"
  BY <1>1, <1>2 DEF SendEvent, Reported
<1>3. CASE tx.kind # "frame"
  BY <1>1, <1>3 DEF SendEvent, Reported
<1> QED BY <1>2, <1>3

LEMMA EmitSets ==
  ASSUME EmitEvent, EachFrameOnce, TypeOK
  PROVE  Waiting' = Waiting \ {q.num} /\ Reported' = Reported \cup {q.num}
<1>1. state = "Slot" => n.num # q.num
  BY DEF EmitEvent, EachFrameOnce, TypeOK, Entry
<1> QED BY <1>1 DEF EmitEvent, Waiting, Reported

LEMMA RangeGrows ==
  ASSUME NEW k \in Nat PROVE 1..(k + 1) = (1..k) \cup {k + 1} /\ k + 1 \notin 1..k
OBVIOUS

\* EachFrameOnce is inductive.
LEMMA OnceStep == TypeOK /\ EachFrameOnce /\ [Next]_vars => EachFrameOnce'
<1> SUFFICES ASSUME TypeOK, EachFrameOnce, [Next]_vars PROVE EachFrameOnce'
  OBVIOUS
<1>1. framesDone \in Nat /\ q.num \in Nat /\ n.num \in Nat
  BY DEF TypeOK, Entry
<1>2. /\ Waiting \cup Reported = 1..framesDone /\ Waiting \cap Reported = {}
      /\ tx.kind = "frame" => \A r \in sent : r.num # tx.num
      /\ q.valid /\ state = "Slot" => q.num < n.num
      /\ q.valid => q.num \in Waiting
      /\ \A r \in sent : r.num \in Reported
  BY DEF EachFrameOnce, Waiting, Reported
<1>3. CASE QuietEvent
  BY <1>2, <1>3, QuietSets DEF QuietEvent, EachFrameOnce
<1>4. CASE ReportEvent
  BY <1>1, <1>2, <1>4, ReportSets, RangeGrows DEF ReportEvent, EachFrameOnce
<1>5. CASE HoldEvent
  <2>1. q'.valid /\ state' = "Slot" => q'.num < n'.num
    BY <1>1, <1>2, <1>5 DEF HoldEvent
  <2>2. \A r \in sent : r.num # framesDone + 1
    BY <1>1, <1>2
  <2> QED BY <1>1, <1>2, <1>5, <2>1, <2>2, HoldSets, RangeGrows DEF HoldEvent, EachFrameOnce
<1>6. CASE MoveEvent
  BY <1>2, <1>6, MoveSets DEF MoveEvent, EachFrameOnce
<1>7. CASE EmitEvent
  BY <1>2, <1>7, EmitSets DEF EmitEvent, EachFrameOnce
<1>8. CASE SendEvent
  BY <1>2, <1>8, SendSets DEF SendEvent, EachFrameOnce
<1> QED BY <1>3, <1>4, <1>5, <1>6, <1>7, <1>8, Events

LEMMA OnceInit == Init => EachFrameOnce
<1> SUFFICES ASSUME Init PROVE EachFrameOnce
  OBVIOUS
<1>1. Waiting = {} /\ Reported = {}
  BY DEF Init, Waiting, Reported, NoEntry, NoReply
<1>2. 1..framesDone = {}
  BY DEF Init
<1> QED BY <1>1, <1>2 DEF Init, EachFrameOnce, NoReply, NoEntry

\* Every closed frame is in one place: held, pending or reported once.
THEOREM FramesReportedOnce == Spec => []EachFrameOnce
BY OnceInit, OnceStep, TypeCorrect, PTL DEF Spec

-----------------------------------------------------------------------------
(* The reports come in order.                                               *)

\* What has waited and is reported is older than what still waits.
InOrder ==
  /\ \A r \in sent : Waited(r) => \A m \in Waiting : r.num < m
  /\ tx.kind = "frame" /\ Waited(tx) =>
       /\ \A m \in Waiting : tx.num < m
       /\ \A r \in sent : Waited(r) => r.num < tx.num

\* The order of the reports is kept by every event.
LEMMA InOrderStep ==
  TypeOK /\ EachFrameOnce /\ InOrder /\ [Next]_vars => InOrder'
<1> SUFFICES ASSUME TypeOK, EachFrameOnce, InOrder, [Next]_vars PROVE InOrder'
  OBVIOUS
<1>1. framesDone \in Nat /\ q.num \in Nat /\ n.num \in Nat
  BY DEF TypeOK, Entry
<1>2. /\ \A r \in sent : r.num \in 1..framesDone
      /\ tx.kind = "frame" => tx.num \in 1..framesDone
  BY DEF EachFrameOnce, Reported
<1>3. CASE QuietEvent
  BY <1>3, QuietSets DEF QuietEvent, InOrder
<1>4. CASE ReportEvent
  BY <1>4, ReportSets DEF ReportEvent, InOrder
<1>5. CASE HoldEvent
  BY <1>1, <1>2, <1>5, HoldSets DEF HoldEvent, InOrder
<1>6. CASE MoveEvent
  BY <1>6, MoveSets DEF MoveEvent, InOrder
<1>7. CASE EmitEvent
  <2>1. /\ q.num \in Waiting
        /\ \A m \in Waiting \ {q.num} : q.num < m
    BY <1>1, <1>7 DEF EmitEvent, Waiting, EachFrameOnce
  <2> QED BY <1>7, <2>1, EmitSets DEF EmitEvent, InOrder
<1>8. CASE SendEvent
  <2>1. CASE tx.kind = "frame"
    BY <1>8, <2>1, SendSets DEF SendEvent, InOrder
  <2>2. CASE tx.kind # "frame"
    BY <1>8, <2>2, SendSets DEF SendEvent, InOrder
  <2> QED BY <2>1, <2>2
<1> QED BY <1>3, <1>4, <1>5, <1>6, <1>7, <1>8, Events

\* Frames that waited for the tracker are reported in the order they closed.
THEOREM ReportsOrdered == Spec => ReportsInOrder
<1> DEFINE Ordered == \A r \in sent' \ sent :
                        Waited(r) => \A s \in sent : Waited(s) => s.num < r.num
<1>1. Init => InOrder
  BY DEF Init, InOrder, NoReply
<1>2. TypeOK /\ InOrder /\ [Next]_vars => [Ordered]_vars
  <2> SUFFICES ASSUME TypeOK, InOrder, [Next]_vars PROVE Ordered
    OBVIOUS
  <2>1. CASE SendEvent
    BY <2>1 DEF SendEvent, InOrder
  <2>2. CASE ~SendEvent
    BY <2>2, Events DEF QuietEvent, ReportEvent, HoldEvent, MoveEvent, EmitEvent
  <2> QED BY <2>1, <2>2
<1> QED
  BY <1>1, <1>2, InOrderStep, FramesReportedOnce, TypeCorrect, PTL
  DEF Spec, ReportsInOrder

-----------------------------------------------------------------------------
(* The receiver implements FrameService.                                    *)

\* Every event is a step of the abstract service or leaves it unchanged.
LEMMA ServiceStep ==
  TypeOK /\ TypeOK' /\ EachFrameOnce /\ [Next]_vars => [Service!Next]_Service!serviceVars
<1> SUFFICES ASSUME TypeOK, TypeOK', EachFrameOnce, [Next]_vars
             PROVE  Service!Next \/ UNCHANGED Service!serviceVars
  OBVIOUS
<1> USE DEF Service!Next, Service!serviceVars
<1>1. f.active \in BOOLEAN /\ f'.active \in BOOLEAN
  BY DEF TypeOK
<1>2. CASE QuietEvent
  BY <1>1, <1>2, QuietSets DEF QuietEvent, Service!Open
<1>3. CASE ReportEvent
  BY <1>1, <1>3, ReportSets DEF ReportEvent, Service!Close
<1>4. CASE HoldEvent
  <2>1. \A a, b \in Waiting : a = b
    BY <1>4 DEF HoldEvent, Waiting
  <2> QED BY <1>1, <1>4, <2>1, HoldSets DEF HoldEvent, Service!Close
<1>5. CASE MoveEvent
  BY <1>5, MoveSets DEF MoveEvent
<1>6. CASE EmitEvent
  <2>1. q.num \in Nat /\ n.num \in Nat
    BY DEF TypeOK, Entry
  <2>2. q.num \in Waiting /\ \A k \in Waiting : q.num <= k
    BY <1>6, <2>1 DEF EmitEvent, Waiting, EachFrameOnce
  <2> QED BY <1>6, <2>2, EmitSets DEF EmitEvent, Service!ReportOldest
<1>7. CASE SendEvent
  BY <1>7, SendSets DEF SendEvent
<1> QED BY <1>2, <1>3, <1>4, <1>5, <1>6, <1>7, Events

\* The receiver implements the service: Service!Spec holds of every behaviour.
THEOREM ReceiverImplementsService == Spec => ServiceSpec
<1>1. Init => Service!Init
  BY DEF Init, Service!Init, Waiting, Reported, NoFrame, NoEntry, NoReply
<1> QED
  BY <1>1, ServiceStep, FramesReportedOnce, TypeCorrect, PTL
  DEF Spec, ServiceSpec, Service!Spec

=============================================================================
