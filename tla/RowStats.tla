------------------------------ MODULE RowStats ------------------------------
(***************************************************************************)
(* The P3 receiver, hardware/ethernet/p3_track/rtl/row_stats.v: UDP row     *)
(* packets are collected into frames, the rows of the region of interest   *)
(* are forwarded to the tracker FIFO, the tracker's answer is matched to   *)
(* its frame by a small tag, and every frame is reported to the host once. *)
(*                                                                         *)
(* The always block assigns everything at one clock edge.  The model lets  *)
(* its concurrent parts (receive FSM, pending slot, result latch,          *)
(* transmitter) take separate steps: every simultaneous pair of updates of *)
(* the code has the effect of one of the two orders.  States that only     *)
(* shuffle packet registers are merged: S_IDLE with the header bytes of    *)
(* S_PAY, S_HDR_A with S_HDR_A2 and S_HDR_B, S_TMPL_HDR with S_TOFF.       *)
(*                                                                         *)
(* Abstracted: pixels, checksums, time stamps, addresses, f_bad and        *)
(* rows_bad_total; the horizontal coordinate, whose arithmetic repeats the *)
(* vertical one and which never selects rows.                              *)
(***************************************************************************)
EXTENDS Integers, Sequences, FiniteSets

CONSTANTS
  ROI,        \* rows and columns of the region of interest (80 or 72)
  OFF,        \* (ROI - 16) / 2: window position minus ROI origin
  MARGIN,     \* offset of the tracker's best (0, 0) in the ROI
  NTags,      \* number of frame tags (16: four bits)
  FifoRows,   \* rows or chunks the tracker FIFO holds
  Sizes,      \* frame sizes [w, h] the host sends
  Fids,       \* frame identifiers
  NChunks,    \* chunks a template is sent in (1 for ZSAD, 2 for S-3x8)
  Contents    \* template contents

ASSUME RowStatsAssumption ==
  /\ ROI \in Nat \ {0}
  /\ OFF \in 0..ROI
  /\ MARGIN \in Nat
  /\ NTags \in Nat \ {0}
  /\ FifoRows \in Nat \ {0}
  /\ NChunks \in Nat \ {0}
  /\ Fids # {} /\ Sizes # {}
  /\ \A s \in Sizes : s.w \in Nat \ {0} /\ s.h \in Nat \ {0}

VARIABLES
  state,       \* receive FSM
  pkt,         \* the packet being received: p_magic, p_fid, p_row, ...
  p,           \* what the FSM derived from it: p_new, p_oy, p_inwin, ...
  f,           \* the open frame: f_active, f_fid, f_rows, ...
  nextTag,     \* next_tag
  framesDone,  \* frames_done: frames closed, complete or not
  pos,         \* pos_y: target position
  n,           \* n_*: complete frame held in S_SLOT
  q,           \* q_*: the frame waiting for the tracker's answer
  l,           \* l_*: latched tracker answer
  tx,          \* s_* and r_*: the reply being transmitted
  fifo,        \* whole rows and chunks in the tracker FIFO
  res,         \* answer crossing into this clock domain (res_toggle)
  sent         \* history: the frame reports transmitted

rxVars == <<state, pkt, p>>
frameVars == <<f, nextTag, framesDone, n>>
vars == <<rxVars, frameVars, pos, q, l, tx, fifo, res, sent>>

-----------------------------------------------------------------------------
(* Data.                                                                    *)

\* short: ends inside its header.  badhdr: header check fails.  err: flagged
\* bad on its last byte, after its header was accepted.
Quality == {"good", "short", "badhdr", "err"}

Chunks == 0..(NChunks - 1)

Packets ==
  [kind : {"row"}, fid : Fids, row : Nat, size : Sizes, quality : Quality]
    \cup [kind : {"pos"}, y : Nat, quality : Quality]
    \cup [kind : {"tmpl"}, chunk : Chunks, content : Contents, quality : Quality]
    \cup [kind : {"other"}]

Tags == 0..(NTags - 1)

NoPacket == [kind |-> "other"]
NoWord == [kind |-> "none"]
NoReply == [kind |-> "none"]
NoAnswer == [kind |-> "none"]

Exact(size) == size.w = ROI /\ size.h = ROI
HasRoi(size) == size.w >= ROI /\ size.h >= ROI

\* S_HDR_A and S_HDR_A2: the compares lo_y, gt_y and the mux they drive.
Origin(t, h) ==
  IF t < OFF \/ h < ROI THEN 0
  ELSE IF t + (ROI - OFF) > h THEN h - ROI
  ELSE t - OFF

\* History: the rows and the template an answer was computed from.
NoBasis == [rows |-> <<>>, tmpl |-> [c \in Chunks |-> "none"]]

NoFrame == [active |-> FALSE, fid |-> CHOOSE i \in Fids : TRUE, rows |-> 0,
            size |-> CHOOSE s \in Sizes : TRUE, inorder |-> FALSE,
            started |-> FALSE, tag |-> 0, oy |-> 0]
FreshRow == [new |-> FALSE, oy |-> 0, inwin |-> FALSE, word |-> NoWord]
NoEntry == [valid |-> FALSE, ready |-> FALSE, num |-> 0, fid |-> NoFrame.fid,
            tag |-> 0, oy |-> 0, crop |-> FALSE, y |-> 0, flags |-> {},
            basis |-> NoBasis]
NoLatch == [valid |-> FALSE, tag |-> 0, y |-> 0, good |-> FALSE,
            basis |-> NoBasis]

Init ==
  /\ state = "Idle" /\ pkt = NoPacket /\ p = FreshRow
  /\ f = NoFrame /\ nextTag = 0 /\ framesDone = 0 /\ n = NoEntry
  /\ pos = 0 /\ q = NoEntry /\ l = NoLatch
  /\ tx = NoReply /\ fifo = <<>> /\ res = NoAnswer /\ sent = {}

-----------------------------------------------------------------------------
(* Receive FSM up to the end of the packet.                                 *)

\* q_valid && !q_ready: the pending frame still waits for its answer.
Awaiting == q.valid /\ ~q.ready

\* Mutant: any latched answer will do.
MatchingAnyTag == l.valid

\* The latched answer is the pending frame's: it is taken at the next clock,
\* before anything can clear or replace it.
Matching == l.valid /\ l.tag = q.tag
AnswerDue == Awaiting /\ Matching

NewFrame == ~f.active \/ pkt.fid # f.fid

\* Where S_PAY goes at the end of the header.
AfterHeader == [row |-> "HdrA", tmpl |-> "TmplHdr", pos |-> "Commit"]

RxHeader(pk) ==
  /\ state = "Idle"
  /\ ~(q.ready /\ tx = NoReply)
  /\ pkt' = pk
  /\ p' = FreshRow
  /\ state' = IF pk.kind = "other" THEN "Drop"
              ELSE IF pk.quality = "short" THEN "Commit"
              ELSE AfterHeader[pk.kind]
  /\ UNCHANGED <<frameVars, pos, q, l, tx, fifo, res, sent>>

DropEnd ==
  /\ state = "Drop"
  /\ state' = "Idle"
  /\ UNCHANGED <<pkt, p, frameVars, pos, q, l, tx, fifo, res, sent>>

\* Mutant: a row that will close the open frame is not taken for a new frame.
OriginStallWhenIdle == ~f.active /\ ~Exact(pkt.size) /\ Awaiting

\* A cropped new frame takes its origin from the position, so it waits for
\* the outstanding answer; every other row goes on.
OriginStall == NewFrame /\ ~Exact(pkt.size) /\ Awaiting

RowHeader ==
  /\ state = "HdrA" /\ ~OriginStall
  /\ LET oy  == IF NewFrame THEN Origin(pos, pkt.size.h) ELSE f.oy
         fwd == /\ pkt.quality # "badhdr"
                /\ HasRoi(IF NewFrame THEN pkt.size ELSE f.size)
                /\ pkt.row >= oy /\ pkt.row < oy + ROI
     IN /\ p' = [new |-> NewFrame, oy |-> oy, inwin |-> fwd, word |-> NoWord]
        /\ state' = IF fwd THEN "Ctrl" ELSE "Body"
  /\ UNCHANGED <<pkt, frameVars, pos, q, l, tx, fifo, res, sent>>

\* Mutant: one row too many is accepted.
FifoReadyLate == Len(fifo) <= FifoRows

\* trk_tready for the first word of a row or chunk.
FifoReady == Len(fifo) < FifoRows

\* The row's FIFO frame: its ctrl word and, as history, what it was read from.
StartsFrame == p.new \/ ~f.started
RowWord ==
  [kind |-> "row", newf |-> StartsFrame, tag |-> IF p.new THEN nextTag ELSE f.tag,
   row |-> pkt.row - p.oy, src |-> <<pkt.fid, pkt.row, pkt.quality = "good">>]

\* The ctrl word opens a FIFO frame; a new_frame word forgets the latched
\* answer.
RowCtrl ==
  /\ state = "Ctrl" /\ FifoReady /\ ~AnswerDue
  /\ p' = [p EXCEPT !.word = RowWord]
  /\ l' = IF StartsFrame THEN [l EXCEPT !.valid = FALSE] ELSE l
  /\ state' = "Body"
  /\ UNCHANGED <<pkt, frameVars, pos, q, tx, fifo, res, sent>>

ChunkWord == [kind |-> "tmpl", chunk |-> pkt.chunk, content |-> pkt.content]

TemplateHeader ==
  /\ state = "TmplHdr"
  /\ \/ pkt.quality = "badhdr" /\ UNCHANGED p
     \/ /\ pkt.quality # "badhdr" /\ FifoReady
        /\ p' = [p EXCEPT !.word = ChunkWord]
  /\ state' = "Body"
  /\ UNCHANGED <<pkt, frameVars, pos, q, l, tx, fifo, res, sent>>

\* The window of a wide frame can end before the packet does: its FIFO frame
\* is complete before the receiver knows whether the packet is good.
WindowEnd ==
  /\ state = "Body"
  /\ pkt.kind = "row" /\ p.word # NoWord /\ pkt.size.w > ROI
  /\ fifo' = Append(fifo, p.word)
  /\ p' = [p EXCEPT !.word = NoWord]
  /\ UNCHANGED <<state, pkt, frameVars, pos, q, l, tx, res, sent>>

\* Last byte: a FIFO frame still open is kept or, with tuser, dropped.
PayloadEnd ==
  /\ state = "Body"
  /\ fifo' = IF p.word # NoWord /\ pkt.quality = "good"
             THEN Append(fifo, p.word) ELSE fifo
  /\ p' = [p EXCEPT !.word = NoWord]
  /\ state' = "Commit"
  /\ UNCHANGED <<pkt, frameVars, pos, q, l, tx, res, sent>>

-----------------------------------------------------------------------------
(* S_COMMIT: what the packet does to the frame, and what is replied.        *)

Good == pkt.quality = "good"
RowGood == pkt.kind = "row" /\ Good /\ pkt.row < pkt.size.h

\* Flags other than the status bits: bit 5 is f_crop.
CropFlag(crop) == IF crop THEN {"crop"} ELSE {}
Cropped(size) == HasRoi(size) /\ ~Exact(size)

Report(num, fid, flags, y) ==
  [kind |-> "frame", num |-> num, fid |-> fid, flags |-> flags, y |-> y]

Committing == state = "Commit" /\ tx = NoReply

CommitTemplate ==
  /\ Committing /\ pkt.kind = "tmpl"
  /\ tx' = IF Good THEN [kind |-> "tack", chunk |-> pkt.chunk,
                         content |-> pkt.content] ELSE tx
  /\ state' = "Idle"
  /\ UNCHANGED <<pkt, p, frameVars, pos, q, l, fifo, res, sent>>

CommitPosition ==
  /\ Committing /\ pkt.kind = "pos"
  /\ IF Good THEN pos' = pkt.y /\ tx' = [kind |-> "pack", y |-> pkt.y]
             ELSE UNCHANGED <<pos, tx>>
  /\ state' = "Idle"
  /\ UNCHANGED <<pkt, p, frameVars, q, l, fifo, res, sent>>

CommitBadRow ==
  /\ Committing /\ pkt.kind = "row" /\ ~RowGood
  /\ state' = "Idle"
  /\ UNCHANGED <<pkt, p, frameVars, pos, q, l, tx, fifo, res, sent>>

\* A row of another frame: report the open one as incomplete and stay in
\* S_COMMIT to do this row again.
CommitClose ==
  /\ Committing /\ RowGood /\ f.active /\ pkt.fid # f.fid
  /\ tx' = Report(framesDone + 1, f.fid, {"closed"} \cup CropFlag(Cropped(f.size)),
                  0)
  /\ framesDone' = framesDone + 1
  /\ f' = [f EXCEPT !.active = FALSE]
  /\ p' = [p EXCEPT !.new = TRUE]
  /\ UNCHANGED <<state, pkt, nextTag, n, pos, q, l, fifo, res, sent>>

\* The open frame after this row, as good_row computes it.
FrameWithRow ==
  IF f.active
  THEN [f EXCEPT !.rows = @ + 1,
                 !.inorder = @ /\ pkt.row = f.rows,
                 !.started = @ \/ p.inwin]
  ELSE [active |-> TRUE, fid |-> pkt.fid, rows |-> 1, size |-> pkt.size,
        inorder |-> pkt.row = 0, started |-> p.inwin, tag |-> nextTag,
        oy |-> p.oy]

\* f_next_last, or p_h1 for the first row: rows are counted, not looked at.
LastRow == FrameWithRow.rows = FrameWithRow.size.h

CommitRow ==
  /\ Committing /\ RowGood /\ ~(f.active /\ pkt.fid # f.fid)
  /\ nextTag' = IF f.active THEN nextTag ELSE (nextTag + 1) % NTags
  /\ LET g == FrameWithRow
         done == [g EXCEPT !.active = FALSE]
     IN \/ /\ ~LastRow
           /\ f' = g /\ state' = "Idle"
           /\ UNCHANGED <<framesDone, n, tx>>
        \/ /\ LastRow /\ g.inorder /\ HasRoi(g.size)
           /\ f' = done /\ framesDone' = framesDone + 1
           /\ n' = [NoEntry EXCEPT !.num = framesDone + 1, !.fid = g.fid,
                                   !.tag = g.tag, !.oy = g.oy,
                                   !.crop = Cropped(g.size)]
           /\ state' = "Slot" /\ UNCHANGED tx
        \/ /\ LastRow /\ ~(g.inorder /\ HasRoi(g.size))
           /\ f' = done /\ framesDone' = framesDone + 1
           /\ tx' = Report(framesDone + 1, g.fid,
                           {"complete"} \cup CropFlag(Cropped(g.size)), 0)
           /\ state' = "Idle" /\ UNCHANGED n
  /\ UNCHANGED <<pkt, p, pos, q, l, fifo, res, sent>>

\* Mutant: the slot is taken whether it is free or not.
TakeSlotBlindly ==
  /\ state = "Slot"
  /\ q' = [n EXCEPT !.valid = TRUE]
  /\ state' = "Idle"
  /\ UNCHANGED <<pkt, p, frameVars, pos, l, tx, fifo, res, sent>>

\* S_SLOT: the held frame takes the pending slot once that is free.
TakeSlot ==
  /\ state = "Slot" /\ ~q.valid
  /\ q' = [n EXCEPT !.valid = TRUE]
  /\ state' = "Idle"
  /\ UNCHANGED <<pkt, p, frameVars, pos, l, tx, fifo, res, sent>>

-----------------------------------------------------------------------------
(* The pending frame, the answer latch and the transmitter.                 *)

\* Mutant: a poor match is reported at the old position but moves the target.
TakeAnswerAlwaysMoves ==
  /\ AnswerDue
  /\ pos' = q.oy + l.y + MARGIN
  /\ q' = [q EXCEPT !.ready = TRUE, !.y = IF l.good THEN pos' ELSE pos,
                    !.basis = l.basis,
                    !.flags = {"tracked"} \cup IF l.good THEN {"good"} ELSE {}]
  /\ l' = [l EXCEPT !.valid = FALSE]
  /\ UNCHANGED <<rxVars, frameVars, tx, fifo, res, sent>>

\* The answer moves the target if the match is good, and is reported either way.
TakeAnswer ==
  /\ AnswerDue
  /\ LET y == IF l.good THEN q.oy + l.y + MARGIN ELSE pos
     IN /\ pos' = y
        /\ q' = [q EXCEPT !.ready = TRUE, !.y = y, !.basis = l.basis,
                          !.flags = {"tracked"} \cup IF l.good THEN {"good"} ELSE {}]
  /\ l' = [l EXCEPT !.valid = FALSE]
  /\ UNCHANGED <<rxVars, frameVars, tx, fifo, res, sent>>

\* Mutant: the timeout is looked at only when the next frame needs the slot.
TimeOutInSlot ==
  /\ Awaiting /\ ~Matching /\ state = "Slot"
  /\ q' = [q EXCEPT !.ready = TRUE, !.y = pos, !.flags = {"timeout"}]
  /\ UNCHANGED <<rxVars, frameVars, pos, l, tx, fifo, res, sent>>

\* q_tmo_hit: TRK_TIMEOUT clocks without a matching answer.
TimeOut ==
  /\ Awaiting /\ ~Matching
  /\ q' = [q EXCEPT !.ready = TRUE, !.y = pos, !.flags = {"timeout"}]
  /\ UNCHANGED <<rxVars, frameVars, pos, l, tx, fifo, res, sent>>

\* res_new: every answer is latched and replaces an unclaimed one.
LatchAnswer ==
  /\ res # NoAnswer /\ ~AnswerDue
  /\ l' = [valid |-> TRUE, tag |-> res.tag, y |-> res.y, good |-> res.good,
           basis |-> res.basis]
  /\ res' = NoAnswer
  /\ UNCHANGED <<rxVars, frameVars, pos, q, tx, fifo, sent>>

\* Mutants: no emission while a frame is held; the slot is not freed.
SilentStatesButSlot == {"Idle", "HdrA"}
SlotKept == [q EXCEPT !.ready = FALSE]

\* The states in which the FSM itself never sends.
SilentStates == {"Idle", "HdrA", "Slot"}
SlotFreed == [q EXCEPT !.valid = FALSE, !.ready = FALSE]

\* q_emit
EmitPending ==
  /\ q.ready /\ tx = NoReply
  /\ state \in SilentStates
  /\ tx' = Report(q.num, q.fid, {"complete"} \cup CropFlag(q.crop) \cup q.flags,
                  q.y)
  /\ q' = SlotFreed
  /\ UNCHANGED <<rxVars, frameVars, pos, l, fifo, res, sent>>

\* The last byte of the 44-byte reply has left.
TxDone ==
  /\ tx # NoReply
  /\ sent' = IF tx.kind = "frame" THEN sent \cup {tx} ELSE sent
  /\ tx' = NoReply
  /\ UNCHANGED <<rxVars, frameVars, pos, q, l, fifo, res>>

-----------------------------------------------------------------------------
(* The receiver in an arbitrary environment.                                *)

Basis == [rows : Seq(Fids \X Nat \X BOOLEAN),
          tmpl : [Chunks -> Contents \cup {"none"}]]
Answers == [kind : {"answer"}, tag : Tags, y : Nat, good : BOOLEAN, basis : Basis]

\* The tracker side of the FIFO takes a whole row or chunk.
FifoRead ==
  /\ fifo # <<>>
  /\ fifo' = Tail(fifo)
  /\ UNCHANGED <<rxVars, frameVars, pos, q, l, tx, res, sent>>

\* The tracker toggles res_toggle with an answer.
AnswerArrives ==
  /\ res = NoAnswer
  /\ res' \in Answers
  /\ UNCHANGED <<rxVars, frameVars, pos, q, l, tx, fifo, sent>>

ReceiveStep ==
  \/ DropEnd \/ RowHeader \/ RowCtrl \/ TemplateHeader \/ WindowEnd \/ PayloadEnd
  \/ CommitTemplate \/ CommitPosition \/ CommitBadRow \/ CommitClose \/ CommitRow
  \/ TakeSlot

SlotStep == TakeAnswer \/ LatchAnswer \/ EmitPending

Next ==
  \/ \E pk \in Packets : RxHeader(pk)
  \/ ReceiveStep \/ SlotStep \/ TimeOut \/ TxDone
  \/ FifoRead \/ AnswerArrives

Spec == Init /\ [][Next]_vars

-----------------------------------------------------------------------------
(* Properties.                                                              *)

Word ==
  {NoWord}
    \cup [kind : {"row"}, newf : BOOLEAN, tag : Tags, row : Int,
          src : Fids \X Nat \X BOOLEAN]
    \cup [kind : {"tmpl"}, chunk : Chunks, content : Contents]
Flags == {"complete", "closed", "crop", "tracked", "good", "timeout"}
FrameReport == [kind : {"frame"}, num : Nat, fid : Fids, flags : SUBSET Flags, y : Nat]
Reply ==
  FrameReport \cup {NoReply}
    \cup [kind : {"tack"}, chunk : Chunks, content : Contents]
    \cup [kind : {"pack"}, y : Nat]
Entry == [valid : BOOLEAN, ready : BOOLEAN, num : Nat, fid : Fids, tag : Tags,
          oy : Nat, crop : BOOLEAN, y : Nat, flags : SUBSET Flags, basis : Basis]

\* Every register holds a value of its kind, a packet is where its kind leads,
\* and a FIFO frame that was begun finds room when it ends.
TypeOK ==
  /\ state \in {"Idle", "Drop", "HdrA", "Ctrl", "TmplHdr", "Body", "Commit", "Slot"}
  /\ pkt \in Packets
  /\ state = "HdrA" => pkt.kind = "row"
  /\ state = "Ctrl" => pkt.kind = "row"
  /\ state = "TmplHdr" => pkt.kind = "tmpl"
  /\ state = "Body" => pkt.kind \in {"row", "tmpl"}
  /\ state = "Commit" => pkt.kind \in {"row", "tmpl", "pos"}
  /\ p \in [new : BOOLEAN, oy : Nat, inwin : BOOLEAN, word : Word]
  /\ f \in [active : BOOLEAN, fid : Fids, rows : Nat, size : Sizes,
            inorder : BOOLEAN, started : BOOLEAN, tag : Tags, oy : Nat]
  /\ nextTag \in Tags /\ framesDone \in Nat /\ pos \in Nat
  /\ n \in Entry /\ q \in Entry /\ (q.ready => q.valid)
  /\ l \in [valid : BOOLEAN, tag : Tags, y : Nat, good : BOOLEAN, basis : Basis]
  /\ tx \in Reply /\ sent \subseteq FrameReport
  /\ fifo \in Seq(Word) /\ Len(fifo) <= FifoRows
  /\ p.word # NoWord => Len(fifo) < FifoRows
  /\ res \in Answers \cup {NoAnswer}

\* Frame numbers: complete frames that wait for the tracker, and frames whose
\* report has been handed to the transmitter.
Waiting == (IF q.valid THEN {q.num} ELSE {})
             \cup (IF state = "Slot" THEN {n.num} ELSE {})
Reported == {r.num : r \in sent}
              \cup (IF tx.kind = "frame" THEN {tx.num} ELSE {})

\* Every frame counted in frames_done is in exactly one place: reported once,
\* or waiting, in the slot before the one held in S_SLOT.
EachFrameOnce ==
  /\ Waiting \cup Reported = 1..framesDone
  /\ Waiting \cap Reported = {}
  /\ tx.kind = "frame" => \A r \in sent : r.num # tx.num
  /\ q.valid /\ state = "Slot" => q.num < n.num

\* Stall (a): while the answer of one frame is awaited no frame with an origin
\* taken from the position is open or held, so no answer can move the
\* position under a cropped frame.
OriginWaits ==
  /\ f.active /\ Cropped(f.size) => ~Awaiting
  /\ state = "Slot" /\ n.crop => ~Awaiting

\* The frame waited for the tracker.
Waited(r) == r.flags \cap {"tracked", "timeout"} # {}

\* Tracked and timed-out frames are reported in the order they were closed.
ReportsInOrder ==
  [][\A r \in sent' \ sent :
       Waited(r) => \A s \in sent : Waited(s) => s.num < r.num]_vars

\* The abstract promise: every frame is reported once, the waiting ones in order.
Service == INSTANCE FrameService
             WITH open <- f.active, done <- framesDone,
                  waiting <- Waiting, reported <- Reported

ServiceSpec == Service!Spec

=============================================================================
