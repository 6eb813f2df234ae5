----------------------------- MODULE TrackBoard -----------------------------
(***************************************************************************)
(* The board (fpga_core.v: receiver, FIFO and tracker core) driven by a     *)
(* host that sends frames row by row, position commands and templates over *)
(* a network that loses, duplicates, damages and delays packets.           *)
(***************************************************************************)
EXTENDS TrackerCore

CONSTANTS
  MaxFrames,   \* bound: frames the host sends
  MaxFaults,   \* bound: network faults
  MaxCmds,     \* bound: position commands
  MaxUploads,  \* bound: template chunks sent
  FaultKinds,  \* which of "lose", "dup", "err", "copy" and "delay" happen
  Positions,   \* positions the host commands
  Patient,     \* TRK_TIMEOUT is longer than the tracker ever needs
  Lockstep,    \* the host waits for each reply (board_link3.py)
  OneUpload    \* the host uploads one template between two frames

VARIABLES
  cur,         \* the frame being sent: fid, size, next row
  delayed,     \* a packet overtaken by later ones
  used,        \* faults, commands and uploads so far
  upl,         \* template upload: content, next chunk, last whole template
  hostY,       \* position in the last reply the host received
  script,      \* history: size and template of each frame begun
  hit          \* history: frames that lost, doubled or had damaged rows

hostVars == <<cur, delayed, used, upl, hostY, script, hit>>
allVars == <<vars, trk, hostVars>>

Nothing == [kind |-> "none"]

BoardInit ==
  /\ Init /\ TrackerInit
  /\ cur = [fid |-> 0, size |-> [w |-> 1, h |-> 1], row |-> 1]
  /\ delayed = Nothing
  /\ used = [faults |-> 0, cmds |-> 0, uploads |-> 0]
  /\ upl = [content |-> "none", chunk |-> 0, whole |-> "none", gap |-> FALSE]
  /\ hostY = 0 /\ script = <<>> /\ hit = {}

BetweenFrames == cur.row = cur.size.h

\* Nothing of an earlier frame is outstanding on the board.
BoardQuiet ==
  /\ state = "Idle" /\ ~q.valid /\ tx = NoReply /\ TrackerQuiet

\* _wait: the host goes on after the reply, or after a second without one.
MaySend == Lockstep => BoardQuiet /\ delayed = Nothing

ASSUME BoardAssumption ==
  /\ MaxFrames \in Nat /\ 1..MaxFrames \subseteq Fids
  /\ Positions \subseteq Nat

-----------------------------------------------------------------------------
(* The host.                                                                *)

\* send_frame: a new frame starts at row 0.  An unfinished upload is given up.
StartFrame ==
  /\ BetweenFrames /\ MaySend
  /\ cur.fid < MaxFrames
  /\ \E s \in Sizes :
       /\ cur' = [fid |-> cur.fid + 1, size |-> s, row |-> 0]
       /\ script' = Append(script, [size |-> s, tmpl |-> upl.whole])
  /\ upl' = [upl EXCEPT !.chunk = 0, !.gap = FALSE]
  /\ UNCHANGED <<vars, trk, delayed, used, hostY, hit>>

RowPacket(quality) ==
  [kind |-> "row", fid |-> cur.fid, row |-> cur.row, size |-> cur.size,
   quality |-> quality]

NextRow == cur' = [cur EXCEPT !.row = @ + 1]

SendRow ==
  /\ ~BetweenFrames
  /\ RxHeader(RowPacket("good")) /\ NextRow
  /\ UNCHANGED <<trk, delayed, used, upl, hostY, script, hit>>

\* set_position
SendPosition ==
  /\ BetweenFrames /\ MaySend /\ used.cmds < MaxCmds
  /\ \E y \in Positions : RxHeader([kind |-> "pos", y |-> y, quality |-> "good"])
  /\ used' = [used EXCEPT !.cmds = @ + 1]
  /\ UNCHANGED <<trk, cur, delayed, upl, hostY, script, hit>>

\* send_template: the chunks in order, each after the ack of the one before.
SendChunk ==
  /\ BetweenFrames /\ MaySend /\ used.uploads < MaxUploads
  /\ \E c \in Contents :
       /\ upl.chunk # 0 \/ (upl.gap /\ OneUpload) => c = upl.content
       /\ RxHeader([kind |-> "tmpl", chunk |-> upl.chunk, content |-> c,
                    quality |-> "good"])
       /\ upl' = [content |-> c, chunk |-> (upl.chunk + 1) % NChunks, gap |-> TRUE,
                  whole |-> IF upl.chunk = NChunks - 1 THEN c ELSE upl.whole]
  /\ used' = [used EXCEPT !.uploads = @ + 1]
  /\ UNCHANGED <<trk, cur, delayed, hostY, script, hit>>

-----------------------------------------------------------------------------
(* The network.                                                             *)

Fault(kind) ==
  /\ kind \in FaultKinds /\ used.faults < MaxFaults
  /\ used' = [used EXCEPT !.faults = @ + 1]
  /\ UNCHANGED <<trk, hostY, script>>

RowFault(kind) ==
  /\ ~BetweenFrames /\ Fault(kind)
  /\ hit' = hit \cup {cur.fid}
  /\ UNCHANGED upl

LoseRow ==
  /\ RowFault("lose") /\ NextRow
  /\ UNCHANGED <<vars, delayed>>

DuplicateRow ==
  /\ RowFault("dup")
  /\ RxHeader(RowPacket("good"))
  /\ UNCHANGED <<cur, delayed>>

\* A packet damaged in transit, or cut before its header is complete.
DamageRow ==
  /\ RowFault("err") /\ NextRow
  /\ \E quality \in {"err", "short", "badhdr"} : RxHeader(RowPacket(quality))
  /\ UNCHANGED delayed

\* The damaged packet is one of two copies.
DamageCopy ==
  /\ RowFault("copy")
  /\ RxHeader(RowPacket("err"))
  /\ UNCHANGED <<cur, delayed>>

DelayRow ==
  /\ delayed = Nothing /\ RowFault("delay")
  /\ delayed' = RowPacket("good") /\ NextRow
  /\ UNCHANGED vars

DeliverDelayed ==
  /\ delayed # Nothing
  /\ RxHeader(delayed)
  /\ delayed' = Nothing
  /\ UNCHANGED <<trk, cur, used, upl, hostY, script, hit>>

\* A lost chunk is never acknowledged: send_template fails and is started
\* again or given up.
LoseChunk ==
  /\ BetweenFrames /\ MaySend /\ upl.chunk # 0 /\ Fault("lose")
  /\ upl' = [upl EXCEPT !.chunk = 0]
  /\ UNCHANGED <<vars, cur, delayed, hit>>

-----------------------------------------------------------------------------
(* The board.                                                               *)

NotHost == UNCHANGED hostVars

\* 10 ms are longer than the tracker takes for all the FIFO holds.
BoardTimeOut ==
  /\ Patient => TrackerQuiet
  /\ TimeOut /\ UNCHANGED trk /\ NotHost

\* The host learns the position from every reply that carries one.
BoardTxDone ==
  /\ TxDone
  /\ hostY' = IF \/ tx.kind = "pack"
                 \/ tx.kind = "frame" /\ tx.flags \cap {"tracked", "timeout"} # {}
              THEN tx.y ELSE hostY
  /\ UNCHANGED <<trk, cur, delayed, used, upl, script, hit>>

BoardStep ==
  \/ (ReceiveStep \/ SlotStep) /\ UNCHANGED trk /\ NotHost
  \/ TrackerStep /\ NotHost
  \/ BoardTimeOut \/ BoardTxDone

\* The host has sent all it will and the board has replied to all of it.
Finished ==
  /\ BetweenFrames /\ cur.fid = MaxFrames /\ delayed = Nothing /\ BoardQuiet
  /\ UNCHANGED allVars

HostStep ==
  \/ StartFrame \/ SendRow \/ SendPosition \/ SendChunk
  \/ LoseRow \/ DuplicateRow \/ DamageRow \/ DamageCopy
  \/ DelayRow \/ DeliverDelayed \/ LoseChunk

BoardNext == HostStep \/ BoardStep \/ Finished

BoardSpec == BoardInit /\ [][BoardNext]_allVars

\* Every part of the board is clocked for ever; the host owes nothing.
Fairness ==
  /\ WF_allVars(ReceiveStep /\ UNCHANGED trk /\ NotHost)
  /\ WF_allVars(TakeAnswer /\ UNCHANGED trk /\ NotHost)
  /\ WF_allVars(LatchAnswer /\ UNCHANGED trk /\ NotHost)
  /\ WF_allVars(EmitPending /\ UNCHANGED trk /\ NotHost)
  /\ WF_allVars(TrackerStep /\ NotHost)
  /\ WF_allVars(BoardTimeOut)
  /\ WF_allVars(BoardTxDone)

FairSpec == BoardSpec /\ Fairness

-----------------------------------------------------------------------------
(* Properties.                                                              *)

\* A tracked frame carries the answer computed from its own ROI rows, all of
\* them, undamaged and in order.
OwnAnswer ==
  q.ready /\ "tracked" \in q.flags =>
    q.basis.rows = [i \in 1..ROI |-> <<q.fid, q.oy + i - 1, TRUE>>]

\* A frame is matched against one whole template: the last one uploaded
\* before the frame was sent.
TemplateWhole ==
  q.ready /\ "tracked" \in q.flags =>
    q.basis.tmpl = [c \in Chunks |-> script[q.fid].tmpl]

FrameReports == {r \in sent \cup {tx} : r.kind = "frame"}

\* A frame none of whose own rows met a fault is reported complete and, when
\* it is large enough, tracked: damage to one frame never spreads to another.
FaultContained ==
  \A r \in FrameReports :
    r.fid \notin hit =>
      /\ "complete" \in r.flags
      /\ HasRoi(script[r.fid].size) => "tracked" \in r.flags

\* With nothing outstanding the host knows the board's position: it is the
\* one in the last reply.
HostKnowsPosition == BoardQuiet => pos = hostY

\* Every closed frame is reported, even when the tracker never answers.
EveryFrameReported ==
  \A k \in 1..MaxFrames : framesDone = k ~> \E r \in sent : r.num = k

\* The receiver never stays busy with a packet.
ReceiverReturns == state # "Idle" ~> state = "Idle"

=============================================================================
