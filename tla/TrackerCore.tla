----------------------------- MODULE TrackerCore -----------------------------
(***************************************************************************)
(* The tracker behind the FIFO: zsad_core.sv, and s3x8_core.sv, whose       *)
(* control over rows, frames and the template is the same.  It takes whole *)
(* rows from the FIFO, restarts at a new_frame word, and answers once the  *)
(* last of ROI rows arrived in order.  A template is written to a shadow   *)
(* and copied to the matcher at the next new frame.                        *)
(*                                                                         *)
(* Abstracted: the matching itself (any best offset, good or not), and the *)
(* clocks of ST_GAP, ST_COPY and the line pacing, in which s_tready is low *)
(* and nothing but a counter moves.                                        *)
(***************************************************************************)
EXTENDS RowStats

CONSTANTS
  Offsets     \* best offsets in the ROI the matcher can return

ASSUME OffsetsAssumption == Offsets \subseteq Nat

VARIABLE
  trk         \* ftag, rows_cnt, inorder, sh_pending, shadow and template

NoTemplate == NoBasis.tmpl

TrackerInit ==
  trk = [busy |-> FALSE, tag |-> 0, cnt |-> 0, inorder |-> FALSE, rows |-> <<>>,
         pending |-> FALSE, shadow |-> NoTemplate, tmpl |-> NoTemplate]

\* s_tready is low while an answer is being drained.
Offered(kind) == ~trk.busy /\ fifo # <<>> /\ Head(fifo).kind = kind

\* Mutant: the row counter is left where the last frame stopped.
RestartKeepsCount(w) ==
  [trk EXCEPT !.tag = w.tag, !.inorder = (w.row = 0), !.rows = <<>>,
              !.tmpl = IF trk.pending THEN trk.shadow ELSE @,
              !.pending = FALSE]

\* Row ctrl word with new_frame: restart, and copy a complete new template.
RestartFrame(w) ==
  [trk EXCEPT !.tag = w.tag, !.cnt = 0, !.inorder = (w.row = 0), !.rows = <<>>,
              !.tmpl = IF trk.pending THEN trk.shadow ELSE @,
              !.pending = FALSE]

ContinueFrame(w) == [trk EXCEPT !.inorder = @ /\ w.row = trk.cnt]

\* One FIFO frame: its ctrl word, then its pixels up to s_tlast.
TrackRow ==
  /\ Offered("row")
  /\ LET w == Head(fifo)
         g == IF w.newf THEN RestartFrame(w) ELSE ContinueFrame(w)
     IN trk' = [g EXCEPT !.cnt = @ + 1,
                         !.rows = IF g.inorder THEN Append(@, w.src) ELSE <<>>,
                         !.busy = g.inorder /\ g.cnt = ROI - 1]
  /\ fifo' = Tail(fifo)
  /\ UNCHANGED <<rxVars, frameVars, pos, q, l, tx, res, sent>>

\* Mutant: any chunk makes the shadow pending.
CompletesAlways(w) == TRUE

\* Only the last byte of the template makes the shadow pending.
CompletesTemplate(w) == w.chunk = NChunks - 1

TrackChunk ==
  /\ Offered("tmpl")
  /\ LET w == Head(fifo)
     IN trk' = [trk EXCEPT !.shadow[w.chunk] = w.content,
                           !.pending = @ \/ CompletesTemplate(w)]
  /\ fifo' = Tail(fifo)
  /\ UNCHANGED <<rxVars, frameVars, pos, q, l, tx, res, sent>>

\* The answer is written with the toggle.  The next one is at least ROI rows
\* later, long after the three synchroniser stages: res is free.
Answer ==
  /\ trk.busy /\ res = NoAnswer
  /\ \E y \in Offsets, good \in BOOLEAN :
       res' = [kind |-> "answer", tag |-> trk.tag, y |-> y, good |-> good,
               basis |-> [rows |-> trk.rows, tmpl |-> trk.tmpl]]
  /\ trk' = [trk EXCEPT !.busy = FALSE, !.inorder = FALSE]
  /\ UNCHANGED <<rxVars, frameVars, pos, q, l, tx, fifo, sent>>

TrackerStep == TrackRow \/ TrackChunk \/ Answer

\* Nothing is left in the tracker path that could still produce an answer.
TrackerQuiet == fifo = <<>> /\ ~trk.busy /\ res = NoAnswer

=============================================================================
