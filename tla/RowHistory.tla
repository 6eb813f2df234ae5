----------------------------- MODULE RowHistory -----------------------------
(***************************************************************************)
(* TrackBoard with a history of the rows each frame was closed from: the    *)
(* receiver keeps their number only (f_rows), never which they were.        *)
(***************************************************************************)
EXTENDS TrackBoard

VARIABLE got     \* history: <<k, row>>, row counted into the k-th frame closed

historyVars == <<allVars, got>>

HistoryInit == BoardInit /\ got = {}

\* The row is one of the frame that is closed next.
HistoryNext ==
  /\ BoardNext
  /\ got' = IF CommitRow THEN got \cup {<<framesDone + 1, pkt.row>>} ELSE got

HistorySpec == HistoryInit /\ [][HistoryNext]_historyVars

-----------------------------------------------------------------------------
(* Properties.                                                              *)

RowsOf(r) == {row \in 0..(script[r.fid].size.h - 1) : <<r.num, row>> \in got}

\* What ethernet/README.md:101 says of a frame that closes complete: all of its
\* rows have arrived, each row number of the frame undamaged at least once.  A
\* frame with a doubled row may well be complete, if the doubled row is no
\* substitute for another one.
CompleteHasAllRows ==
  \A r \in FrameReports :
    "complete" \in r.flags => RowsOf(r) = 0..(script[r.fid].size.h - 1)

=============================================================================
