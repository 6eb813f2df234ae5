---------------------------- MODULE MCRowHistory ----------------------------
(* RowHistory on the instances of MCTrackBoard. *)
EXTENDS RowHistory, MCTrackBoard

=============================================================================
