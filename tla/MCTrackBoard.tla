---------------------------- MODULE MCTrackBoard ----------------------------
(* Instances of TrackBoard for TLC: a ROI of three rows, frames of exactly   *)
(* that size, larger (cropped, the last or first row outside the ROI) and    *)
(* smaller (never tracked).                                                  *)
EXTENDS TrackBoard

ExactSize == [w |-> 3, h |-> 3]
LargeSize == [w |-> 4, h |-> 4]
SmallSize == [w |-> 2, h |-> 2]

AllSizes == {ExactSize, LargeSize, SmallSize}
TrackedSizes == {ExactSize, LargeSize}
ThreeFids == 1..3

=============================================================================
