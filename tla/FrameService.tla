---------------------------- MODULE FrameService ----------------------------
(***************************************************************************)
(* What the receiver promises about frames, whatever arrives: frames are    *)
(* closed one after the other, each is reported exactly once, at most two  *)
(* closed frames wait for the tracker, and those are reported in order.    *)
(***************************************************************************)
EXTENDS Integers

VARIABLES
  open,      \* a frame is open
  done,      \* frames closed so far; they are numbered 1..done
  waiting,   \* closed frames not yet reported
  reported   \* frames reported

serviceVars == <<open, done, waiting, reported>>

Init == open = FALSE /\ done = 0 /\ waiting = {} /\ reported = {}

Open ==
  /\ ~open
  /\ open' = TRUE
  /\ UNCHANGED <<done, waiting, reported>>

\* A frame of one row opens and closes in one step.
Close ==
  /\ open' = FALSE
  /\ done' = done + 1
  /\ \/ reported' = reported \cup {done + 1} /\ UNCHANGED waiting
     \/ /\ \A a, b \in waiting : a = b
        /\ waiting' = waiting \cup {done + 1} /\ UNCHANGED reported

\* Only the oldest waiting frame is reported.
ReportOldest ==
  /\ \E m \in waiting :
       /\ \A k \in waiting : m <= k
       /\ waiting' = waiting \ {m}
       /\ reported' = reported \cup {m}
  /\ UNCHANGED <<open, done>>

Next == Open \/ Close \/ ReportOldest

Spec == Init /\ [][Next]_serviceVars

=============================================================================
