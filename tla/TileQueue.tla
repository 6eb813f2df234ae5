------------------------------ MODULE TileQueue ------------------------------
(***************************************************************************)
(* What a buffer between two stages promises: a queue of tiles with room   *)
(* for two, counting the one being written and the one being read.  In one *)
(* clock the producer may open or commit a tile and the consumer may       *)
(* acquire or release one; tiles are acquired in the order they were       *)
(* committed, each once.                                                   *)
(***************************************************************************)
EXTENDS Integers, Sequences

CONSTANTS Tiles, NoTile

VARIABLES
  filling,     \* the tile the producer is writing, or NoTile
  queue,       \* the committed tiles nobody reads yet, oldest first
  draining     \* the tile the consumer is reading, or NoTile

vars == <<filling, queue, draining>>

Held(t) == IF t = NoTile THEN 0 ELSE 1

Occupied == Held(filling) + Len(queue) + Held(draining)

Init ==
  /\ filling = NoTile
  /\ queue = <<>>
  /\ draining = NoTile

-----------------------------------------------------------------------------
Open ==
  /\ filling = NoTile
  /\ Occupied < 2
  /\ filling' \in Tiles

Commit ==
  /\ filling # NoTile
  /\ filling' = NoTile

Acquire ==
  /\ draining = NoTile
  /\ queue # <<>>
  /\ draining' = Head(queue)

Release ==
  /\ draining # NoTile
  /\ draining' = NoTile

(* What the two sides leave in the queue. *)
Kept == IF draining = NoTile /\ draining' # NoTile THEN Tail(queue) ELSE queue

Added == IF filling # NoTile /\ filling' = NoTile THEN <<filling>> ELSE <<>>

Next ==
  /\ Open \/ Commit \/ UNCHANGED filling
  /\ Acquire \/ Release \/ UNCHANGED draining
  /\ queue' = Kept \o Added

Spec == Init /\ [][Next]_vars
=============================================================================
