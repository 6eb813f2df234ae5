---------------------------- MODULE PingpongSpec ----------------------------
(***************************************************************************)
(* One fmap_pingpong whose two sides raise any pulses in any clock, at the *)
(* right time or not.                                                      *)
(***************************************************************************)
EXTENDS FmapPingpong, Sequences

VARIABLE buf

Init == buf = EmptyBuffer

(* One clock edge with arbitrary inputs. *)
Next == \E p \in Pulses : buf' = BufferNext(buf, p)

Spec == Init /\ [][Next]_buf

-----------------------------------------------------------------------------
(* Every register keeps its type; a tag register holds a tile once its     *)
(* bank has left the free state for the first time.                        *)
TypeOK ==
  /\ buf \in Buffers
  /\ \A k \in Banks : buf.st[k] # "free" => buf.tag[k] \in Tiles

(* The two round-robin pointers and the bank states agree: a lone used     *)
(* bank is where the pointer of its side stands, and two used banks are    *)
(* adjacent in the order they were written.  This is what "strict          *)
(* alternation" (fmap_pingpong.sv:10) has to mean for order to be kept.    *)
Alternation ==
  \/ /\ buf.wp = buf.rp
     /\ buf.st[buf.wp] \in {"free", "writing"}
     /\ buf.st[1 - buf.wp] = "free"
  \/ /\ buf.wp = buf.rp
     /\ buf.st[buf.rp] \in {"full", "reading"}
     /\ buf.st[1 - buf.rp] = "full"
  \/ /\ buf.wp # buf.rp
     /\ buf.st[buf.rp] \in {"full", "reading"}
     /\ buf.st[buf.wp] \in {"free", "writing"}

-----------------------------------------------------------------------------
(* The queue a buffer holds. *)

Filling ==
  IF buf.st[buf.wp] = "writing" THEN buf.tag[buf.wp] ELSE NoTile

Draining ==
  IF buf.st[buf.rp] = "reading" THEN buf.tag[buf.rp] ELSE NoTile

Full(b, k) == IF b.st[k] = "full" THEN <<b.tag[k]>> ELSE <<>>

Contents(b) == Full(b, b.rp) \o Full(b, 1 - b.rp)

Queue == INSTANCE TileQueue WITH
  filling <- Filling, queue <- Contents(buf), draining <- Draining

(* Whatever the two sides do, a buffer is a queue of at most two tiles:    *)
(* "no way to skip ahead into the wrong bank" (fmap_pingpong.sv:20-22).    *)
QueueSpec == Queue!Spec

=============================================================================
