---------------------------- MODULE FmapPingpong ----------------------------
(***************************************************************************)
(* The two-bank buffer between two stages of the tiny-CNN pipeline         *)
(* (fmap_pingpong.sv) as operators on one record: what the two sides see,  *)
(* and what one clock edge does with the four pulses they may raise.  The  *)
(* stages of TcnnCore hold one such record per boundary; PingpongSpec puts *)
(* one in an arbitrary environment.                                        *)
(*                                                                         *)
(* A tile stands for the 16-bit tag that travels with its data.            *)
(***************************************************************************)
EXTENDS Integers

CONSTANTS
  Tiles,     \* the tags a producer may write
  NoTile     \* the value of a tag register after reset

ASSUME TileAssumption == NoTile \notin Tiles

Banks == {0, 1}

BankStates == {"free", "writing", "full", "reading"}

Buffers ==
  [st : [Banks -> BankStates], tag : [Banks -> Tiles \cup {NoTile}],
   wp : Banks, rp : Banks]

EmptyBuffer ==
  [st |-> [k \in Banks |-> "free"], tag |-> [k \in Banks |-> NoTile],
   wp |-> 0, rp |-> 0]

-----------------------------------------------------------------------------
(* What the producer and the consumer see *)

\* Mutant: a bank counts as free once its consumer has started.
WrReadyWhileRead(b) == b.st[b.wp] \in {"free", "reading"}

WrReady(b) == b.st[b.wp] = "free"

RdReady(b) == b.st[b.rp] = "full"

RdTag(b) == b.tag[b.rp]

-----------------------------------------------------------------------------
(* One clock edge.  The pulses p: wr_start with its tag, wr_done, rd_start *)
(* and rd_done.  Each is honoured only in the state it belongs to.         *)

Pulses == [ws : BOOLEAN, wd : BOOLEAN, rs : BOOLEAN, rd : BOOLEAN, tag : Tiles]

Opens(b, p) == p.ws /\ b.st[b.wp] = "free"

Commits(b, p) == p.wd /\ b.st[b.wp] = "writing"

Acquires(b, p) == p.rs /\ b.st[b.rp] = "full"

Releases(b, p) == p.rd /\ b.st[b.rp] = "reading"

Toggled(k, moves) == IF moves THEN 1 - k ELSE k

BankNext(b, p, k) ==
  CASE k = b.wp /\ Opens(b, p)    -> "writing"
    [] k = b.wp /\ Commits(b, p)  -> "full"
    [] k = b.rp /\ Acquires(b, p) -> "reading"
    [] k = b.rp /\ Releases(b, p) -> "free"
    [] OTHER                      -> b.st[k]

\* Mutants: rd_ptr stays where it is; the tag is latched with the last word.
BufferNextSameBank(b, p) ==
  [st  |-> [k \in Banks |-> BankNext(b, p, k)],
   tag |-> [k \in Banks |-> IF k = b.wp /\ Opens(b, p) THEN p.tag ELSE b.tag[k]],
   wp  |-> Toggled(b.wp, Commits(b, p)),
   rp  |-> b.rp]

BufferNextLateTag(b, p) ==
  [st  |-> [k \in Banks |-> BankNext(b, p, k)],
   tag |-> [k \in Banks |-> IF k = b.wp /\ Commits(b, p) THEN p.tag ELSE b.tag[k]],
   wp  |-> Toggled(b.wp, Commits(b, p)),
   rp  |-> Toggled(b.rp, Releases(b, p))]

BufferNext(b, p) ==
  [st  |-> [k \in Banks |-> BankNext(b, p, k)],
   tag |-> [k \in Banks |-> IF k = b.wp /\ Opens(b, p) THEN p.tag ELSE b.tag[k]],
   wp  |-> Toggled(b.wp, Commits(b, p)),
   rp  |-> Toggled(b.rp, Releases(b, p))]
=============================================================================
