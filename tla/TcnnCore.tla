------------------------------ MODULE TcnnCore ------------------------------
(***************************************************************************)
(* The layer pipeline of the tiny CNN (tcnn_core.sv), cycle by cycle: the  *)
(* tile feeder fills the first buffer, every conv_layer reads its tile     *)
(* from the buffer before it and writes the result to the one after it,    *)
(* and gap_head turns the last map into a score.  Everything is clocked    *)
(* together, so there is one action; what is concurrent is how far each    *)
(* stage has come in its own tile.                                         *)
(*                                                                         *)
(* Nothing tells a layer that its data is right: the gather of the next    *)
(* 3x3 window, the issue of the current one, the arithmetic pipe behind it *)
(* and the two buffers run on fixed delays.  The model keeps those delays  *)
(* and abstracts the data to where it comes from: a word in a bank is "a   *)
(* word of tile t", a captured tap is "tile t, output pixel p".            *)
(***************************************************************************)
EXTENDS FmapPingpong, Sequences, FiniteSets

CONSTANTS
  MaxTiles,    \* tiles the feeder sends; Tiles is 1 .. MaxTiles, NoTile is 0
  Pixels,      \* NPIX of each layer, a power of two
  Ops,         \* OPS_PER_PIX of each layer
  Latency,     \* adder_tree and requant_pipe registers of each layer
  CopyWords,   \* words of an input tile (16 x 16)
  HeadTime,    \* cycles gap_head computes after it released its bank
  Interval,    \* the interval between scores the pipeline should keep
  Pauses,      \* how long the feeder may lack a full band,
  PausedTiles  \* and before which tiles

N == Len(Pixels)

GatherLast == 5

ASSUME CoreAssumption ==
  /\ MaxTiles \in Nat \ {0} /\ Tiles = 1 .. MaxTiles /\ NoTile = 0
  /\ Pixels \in Seq(Nat) /\ Ops \in Seq(Nat) /\ Latency \in Seq(Nat)
  /\ N > 0 /\ Len(Ops) = N /\ Len(Latency) = N
  /\ \A l \in 1 .. N : Pixels[l] > 1
  /\ \A l \in 1 .. N : Ops[l] >= GatherLast + 2      \* conv_layer.sv:88-89
  /\ CopyWords \in Nat /\ CopyWords > 1 /\ HeadTime \in Nat /\ Pauses \subseteq Nat /\ PausedTiles \subseteq Tiles

VARIABLES
  feed,      \* the draining side of tile_feeder
  layer,     \* the registers of conv_layer 1 .. N
  head,      \* gap_head
  buf,       \* buffer b is between stage b and stage b + 1
  mem,       \* what the banks of each buffer hold
  results,   \* scores delivered
  since      \* cycles since the last score

vars == <<feed, layer, head, buf, mem, results, since>>

Words(b) == IF b = 0 THEN CopyWords ELSE Pixels[b]

Nowhere == <<NoTile, 0>>

EmptyWindow == [g \in 1 .. GatherLast |-> Nowhere]

IdleLayer ==
  [st |-> "idle", gathering |-> FALSE, gphase |-> 0, gdone |-> FALSE,
   gpix |-> 0, gidx |-> 0, nxt |-> EmptyWindow, cur |-> EmptyWindow,
   iidx |-> 0, icnt |-> 0, tile |-> NoTile, otag |-> NoTile, wpend |-> FALSE,
   flight |-> {}, rs |-> FALSE, rd |-> FALSE, ws |-> FALSE, wd |-> FALSE]

Init ==
  /\ feed = [st |-> "start", wait |-> 0, n |-> 0, tile |-> 1,
             valid |-> {}, en |-> {}, ws |-> FALSE, wd |-> FALSE, tag |-> NoTile]
  /\ layer = [l \in 1 .. N |-> IdleLayer]
  /\ head = [st |-> "idle", n |-> 0, tile |-> NoTile, rs |-> FALSE, rd |-> FALSE]
  /\ buf = [b \in 0 .. N |-> EmptyBuffer]
  /\ mem = [b \in 0 .. N |-> [k \in Banks |-> [tile |-> NoTile, n |-> 0]]]
  /\ results = 0
  /\ since = 0

-----------------------------------------------------------------------------
(* conv_layer: what happens in this clock, read off the registers *)

Accepts(l) == layer[l].st = "idle" /\ RdReady(buf[l - 1])

WarmedUp(l) == layer[l].st = "warmup" /\ layer[l].gdone

\* S_WARMUP and S_WAIT_OUTBANK: the output bank is free, issue starts.
GetsBank(l) ==
  /\ WarmedUp(l) \/ layer[l].st = "waitout"
  /\ WrReady(buf[l])

LastOp(l) == layer[l].st = "issue" /\ layer[l].icnt = Ops[l] - 1

LastPixel(l) == layer[l].iidx = Pixels[l] - 1

TileIssued(l) == LastOp(l) /\ LastPixel(l)

NextPixel(l) == LastOp(l) /\ ~LastPixel(l)

\* Mutant: no check that the previous gather has finished.
GathersAgainBlind(l) ==
  layer[l].st = "issue" /\ layer[l].icnt = 0 /\ layer[l].gidx < Pixels[l]

\* Once per pixel, as its issue starts, the pixel after next is gathered.
GathersAgain(l) ==
  /\ layer[l].st = "issue" /\ layer[l].icnt = 0
  /\ layer[l].gidx < Pixels[l]
  /\ ~layer[l].gathering

GatherStarts(l) ==
  \/ Accepts(l)
  \/ WarmedUp(l) /\ layer[l].gidx < Pixels[l]
  \/ GathersAgain(l)

GatherEnds(l) == layer[l].gathering /\ layer[l].gphase = GatherLast

-----------------------------------------------------------------------------
(* conv_layer: its data paths *)

\* What the read ports return for output pixel p: the bank rd_ptr points to.
Tap(l, p) == <<mem[l - 1][buf[l - 1].rp].tile, p>>

\* Taps presented in one phase are captured in the next.
Captured(l) ==
  IF layer[l].gathering /\ layer[l].gphase >= 1
  THEN [layer[l].nxt EXCEPT ![layer[l].gphase] = Tap(l, layer[l].gpix)]
  ELSE layer[l].nxt

\* An issued op passes the operand and product registers, the adder tree and
\* requant_pipe; the word of a pixel leaves with its last group.
PipeDelay(l) == Latency[l] + 1

Landing(l) == {w \in layer[l].flight : w.left = 0}

Flying(l) ==
  {[w EXCEPT !.left = @ - 1] : w \in layer[l].flight \ Landing(l)}
  \cup IF LastOp(l)
       THEN {[tile |-> layer[l].tile, pix |-> layer[l].iidx, left |-> PipeDelay(l)]}
       ELSE {}

\* Mutant: the tile is committed when its last op is issued.
CommittedAtIssue(l) == TileIssued(l)

\* Mutant: the address of the last word is one too high.
CommittedPastEnd(l) ==
  layer[l].wpend /\ \E w \in Landing(l) : w.pix = Pixels[l]

\* The last word of the tile is being written.
Committed(l) ==
  layer[l].wpend /\ \E w \in Landing(l) : w.pix = Pixels[l] - 1

\* Mutant: an index with room for NPIX.
NextIndexWide(l) == layer[l].gidx + 1

\* gidx has OUT_AW bits: after the last pixel it is 0 again, never NPIX.
NextIndex(l) == (layer[l].gidx + 1) % Pixels[l]

\* Mutants: the input bank is kept until the tile has been written, or given
\* up when the last window starts to be gathered.
FreesInputLate(l) == Committed(l)

FreesInputEarly(l) == GathersAgain(l) /\ layer[l].gidx = Pixels[l] - 1

FreesInput(l) == TileIssued(l)

LayerNext(l) ==
  [st |->
     CASE Accepts(l)     -> "warmup"
       [] GetsBank(l)    -> "issue"
       [] WarmedUp(l) /\ ~GetsBank(l) -> "waitout"
       [] TileIssued(l)  -> "idle"
       [] OTHER          -> layer[l].st,
   gathering |-> GatherStarts(l) \/ (layer[l].gathering /\ ~GatherEnds(l)),
   gphase |->
     IF GatherStarts(l) THEN 0
     ELSE IF layer[l].gathering /\ ~GatherEnds(l)
     THEN layer[l].gphase + 1 ELSE layer[l].gphase,
   gdone |-> GatherEnds(l),
   gpix |->
     IF Accepts(l) THEN 0
     ELSE IF GatherStarts(l) THEN layer[l].gidx ELSE layer[l].gpix,
   gidx |->
     IF Accepts(l) THEN 1
     ELSE IF GatherStarts(l) THEN NextIndex(l) ELSE layer[l].gidx,
   nxt |-> Captured(l),
   cur |-> IF WarmedUp(l) \/ NextPixel(l) THEN layer[l].nxt ELSE layer[l].cur,
   iidx |->
     IF WarmedUp(l) THEN 0
     ELSE IF NextPixel(l) THEN layer[l].iidx + 1 ELSE layer[l].iidx,
   icnt |->
     IF WarmedUp(l) \/ LastOp(l) THEN 0
     ELSE IF layer[l].st = "issue" THEN layer[l].icnt + 1 ELSE layer[l].icnt,
   tile |-> IF Accepts(l) THEN RdTag(buf[l - 1]) ELSE layer[l].tile,
   otag |-> IF GetsBank(l) THEN layer[l].tile ELSE layer[l].otag,
   wpend |-> ~Committed(l) /\ (TileIssued(l) \/ layer[l].wpend),
   flight |-> Flying(l),
   rs |-> Accepts(l), rd |-> FreesInput(l),
   ws |-> GetsBank(l), wd |-> Committed(l)]

-----------------------------------------------------------------------------
(* tile_feeder, from a full band to the first buffer: one word a clock     *)
(* through the band's read register and the write port's.                  *)

Opening == feed.st = "start" /\ WrReady(buf[0])

CopyEnds == feed.st = "copy" /\ feed.n = CopyWords - 1

\* After a tile comes the next of its band, or D_IDLE until a band is full.
FeedState(pause) ==
  CASE Opening           -> "copy"
    [] CopyEnds          -> "flush"
    [] feed.st = "flush" -> "done"
    [] feed.st = "done"  ->
         IF feed.tile = MaxTiles THEN "off" ELSE IF pause = 0 THEN "start" ELSE "idle"
    [] feed.st = "idle" /\ feed.wait = 0 -> "start"
    [] OTHER             -> feed.st

FeedNext(pause) ==
  [st   |-> FeedState(pause),
   wait |-> IF feed.st = "done" /\ pause > 0 THEN pause - 1
            ELSE IF feed.wait > 0 THEN feed.wait - 1 ELSE 0,
   n    |-> IF feed.st = "copy" /\ ~CopyEnds THEN feed.n + 1 ELSE 0,
   tile |-> IF feed.st = "done" /\ feed.tile < MaxTiles THEN feed.tile + 1 ELSE feed.tile,
   valid |-> IF feed.st = "copy" THEN {[tile |-> feed.tile, pix |-> feed.n]} ELSE {},
   en   |-> feed.valid,
   ws   |-> Opening,
   wd   |-> feed.st = "done",
   tag  |-> IF Opening THEN feed.tile ELSE feed.tag]

-----------------------------------------------------------------------------
(* gap_head: sum the map, release its bank, compute, deliver. *)

Taken == head.st = "idle" /\ RdReady(buf[N])

Delivers == head.st = "done"

HeadNext ==
  [st |->
     CASE Taken -> "sum"
       [] head.st = "sum" /\ head.n = Pixels[N] - 1  -> "drain"
       [] head.st = "drain"                          -> "work"
       [] head.st = "work" /\ head.n = HeadTime - 1 -> "done"
       [] Delivers                                   -> "idle"
       [] OTHER                                      -> head.st,
   n |-> IF \/ head.st = "sum" /\ head.n < Pixels[N] - 1
            \/ head.st = "work" /\ head.n < HeadTime - 1
         THEN head.n + 1 ELSE 0,
   tile |-> IF Taken THEN RdTag(buf[N]) ELSE head.tile,
   rs |-> Taken,
   rd |-> head.st = "drain"]

-----------------------------------------------------------------------------
(* The buffers and their memories *)

\* The pulses that arrive at buffer b, each a register of the stage beside it.
PulsesAt(b) ==
  [ws  |-> IF b = 0 THEN feed.ws ELSE layer[b].ws,
   wd  |-> IF b = 0 THEN feed.wd ELSE layer[b].wd,
   tag |-> IF b = 0 THEN feed.tag ELSE layer[b].otag,
   rs  |-> IF b = N THEN head.rs ELSE layer[b + 1].rs,
   rd  |-> IF b = N THEN head.rd ELSE layer[b + 1].rd]

\* The word on the write port of buffer b, with the tile it was computed from.
Writes(b) == IF b = 0 THEN feed.en ELSE Landing(b)

\* A bank holds the first n words of a tile; anything else is no tile's data.
Written(w, c) ==
  IF w.pix = 0 THEN [tile |-> w.tile, n |-> 1]
  ELSE IF c.tile = w.tile /\ c.n = w.pix THEN [c EXCEPT !.n = @ + 1]
  ELSE [tile |-> NoTile, n |-> 0]

MemNext(b) ==
  [k \in Banks |->
     IF k = buf[b].wp /\ Writes(b) # {}
     THEN Written(CHOOSE w \in Writes(b) : TRUE, mem[b][k])
     ELSE mem[b][k]]

(* One clock of the core. *)
Clock ==
  /\ \E pause \in Pauses :
       feed' = FeedNext(IF feed.tile + 1 \in PausedTiles THEN pause ELSE 0)
  /\ layer' = [l \in 1 .. N |-> LayerNext(l)]
  /\ head' = HeadNext
  /\ buf' = [b \in 0 .. N |-> BufferNext(buf[b], PulsesAt(b))]
  /\ mem' = [b \in 0 .. N |-> MemNext(b)]
  /\ results' = IF Delivers THEN results + 1 ELSE results
  /\ since' = IF Delivers THEN 1 ELSE IF since > Interval THEN since ELSE since + 1

Spec == Init /\ [][Clock]_vars /\ WF_vars(Clock)

-----------------------------------------------------------------------------
TypeOK ==
  /\ feed.st \in {"idle", "start", "copy", "flush", "done", "off"}
  /\ feed.tile \in Tiles /\ feed.n \in 0 .. CopyWords - 1
  /\ \A l \in 1 .. N :
       /\ layer[l].st \in {"idle", "warmup", "waitout", "issue"}
       /\ layer[l].gphase \in 0 .. GatherLast
       /\ layer[l].gidx \in 0 .. Pixels[l] - 1
       /\ layer[l].iidx \in 0 .. Pixels[l] - 1
       /\ layer[l].icnt \in 0 .. Ops[l] - 1
       /\ layer[l].flight \subseteq
            [tile : Tiles, pix : 0 .. Pixels[l] - 1, left : 0 .. PipeDelay(l)]
       /\ Cardinality(Landing(l)) <= 1
  /\ head.st \in {"idle", "sum", "drain", "work", "done"}
  /\ buf \in [0 .. N -> Buffers]
  /\ results \in 0 .. MaxTiles

(* Whenever a layer issues an op, the five pairs of taps are all of the    *)
(* output pixel and the tile the op is for.  Nothing in conv_layer.sv      *)
(* tests it: the gather runs one pixel ahead on its own count (gidx), and  *)
(* only the delays keep it from overtaking the issue or falling behind.    *)
OwnWindow ==
  \A l \in 1 .. N : layer[l].st = "issue" =>
    \A g \in 1 .. GatherLast : layer[l].cur[g] = <<layer[l].tile, layer[l].iidx>>

(* A bank a stage may read holds every word of the tile its tag names: the *)
(* commit pulse trails the last write through pipes of different depths    *)
(* (conv_layer.sv:418-421, tile_feeder.sv:176-185).                        *)
WholeTiles ==
  \A b \in 0 .. N, k \in Banks :
    buf[b].st[k] \in {"full", "reading"} =>
      mem[b][k] = [tile |-> buf[b].tag[k], n |-> Words(b)]

(* A word lands in the bank its own tile has open, although the stage may  *)
(* be gathering, or waiting to open, the next tile by then; and a gather   *)
(* or a sum reads a bank its consumer still holds.                         *)
OwnBank ==
  /\ \A b \in 0 .. N : \A w \in Writes(b) :
       /\ buf[b].st[buf[b].wp] = "writing"
       /\ buf[b].tag[buf[b].wp] = w.tile
  /\ \A l \in 1 .. N : layer[l].gathering /\ layer[l].gphase >= 1 =>
       /\ buf[l - 1].st[buf[l - 1].rp] = "reading"
       /\ RdTag(buf[l - 1]) = layer[l].tile
  /\ head.st = "sum" /\ head.n >= 1 =>
       /\ buf[N].st[buf[N].rp] = "reading"
       /\ RdTag(buf[N]) = head.tile

(* Scores come in the order the tiles went in, each tile once.             *)
ResultsInOrder == Delivers => head.tile = results + 1

(* After the first eight scores (result_sink.sv:136-141), and the same     *)
(* distance after every tile that a late band may have held up, the        *)
(* interval is always that of the slowest layer: the two buffers hide      *)
(* every other delay of the pipeline (docs/performance.md:80-82).          *)
SteadyInterval ==
  Delivers /\ results >= 9 /\ (\A t \in PausedTiles : results + 1 \notin t .. (t + 9))
    => since = Interval

(* Every tile fed is scored: no two stages wait for each other.            *)
AllTilesScored == <>(results = MaxTiles)
=============================================================================
