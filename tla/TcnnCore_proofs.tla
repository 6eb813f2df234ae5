--------------------------- MODULE TcnnCore_proofs ---------------------------
(***************************************************************************)
(* Theorems about the layer pipeline, for any number of layers, map sizes, *)
(* pipe depths, head and pause.                                            *)
(*                                                                         *)
(* Stages that work on different tiles meet only at a buffer, so the       *)
(* invariant is one statement per buffer about the stage that writes it    *)
(* and the stage that reads it (Link), and one per stage about its own     *)
(* registers.  A clock changes everything at once; LinkStep says what it   *)
(* does to a buffer from a few facts about the pulses of its two sides,    *)
(* and each kind of stage is shown to raise only such pulses.              *)
(***************************************************************************)
EXTENDS TcnnCore, TLAPS, FiniteSetTheorems

(* The registers of one stage *)

FeedTyped ==
  /\ feed.st \in {"idle", "start", "copy", "flush", "done", "off"}
  /\ feed.tile \in Tiles /\ feed.n \in 0 .. CopyWords - 1
  /\ feed.tag \in 0 .. MaxTiles
  /\ feed.ws \in BOOLEAN /\ feed.wd \in BOOLEAN

LayerTyped(l) ==
  /\ layer[l].st \in {"idle", "warmup", "waitout", "issue"}
  /\ layer[l].gphase \in 0 .. GatherLast
  /\ layer[l].gpix \in 0 .. Pixels[l] - 1
  /\ layer[l].gidx \in 0 .. Pixels[l] - 1
  /\ layer[l].iidx \in 0 .. Pixels[l] - 1
  /\ layer[l].icnt \in 0 .. Ops[l] - 1
  /\ layer[l].tile \in 0 .. MaxTiles /\ layer[l].otag \in 0 .. MaxTiles
  /\ layer[l].gathering \in BOOLEAN /\ layer[l].gdone \in BOOLEAN
  /\ layer[l].wpend \in BOOLEAN
  /\ layer[l].rs \in BOOLEAN /\ layer[l].rd \in BOOLEAN
  /\ layer[l].ws \in BOOLEAN /\ layer[l].wd \in BOOLEAN

HeadTyped ==
  /\ head.st \in {"idle", "sum", "drain", "work", "done"}
  /\ head.n \in Nat /\ head.tile \in 0 .. MaxTiles
  /\ head.rs \in BOOLEAN /\ head.rd \in BOOLEAN

(* A buffer and its two sides *)

\* The stage before buffer b has, or has asked for, a bank.
WriterOn(b) ==
  IF b = 0 THEN feed.st \in {"copy", "flush", "done"} \/ feed.wd
  ELSE layer[b].st = "issue" \/ layer[b].wpend \/ layer[b].wd

\* The stage behind it has, or has asked for, a full bank.
ReaderOn(b) ==
  IF b = N THEN head.st \in {"sum", "drain"} \/ head.rd
  ELSE layer[b + 1].st # "idle" \/ layer[b + 1].rd

\* The last tile a bank was asked for, and the last one taken out.
TilesIn(b) == IF b = 0 THEN feed.tag ELSE layer[b].otag

TilesOut(b) == IF b = N THEN head.tile ELSE layer[b + 1].tile

\* The banks alternate.
Shape(B) ==
  \/ /\ B.wp = B.rp
     /\ B.st[B.rp] \in {"free", "writing"} /\ B.st[1 - B.rp] = "free"
  \/ /\ B.wp = B.rp
     /\ B.st[B.rp] \in {"full", "reading"} /\ B.st[1 - B.rp] = "full"
  \/ /\ B.wp = 1 - B.rp
     /\ B.st[B.rp] \in {"full", "reading"} /\ B.st[B.wp] \in {"free", "writing"}

\* The oldest tile in a buffer whose reader has taken out `out` tiles.
Oldest(using, out) == IF using THEN out ELSE out + 1

Used(B) ==
  (IF B.st[B.rp] = "free" THEN 0 ELSE 1) + (IF B.st[1 - B.rp] = "free" THEN 0 ELSE 1)

(* A buffer agrees with its sides: a side that owns a bank has it or is    *)
(* about to get it, pulses find the state they are for, and the banks hold *)
(* consecutive tiles from the reader's to the writer's.                    *)
Link(B, p, open, using, in, out) ==
  /\ Shape(B)
  /\ p.ws => B.st[B.wp] = "free" /\ ~p.wd
  /\ p.wd => open
  /\ open <=> p.ws \/ B.st[B.wp] = "writing"
  /\ p.rs => B.st[B.rp] = "full" /\ ~p.rd
  /\ p.rd => using
  /\ using <=> p.rs \/ B.st[B.rp] = "reading"
  /\ B.st[B.rp] # "free" => B.tag[B.rp] = Oldest(using, out)
  /\ B.st[1 - B.rp] # "free" => B.tag[1 - B.rp] = Oldest(using, out) + 1
  /\ in + 1 = Oldest(using, out) + Used(B) + IF p.ws THEN 1 ELSE 0
  /\ p.ws => p.tag = in

Linked(b) ==
  Link(buf[b], PulsesAt(b), WriterOn(b), ReaderOn(b), TilesIn(b), TilesOut(b))

(* The stages *)

FeedInv ==
  /\ feed.ws => feed.st = "copy" /\ feed.n = 0
  /\ feed.wd => feed.st \in {"idle", "start", "off"}
  /\ feed.st \in {"copy", "flush", "done"} => feed.tile = feed.tag
  /\ feed.st \in {"idle", "start"} => feed.tile = feed.tag + 1
  /\ feed.st = "off" => feed.tag = MaxTiles

(* The issue of a pixel takes longer than the gather of a window, so no    *)
(* gather is left when a tile has been issued.                             *)
LayerInv(l) ==
  /\ layer[l].st \in {"idle", "issue"} => layer[l].otag = layer[l].tile
  /\ layer[l].st \in {"warmup", "waitout"} => layer[l].tile = layer[l].otag + 1
  /\ layer[l].st = "idle" => ~layer[l].gathering
  /\ layer[l].st = "warmup" => (layer[l].gdone <=> ~layer[l].gathering)
  /\ layer[l].st = "waitout" => layer[l].icnt = 0 /\ layer[l].iidx = 0
  /\ layer[l].st = "issue" /\ layer[l].gathering => layer[l].icnt <= layer[l].gphase + 1
  /\ layer[l].ws => layer[l].st = "issue" /\ layer[l].icnt = 0 /\ layer[l].iidx = 0
  /\ layer[l].rs => layer[l].st = "warmup" /\ layer[l].gathering /\ layer[l].gphase = 0
  /\ layer[l].rd => layer[l].st = "idle"
  /\ layer[l].wpend => layer[l].st # "issue"
  /\ layer[l].wd => layer[l].st # "issue" /\ ~layer[l].wpend
  /\ layer[l].st # "idle" => layer[l].tile > 0
  /\ layer[l].wpend => layer[l].otag > 0

HeadInv ==
  /\ head.tile = results + (IF head.st = "idle" THEN 0 ELSE 1)
  /\ head.rs => head.st = "sum" /\ head.n = 0
  /\ head.rd => head.st = "work"

(* The data *)

Word(t, n) == [tile |-> t, n |-> n]

\* The word the feeder read n clocks after the first one.
FeedWord(n) == IF n < 0 THEN {} ELSE {[tile |-> feed.tile, pix |-> n]}

\* The words of the feeder's tile that are in the bank.
FeedStored ==
  CASE feed.st = "copy" -> feed.n - 2
    [] feed.st = "flush" -> CopyWords - 2
    [] feed.st = "done" -> CopyWords - 1
    [] OTHER -> 0

FeedPipe ==
  /\ feed.valid = CASE feed.st = "copy" -> FeedWord(feed.n - 1)
                    [] feed.st = "flush" -> FeedWord(CopyWords - 1)
                    [] OTHER -> {}
  /\ feed.en = CASE feed.st = "copy" -> FeedWord(feed.n - 2)
                 [] feed.st = "flush" -> FeedWord(CopyWords - 2)
                 [] feed.st = "done" -> FeedWord(CopyWords - 1)
                 [] OTHER -> {}
  /\ FeedStored > 0 => mem[0][buf[0].wp] = Word(feed.tag, FeedStored)

\* The words in a pipe of depth d: pixels m .. k - 1 of tile t, in order.
InFlight(F, t, m, k, d) ==
  /\ \A w \in F : /\ w = [tile |-> t, pix |-> w.pix, left |-> w.left]
                  /\ w.pix \in m .. k - 1 /\ w.left \in 0 .. d
  /\ \A p \in m .. k - 1 : \E w \in F : w.pix = p
  /\ \A v, w \in F : v.pix < w.pix => v.left < w.left
  /\ \A v, w \in F : v.pix = w.pix => v = w

\* Pixels of the open tile whose ops have all been issued.
Issued(l) ==
  IF layer[l].wpend THEN Pixels[l]
  ELSE IF layer[l].st = "issue" THEN layer[l].iidx ELSE 0

(* The first m words of the open tile are in its bank, the rest of what    *)
(* was issued is in the pipe.                                              *)
Stored(l, m) ==
  /\ m <= Issued(l)
  /\ InFlight(layer[l].flight, layer[l].otag, m, Issued(l), PipeDelay(l))
  /\ m > 0 => mem[l][buf[l].wp] = Word(layer[l].otag, m)
  /\ layer[l].wpend => m < Issued(l)

LayerPipe(l) == \E m \in Nat : Stored(l, m)

MemInv(b) ==
  /\ \A k \in Banks : buf[b].st[k] \in {"full", "reading"} =>
       mem[b][k] = Word(buf[b].tag[k], Words(b))
  /\ PulsesAt(b).wd => mem[b][buf[b].wp] = Word(TilesIn(b), Words(b))

-----------------------------------------------------------------------------
(* A clock of one buffer *)

(* What its bank states, tags and pointers become. *)
LEMMA BankChanges ==
  ASSUME NEW B, NEW p
  PROVE  LET C == BufferNext(B, p) IN
         /\ \A k \in Banks : C.st[k] = BankNext(B, p, k)
         /\ \A k \in Banks : C.tag[k] = IF k = B.wp /\ Opens(B, p) THEN p.tag ELSE B.tag[k]
         /\ C.wp = IF Commits(B, p) THEN 1 - B.wp ELSE B.wp
         /\ C.rp = IF Releases(B, p) THEN 1 - B.rp ELSE B.rp
  BY DEF BufferNext, Toggled

(* The registers of a buffer keep their types. *)
LEMMA BufferTyped ==
  ASSUME NEW B \in Buffers, NEW p, p.tag \in Tiles \cup {NoTile}
  PROVE  BufferNext(B, p) \in Buffers
<1> USE DEF Buffers, Banks, BankStates
<1>1. \A k \in Banks : BankNext(B, p, k) \in BankStates
  BY DEF BankNext
<1>2. Toggled(B.wp, Commits(B, p)) \in Banks /\ Toggled(B.rp, Releases(B, p)) \in Banks
  BY DEF Toggled
<1>3. QED
  BY <1>1, <1>2 DEF BufferNext

(* In a linked buffer every pulse is honoured: a start opens or acquires,  *)
(* a done commits or releases, and nothing else happens.                   *)
LEMMA PulsesHonoured ==
  ASSUME NEW B \in Buffers, NEW p, NEW open, NEW using, NEW in, NEW out,
         Link(B, p, open, using, in, out)
  PROVE  /\ Opens(B, p) <=> p.ws
         /\ Commits(B, p) <=> p.wd
         /\ Acquires(B, p) <=> p.rs
         /\ Releases(B, p) <=> p.rd
  BY DEF Link, Opens, Commits, Acquires, Releases

(* The two banks after a clock, seen from where the pointers were.         *)
LEMMA BankStep ==
  ASSUME NEW B \in Buffers, NEW p, NEW open, NEW using, NEW in, NEW out,
         Link(B, p, open, using, in, out)
  PROVE  LET C == BufferNext(B, p) IN
         /\ C.wp = IF p.wd THEN 1 - B.wp ELSE B.wp
         /\ C.rp = IF p.rd THEN 1 - B.rp ELSE B.rp
         /\ C.st[B.wp] = IF p.ws THEN "writing" ELSE IF p.wd THEN "full"
                         ELSE IF B.wp = B.rp /\ p.rs THEN "reading"
                         ELSE IF B.wp = B.rp /\ p.rd THEN "free" ELSE B.st[B.wp]
         /\ C.st[B.rp] = IF p.rs THEN "reading" ELSE IF p.rd THEN "free"
                         ELSE IF B.wp = B.rp /\ p.ws THEN "writing"
                         ELSE IF B.wp = B.rp /\ p.wd THEN "full" ELSE B.st[B.rp]
         /\ B.wp = B.rp => C.st[1 - B.rp] = B.st[1 - B.rp]
         /\ \A k \in Banks : C.tag[k] = IF k = B.wp /\ p.ws THEN p.tag ELSE B.tag[k]
<1> DEFINE C == BufferNext(B, p)
<1>1. /\ \A k \in Banks : C.st[k] = BankNext(B, p, k)
      /\ \A k \in Banks : C.tag[k] = IF k = B.wp /\ Opens(B, p) THEN p.tag ELSE B.tag[k]
      /\ C.wp = IF Commits(B, p) THEN 1 - B.wp ELSE B.wp
      /\ C.rp = IF Releases(B, p) THEN 1 - B.rp ELSE B.rp
  BY BankChanges
<1>2. /\ Opens(B, p) <=> p.ws
      /\ Commits(B, p) <=> p.wd
      /\ Acquires(B, p) <=> p.rs
      /\ Releases(B, p) <=> p.rd
  BY PulsesHonoured
<1>3. B.wp \in Banks /\ B.rp \in Banks /\ 1 - B.rp \in Banks /\ 1 - B.rp # B.rp
  BY DEF Buffers, Banks
<1>4. /\ p.ws => ~p.wd /\ B.st[B.wp] = "free"
      /\ p.wd => B.st[B.wp] = "writing"
      /\ p.rs => ~p.rd /\ B.st[B.rp] = "full"
      /\ p.rd => B.st[B.rp] = "reading"
  BY DEF Link
<1> HIDE DEF C
<1>5. C.st[B.wp] = BankNext(B, p, B.wp) /\ C.st[B.rp] = BankNext(B, p, B.rp)
      /\ C.st[1 - B.rp] = BankNext(B, p, 1 - B.rp)
  BY <1>1, <1>3
<1>6. C.st[B.wp] = IF p.ws THEN "writing" ELSE IF p.wd THEN "full"
                   ELSE IF B.wp = B.rp /\ p.rs THEN "reading"
                   ELSE IF B.wp = B.rp /\ p.rd THEN "free" ELSE B.st[B.wp]
  BY <1>2, <1>4, <1>5 DEF BankNext
<1>7. C.st[B.rp] = IF p.rs THEN "reading" ELSE IF p.rd THEN "free"
                   ELSE IF B.wp = B.rp /\ p.ws THEN "writing"
                   ELSE IF B.wp = B.rp /\ p.wd THEN "full" ELSE B.st[B.rp]
  BY <1>2, <1>4, <1>5 DEF BankNext
<1>8. B.wp = B.rp => C.st[1 - B.rp] = B.st[1 - B.rp]
  BY <1>3, <1>5 DEF BankNext
<1>9. QED
  BY <1>1, <1>2, <1>6, <1>7, <1>8 DEF C

(* The tile a bank holds, if it holds one. *)
Tagged(B, k, t) == B.st[k] # "free" => B.tag[k] = t

(* What one clock may do on the two sides of a buffer: a side asks for a   *)
(* bank it sees is there and does not have, and gives up one it has.       *)
SidesStep(B, p, open, using, in, out, q, open2, using2, in2, out2) ==
  /\ q.ws => B.st[B.wp] = "free" /\ ~open /\ in2 = in + 1 /\ q.tag = in2
  /\ ~q.ws => in2 = in
  /\ q.wd => open /\ ~p.wd
  /\ open2 <=> q.ws \/ (open /\ ~p.wd)
  /\ q.rs => B.st[B.rp] = "full" /\ ~using /\ out2 = B.tag[B.rp]
  /\ ~q.rs => out2 = out
  /\ q.rd => using /\ ~p.rd
  /\ using2 <=> q.rs \/ (using /\ ~p.rd)

(* Then it stays linked. *)
LEMMA LinkStep ==
  ASSUME NEW B \in Buffers, NEW p, NEW open, NEW using, NEW in \in Int, NEW out \in Int,
         p.ws \in BOOLEAN, p.wd \in BOOLEAN, p.rs \in BOOLEAN, p.rd \in BOOLEAN,
         open \in BOOLEAN, using \in BOOLEAN,
         Link(B, p, open, using, in, out),
         NEW q, NEW open2, NEW using2, NEW in2 \in Int, NEW out2 \in Int,
         q.ws \in BOOLEAN, q.wd \in BOOLEAN, q.rs \in BOOLEAN, q.rd \in BOOLEAN,
         open2 \in BOOLEAN, using2 \in BOOLEAN,
         SidesStep(B, p, open, using, in, out, q, open2, using2, in2, out2)
  PROVE  Link(BufferNext(B, p), q, open2, using2, in2, out2)
<1> DEFINE C == BufferNext(B, p)
<1>1. /\ C.wp = IF p.wd THEN 1 - B.wp ELSE B.wp
      /\ C.rp = IF p.rd THEN 1 - B.rp ELSE B.rp
      /\ C.st[B.wp] = IF p.ws THEN "writing" ELSE IF p.wd THEN "full"
                      ELSE IF B.wp = B.rp /\ p.rs THEN "reading"
                      ELSE IF B.wp = B.rp /\ p.rd THEN "free" ELSE B.st[B.wp]
      /\ C.st[B.rp] = IF p.rs THEN "reading" ELSE IF p.rd THEN "free"
                      ELSE IF B.wp = B.rp /\ p.ws THEN "writing"
                      ELSE IF B.wp = B.rp /\ p.wd THEN "full" ELSE B.st[B.rp]
      /\ B.wp = B.rp => C.st[1 - B.rp] = B.st[1 - B.rp]
  BY BankStep
<1>2. \A k \in Banks : C.tag[k] = IF k = B.wp /\ p.ws THEN p.tag ELSE B.tag[k]
  BY BankStep
<1>3. B.wp \in Banks /\ B.rp \in Banks /\ 1 - B.rp \in Banks /\ 1 - B.rp # B.rp /\ 1 - (1 - B.rp) = B.rp
      /\ (B.wp # B.rp => B.wp = 1 - B.rp)
  BY DEF Buffers, Banks
<1>4. /\ Shape(B)
      /\ p.ws => B.st[B.wp] = "free" /\ ~p.wd
      /\ p.wd => B.st[B.wp] = "writing"
      /\ p.rs => B.st[B.rp] = "full" /\ ~p.rd
      /\ p.rd => B.st[B.rp] = "reading"
      /\ open <=> p.ws \/ B.st[B.wp] = "writing"
      /\ using <=> p.rs \/ B.st[B.rp] = "reading"
  BY DEF Link
<1>5. /\ Tagged(B, B.rp, Oldest(using, out))
      /\ Tagged(B, 1 - B.rp, Oldest(using, out) + 1)
      /\ in + 1 = Oldest(using, out) + Used(B) + IF p.ws THEN 1 ELSE 0
      /\ p.ws => p.tag = in
  BY DEF Link, Tagged
<1>6. /\ q.ws => B.st[B.wp] = "free" /\ ~open
      /\ q.wd => open /\ ~p.wd
      /\ open2 <=> q.ws \/ (open /\ ~p.wd)
      /\ q.rs => B.st[B.rp] = "full" /\ ~using
      /\ q.rd => using /\ ~p.rd
      /\ using2 <=> q.rs \/ (using /\ ~p.rd)
  BY DEF SidesStep
<1>7. /\ q.ws => in2 = in + 1 /\ q.tag = in2
      /\ ~q.ws => in2 = in
      /\ q.rs => out2 = B.tag[B.rp]
      /\ ~q.rs => out2 = out
  BY DEF SidesStep
<1> HIDE DEF C
<1>8. Shape(C)
  BY <1>1, <1>3, <1>4 DEF Shape
<1>9. /\ q.ws => C.st[C.wp] = "free" /\ ~q.wd
      /\ q.wd => open2
      /\ open2 <=> q.ws \/ C.st[C.wp] = "writing"
  BY <1>1, <1>3, <1>4, <1>6 DEF Shape
<1>10. /\ q.rs => C.st[C.rp] = "full" /\ ~q.rd
       /\ q.rd => using2
       /\ using2 <=> q.rs \/ C.st[C.rp] = "reading"
  BY <1>1, <1>3, <1>4, <1>6 DEF Shape
\* The oldest tile moves on when a bank is released.
<1>11. Oldest(using2, out2) = Oldest(using, out) + IF p.rd THEN 1 ELSE 0
  BY <1>3, <1>4, <1>5, <1>6, <1>7 DEF Oldest, Tagged
<1>12. Oldest(using, out) \in Int
  BY DEF Oldest
<1>13. C.tag[B.rp] = (IF B.rp = B.wp /\ p.ws THEN p.tag ELSE B.tag[B.rp])
       /\ C.tag[1 - B.rp] = (IF 1 - B.rp = B.wp /\ p.ws THEN p.tag ELSE B.tag[1 - B.rp])
  BY <1>2, <1>3
<1>14. Used(B) = (IF B.st[B.rp] = "free" THEN 0 ELSE 1) + (IF B.st[1 - B.rp] = "free" THEN 0 ELSE 1)
  BY DEF Used
<1>15. /\ Tagged(C, C.rp, Oldest(using2, out2))
       /\ Tagged(C, 1 - C.rp, Oldest(using2, out2) + 1)
  BY <1>1, <1>3, <1>4, <1>5, <1>11, <1>12, <1>13, <1>14 DEF Shape, Tagged
<1>16. in2 + 1 = Oldest(using2, out2) + Used(C) + IF q.ws THEN 1 ELSE 0
  <2>1. Used(C) + (IF p.rd THEN 1 ELSE 0) = Used(B) + IF p.ws THEN 1 ELSE 0
    BY <1>1, <1>3, <1>4 DEF Shape, Used
  <2>2. q.ws => ~p.ws
    BY <1>4, <1>6
  <2>3. Used(B) \in Int /\ Used(C) \in Int
    BY DEF Used
  <2>4. QED
    BY <2>1, <2>2, <2>3, <1>5, <1>7, <1>11, <1>12
<1>17. QED
  BY <1>7, <1>8, <1>9, <1>10, <1>15, <1>16 DEF Link, Tagged, C

-----------------------------------------------------------------------------
(* A clock of one layer *)

(* Everything but the data of the core, and what is known of it.           *)
ControlInv ==
  /\ FeedTyped /\ HeadTyped /\ results \in Nat
  /\ \A l \in 1 .. N : LayerTyped(l)
  /\ buf \in [0 .. N -> Buffers]
  /\ \A b \in 0 .. N : Linked(b)
  /\ FeedInv /\ HeadInv
  /\ \A l \in 1 .. N : LayerInv(l)

LEMMA Sizes ==
  /\ N \in Nat \ {0} /\ MaxTiles \in Nat \ {0}
  /\ \A l \in 1 .. N : /\ Pixels[l] \in Nat /\ Pixels[l] > 1
                       /\ Ops[l] \in Nat /\ Ops[l] >= 7
                       /\ Latency[l] \in Nat
                       /\ PipeDelay(l) \in Nat /\ PipeDelay(l) = Latency[l] + 1
  /\ CopyWords \in Nat /\ CopyWords > 1 /\ HeadTime \in Nat
  /\ \A b \in 0 .. N : Words(b) \in Nat /\ Words(b) > 1
<1>1. Len(Pixels) \in Nat /\ DOMAIN Pixels = 1 .. N /\ DOMAIN Ops = 1 .. N /\ DOMAIN Latency = 1 .. N
  BY CoreAssumption DEF N
<1>2. \A l \in 1 .. N : Pixels[l] \in Nat /\ Ops[l] \in Nat /\ Latency[l] \in Nat
  BY <1>1, CoreAssumption
<1>3. QED
  BY <1>1, <1>2, CoreAssumption DEF N, GatherLast, PipeDelay, Words

(* The control registers after a clock. *)
LEMMA LayerControl ==
  ASSUME Clock, NEW l \in 1 .. N
  PROVE  /\ layer'[l].st = CASE Accepts(l)     -> "warmup"
                             [] GetsBank(l)    -> "issue"
                             [] WarmedUp(l) /\ ~GetsBank(l) -> "waitout"
                             [] TileIssued(l)  -> "idle"
                             [] OTHER          -> layer[l].st
         /\ layer'[l].gathering = (GatherStarts(l) \/ (layer[l].gathering /\ ~GatherEnds(l)))
         /\ layer'[l].gphase = IF GatherStarts(l) THEN 0
                               ELSE IF layer[l].gathering /\ ~GatherEnds(l)
                               THEN layer[l].gphase + 1 ELSE layer[l].gphase
         /\ layer'[l].gdone = GatherEnds(l)
         /\ layer'[l].iidx = IF WarmedUp(l) THEN 0
                             ELSE IF NextPixel(l) THEN layer[l].iidx + 1 ELSE layer[l].iidx
         /\ layer'[l].icnt = IF WarmedUp(l) \/ LastOp(l) THEN 0
                             ELSE IF layer[l].st = "issue" THEN layer[l].icnt + 1
                             ELSE layer[l].icnt
  BY DEF Clock, LayerNext

LEMMA LayerGatherIndex ==
  ASSUME Clock, NEW l \in 1 .. N
  PROVE  /\ layer'[l].gpix = IF Accepts(l) THEN 0
                             ELSE IF GatherStarts(l) THEN layer[l].gidx ELSE layer[l].gpix
         /\ layer'[l].gidx = IF Accepts(l) THEN 1
                             ELSE IF GatherStarts(l) THEN NextIndex(l) ELSE layer[l].gidx
         /\ layer'[l].nxt = Captured(l)
         /\ layer'[l].cur = IF WarmedUp(l) \/ NextPixel(l) THEN layer[l].nxt ELSE layer[l].cur
  BY DEF Clock, LayerNext

LEMMA LayerTiles ==
  ASSUME Clock, NEW l \in 1 .. N
  PROVE  /\ layer'[l].tile = IF Accepts(l) THEN RdTag(buf[l - 1]) ELSE layer[l].tile
         /\ layer'[l].otag = IF GetsBank(l) THEN layer[l].tile ELSE layer[l].otag
         /\ layer'[l].wpend = (~Committed(l) /\ (TileIssued(l) \/ layer[l].wpend))
         /\ layer'[l].flight = Flying(l)
         /\ layer'[l].rs = Accepts(l)
         /\ layer'[l].rd = TileIssued(l)
         /\ layer'[l].ws = GetsBank(l)
         /\ layer'[l].wd = Committed(l)
  BY DEF Clock, LayerNext, FreesInput

(* A full bank a stage may take holds the tile after its last one.         *)
LEMMA FullBank ==
  ASSUME NEW B \in Buffers, NEW p, NEW open, NEW using \in BOOLEAN, NEW in \in Int, NEW out \in Int,
         Link(B, p, open, using, in, out), ~using, RdReady(B)
  PROVE  RdTag(B) = out + 1 /\ out + 1 <= in
<1>1. B.tag[B.rp] = out + 1 /\ in + 1 = out + 1 + Used(B) + IF p.ws THEN 1 ELSE 0
  BY DEF Link, RdReady, Oldest
<1>2. Used(B) \in Int /\ Used(B) >= 1
  BY DEF Used, RdReady
<1>3. QED
  BY <1>1, <1>2 DEF RdTag

(* A layer that accepts a tile has given up its last bank. *)
LEMMA AcceptsNext ==
  ASSUME ControlInv, NEW l \in 1 .. N, Accepts(l)
  PROVE  /\ ~layer[l].rd /\ ~layer[l].rs /\ ~ReaderOn(l - 1)
         /\ RdTag(buf[l - 1]) = layer[l].tile + 1
         /\ RdTag(buf[l - 1]) <= MaxTiles
<1>1. l - 1 \in 0 .. N /\ l - 1 # N /\ (l - 1) + 1 = l
  BY Sizes
<1>2. Linked(l - 1) /\ LayerInv(l) /\ LayerTyped(l) /\ buf[l - 1] \in Buffers
  BY <1>1 DEF ControlInv
<1>3. PulsesAt(l - 1).rs = layer[l].rs /\ PulsesAt(l - 1).rd = layer[l].rd
  BY <1>1 DEF PulsesAt
<1>4. ReaderOn(l - 1) <=> (layer[l].st # "idle" \/ layer[l].rd)
  BY <1>1 DEF ReaderOn
<1>5. ~layer[l].rs
  BY <1>2 DEF Accepts, LayerInv
<1>6. ReaderOn(l - 1) <=> (layer[l].rs \/ buf[l - 1].st[buf[l - 1].rp] = "reading")
  BY <1>2, <1>3 DEF Linked, Link
<1>7. ~ReaderOn(l - 1) /\ ~layer[l].rd
  BY <1>4, <1>5, <1>6 DEF Accepts, RdReady
<1>8. TilesOut(l - 1) = layer[l].tile
  BY <1>1 DEF TilesOut
<1>9. TilesIn(l - 1) \in 0 .. MaxTiles
  <2>1. CASE l - 1 = 0
    BY <2>1 DEF TilesIn, ControlInv, FeedTyped
  <2>2. CASE l - 1 # 0
    <3>1. LayerTyped(l - 1)
      BY <2>2, <1>1, Sizes DEF ControlInv
    <3>2. QED
      BY <3>1, <2>2 DEF TilesIn, LayerTyped
  <2>3. QED
    BY <2>1, <2>2
<1>10. layer[l].tile \in Int /\ TilesIn(l - 1) \in Int
  BY <1>2, <1>9, Sizes DEF LayerTyped
<1>11. ReaderOn(l - 1) \in BOOLEAN
  BY <1>1 DEF ReaderOn
<1>12. Link(buf[l - 1], PulsesAt(l - 1), WriterOn(l - 1), ReaderOn(l - 1), TilesIn(l - 1), layer[l].tile)
  BY <1>2, <1>8 DEF Linked
<1>13. RdReady(buf[l - 1])
  BY DEF Accepts
<1>14. RdTag(buf[l - 1]) = layer[l].tile + 1 /\ layer[l].tile + 1 <= TilesIn(l - 1)
  BY <1>2, <1>7, <1>10, <1>11, <1>12, <1>13, FullBank
<1>15. QED
  BY <1>5, <1>7, <1>9, <1>10, <1>14, Sizes

(* A layer that gets a bank has committed its last tile. *)
LEMMA GetsFree ==
  ASSUME ControlInv, NEW l \in 1 .. N, GetsBank(l)
  PROVE  ~layer[l].ws /\ ~layer[l].wpend /\ ~layer[l].wd /\ ~WriterOn(l)
<1>1. l \in 0 .. N /\ l # 0
  BY Sizes
<1>2. Linked(l) /\ LayerInv(l)
  BY <1>1 DEF ControlInv
<1>3. layer[l].st \in {"warmup", "waitout"} /\ buf[l].st[buf[l].wp] = "free"
  BY DEF GetsBank, WarmedUp, WrReady
<1>4. ~layer[l].ws
  BY <1>2, <1>3 DEF LayerInv
<1>5. WriterOn(l) <=> (layer[l].ws \/ buf[l].st[buf[l].wp] = "writing")
  BY <1>1, <1>2 DEF Linked, Link, PulsesAt
<1>6. ~WriterOn(l)
  BY <1>3, <1>4, <1>5
<1>7. QED
  BY <1>1, <1>4, <1>6 DEF WriterOn

(* Which of its steps a layer takes is decided by its state. *)
LEMMA LayerCases ==
  ASSUME NEW l \in 1 .. N
  PROVE  /\ Accepts(l) => layer[l].st = "idle"
         /\ WarmedUp(l) => layer[l].st = "warmup"
         /\ GetsBank(l) => layer[l].st \in {"warmup", "waitout"}
         /\ GetsBank(l) /\ layer[l].st = "warmup" => WarmedUp(l)
         /\ LastOp(l) => layer[l].st = "issue" /\ layer[l].icnt = Ops[l] - 1
         /\ NextPixel(l) => LastOp(l) /\ layer[l].iidx # Pixels[l] - 1
         /\ TileIssued(l) <=> LastOp(l) /\ ~NextPixel(l)
         /\ GathersAgain(l) => layer[l].st = "issue" /\ layer[l].icnt = 0 /\ ~layer[l].gathering
         /\ GatherStarts(l) => Accepts(l) \/ WarmedUp(l) \/ GathersAgain(l)
         /\ Accepts(l) => GatherStarts(l)
         /\ Committed(l) => layer[l].wpend
  BY DEF Accepts, WarmedUp, GetsBank, LastOp, NextPixel, LastPixel, TileIssued, GathersAgain,
         GatherStarts, Committed

LEMMA NextIndexTyped ==
  ASSUME NEW l \in 1 .. N, layer[l].gidx \in 0 .. Pixels[l] - 1
  PROVE  NextIndex(l) = IF layer[l].gidx = Pixels[l] - 1 THEN 0 ELSE layer[l].gidx + 1
<1>1. \A n \in Nat \ {0} : \A i \in 0 .. n - 1 : (i + 1) % n = IF i = n - 1 THEN 0 ELSE i + 1
  OBVIOUS
<1>2. QED
  BY <1>1, Sizes DEF NextIndex

(* The registers of a layer keep their types. *)
LEMMA LayerTypedStep ==
  ASSUME ControlInv, Clock, NEW l \in 1 .. N
  PROVE  LayerTyped(l)'
<1>1. LayerTyped(l) /\ LayerInv(l)
  BY DEF ControlInv
<1>2. layer[l].gphase \in 0 .. GatherLast /\ layer[l].gathering \in BOOLEAN
  BY <1>1 DEF LayerTyped
<1>3. layer'[l].gphase \in 0 .. GatherLast
  BY <1>2, LayerControl DEF GatherEnds, GatherLast
<1>4. layer'[l].st \in {"idle", "warmup", "waitout", "issue"}
  BY <1>1, LayerControl DEF LayerTyped
<1>5. layer'[l].gathering \in BOOLEAN /\ layer'[l].gdone \in BOOLEAN
  BY <1>2, LayerControl DEF GatherEnds, GatherStarts, Accepts, WarmedUp, GathersAgain
<1>6. layer'[l].iidx \in 0 .. Pixels[l] - 1
  BY <1>1, LayerControl, LayerCases, Sizes DEF LayerTyped
<1>7. layer'[l].icnt \in 0 .. Ops[l] - 1
  <2>1. layer[l].icnt \in 0 .. Ops[l] - 1 /\ Ops[l] \in Nat /\ Ops[l] >= 7
    BY <1>1, Sizes DEF LayerTyped
  <2>2. ~LastOp(l) /\ layer[l].st = "issue" => layer[l].icnt + 1 \in 0 .. Ops[l] - 1
    BY <2>1 DEF LastOp
  <2>3. QED
    BY <2>1, <2>2, LayerControl
<1>8. layer'[l].gpix \in 0 .. Pixels[l] - 1 /\ layer'[l].gidx \in 0 .. Pixels[l] - 1
  <2>1. layer[l].gpix \in 0 .. Pixels[l] - 1 /\ layer[l].gidx \in 0 .. Pixels[l] - 1
    BY <1>1 DEF LayerTyped
  <2>2. NextIndex(l) \in 0 .. Pixels[l] - 1
    BY <2>1, NextIndexTyped, Sizes
  <2>3. QED
    BY <2>1, <2>2, LayerGatherIndex, Sizes
<1>9. layer'[l].tile \in 0 .. MaxTiles /\ layer'[l].otag \in 0 .. MaxTiles
  <2>1. layer[l].tile \in 0 .. MaxTiles /\ layer[l].otag \in 0 .. MaxTiles
    BY <1>1 DEF LayerTyped
  <2>2. Accepts(l) => RdTag(buf[l - 1]) \in 0 .. MaxTiles
    BY <2>1, AcceptsNext, Sizes
  <2>3. QED
    BY <2>1, <2>2, LayerTiles
<1>10. layer'[l].wpend \in BOOLEAN /\ layer'[l].rs \in BOOLEAN /\ layer'[l].rd \in BOOLEAN
       /\ layer'[l].ws \in BOOLEAN /\ layer'[l].wd \in BOOLEAN
  BY <1>1, LayerTiles DEF LayerTyped, Committed, TileIssued, LastOp, LastPixel, Accepts, RdReady,
     GetsBank, WarmedUp, WrReady
<1>11. QED
  BY <1>3, <1>4, <1>5, <1>6, <1>7, <1>8, <1>9, <1>10 DEF LayerTyped

(* A gather that is still going on when a tile has been issued ends there. *)
LEMMA GatherOver ==
  ASSUME ControlInv, NEW l \in 1 .. N, TileIssued(l), layer[l].gathering
  PROVE  GatherEnds(l)
<1>1. LayerTyped(l) /\ LayerInv(l)
  BY DEF ControlInv
<1>2. layer[l].icnt <= layer[l].gphase + 1 /\ layer[l].icnt = Ops[l] - 1
  BY <1>1, LayerCases DEF LayerInv
<1>3. layer[l].gphase \in 0 .. 5
  BY <1>1 DEF LayerTyped, GatherLast
<1>4. layer[l].gphase = 5
  BY <1>2, <1>3, Sizes
<1>5. QED
  BY <1>4 DEF GatherEnds, GatherLast

(* What each layer keeps of its own. *)
LEMMA LayerStep ==
  ASSUME ControlInv, Clock, NEW l \in 1 .. N
  PROVE  LayerInv(l)'
<1>1. LayerTyped(l) /\ LayerInv(l)
  BY DEF ControlInv
<1> USE LayerCases
<1>0. GetsBank(l) => ~Accepts(l)
  OBVIOUS
<1>2. layer'[l].st \in {"idle", "issue"} => layer'[l].otag = layer'[l].tile
  BY <1>1, LayerControl, LayerTiles DEF LayerInv, LayerTyped
<1>3. layer'[l].st \in {"warmup", "waitout"} => layer'[l].tile = layer'[l].otag + 1
  <2>1. CASE Accepts(l)
    <3>1. layer[l].otag = layer[l].tile /\ ~GetsBank(l)
      BY <1>1, <2>1 DEF LayerInv
    <3>2. layer'[l].tile = layer[l].tile + 1 /\ layer'[l].otag = layer[l].otag
      BY <2>1, <3>1, LayerTiles, AcceptsNext
    <3>3. QED
      BY <3>1, <3>2
  <2>2. CASE ~Accepts(l) /\ ~GetsBank(l)
    <3>1. layer'[l].tile = layer[l].tile /\ layer'[l].otag = layer[l].otag
      BY <2>2, LayerTiles
    <3>2. layer'[l].st \in {"warmup", "waitout"} => layer[l].st \in {"warmup", "waitout"}
      BY <1>1, <2>2, LayerControl DEF LayerTyped
    <3>3. QED
      BY <1>1, <3>1, <3>2 DEF LayerInv
  <2>3. CASE GetsBank(l)
    BY <1>0, <2>3, LayerControl
  <2>4. QED
    BY <2>1, <2>2, <2>3
<1>4. layer'[l].st = "idle" => ~layer'[l].gathering
  <2>1. layer'[l].st = "idle" => ~GatherStarts(l) /\ (TileIssued(l) \/ layer[l].st = "idle")
    <3>1. layer'[l].st = "idle" => ~Accepts(l) /\ ~GetsBank(l) /\ ~WarmedUp(l)
      BY LayerControl
    <3>2. ASSUME TileIssued(l) PROVE ~GathersAgain(l)
      BY <1>1, <3>2, Sizes DEF LayerTyped
    <3>3. layer'[l].st = "idle" => TileIssued(l) \/ layer[l].st = "idle"
      BY <3>1, LayerControl
    <3>4. QED
      BY <3>1, <3>2, <3>3
  <2>2. TileIssued(l) => GatherEnds(l) \/ ~layer[l].gathering
    BY GatherOver
  <2>3. layer[l].st = "idle" => ~layer[l].gathering
    BY <1>1 DEF LayerInv
  <2>4. QED
    BY <2>1, <2>2, <2>3, LayerControl
<1>5. layer'[l].st = "warmup" => (layer'[l].gdone <=> ~layer'[l].gathering)
  BY <1>1, LayerControl DEF LayerInv, LayerTyped, GatherEnds, WarmedUp
<1>6. layer'[l].st = "waitout" => layer'[l].icnt = 0 /\ layer'[l].iidx = 0
  BY <1>1, LayerControl DEF LayerInv, LayerTyped
<1>7. layer'[l].st = "issue" /\ layer'[l].gathering => layer'[l].icnt <= layer'[l].gphase + 1
  <2>1. layer[l].gphase \in Int /\ layer[l].icnt \in Int /\ layer[l].gphase >= 0
    BY <1>1 DEF LayerTyped
  <2>2. layer[l].st = "issue" /\ layer[l].gathering => layer[l].icnt <= layer[l].gphase + 1
    BY <1>1 DEF LayerInv
  <2>3. layer[l].st = "waitout" => layer[l].icnt = 0
    BY <1>1 DEF LayerInv
  <2>4. layer'[l].gphase >= 0 /\ layer'[l].gphase \in Int
    BY <2>1, LayerControl
  <2>5. CASE GetsBank(l)
    BY <2>1, <2>3, <2>4, <2>5, LayerControl
  <2>6. CASE LastOp(l)
    BY <2>4, <2>6, LayerControl
  <2>7. CASE ~GetsBank(l) /\ ~LastOp(l)
    <3>1. layer'[l].st = "issue" => layer[l].st = "issue"
      BY <2>7, LayerControl
    <3>2. layer[l].st = "issue" => layer'[l].icnt = layer[l].icnt + 1
      BY <2>7, LayerControl
    <3>3. CASE GathersAgain(l)
      BY <2>4, <3>1, <3>2, <3>3
    <3>4. CASE layer[l].st = "issue" /\ ~GathersAgain(l)
      <4>1. ~GatherStarts(l)
        BY <3>4
      <4>2. layer'[l].gathering => layer[l].gathering /\ layer'[l].gphase = layer[l].gphase + 1
        BY <4>1, LayerControl
      <4>3. QED
        BY <2>1, <2>2, <3>2, <3>4, <4>2
    <3>5. QED
      BY <3>1, <3>3, <3>4
  <2>8. QED
    BY <2>5, <2>6, <2>7
<1>8. layer'[l].ws => layer'[l].st = "issue" /\ layer'[l].icnt = 0 /\ layer'[l].iidx = 0
  <2>1. layer'[l].ws => GetsBank(l)
    BY LayerTiles
  <2>2. GetsBank(l) => layer'[l].st = "issue"
    BY <1>0, LayerControl
  <2>3. GetsBank(l) /\ layer[l].st = "waitout" => layer[l].icnt = 0 /\ layer[l].iidx = 0
    BY <1>1 DEF LayerInv
  <2>4. GetsBank(l) => ~LastOp(l) /\ ~NextPixel(l)
    OBVIOUS
  <2>5. GetsBank(l) => layer'[l].icnt = 0 /\ layer'[l].iidx = 0
    BY <2>3, <2>4, LayerControl
  <2>6. QED
    BY <2>1, <2>2, <2>5
<1>9. layer'[l].rs => layer'[l].st = "warmup" /\ layer'[l].gathering /\ layer'[l].gphase = 0
  BY <1>1, LayerControl, LayerTiles DEF LayerInv, LayerTyped
<1>10. layer'[l].rd => layer'[l].st = "idle"
  BY <1>1, LayerControl, LayerTiles DEF LayerInv, LayerTyped
<1>11. layer'[l].wpend => layer'[l].st # "issue"
  BY <1>1, LayerControl, LayerTiles, GetsFree DEF LayerInv, LayerTyped
<1>12. layer'[l].wd => layer'[l].st # "issue" /\ ~layer'[l].wpend
  BY <1>1, LayerControl, LayerTiles, GetsFree DEF LayerInv, LayerTyped
<1>13. layer[l].tile \in Nat /\ layer[l].otag \in Nat
  BY <1>1, Sizes DEF LayerTyped
<1>14. layer'[l].st # "idle" => layer'[l].tile > 0
  <2>1. Accepts(l) => layer'[l].tile > 0
    BY <1>13, LayerTiles, AcceptsNext
  <2>2. ~Accepts(l) => layer'[l].tile = layer[l].tile
    BY LayerTiles
  <2>3. ~Accepts(l) /\ layer'[l].st # "idle" => layer[l].st # "idle"
    BY LayerControl
  <2>4. QED
    BY <1>1, <2>1, <2>2, <2>3 DEF LayerInv
<1>15. layer'[l].wpend => layer'[l].otag > 0
  <2>1. layer'[l].wpend => TileIssued(l) \/ layer[l].wpend
    BY LayerTiles
  <2>2. TileIssued(l) \/ layer[l].wpend => layer[l].otag > 0
    BY <1>1 DEF LayerInv
  <2>3. TileIssued(l) \/ layer[l].wpend => ~GetsBank(l)
    BY GetsFree
  <2>4. QED
    BY <2>1, <2>2, <2>3, LayerTiles
<1>16. QED
  BY <1>2, <1>3, <1>4, <1>5, <1>6, <1>7, <1>8, <1>9, <1>10, <1>11, <1>12, <1>14, <1>15 DEF LayerInv

-----------------------------------------------------------------------------
(* A clock of the feeder and of gap_head *)

LEMMA FeedChange ==
  ASSUME Clock
  PROVE  \E pause \in Nat :
         /\ feed'.st = FeedState(pause)
         /\ feed'.n = IF feed.st = "copy" /\ ~CopyEnds THEN feed.n + 1 ELSE 0
         /\ feed'.tile = IF feed.st = "done" /\ feed.tile < MaxTiles THEN feed.tile + 1 ELSE feed.tile
         /\ feed'.ws = Opening
         /\ feed'.wd = (feed.st = "done")
         /\ feed'.tag = IF Opening THEN feed.tile ELSE feed.tag
<1>1. PICK pause \in Pauses :
        feed' = FeedNext(IF feed.tile + 1 \in PausedTiles THEN pause ELSE 0)
  BY DEF Clock
<1>2. (IF feed.tile + 1 \in PausedTiles THEN pause ELSE 0) \in Nat
  BY CoreAssumption
<1>3. QED
  BY <1>1, <1>2 DEF FeedNext

(* The feeder, register by register. *)
LEMMA FeedControl ==
  ASSUME ControlInv, Clock
  PROVE  /\ feed'.ws = Opening
         /\ feed'.wd = (feed.st = "done")
         /\ feed'.tag = IF Opening THEN feed.tile ELSE feed.tag
         /\ Opening => feed'.st = "copy" /\ feed'.n = 0
         /\ feed.st = "start" /\ ~Opening => feed'.st = "start"
         /\ feed.st = "copy" =>
              IF CopyEnds THEN feed'.st = "flush" /\ feed'.n = 0
              ELSE feed'.st = "copy" /\ feed'.n = feed.n + 1
         /\ feed.st = "flush" => feed'.st = "done"
         /\ feed.st = "done" => \/ feed'.st = "off" /\ feed.tile = MaxTiles
                                \/ feed'.st \in {"start", "idle"} /\ feed.tile < MaxTiles
         /\ feed.st = "idle" => feed'.st \in {"idle", "start"}
         /\ feed.st = "off" => feed'.st = "off"
         /\ feed.st # "copy" => feed'.n = 0
         /\ feed'.tile = IF feed.st = "done" /\ feed.tile < MaxTiles THEN feed.tile + 1 ELSE feed.tile
<1>1. PICK pause \in Nat :
         /\ feed'.st = FeedState(pause)
         /\ feed'.n = IF feed.st = "copy" /\ ~CopyEnds THEN feed.n + 1 ELSE 0
         /\ feed'.tile = IF feed.st = "done" /\ feed.tile < MaxTiles THEN feed.tile + 1 ELSE feed.tile
         /\ feed'.ws = Opening
         /\ feed'.wd = (feed.st = "done")
         /\ feed'.tag = IF Opening THEN feed.tile ELSE feed.tag
  BY FeedChange
<1>2. feed.tile <= MaxTiles /\ feed.tile \in Int
  BY CoreAssumption DEF ControlInv, FeedTyped
<1>3. /\ Opening => feed'.st = "copy"
      /\ feed.st = "start" /\ ~Opening => feed'.st = "start"
      /\ feed.st = "copy" => feed'.st = IF CopyEnds THEN "flush" ELSE "copy"
      /\ feed.st = "flush" => feed'.st = "done"
      /\ feed.st = "done" => feed'.st = IF feed.tile = MaxTiles THEN "off"
                                        ELSE IF pause = 0 THEN "start" ELSE "idle"
      /\ feed.st = "idle" => feed'.st \in {"idle", "start"}
      /\ feed.st = "off" => feed'.st = "off"
  BY <1>1 DEF FeedState, Opening, CopyEnds
<1>4. Opening => feed.st = "start"
  BY DEF Opening
<1>5. feed.st = "done" => \/ feed'.st = "off" /\ feed.tile = MaxTiles
                          \/ feed'.st \in {"start", "idle"} /\ feed.tile < MaxTiles
  BY <1>2, <1>3, Sizes
<1>6. /\ Opening => feed'.n = 0
      /\ feed.st = "copy" => feed'.n = IF CopyEnds THEN 0 ELSE feed.n + 1
      /\ feed.st # "copy" => feed'.n = 0
  BY <1>1, <1>4
<1>7. QED
  BY <1>1, <1>3, <1>5, <1>6

LEMMA FeedStep ==
  ASSUME ControlInv, Clock
  PROVE  FeedTyped' /\ FeedInv'
<1>1. FeedTyped /\ FeedInv
  BY DEF ControlInv
<1>2. feed.tile \in 1 .. MaxTiles /\ feed.tag \in 0 .. MaxTiles
  BY <1>1, CoreAssumption DEF FeedTyped
<1>3. feed'.st \in {"idle", "start", "copy", "flush", "done", "off"}
  BY <1>1, FeedControl DEF FeedTyped
<1>4. feed'.tile \in 1 .. MaxTiles /\ feed'.tag \in 0 .. MaxTiles
  BY <1>2, FeedControl, Sizes
<1>5. feed'.n \in 0 .. CopyWords - 1
  <2>1. feed.n \in 0 .. CopyWords - 1
    BY <1>1 DEF FeedTyped
  <2>2. QED
    BY <2>1, FeedControl, Sizes DEF CopyEnds
<1>6. feed'.ws \in BOOLEAN /\ feed'.wd \in BOOLEAN
  BY FeedControl DEF Opening, WrReady
<1>7. FeedTyped'
  BY <1>3, <1>4, <1>5, <1>6, CoreAssumption DEF FeedTyped
<1>8. feed'.ws => feed'.st = "copy" /\ feed'.n = 0
  BY FeedControl
<1>9. feed'.wd => feed'.st \in {"idle", "start", "off"}
  BY FeedControl
<1>10. Opening => feed.st = "start"
  BY DEF Opening
<1>11. feed'.st \in {"copy", "flush", "done"} => feed'.tile = feed'.tag
  BY <1>1, <1>10, FeedControl DEF FeedTyped, FeedInv
<1>12. feed'.st \in {"idle", "start"} => feed'.tile = feed'.tag + 1
  BY <1>1, <1>10, FeedControl DEF FeedTyped, FeedInv
<1>13. feed'.st = "off" => feed'.tag = MaxTiles
  BY <1>1, <1>10, FeedControl DEF FeedTyped, FeedInv
<1>14. QED
  BY <1>7, <1>8, <1>9, <1>11, <1>12, <1>13 DEF FeedInv

(* gap_head, register by register. *)
LEMMA HeadControl ==
  ASSUME ControlInv, Clock
  PROVE  /\ head'.rs = Taken
         /\ head'.rd = (head.st = "drain")
         /\ head'.tile = IF Taken THEN RdTag(buf[N]) ELSE head.tile
         /\ head.st = "idle" => head'.st = (IF Taken THEN "sum" ELSE "idle") /\ head'.n = 0
         /\ head.st = "sum" =>
              IF head.n = Pixels[N] - 1 THEN head'.st = "drain"
              ELSE head'.st = "sum" /\ (head.n < Pixels[N] - 1 => head'.n = head.n + 1)
         /\ head.st = "drain" => head'.st = "work"
         /\ head.st = "work" => head'.st \in {"work", "done"}
         /\ head.st = "done" => head'.st = "idle"
         /\ head'.n \in Nat
         /\ results' = IF head.st = "done" THEN results + 1 ELSE results
<1>1. head' = HeadNext /\ results' = IF Delivers THEN results + 1 ELSE results
  BY DEF Clock
<1>2. head.n \in Nat
  BY DEF ControlInv, HeadTyped
<1>3. QED
  BY <1>1, <1>2 DEF HeadNext, Taken, Delivers

(* A head that takes a tile has given up its last bank. *)
LEMMA TakenNext ==
  ASSUME ControlInv, Taken
  PROVE  /\ ~head.rd /\ ~head.rs /\ ~ReaderOn(N)
         /\ RdTag(buf[N]) = head.tile + 1
         /\ RdTag(buf[N]) <= MaxTiles
<1>1. N \in 0 .. N /\ N \in 1 .. N /\ N # 0
  BY Sizes
<1>2. Linked(N) /\ HeadInv /\ HeadTyped /\ buf[N] \in Buffers /\ LayerTyped(N)
  BY <1>1 DEF ControlInv
<1>3. PulsesAt(N).rs = head.rs /\ PulsesAt(N).rd = head.rd
  BY <1>1 DEF PulsesAt
<1>4. ReaderOn(N) <=> (head.st \in {"sum", "drain"} \/ head.rd)
  BY DEF ReaderOn
<1>5. head.st = "idle" /\ RdReady(buf[N])
  BY DEF Taken
<1>6. ~head.rs
  BY <1>2, <1>5 DEF HeadInv
<1>7. ~head.rd
  BY <1>2, <1>5 DEF HeadInv
<1>8. ~ReaderOn(N) /\ ReaderOn(N) \in BOOLEAN
  <2>1. ReaderOn(N) \in BOOLEAN
    BY DEF ReaderOn
  <2>2. QED
    BY <1>4, <1>5, <1>7, <2>1
<1>9. TilesOut(N) = head.tile /\ TilesIn(N) = layer[N].otag
  BY <1>1 DEF TilesOut, TilesIn
<1>10. head.tile \in Int /\ layer[N].otag \in Int /\ layer[N].otag <= MaxTiles
  BY <1>2, Sizes DEF HeadTyped, LayerTyped
<1>11. Link(buf[N], PulsesAt(N), WriterOn(N), ReaderOn(N), layer[N].otag, head.tile)
  BY <1>2, <1>9 DEF Linked
<1>12. RdTag(buf[N]) = head.tile + 1 /\ head.tile + 1 <= layer[N].otag
  BY <1>2, <1>5, <1>8, <1>10, <1>11, FullBank
<1>13. QED
  BY <1>6, <1>7, <1>8, <1>10, <1>12, Sizes

LEMMA HeadStep ==
  ASSUME ControlInv, Clock
  PROVE  HeadTyped' /\ HeadInv' /\ results' \in Nat
<1>1. HeadTyped /\ HeadInv /\ results \in Nat
  BY DEF ControlInv
<1>2. Taken => head.st = "idle"
  BY DEF Taken
<1>3. head'.st \in {"idle", "sum", "drain", "work", "done"} /\ head'.n \in Nat
  BY <1>1, HeadControl DEF HeadTyped
<1>4. head'.tile \in 0 .. MaxTiles
  BY <1>1, HeadControl, TakenNext, Sizes DEF HeadTyped
<1>5. head'.rs \in BOOLEAN /\ head'.rd \in BOOLEAN
  BY HeadControl DEF Taken, RdReady
<1>6. head'.tile = results' + (IF head'.st = "idle" THEN 0 ELSE 1)
  BY <1>1, <1>2, HeadControl, TakenNext DEF HeadTyped, HeadInv
<1>7. head'.rs => head'.st = "sum" /\ head'.n = 0
  BY <1>2, HeadControl
<1>8. head'.rd => head'.st = "work"
  BY HeadControl
<1>9. results' \in Nat
  BY <1>1, HeadControl
<1>10. QED
  BY <1>3, <1>4, <1>5, <1>6, <1>7, <1>8, <1>9 DEF HeadTyped, HeadInv

-----------------------------------------------------------------------------
(* The two sides of a buffer in one clock *)

LEMMA FeederSide ==
  ASSUME ControlInv, Clock
  PROVE  LET q == PulsesAt(0)' IN
         /\ q.ws => buf[0].st[buf[0].wp] = "free" /\ ~WriterOn(0)
                    /\ TilesIn(0)' = TilesIn(0) + 1 /\ q.tag = TilesIn(0)'
         /\ ~q.ws => TilesIn(0)' = TilesIn(0)
         /\ q.wd => WriterOn(0) /\ ~PulsesAt(0).wd
         /\ WriterOn(0)' <=> q.ws \/ (WriterOn(0) /\ ~PulsesAt(0).wd)
<1>1. FeedInv /\ FeedTyped /\ Linked(0)
  BY Sizes DEF ControlInv
<1>2. /\ PulsesAt(0).ws = feed.ws /\ PulsesAt(0).wd = feed.wd
      /\ PulsesAt(0)'.ws = feed'.ws /\ PulsesAt(0)'.wd = feed'.wd /\ PulsesAt(0)'.tag = feed'.tag
      /\ TilesIn(0) = feed.tag /\ TilesIn(0)' = feed'.tag
  BY DEF PulsesAt, TilesIn
<1>3. /\ WriterOn(0) <=> (feed.st \in {"copy", "flush", "done"} \/ feed.wd)
      /\ WriterOn(0)' <=> (feed'.st \in {"copy", "flush", "done"} \/ feed'.wd)
  BY DEF WriterOn
<1>4. WriterOn(0) <=> (feed.ws \/ buf[0].st[buf[0].wp] = "writing")
  BY <1>1, <1>2 DEF Linked, Link
<1>5. Opening => feed.st = "start" /\ buf[0].st[buf[0].wp] = "free"
  BY DEF Opening, WrReady
<1>6. Opening => ~WriterOn(0)
  BY <1>1, <1>4, <1>5 DEF FeedInv
<1>7. Opening => feed'.tag = feed.tag + 1
  BY <1>1, <1>5, FeedControl DEF FeedInv
<1>8. feed'.wd => WriterOn(0) /\ ~feed.wd
  BY <1>1, <1>3, FeedControl DEF FeedInv
<1>9. WriterOn(0)' <=> Opening \/ (WriterOn(0) /\ ~feed.wd)
  <2>1. CASE feed.st = "start"
    BY <1>1, <1>3, <2>1, FeedControl DEF FeedTyped
  <2>2. CASE feed.st = "copy"
    BY <1>1, <1>3, <1>5, <2>2, FeedControl DEF FeedInv, FeedTyped
  <2>3. CASE feed.st \in {"flush", "done"}
    BY <1>1, <1>3, <1>5, <2>3, FeedControl DEF FeedInv, FeedTyped
  <2>4. CASE feed.st \in {"idle", "off"}
    BY <1>1, <1>3, <1>5, <2>4, FeedControl DEF FeedTyped
  <2>5. QED
    BY <1>1, <2>1, <2>2, <2>3, <2>4 DEF FeedTyped
<1>10. QED
  BY <1>2, <1>5, <1>6, <1>7, <1>8, <1>9, FeedControl

LEMMA LayerWrites ==
  ASSUME ControlInv, Clock, NEW l \in 1 .. N
  PROVE  LET q == PulsesAt(l)' IN
         /\ q.ws => buf[l].st[buf[l].wp] = "free" /\ ~WriterOn(l)
                    /\ TilesIn(l)' = TilesIn(l) + 1 /\ q.tag = TilesIn(l)'
         /\ ~q.ws => TilesIn(l)' = TilesIn(l)
         /\ q.wd => WriterOn(l) /\ ~PulsesAt(l).wd
         /\ WriterOn(l)' <=> q.ws \/ (WriterOn(l) /\ ~PulsesAt(l).wd)
<1>1. l # 0 /\ l \in 0 .. N /\ LayerInv(l) /\ LayerTyped(l)
  BY Sizes DEF ControlInv
<1>2. /\ PulsesAt(l).wd = layer[l].wd
      /\ PulsesAt(l)'.ws = layer'[l].ws /\ PulsesAt(l)'.wd = layer'[l].wd
      /\ PulsesAt(l)'.tag = layer'[l].otag
      /\ TilesIn(l) = layer[l].otag /\ TilesIn(l)' = layer'[l].otag
  BY <1>1 DEF PulsesAt, TilesIn
<1>3. /\ WriterOn(l) <=> (layer[l].st = "issue" \/ layer[l].wpend \/ layer[l].wd)
      /\ WriterOn(l)' <=> (layer'[l].st = "issue" \/ layer'[l].wpend \/ layer'[l].wd)
  BY <1>1 DEF WriterOn
<1>4. GetsBank(l) => buf[l].st[buf[l].wp] = "free" /\ layer[l].st \in {"warmup", "waitout"}
  BY DEF GetsBank, WrReady, WarmedUp
<1>5. GetsBank(l) => layer[l].tile = layer[l].otag + 1
  BY <1>1, <1>4 DEF LayerInv
<1>6. Committed(l) => layer[l].wpend
  BY LayerCases
<1>7. TileIssued(l) => layer[l].st = "issue"
  BY LayerCases
<1>8. layer[l].wpend => ~layer[l].wd
  BY <1>1 DEF LayerInv
<1>9. layer'[l].st = "issue" <=> GetsBank(l) \/ (layer[l].st = "issue" /\ ~TileIssued(l))
  BY <1>1, LayerControl, LayerCases DEF LayerTyped
<1>10. WriterOn(l)' <=> GetsBank(l) \/ layer[l].st = "issue" \/ layer[l].wpend
  <2>1. layer'[l].wpend \/ layer'[l].wd <=> TileIssued(l) \/ layer[l].wpend
    BY <1>6, LayerTiles
  <2>2. QED
    BY <1>3, <1>7, <1>9, <2>1
<1>11. layer[l].wd => layer[l].st # "issue" /\ ~layer[l].wpend
  BY <1>1 DEF LayerInv
<1>12. layer'[l].ws = GetsBank(l) /\ layer'[l].wd = Committed(l)
       /\ layer'[l].otag = IF GetsBank(l) THEN layer[l].tile ELSE layer[l].otag
  BY LayerTiles
<1>13. GetsBank(l) => ~WriterOn(l)
  BY GetsFree
<1>14. QED
  BY <1>2, <1>3, <1>4, <1>5, <1>6, <1>8, <1>10, <1>11, <1>12, <1>13

LEMMA LayerReads ==
  ASSUME ControlInv, Clock, NEW l \in 1 .. N
  PROVE  LET q == PulsesAt(l - 1)' IN
         /\ q.rs => buf[l - 1].st[buf[l - 1].rp] = "full" /\ ~ReaderOn(l - 1)
                    /\ TilesOut(l - 1)' = buf[l - 1].tag[buf[l - 1].rp]
         /\ ~q.rs => TilesOut(l - 1)' = TilesOut(l - 1)
         /\ q.rd => ReaderOn(l - 1) /\ ~PulsesAt(l - 1).rd
         /\ ReaderOn(l - 1)' <=> q.rs \/ (ReaderOn(l - 1) /\ ~PulsesAt(l - 1).rd)
<1>1. l - 1 \in 0 .. N /\ l - 1 # N /\ (l - 1) + 1 = l /\ LayerInv(l) /\ LayerTyped(l)
  BY Sizes DEF ControlInv
<1>2. /\ PulsesAt(l - 1).rd = layer[l].rd
      /\ PulsesAt(l - 1)'.rs = layer'[l].rs /\ PulsesAt(l - 1)'.rd = layer'[l].rd
      /\ TilesOut(l - 1) = layer[l].tile /\ TilesOut(l - 1)' = layer'[l].tile
  BY <1>1 DEF PulsesAt, TilesOut
<1>3. /\ ReaderOn(l - 1) <=> (layer[l].st # "idle" \/ layer[l].rd)
      /\ ReaderOn(l - 1)' <=> (layer'[l].st # "idle" \/ layer'[l].rd)
  BY <1>1 DEF ReaderOn
<1>4. Accepts(l) => buf[l - 1].st[buf[l - 1].rp] = "full" /\ layer[l].st = "idle"
  BY DEF Accepts, RdReady
<1>5. Accepts(l) => ~ReaderOn(l - 1)
  BY AcceptsNext
<1>6. TileIssued(l) => layer[l].st = "issue"
  BY LayerCases
<1>7. layer[l].rd => layer[l].st = "idle"
  BY <1>1 DEF LayerInv
<1>8. layer'[l].st # "idle" <=> Accepts(l) \/ (layer[l].st # "idle" /\ ~TileIssued(l))
  BY <1>1, LayerControl, LayerCases DEF LayerTyped
<1>9. layer'[l].rs = Accepts(l) /\ layer'[l].rd = TileIssued(l)
      /\ layer'[l].tile = IF Accepts(l) THEN buf[l - 1].tag[buf[l - 1].rp] ELSE layer[l].tile
  BY LayerTiles DEF RdTag
<1>10. QED
  BY <1>2, <1>3, <1>4, <1>5, <1>6, <1>7, <1>8, <1>9

LEMMA HeadReads ==
  ASSUME ControlInv, Clock
  PROVE  LET q == PulsesAt(N)' IN
         /\ q.rs => buf[N].st[buf[N].rp] = "full" /\ ~ReaderOn(N)
                    /\ TilesOut(N)' = buf[N].tag[buf[N].rp]
         /\ ~q.rs => TilesOut(N)' = TilesOut(N)
         /\ q.rd => ReaderOn(N) /\ ~PulsesAt(N).rd
         /\ ReaderOn(N)' <=> q.rs \/ (ReaderOn(N) /\ ~PulsesAt(N).rd)
<1>1. HeadInv /\ HeadTyped
  BY DEF ControlInv
<1>2. /\ PulsesAt(N).rd = head.rd
      /\ PulsesAt(N)'.rs = head'.rs /\ PulsesAt(N)'.rd = head'.rd
      /\ TilesOut(N) = head.tile /\ TilesOut(N)' = head'.tile
  BY DEF PulsesAt, TilesOut
<1>3. /\ ReaderOn(N) <=> (head.st \in {"sum", "drain"} \/ head.rd)
      /\ ReaderOn(N)' <=> (head'.st \in {"sum", "drain"} \/ head'.rd)
  BY DEF ReaderOn
<1>4. Taken => buf[N].st[buf[N].rp] = "full" /\ head.st = "idle"
  BY DEF Taken, RdReady
<1>5. Taken => ~ReaderOn(N)
  BY TakenNext
<1>6. head.rd => head.st = "work"
  BY <1>1 DEF HeadInv
<1>7. head'.st \in {"sum", "drain"} <=> Taken \/ head.st = "sum"
  BY <1>1, <1>4, HeadControl DEF HeadTyped
<1>8. head'.rs = Taken /\ head'.rd = (head.st = "drain")
      /\ head'.tile = IF Taken THEN buf[N].tag[buf[N].rp] ELSE head.tile
  BY HeadControl DEF RdTag
<1>9. QED
  BY <1>2, <1>3, <1>4, <1>5, <1>6, <1>7, <1>8

(* What is needed of both sides to clock the buffer between them.          *)
SidesTyped ==
  \A b \in 0 .. N :
    /\ TilesIn(b) \in 0 .. MaxTiles /\ TilesOut(b) \in 0 .. MaxTiles
    /\ WriterOn(b) \in BOOLEAN /\ ReaderOn(b) \in BOOLEAN
    /\ PulsesAt(b).ws \in BOOLEAN /\ PulsesAt(b).wd \in BOOLEAN
    /\ PulsesAt(b).rs \in BOOLEAN /\ PulsesAt(b).rd \in BOOLEAN
    /\ PulsesAt(b).tag \in Tiles \cup {NoTile}

StagesTyped == FeedTyped /\ HeadTyped /\ \A l \in 1 .. N : LayerTyped(l)

LEMMA BufferSides == StagesTyped => SidesTyped
<1> SUFFICES ASSUME StagesTyped, NEW b \in 0 .. N
             PROVE  /\ TilesIn(b) \in 0 .. MaxTiles /\ TilesOut(b) \in 0 .. MaxTiles
                    /\ WriterOn(b) \in BOOLEAN /\ ReaderOn(b) \in BOOLEAN
                    /\ PulsesAt(b).ws \in BOOLEAN /\ PulsesAt(b).wd \in BOOLEAN
                    /\ PulsesAt(b).rs \in BOOLEAN /\ PulsesAt(b).rd \in BOOLEAN
                    /\ PulsesAt(b).tag \in Tiles \cup {NoTile}
  BY DEF SidesTyped
<1>1. b # 0 => b \in 1 .. N
  BY Sizes
<1>2. b # N => b + 1 \in 1 .. N
  BY Sizes
<1>3. FeedTyped /\ HeadTyped /\ \A l \in 1 .. N : LayerTyped(l)
  BY DEF StagesTyped
<1>4. WriterOn(b) \in BOOLEAN /\ ReaderOn(b) \in BOOLEAN
  <2>1. WriterOn(b) \in BOOLEAN
    BY DEF WriterOn
  <2>2. ReaderOn(b) \in BOOLEAN
    BY DEF ReaderOn
  <2>3. QED
    BY <2>1, <2>2
<1>5. TilesIn(b) \in 0 .. MaxTiles /\ PulsesAt(b).tag = TilesIn(b)
      /\ PulsesAt(b).ws \in BOOLEAN /\ PulsesAt(b).wd \in BOOLEAN
  BY <1>1, <1>3 DEF TilesIn, PulsesAt, FeedTyped, LayerTyped
<1>6. TilesOut(b) \in 0 .. MaxTiles /\ PulsesAt(b).rs \in BOOLEAN /\ PulsesAt(b).rd \in BOOLEAN
  BY <1>2, <1>3 DEF TilesOut, PulsesAt, HeadTyped, LayerTyped
<1>7. 0 .. MaxTiles \subseteq Tiles \cup {NoTile}
  BY CoreAssumption
<1>8. QED
  BY <1>4, <1>5, <1>6, <1>7

(* Every buffer stays linked. *)
LEMMA LinkedStep ==
  ASSUME ControlInv, Clock, SidesTyped', NEW b \in 0 .. N
  PROVE  Linked(b)'
<1> DEFINE p == PulsesAt(b)
           q == PulsesAt(b)'
<1>1. buf[b] \in Buffers /\ buf'[b] = BufferNext(buf[b], p)
  BY DEF ControlInv, Clock
<1>0. SidesTyped
  BY BufferSides DEF ControlInv, StagesTyped
<1>2. TilesIn(b) \in Int /\ TilesOut(b) \in Int /\ TilesIn(b)' \in Int /\ TilesOut(b)' \in Int
  BY <1>0, Sizes DEF SidesTyped
<1>3. /\ WriterOn(b) \in BOOLEAN /\ ReaderOn(b) \in BOOLEAN
      /\ p.ws \in BOOLEAN /\ p.wd \in BOOLEAN /\ p.rs \in BOOLEAN /\ p.rd \in BOOLEAN
  BY <1>0 DEF SidesTyped
<1>4. Link(buf[b], p, WriterOn(b), ReaderOn(b), TilesIn(b), TilesOut(b))
  BY DEF ControlInv, Linked
<1>5. /\ q.ws => buf[b].st[buf[b].wp] = "free" /\ ~WriterOn(b)
                 /\ TilesIn(b)' = TilesIn(b) + 1 /\ q.tag = TilesIn(b)'
      /\ ~q.ws => TilesIn(b)' = TilesIn(b)
      /\ q.wd => WriterOn(b) /\ ~p.wd
      /\ WriterOn(b)' <=> q.ws \/ (WriterOn(b) /\ ~p.wd)
  <2>1. CASE b = 0
    BY <2>1, FeederSide
  <2>2. CASE b \in 1 .. N
    BY <2>2, LayerWrites
  <2>3. QED
    BY <2>1, <2>2, Sizes
<1>6. /\ q.rs => buf[b].st[buf[b].rp] = "full" /\ ~ReaderOn(b)
                 /\ TilesOut(b)' = buf[b].tag[buf[b].rp]
      /\ ~q.rs => TilesOut(b)' = TilesOut(b)
      /\ q.rd => ReaderOn(b) /\ ~p.rd
      /\ ReaderOn(b)' <=> q.rs \/ (ReaderOn(b) /\ ~p.rd)
  <2>1. CASE b = N
    BY <2>1, HeadReads
  <2>2. CASE b # N
    <3>1. b + 1 \in 1 .. N /\ (b + 1) - 1 = b
      BY <2>2, Sizes
    <3>2. \A l \in 1 .. N : l - 1 = b =>
            /\ q.rs => buf[b].st[buf[b].rp] = "full" /\ ~ReaderOn(b)
                       /\ TilesOut(b)' = buf[b].tag[buf[b].rp]
            /\ ~q.rs => TilesOut(b)' = TilesOut(b)
            /\ q.rd => ReaderOn(b) /\ ~p.rd
            /\ ReaderOn(b)' <=> q.rs \/ (ReaderOn(b) /\ ~p.rd)
      BY LayerReads
    <3>3. QED
      BY <3>1, <3>2
  <2>3. QED
    BY <2>1, <2>2
<1>7. SidesStep(buf[b], p, WriterOn(b), ReaderOn(b), TilesIn(b), TilesOut(b),
                q, WriterOn(b)', ReaderOn(b)', TilesIn(b)', TilesOut(b)')
  BY <1>5, <1>6 DEF SidesStep
<1>8. /\ q.ws \in BOOLEAN /\ q.wd \in BOOLEAN /\ q.rs \in BOOLEAN /\ q.rd \in BOOLEAN
      /\ WriterOn(b)' \in BOOLEAN /\ ReaderOn(b)' \in BOOLEAN
  BY DEF SidesTyped
<1> HIDE DEF p, q
<1>9. Link(BufferNext(buf[b], p), q, WriterOn(b)', ReaderOn(b)', TilesIn(b)', TilesOut(b)')
  BY <1>1, <1>2, <1>3, <1>4, <1>7, <1>8, LinkStep
<1>10. QED
  BY <1>1, <1>9 DEF Linked, q

-----------------------------------------------------------------------------
(* The control of the core *)

LEMMA ControlInit == Init => ControlInv
<1> SUFFICES ASSUME Init PROVE ControlInv
  OBVIOUS
<1>1. \A l \in 1 .. N : layer[l] = IdleLayer
  BY DEF Init
<1>2. /\ feed.st = "start" /\ feed.n = 0 /\ feed.tile = 1 /\ feed.tag = 0
      /\ feed.ws = FALSE /\ feed.wd = FALSE
  BY CoreAssumption DEF Init
<1>3. FeedTyped /\ FeedInv
  <2>1. feed.ws \in BOOLEAN /\ feed.wd \in BOOLEAN /\ ~feed.ws /\ ~feed.wd
    BY <1>2
  <2>2. feed.tile \in Tiles /\ feed.n \in 0 .. CopyWords - 1 /\ feed.tag \in 0 .. MaxTiles
    BY <1>2, Sizes, CoreAssumption
  <2>3. FeedTyped
    BY <1>2, <2>1, <2>2 DEF FeedTyped
  <2>4. FeedInv
    BY <1>2, <2>1 DEF FeedInv
  <2>5. QED
    BY <2>3, <2>4
<1>4. head.st = "idle" /\ head.n = 0 /\ head.tile = 0 /\ head.rs = FALSE /\ head.rd = FALSE
      /\ results = 0
  BY CoreAssumption DEF Init
<1>5. HeadTyped /\ HeadInv /\ results \in Nat
  <2>1. head.rs \in BOOLEAN /\ head.rd \in BOOLEAN /\ ~head.rs /\ ~head.rd
    BY <1>4
  <2>2. head.n \in Nat /\ head.tile \in 0 .. MaxTiles /\ results \in Nat
    BY <1>4, Sizes
  <2>3. HeadTyped
    BY <1>4, <2>1, <2>2 DEF HeadTyped
  <2>4. HeadInv
    BY <1>4, <2>1 DEF HeadInv
  <2>5. QED
    BY <2>2, <2>3, <2>4
<1>6. \A l \in 1 .. N :
        /\ layer[l].st = "idle" /\ layer[l].gphase = 0 /\ layer[l].gpix = 0 /\ layer[l].gidx = 0
        /\ layer[l].iidx = 0 /\ layer[l].icnt = 0 /\ layer[l].tile = 0 /\ layer[l].otag = 0
        /\ layer[l].gathering = FALSE /\ layer[l].gdone = FALSE /\ layer[l].wpend = FALSE
        /\ layer[l].rs = FALSE /\ layer[l].rd = FALSE /\ layer[l].ws = FALSE /\ layer[l].wd = FALSE
  BY <1>1, CoreAssumption DEF IdleLayer
<1>7. ASSUME NEW l \in 1 .. N PROVE LayerTyped(l) /\ LayerInv(l)
  <2>1. LayerTyped(l)
    <3>1. /\ layer[l].gathering \in BOOLEAN /\ layer[l].gdone \in BOOLEAN /\ layer[l].wpend \in BOOLEAN
          /\ layer[l].rs \in BOOLEAN /\ layer[l].rd \in BOOLEAN
          /\ layer[l].ws \in BOOLEAN /\ layer[l].wd \in BOOLEAN
      BY <1>6
    <3>2. /\ layer[l].gphase \in 0 .. GatherLast
          /\ layer[l].gpix \in 0 .. Pixels[l] - 1 /\ layer[l].gidx \in 0 .. Pixels[l] - 1
          /\ layer[l].iidx \in 0 .. Pixels[l] - 1 /\ layer[l].icnt \in 0 .. Ops[l] - 1
          /\ layer[l].tile \in 0 .. MaxTiles /\ layer[l].otag \in 0 .. MaxTiles
      BY <1>6, Sizes DEF GatherLast
    <3>3. layer[l].st = "idle"
      BY <1>6
    <3>4. QED
      BY <3>1, <3>2, <3>3 DEF LayerTyped
  <2>2. LayerInv(l)
    BY <1>6 DEF LayerInv
  <2>3. QED
    BY <2>1, <2>2
<1>8. \A b \in 0 .. N : buf[b] = EmptyBuffer
  BY DEF Init
<1>9. EmptyBuffer \in Buffers
  BY DEF EmptyBuffer, Buffers, Banks, BankStates
<1>10. buf \in [0 .. N -> Buffers]
  BY <1>8, <1>9 DEF Init
<1>11. ASSUME NEW b \in 0 .. N PROVE Linked(b)
  <2>1. /\ PulsesAt(b).ws = FALSE /\ PulsesAt(b).wd = FALSE
        /\ PulsesAt(b).rs = FALSE /\ PulsesAt(b).rd = FALSE
    BY <1>2, <1>4, <1>6, Sizes DEF PulsesAt
  <2>2. ~WriterOn(b) /\ ~ReaderOn(b) /\ TilesIn(b) = 0 /\ TilesOut(b) = 0
    BY <1>2, <1>4, <1>6, Sizes DEF WriterOn, ReaderOn, TilesIn, TilesOut
  <2>3. /\ buf[b].wp = 0 /\ buf[b].rp = 0
        /\ buf[b].st[0] = "free" /\ buf[b].st[1] = "free"
    BY <1>8 DEF EmptyBuffer, Banks
  <2>4. Shape(buf[b]) /\ Used(buf[b]) = 0
    BY <2>3 DEF Shape, Used
  <2>5. QED
    BY <2>1, <2>2, <2>3, <2>4 DEF Linked, Link, Oldest
<1>12. QED
  BY <1>3, <1>5, <1>7, <1>10, <1>11 DEF ControlInv

LEMMA ControlStep ==
  ASSUME ControlInv, Clock
  PROVE  ControlInv'
<1>1. FeedTyped' /\ FeedInv'
  BY FeedStep
<1>2. HeadTyped' /\ HeadInv' /\ results' \in Nat
  BY HeadStep
<1>3. \A l \in 1 .. N : LayerTyped(l)' /\ LayerInv(l)'
  BY LayerTypedStep, LayerStep
<1>4. StagesTyped'
  BY <1>1, <1>2, <1>3 DEF StagesTyped
<1>5. StagesTyped' => SidesTyped'
  BY BufferSides, PTL
<1>6. SidesTyped'
  BY <1>4, <1>5
<1>7. \A b \in 0 .. N : Linked(b)'
  BY <1>6, LinkedStep
<1>8. buf' \in [0 .. N -> Buffers]
  <2>1. SidesTyped
    BY BufferSides DEF ControlInv, StagesTyped
  <2>2. \A b \in 0 .. N : buf[b] \in Buffers /\ PulsesAt(b).tag \in Tiles \cup {NoTile}
    BY <2>1 DEF SidesTyped, ControlInv
  <2>3. \A b \in 0 .. N : BufferNext(buf[b], PulsesAt(b)) \in Buffers
    BY <2>2, BufferTyped
  <2>4. buf' = [b \in 0 .. N |-> BufferNext(buf[b], PulsesAt(b))]
    BY DEF Clock
  <2>5. QED
    BY <2>3, <2>4
<1>9. QED
  BY <1>1, <1>2, <1>3, <1>7, <1>8 DEF ControlInv

(* A clock that does not come changes nothing. *)
LEMMA ControlStutter ==
  ASSUME ControlInv, UNCHANGED vars
  PROVE  ControlInv'
<1>1. /\ feed' = feed /\ layer' = layer /\ head' = head /\ buf' = buf /\ results' = results
  BY DEF vars
<1>2. /\ FeedTyped' <=> FeedTyped
      /\ HeadTyped' <=> HeadTyped
      /\ FeedInv' <=> FeedInv
      /\ HeadInv' <=> HeadInv
  BY <1>1 DEF FeedTyped, HeadTyped, FeedInv, HeadInv
<1>3. \A l \in 1 .. N : (LayerTyped(l)' <=> LayerTyped(l)) /\ (LayerInv(l)' <=> LayerInv(l))
  BY <1>1 DEF LayerTyped, LayerInv
<1>4. \A b \in 0 .. N : Linked(b)' <=> Linked(b)
  BY <1>1 DEF Linked, PulsesAt, WriterOn, ReaderOn, TilesIn, TilesOut
<1>5. QED
  BY <1>1, <1>2, <1>3, <1>4 DEF ControlInv

LEMMA ControlAlways == Spec => []ControlInv
<1>1. ControlInv /\ [Clock]_vars => ControlInv'
  BY ControlStep, ControlStutter
<1>2. QED
  BY <1>1, ControlInit, PTL DEF Spec

(* Scores come in the order the tiles went in, each tile once: every       *)
(* buffer hands the tiles of its writer to its reader one after the other, *)
(* and no stage takes one it has not been handed (gap_head.sv:108-118,     *)
(* 193-199).                                                               *)
THEOREM ScoresInOrder == Spec => []ResultsInOrder
<1>1. ControlInv => ResultsInOrder
  BY DEF ControlInv, HeadInv, ResultsInOrder, Delivers
<1>2. QED
  BY <1>1, ControlAlways, PTL

-----------------------------------------------------------------------------
(* The pipe behind a layer *)

(* At most one word leaves in a clock, and it is the first of those on     *)
(* their way.                                                              *)
LEMMA FirstLands ==
  ASSUME NEW F, NEW t, NEW m \in Nat, NEW k \in Nat, NEW d \in Nat, InFlight(F, t, m, k, d),
         NEW w \in F, w.left = 0
  PROVE  /\ w.pix = m /\ m < k
         /\ w = [tile |-> t, pix |-> m, left |-> 0]
         /\ {v \in F : v.left = 0} = {w}
<1>1. w.pix \in m .. k - 1 /\ w = [tile |-> t, pix |-> w.pix, left |-> w.left]
  BY DEF InFlight
<1>2. PICK v \in F : v.pix = m
  BY <1>1 DEF InFlight
<1>3. v.left \in 0 .. d
  BY DEF InFlight
<1>4. v.pix < w.pix => v.left < w.left
  BY DEF InFlight
<1>5. w.pix = m
  BY <1>1, <1>2, <1>3, <1>4
<1>6. ASSUME NEW u \in F, u.left = 0 PROVE u = w
  <2>1. u.pix \in m .. k - 1
    BY DEF InFlight
  <2>2. ~(w.pix < u.pix)
    BY <1>6, <2>1 DEF InFlight
  <2>3. u.pix = w.pix
    BY <1>1, <1>5, <2>1, <2>2
  <2>4. QED
    BY <2>3 DEF InFlight
<1>7. QED
  BY <1>1, <1>5, <1>6

(* The words that stay, each one step further. *)
LEMMA FlightStep ==
  ASSUME NEW F, NEW t, NEW m \in Nat, NEW k \in Nat, NEW d \in Nat, m <= k,
         InFlight(F, t, m, k, d), NEW last \in BOOLEAN
  PROVE  LET L == {w \in F : w.left = 0}
             G == {[w EXCEPT !.left = @ - 1] : w \in F \ L}
                  \cup IF last THEN {[tile |-> t, pix |-> k, left |-> d]} ELSE {}
         IN  InFlight(G, t, IF L = {} THEN m ELSE m + 1, IF last THEN k + 1 ELSE k, d)
<1> DEFINE L == {w \in F : w.left = 0}
           S == {[w EXCEPT !.left = @ - 1] : w \in F \ L}
           E == IF last THEN {[tile |-> t, pix |-> k, left |-> d]} ELSE {}
           n == IF L = {} THEN m ELSE m + 1
           j == IF last THEN k + 1 ELSE k
<1>1. \A w \in F : /\ w = [tile |-> t, pix |-> w.pix, left |-> w.left]
                   /\ w.pix \in m .. k - 1 /\ w.left \in 0 .. d
  BY DEF InFlight
<1>2. \A w \in F \ L : w.left - 1 \in 0 .. d - 1 /\ w.left \in Int
  <2>1. \A w \in F \ L : w.left # 0 /\ w.left \in 0 .. d
    BY <1>1
  <2>2. QED
    BY <2>1
<1>3. \A w \in F \ L : [w EXCEPT !.left = @ - 1] = [tile |-> t, pix |-> w.pix, left |-> w.left - 1]
  <2>1. SUFFICES ASSUME NEW w \in F \ L
                 PROVE  [w EXCEPT !.left = @ - 1] = [tile |-> t, pix |-> w.pix, left |-> w.left - 1]
    OBVIOUS
  <2>2. w = [tile |-> t, pix |-> w.pix, left |-> w.left]
    BY <1>1
  <2> DEFINE a == w.pix
             c == w.left
  <2>3. w = [tile |-> t, pix |-> a, left |-> c]
    BY <2>2
  <2> HIDE DEF a, c
  <2>4. [w EXCEPT !.left = @ - 1] = [tile |-> t, pix |-> a, left |-> c - 1]
    BY <2>3
  <2>5. QED
    BY <2>4 DEF a, c
<1>4. \A v \in S : \E w \in F \ L : v = [tile |-> t, pix |-> w.pix, left |-> w.left - 1]
  BY <1>3
<1>5. \A w \in F \ L : [tile |-> t, pix |-> w.pix, left |-> w.left - 1] \in S
  BY <1>3
<1>6. \A w \in F \ L : w.pix \in n .. k - 1
  <2>1. CASE L = {}
    BY <1>1, <2>1
  <2>2. CASE L # {}
    <3>1. PICK u \in F : u.left = 0
      BY <2>2
    <3>2. u.pix = m
      BY <3>1, FirstLands
    <3>3. \A w \in F \ L : w.pix # m
      <4>1. \A w \in F : w.pix = u.pix => w = u
        BY DEF InFlight
      <4>2. QED
        BY <3>1, <3>2, <4>1
    <3>4. QED
      BY <1>1, <2>2, <3>3
  <2>3. QED
    BY <2>1, <2>2
<1>7. \A p \in n .. k - 1 : \E w \in F \ L : w.pix = p
  <2>1. SUFFICES ASSUME NEW p \in n .. k - 1 PROVE \E w \in F \ L : w.pix = p
    OBVIOUS
  <2>2. p \in m .. k - 1 /\ (L # {} => p # m)
    OBVIOUS
  <2>3. PICK w \in F : w.pix = p
    BY <2>2 DEF InFlight
  <2>4. w \notin L
    BY <2>2, <2>3, FirstLands
  <2>5. QED
    BY <2>3, <2>4
<1>8. n \in Nat /\ n <= j /\ j \in Nat /\ n <= k
  <2>1. L # {} => m < k
    BY FirstLands
  <2>2. QED
    BY <2>1
<1>9. \A v, w \in F \ L : v.pix < w.pix => v.left < w.left
  BY DEF InFlight
<1>10. \A v, w \in F \ L : v.pix = w.pix => v = w
  BY DEF InFlight
<1> HIDE DEF L, S, n
<1>11. \A v \in S : /\ v = [tile |-> t, pix |-> v.pix, left |-> v.left]
                    /\ v.pix \in n .. k - 1 /\ v.left \in 0 .. d - 1
  <2>1. SUFFICES ASSUME NEW v \in S
                 PROVE  /\ v = [tile |-> t, pix |-> v.pix, left |-> v.left]
                        /\ v.pix \in n .. k - 1 /\ v.left \in 0 .. d - 1
    OBVIOUS
  <2>2. PICK w \in F \ L : v = [tile |-> t, pix |-> w.pix, left |-> w.left - 1]
    BY <1>4
  <2>3. v.pix = w.pix /\ v.left = w.left - 1
    BY <2>2
  <2>4. QED
    BY <1>2, <1>6, <2>2, <2>3
<1>12. \A p \in n .. k - 1 : \E v \in S : v.pix = p
  BY <1>5, <1>7
<1>13. \A u, v \in S : (u.pix < v.pix => u.left < v.left) /\ (u.pix = v.pix => u = v)
  <2>1. SUFFICES ASSUME NEW u \in S, NEW v \in S
                 PROVE  (u.pix < v.pix => u.left < v.left) /\ (u.pix = v.pix => u = v)
    OBVIOUS
  <2>2. PICK x \in F \ L : u = [tile |-> t, pix |-> x.pix, left |-> x.left - 1]
    BY <1>4
  <2>3. PICK y \in F \ L : v = [tile |-> t, pix |-> y.pix, left |-> y.left - 1]
    BY <1>4
  <2>4. u.pix = x.pix /\ u.left = x.left - 1 /\ v.pix = y.pix /\ v.left = y.left - 1
    BY <2>2, <2>3
  <2>5. x.left \in Int /\ y.left \in Int
    BY <1>2
  <2>6. x.pix < y.pix => x.left < y.left
    BY <1>9
  <2>7. x.pix = y.pix => x = y
    BY <1>10
  <2>8. QED
    BY <2>2, <2>3, <2>4, <2>5, <2>6, <2>7
<1>14. \A v \in E : v.pix = k /\ v.left = d /\ v = [tile |-> t, pix |-> v.pix, left |-> v.left] /\ last
  OBVIOUS
<1>15. last => \E v \in E : v.pix = k
  OBVIOUS
<1>16. \A u, v \in E : u = v
  OBVIOUS
<1> HIDE DEF E
<1> DEFINE G == S \cup E
<1>17. \A v \in G : /\ v = [tile |-> t, pix |-> v.pix, left |-> v.left]
                    /\ v.pix \in n .. j - 1 /\ v.left \in 0 .. d
  <2>1. \A v \in S : v.pix \in n .. j - 1 /\ v.left \in 0 .. d
    BY <1>8, <1>11
  <2>2. \A v \in E : v.pix \in n .. j - 1 /\ v.left \in 0 .. d
    BY <1>8, <1>14
  <2>3. QED
    BY <1>11, <1>14, <2>1, <2>2
<1>18. \A p \in n .. j - 1 : \E v \in G : v.pix = p
  <2>1. \A p \in n .. j - 1 : p \in n .. k - 1 \/ (last /\ p = k)
    BY <1>8
  <2>2. QED
    BY <1>12, <1>15, <2>1
<1>19. \A u, v \in G : u.pix < v.pix => u.left < v.left
  <2>1. \A u \in S, v \in E : u.left < v.left
    BY <1>11, <1>14
  <2>2. \A u \in E, v \in G : ~(u.pix < v.pix)
    <3>1. \A u \in E, v \in S : ~(u.pix < v.pix)
      BY <1>8, <1>11, <1>14
    <3>2. \A u, v \in E : ~(u.pix < v.pix)
      BY <1>14
    <3>3. QED
      BY <3>1, <3>2
  <2>3. QED
    BY <1>13, <2>1, <2>2
<1>20. \A u, v \in G : u.pix = v.pix => u = v
  <2>1. \A u \in S, v \in E : u.pix # v.pix
    BY <1>8, <1>11, <1>14
  <2>2. QED
    BY <1>13, <1>16, <2>1
<1>21. InFlight(G, t, n, j, d)
  BY <1>17, <1>18, <1>19, <1>20 DEF InFlight
<1>22. QED
  BY <1>21 DEF G, E, S, L, n

-----------------------------------------------------------------------------
(* The data: the bank a stage writes, and what is in it *)

DataInv ==
  /\ FeedPipe
  /\ \A l \in 1 .. N : LayerPipe(l)
  /\ \A b \in 0 .. N : MemInv(b)

\* A stage that writes has a bank of its own tile open, and writes one word.
OwnWord(b) ==
  \A w \in Writes(b) :
    /\ Writes(b) = {w}
    /\ buf[b].st[buf[b].wp] = "writing"
    /\ buf[b].tag[buf[b].wp] = w.tile
    /\ w.tile = TilesIn(b)
    /\ ~PulsesAt(b).ws /\ ~PulsesAt(b).wd

(* The bank a writer has open is of the last tile it asked a bank for.     *)
LEMMA OpenBank ==
  ASSUME NEW B \in Buffers, NEW p, NEW open, NEW using, NEW in \in Int, NEW out \in Int,
         open \in BOOLEAN, using \in BOOLEAN, p.ws \in BOOLEAN,
         Link(B, p, open, using, in, out), open, ~p.ws
  PROVE  B.st[B.wp] = "writing" /\ B.tag[B.wp] = in
<1>1. B.st[B.wp] = "writing"
  BY DEF Link
<1>2. B.wp \in Banks /\ B.rp \in Banks /\ (B.wp # B.rp => B.wp = 1 - B.rp)
  BY DEF Buffers, Banks
<1>3. /\ B.st[B.rp] # "free" => B.tag[B.rp] = Oldest(using, out)
      /\ B.st[1 - B.rp] # "free" => B.tag[1 - B.rp] = Oldest(using, out) + 1
      /\ in + 1 = Oldest(using, out) + Used(B) + 0
      /\ Shape(B)
  BY DEF Link
<1>4. Oldest(using, out) \in Int
  BY DEF Oldest
<1>5. CASE B.wp = B.rp
  <2>1. Used(B) = 1
    BY <1>1, <1>3, <1>5 DEF Shape, Used
  <2>2. QED
    BY <1>1, <1>3, <1>4, <1>5, <2>1
<1>6. CASE B.wp = 1 - B.rp /\ B.wp # B.rp
  <2>1. Used(B) = 2
    BY <1>1, <1>3, <1>6 DEF Shape, Used
  <2>2. QED
    BY <1>1, <1>3, <1>4, <1>6, <2>1
<1>7. QED
  BY <1>2, <1>5, <1>6

LEMMA OpenBankOf ==
  ASSUME ControlInv, NEW b \in 0 .. N, WriterOn(b), ~PulsesAt(b).ws
  PROVE  buf[b].st[buf[b].wp] = "writing" /\ buf[b].tag[buf[b].wp] = TilesIn(b)
<1>1. SidesTyped
  BY BufferSides DEF ControlInv, StagesTyped
<1>2. /\ TilesIn(b) \in Int /\ TilesOut(b) \in Int
      /\ WriterOn(b) \in BOOLEAN /\ ReaderOn(b) \in BOOLEAN /\ PulsesAt(b).ws \in BOOLEAN
  BY <1>1, Sizes DEF SidesTyped
<1>3. buf[b] \in Buffers /\ Link(buf[b], PulsesAt(b), WriterOn(b), ReaderOn(b), TilesIn(b), TilesOut(b))
  BY DEF ControlInv, Linked
<1> DEFINE P == PulsesAt(b)
           W == WriterOn(b)
           R == ReaderOn(b)
           I == TilesIn(b)
           O == TilesOut(b)
           D == buf[b]
<1>4. /\ D \in Buffers /\ Link(D, P, W, R, I, O) /\ W /\ ~P.ws
      /\ P.ws \in BOOLEAN /\ W \in BOOLEAN /\ R \in BOOLEAN /\ I \in Int /\ O \in Int
  BY <1>2, <1>3
<1> HIDE DEF P, W, R, I, O, D
<1>5. D.st[D.wp] = "writing" /\ D.tag[D.wp] = I
  BY <1>4, OpenBank
<1>6. QED
  BY <1>5 DEF I, D

LEMMA FeederWord ==
  ASSUME ControlInv, FeedPipe
  PROVE  OwnWord(0)
<1>1. SUFFICES ASSUME NEW w \in feed.en
               PROVE  /\ feed.en = {w}
                      /\ buf[0].st[buf[0].wp] = "writing"
                      /\ buf[0].tag[buf[0].wp] = w.tile
                      /\ w.tile = TilesIn(0)
                      /\ ~PulsesAt(0).ws /\ ~PulsesAt(0).wd
  BY DEF OwnWord, Writes
<1>2. FeedInv /\ FeedTyped
  BY DEF ControlInv
<1>3. PICK n \in Int : n >= 0 /\ feed.en = {[tile |-> feed.tile, pix |-> n]}
                       /\ feed.st \in {"copy", "flush", "done"}
                       /\ (feed.st = "copy" => feed.n > 0)
  <2>1. feed.n \in Int
    BY <1>2, Sizes DEF FeedTyped
  <2>2. CASE feed.st = "copy"
    <3>1. feed.en = FeedWord(feed.n - 2)
      BY <2>2 DEF FeedPipe
    <3>2. feed.n - 2 >= 0 /\ feed.en = {[tile |-> feed.tile, pix |-> feed.n - 2]}
      BY <1>1, <2>1, <3>1 DEF FeedWord
    <3>3. feed.n - 2 \in Int /\ feed.n > 0
      BY <2>1, <3>2
    <3>4. QED
      BY <2>2, <3>2, <3>3
  <2>3. CASE feed.st = "flush"
    <3>1. feed.en = FeedWord(CopyWords - 2)
      BY <2>3 DEF FeedPipe
    <3>2. CopyWords - 2 >= 0 /\ CopyWords - 2 \in Int
      BY Sizes
    <3>3. QED
      BY <2>3, <3>1, <3>2 DEF FeedWord
  <2>4. CASE feed.st = "done"
    <3>1. feed.en = FeedWord(CopyWords - 1)
      BY <2>4 DEF FeedPipe
    <3>2. CopyWords - 1 >= 0 /\ CopyWords - 1 \in Int
      BY Sizes
    <3>3. QED
      BY <2>4, <3>1, <3>2 DEF FeedWord
  <2>5. CASE feed.st \in {"idle", "start", "off"}
    BY <1>1, <2>5 DEF FeedPipe
  <2>6. QED
    BY <1>2, <2>2, <2>3, <2>4, <2>5 DEF FeedTyped
<1>4. w = [tile |-> feed.tile, pix |-> n] /\ w.tile = feed.tile
  BY <1>1, <1>3
<1>5. ~feed.ws /\ ~feed.wd /\ feed.tile = feed.tag
  BY <1>2, <1>3 DEF FeedInv
<1>6. PulsesAt(0).ws = feed.ws /\ PulsesAt(0).wd = feed.wd /\ TilesIn(0) = feed.tag /\ WriterOn(0)
  BY <1>3 DEF PulsesAt, TilesIn, WriterOn
<1>7. buf[0].st[buf[0].wp] = "writing" /\ buf[0].tag[buf[0].wp] = feed.tag
  BY <1>5, <1>6, OpenBankOf, Sizes
<1>8. QED
  BY <1>3, <1>4, <1>5, <1>6, <1>7

(* A layer with words in its pipe has its bank open. *)
LEMMA PipeOpen ==
  ASSUME ControlInv, NEW l \in 1 .. N, Issued(l) > 0
  PROVE  /\ buf[l].st[buf[l].wp] = "writing" /\ buf[l].tag[buf[l].wp] = layer[l].otag
         /\ ~layer[l].ws /\ ~layer[l].wd
         /\ layer[l].wpend \/ layer[l].st = "issue"
<1>1. l \in 0 .. N /\ l # 0 /\ LayerInv(l) /\ LayerTyped(l)
  BY Sizes DEF ControlInv
<1>2. layer[l].wpend \/ (layer[l].st = "issue" /\ layer[l].iidx > 0)
  BY <1>1 DEF Issued
<1>3. ~layer[l].ws
  BY <1>1, <1>2 DEF LayerInv, LayerTyped
<1>4. ~layer[l].wd
  BY <1>1, <1>2 DEF LayerInv
<1>5. WriterOn(l) /\ TilesIn(l) = layer[l].otag /\ PulsesAt(l).ws = layer[l].ws
  BY <1>1, <1>2 DEF WriterOn, TilesIn, PulsesAt
<1>6. QED
  BY <1>1, <1>2, <1>3, <1>4, <1>5, OpenBankOf

LEMMA IssuedTyped ==
  ASSUME ControlInv, NEW l \in 1 .. N
  PROVE  Issued(l) \in Nat
<1>1. layer[l].iidx \in Nat /\ Pixels[l] \in Nat
  <2>1. LayerTyped(l)
    BY DEF ControlInv
  <2>2. layer[l].iidx \in 0 .. Pixels[l] - 1
    BY <2>1 DEF LayerTyped
  <2>3. QED
    BY <2>2, Sizes
<1>2. QED
  BY <1>1 DEF Issued

LEMMA LayerWord ==
  ASSUME ControlInv, NEW l \in 1 .. N, LayerPipe(l)
  PROVE  OwnWord(l)
<1>1. l # 0 /\ Writes(l) = Landing(l) /\ PulsesAt(l).ws = layer[l].ws /\ PulsesAt(l).wd = layer[l].wd
      /\ TilesIn(l) = layer[l].otag
  BY DEF Writes, PulsesAt, TilesIn
<1>2. SUFFICES ASSUME NEW w \in Landing(l)
               PROVE  /\ Landing(l) = {w}
                      /\ buf[l].st[buf[l].wp] = "writing"
                      /\ buf[l].tag[buf[l].wp] = w.tile
                      /\ w.tile = layer[l].otag
                      /\ ~layer[l].ws /\ ~layer[l].wd
  BY <1>1 DEF OwnWord
<1>3. PICK m \in Nat : InFlight(layer[l].flight, layer[l].otag, m, Issued(l), PipeDelay(l))
  BY DEF LayerPipe, Stored
<1>4. w \in layer[l].flight /\ w.left = 0
  BY DEF Landing
<1>5. Issued(l) \in Nat /\ PipeDelay(l) \in Nat
  BY IssuedTyped, Sizes
<1>6. /\ m < Issued(l)
      /\ w = [tile |-> layer[l].otag, pix |-> m, left |-> 0]
      /\ {v \in layer[l].flight : v.left = 0} = {w}
  BY <1>3, <1>4, <1>5, FirstLands
<1>7. Issued(l) > 0
  BY <1>5, <1>6
<1>8. QED
  BY <1>6, <1>7, PipeOpen DEF Landing

LEMMA OwnWords ==
  ASSUME ControlInv, DataInv, NEW b \in 0 .. N
  PROVE  OwnWord(b)
<1>1. b = 0 \/ b \in 1 .. N
  BY Sizes
<1>2. QED
  BY <1>1, FeederWord, LayerWord DEF DataInv

(* What a clock does to the banks of a buffer. *)
LEMMA MemStep ==
  ASSUME ControlInv, DataInv, Clock, NEW b \in 0 .. N
  PROVE  /\ \A k \in Banks : (k # buf[b].wp \/ Writes(b) = {}) => mem'[b][k] = mem[b][k]
         /\ \A w \in Writes(b) : mem'[b][buf[b].wp] = Written(w, mem[b][buf[b].wp])
<1>1. mem'[b] = MemNext(b)
  BY DEF Clock
<1>2. buf[b].wp \in Banks
  BY DEF ControlInv, Buffers
<1>3. \A k \in Banks : (k # buf[b].wp \/ Writes(b) = {}) => mem'[b][k] = mem[b][k]
  BY <1>1 DEF MemNext
<1>4. ASSUME NEW w \in Writes(b) PROVE mem'[b][buf[b].wp] = Written(w, mem[b][buf[b].wp])
  <2>1. Writes(b) = {w}
    BY OwnWords DEF OwnWord
  <2>2. (CHOOSE v \in Writes(b) : TRUE) = w
    BY <2>1
  <2>3. mem'[b][buf[b].wp] = Written(CHOOSE v \in Writes(b) : TRUE, mem[b][buf[b].wp])
    BY <1>1, <1>2, <2>1 DEF MemNext
  <2>4. QED
    BY <2>2, <2>3
<1>5. QED
  BY <1>3, <1>4

(* The bank under the write port changes only with the pulses. *)
LEMMA PointerStep ==
  ASSUME ControlInv, Clock, NEW b \in 0 .. N
  PROVE  /\ buf'[b].wp = IF PulsesAt(b).wd THEN 1 - buf[b].wp ELSE buf[b].wp
         /\ buf[b].wp \in Banks /\ buf[b].rp \in Banks
         /\ \A k \in Banks : buf'[b].tag[k] = IF k = buf[b].wp /\ PulsesAt(b).ws
                                               THEN PulsesAt(b).tag ELSE buf[b].tag[k]
         /\ \A k \in Banks : buf'[b].st[k] \in {"full", "reading"} =>
              \/ buf[b].st[k] \in {"full", "reading"}
              \/ k = buf[b].wp /\ PulsesAt(b).wd
         /\ PulsesAt(b).ws => buf[b].st[buf[b].wp] = "free"
<1>1. /\ buf[b] \in Buffers /\ buf'[b] = BufferNext(buf[b], PulsesAt(b))
      /\ Link(buf[b], PulsesAt(b), WriterOn(b), ReaderOn(b), TilesIn(b), TilesOut(b))
  BY DEF ControlInv, Clock, Linked
<1>2. /\ \A k \in Banks : buf'[b].st[k] = BankNext(buf[b], PulsesAt(b), k)
      /\ \A k \in Banks : buf'[b].tag[k] = IF k = buf[b].wp /\ Opens(buf[b], PulsesAt(b))
                                            THEN PulsesAt(b).tag ELSE buf[b].tag[k]
      /\ buf'[b].wp = IF Commits(buf[b], PulsesAt(b)) THEN 1 - buf[b].wp ELSE buf[b].wp
  BY <1>1, BankChanges
<1>3. /\ Opens(buf[b], PulsesAt(b)) <=> PulsesAt(b).ws
      /\ Commits(buf[b], PulsesAt(b)) <=> PulsesAt(b).wd
      /\ Acquires(buf[b], PulsesAt(b)) <=> PulsesAt(b).rs
      /\ Releases(buf[b], PulsesAt(b)) <=> PulsesAt(b).rd
  BY <1>1, PulsesHonoured
<1>4. PulsesAt(b).rs => buf[b].st[buf[b].rp] = "full"
  BY <1>1 DEF Link
<1>5. ASSUME NEW k \in Banks, buf'[b].st[k] \in {"full", "reading"}
      PROVE  \/ buf[b].st[k] \in {"full", "reading"}
             \/ k = buf[b].wp /\ PulsesAt(b).wd
  BY <1>2, <1>3, <1>4, <1>5 DEF BankNext
<1>6. QED
  BY <1>1, <1>2, <1>3, <1>5 DEF Link, Buffers

(* Written puts the next word of a tile behind those that are there. *)
LEMMA WordAppended ==
  ASSUME NEW t, NEW n \in Nat, NEW c, n > 0 => c = Word(t, n)
  PROVE  Written([tile |-> t, pix |-> n], c) = Word(t, n + 1)
<1>1. CASE n = 0
  BY <1>1 DEF Written, Word
<1>2. CASE n > 0
  <2>1. c = [tile |-> t, n |-> n]
    BY <1>2 DEF Word
  <2>2. [c EXCEPT !.n = @ + 1] = [tile |-> t, n |-> n + 1]
    BY <2>1
  <2>3. QED
    BY <1>2, <2>1, <2>2 DEF Written, Word
<1>3. QED
  BY <1>1, <1>2

LEMMA LandedAppended ==
  ASSUME NEW t, NEW n \in Nat, NEW c, n > 0 => c = Word(t, n)
  PROVE  Written([tile |-> t, pix |-> n, left |-> 0], c) = Word(t, n + 1)
<1>1. Written([tile |-> t, pix |-> n], c) = Word(t, n + 1)
  BY WordAppended
<1>2. Written([tile |-> t, pix |-> n, left |-> 0], c) = Written([tile |-> t, pix |-> n], c)
  BY DEF Written
<1>3. QED
  BY <1>1, <1>2

(* The words the feeder has on its way, in each state. *)
LEMMA FeedStage ==
  ASSUME ControlInv, FeedPipe
  PROVE  /\ feed.st = "copy" => /\ feed.valid = FeedWord(feed.n - 1)
                                /\ feed.en = FeedWord(feed.n - 2)
                                /\ FeedStored = feed.n - 2
         /\ feed.st = "flush" => /\ feed.valid = FeedWord(CopyWords - 1)
                                 /\ feed.en = FeedWord(CopyWords - 2)
                                 /\ FeedStored = CopyWords - 2
         /\ feed.st = "done" => /\ feed.valid = {}
                                /\ feed.en = FeedWord(CopyWords - 1)
                                /\ FeedStored = CopyWords - 1
         /\ feed.st \in {"idle", "start", "off"} => feed.valid = {} /\ feed.en = {} /\ FeedStored = 0
         /\ FeedStored \in Int
         /\ feed.st \in {"copy", "flush", "done"} => feed.tile = feed.tag
<1>1. FeedTyped /\ FeedInv
  BY DEF ControlInv
<1>2. feed.n \in Int /\ CopyWords \in Int
  BY <1>1, Sizes DEF FeedTyped
<1>3. FeedStored \in Int
  BY <1>1, <1>2 DEF FeedStored, FeedTyped
<1>4. feed.st \in {"copy", "flush", "done"} => feed.tile = feed.tag
  BY <1>1 DEF FeedInv
<1>5. feed.st = "copy" => /\ feed.valid = FeedWord(feed.n - 1)
                          /\ feed.en = FeedWord(feed.n - 2)
                          /\ FeedStored = feed.n - 2
  BY DEF FeedPipe, FeedStored
<1>6. feed.st = "flush" => /\ feed.valid = FeedWord(CopyWords - 1)
                           /\ feed.en = FeedWord(CopyWords - 2)
                           /\ FeedStored = CopyWords - 2
  BY DEF FeedPipe, FeedStored
<1>7. feed.st = "done" => /\ feed.valid = {}
                          /\ feed.en = FeedWord(CopyWords - 1)
                          /\ FeedStored = CopyWords - 1
  BY DEF FeedPipe, FeedStored
<1>8. feed.st \in {"idle", "start", "off"} => feed.valid = {} /\ feed.en = {} /\ FeedStored = 0
  BY DEF FeedPipe, FeedStored
<1>9. QED
  BY <1>3, <1>4, <1>5, <1>6, <1>7, <1>8

(* The feeder's next word goes behind those of its tile. *)
LEMMA FeederStores ==
  ASSUME ControlInv, DataInv, Clock, feed.st \in {"copy", "flush", "done"}, FeedStored >= 0
  PROVE  mem'[0][buf'[0].wp] = Word(feed.tag, FeedStored + 1)
<1>1. FeedPipe /\ 0 \in 0 .. N
  BY Sizes DEF DataInv
<1>2. feed.en = FeedWord(FeedStored) /\ FeedStored \in Nat /\ feed.tile = feed.tag
  BY <1>1, FeedStage
<1>3. feed.en = {[tile |-> feed.tag, pix |-> FeedStored]}
  BY <1>2 DEF FeedWord
<1>4. Writes(0) = {[tile |-> feed.tag, pix |-> FeedStored]}
  BY <1>3 DEF Writes
<1>5. ~PulsesAt(0).wd
  BY <1>1, <1>4, OwnWords DEF OwnWord
<1>6. buf'[0].wp = buf[0].wp
  BY <1>1, <1>5, PointerStep
<1>7. mem'[0][buf[0].wp] = Written([tile |-> feed.tag, pix |-> FeedStored], mem[0][buf[0].wp])
  BY <1>1, <1>4, MemStep
<1>8. FeedStored > 0 => mem[0][buf[0].wp] = Word(feed.tag, FeedStored)
  BY <1>1 DEF FeedPipe
<1>9. QED
  BY <1>2, <1>6, <1>7, <1>8, WordAppended

LEMMA FeedPipeStep ==
  ASSUME ControlInv, DataInv, Clock
  PROVE  FeedPipe'
<1>1. FeedPipe /\ FeedTyped /\ FeedInv
  BY DEF DataInv, ControlInv
<1>2. /\ feed'.valid = IF feed.st = "copy" THEN {[tile |-> feed.tile, pix |-> feed.n]} ELSE {}
      /\ feed'.en = feed.valid
  BY DEF Clock, FeedNext
<1>3. feed.n \in Nat /\ feed.n <= CopyWords - 1 /\ CopyWords \in Nat /\ CopyWords > 1
  BY <1>1, Sizes DEF FeedTyped
<1>4. Opening => feed.st = "start"
  BY DEF Opening
<1>5. CASE feed.st = "copy" /\ ~CopyEnds
  <2>1. /\ feed'.st = "copy" /\ feed'.n = feed.n + 1 /\ feed'.tile = feed.tile /\ feed'.tag = feed.tag
    BY <1>4, <1>5, FeedControl
  <2>2. feed'.valid = {[tile |-> feed.tile, pix |-> feed.n]} /\ feed'.en = FeedWord(feed.n - 1)
    BY <1>1, <1>2, <1>5, FeedStage
  <2>3. feed'.n - 1 = feed.n /\ feed'.n - 2 = feed.n - 1
    BY <1>3, <2>1
  <2>4. FeedWord(feed.n - 1) = IF feed.n - 1 < 0 THEN {} ELSE {[tile |-> feed.tile, pix |-> feed.n - 1]}
    BY DEF FeedWord
  <2>5. feed'.valid = (IF feed'.n - 1 < 0 THEN {} ELSE {[tile |-> feed'.tile, pix |-> feed'.n - 1]})
    BY <1>3, <2>1, <2>2, <2>3
  <2>6. feed'.en = (IF feed'.n - 2 < 0 THEN {} ELSE {[tile |-> feed'.tile, pix |-> feed'.n - 2]})
    BY <2>1, <2>2, <2>3, <2>4
  <2>7. FeedStored = feed.n - 2 /\ FeedStored' = feed.n - 1
    BY <1>5, <2>1, <2>3 DEF FeedStored
  <2>8. FeedStored' > 0 => mem'[0][buf'[0].wp] = Word(feed'.tag, FeedStored')
    <3>1. FeedStored + 1 = FeedStored' /\ (FeedStored' > 0 => FeedStored >= 0)
      BY <1>3, <2>7
    <3>2. QED
      BY <1>5, <2>1, <3>1, FeederStores
  <2>9. QED
    BY <2>1, <2>5, <2>6, <2>8 DEF FeedPipe, FeedWord
<1>6. CASE feed.st = "copy" /\ CopyEnds
  <2>1. /\ feed'.st = "flush" /\ feed'.tile = feed.tile /\ feed'.tag = feed.tag
        /\ feed.n = CopyWords - 1
    BY <1>4, <1>6, FeedControl DEF CopyEnds
  <2>2. feed'.valid = {[tile |-> feed.tile, pix |-> feed.n]} /\ feed'.en = FeedWord(feed.n - 1)
    BY <1>1, <1>2, <1>6, FeedStage
  <2>3. feed.n - 1 = CopyWords - 2
    BY <1>3, <2>1
  <2>4. feed'.valid = (IF CopyWords - 1 < 0 THEN {} ELSE {[tile |-> feed'.tile, pix |-> CopyWords - 1]})
    BY <1>3, <2>1, <2>2
  <2>5. feed'.en = (IF CopyWords - 2 < 0 THEN {} ELSE {[tile |-> feed'.tile, pix |-> CopyWords - 2]})
    BY <2>1, <2>2, <2>3 DEF FeedWord
  <2>6. FeedStored = feed.n - 2 /\ FeedStored' = CopyWords - 2
    BY <1>6, <2>1 DEF FeedStored
  <2>7. FeedStored' > 0 => mem'[0][buf'[0].wp] = Word(feed'.tag, FeedStored')
    <3>1. FeedStored + 1 = FeedStored' /\ (FeedStored' > 0 => FeedStored >= 0)
      BY <1>3, <2>1, <2>6
    <3>2. QED
      BY <1>6, <2>1, <3>1, FeederStores
  <2>8. QED
    BY <2>1, <2>4, <2>5, <2>7 DEF FeedPipe, FeedWord
<1>7. CASE feed.st = "flush"
  <2>1. feed'.st = "done" /\ feed'.tile = feed.tile /\ feed'.tag = feed.tag
    BY <1>4, <1>7, FeedControl
  <2>2. feed'.valid = {} /\ feed'.en = FeedWord(CopyWords - 1)
    BY <1>1, <1>2, <1>7, FeedStage
  <2>3. feed'.en = (IF CopyWords - 1 < 0 THEN {} ELSE {[tile |-> feed'.tile, pix |-> CopyWords - 1]})
    BY <2>1, <2>2 DEF FeedWord
  <2>4. FeedStored = CopyWords - 2 /\ FeedStored' = CopyWords - 1
    BY <1>7, <2>1 DEF FeedStored
  <2>5. mem'[0][buf'[0].wp] = Word(feed'.tag, FeedStored')
    <3>1. FeedStored + 1 = FeedStored' /\ FeedStored >= 0
      BY <1>3, <2>4
    <3>2. QED
      BY <1>7, <2>1, <3>1, FeederStores
  <2>6. QED
    BY <2>1, <2>2, <2>3, <2>5 DEF FeedPipe, FeedWord
<1>8. CASE feed.st \in {"idle", "start", "off", "done"}
  <2>1. feed'.valid = {} /\ feed'.en = {}
    BY <1>1, <1>2, <1>8, FeedStage
  <2>2. CASE Opening
    <3>1. feed'.st = "copy" /\ feed'.n = 0
      BY <2>2, FeedControl
    <3>2. FeedStored' = -2
      BY <3>1 DEF FeedStored
    <3>3. FeedWord(feed.n - 1)' = {} /\ FeedWord(feed.n - 2)' = {}
      BY <3>1 DEF FeedWord
    <3>4. QED
      BY <2>1, <3>1, <3>2, <3>3 DEF FeedPipe
  <2>3. CASE ~Opening
    <3>1. feed'.st \in {"idle", "start", "off"}
      BY <1>8, <2>3, FeedControl
    <3>2. FeedStored' = 0
      BY <3>1 DEF FeedStored
    <3>3. QED
      BY <2>1, <3>1, <3>2 DEF FeedPipe
  <2>4. QED
    BY <2>2, <2>3
<1>9. QED
  BY <1>1, <1>5, <1>6, <1>7, <1>8 DEF FeedTyped

-----------------------------------------------------------------------------
(* The pipe of a layer and its bank *)

LEMMA IssuedStep ==
  ASSUME ControlInv, Clock, NEW l \in 1 .. N
  PROVE  Issued(l)' = IF Committed(l) THEN 0 ELSE IF LastOp(l) THEN Issued(l) + 1 ELSE Issued(l)
<1>1. LayerInv(l) /\ LayerTyped(l)
  BY DEF ControlInv
<1>2. layer[l].iidx \in 0 .. Pixels[l] - 1 /\ Pixels[l] \in Nat
  BY <1>1, Sizes DEF LayerTyped
<1>3. layer'[l].st = "issue" <=> GetsBank(l) \/ (layer[l].st = "issue" /\ ~TileIssued(l))
  BY <1>1, LayerControl, LayerCases DEF LayerTyped
<1>4. layer'[l].wpend <=> ~Committed(l) /\ (TileIssued(l) \/ layer[l].wpend)
  BY LayerTiles
<1>5. layer[l].wpend => layer[l].st # "issue" /\ ~GetsBank(l)
  BY <1>1, GetsFree DEF LayerInv
<1>6. CASE Committed(l)
  <2>1. layer[l].wpend
    BY <1>6, LayerCases
  <2>2. layer'[l].st # "issue" /\ ~layer'[l].wpend
    BY <1>3, <1>4, <1>5, <1>6, <2>1
  <2>3. QED
    BY <1>6, <2>2 DEF Issued
<1>7. CASE ~Committed(l) /\ layer[l].wpend
  <2>1. layer'[l].wpend /\ ~LastOp(l)
    BY <1>4, <1>5, <1>7, LayerCases
  <2>2. QED
    BY <1>7, <2>1 DEF Issued
<1>8. CASE ~layer[l].wpend /\ TileIssued(l)
  <2>1. layer'[l].wpend /\ LastOp(l) /\ layer[l].st = "issue" /\ ~Committed(l)
    BY <1>4, <1>8, LayerCases
  <2>2. layer[l].iidx = Pixels[l] - 1
    BY <1>8 DEF TileIssued, LastPixel
  <2>3. QED
    BY <1>2, <1>8, <2>1, <2>2 DEF Issued
<1>9. CASE ~layer[l].wpend /\ ~TileIssued(l) /\ layer[l].st = "issue"
  <2>1. layer'[l].st = "issue" /\ ~layer'[l].wpend /\ ~WarmedUp(l) /\ ~Committed(l)
    BY <1>3, <1>4, <1>9, LayerCases
  <2>2. layer'[l].iidx = IF LastOp(l) THEN layer[l].iidx + 1 ELSE layer[l].iidx
    BY <1>9, <2>1, LayerControl, LayerCases
  <2>3. QED
    BY <1>9, <2>1, <2>2 DEF Issued
<1>10. CASE ~layer[l].wpend /\ layer[l].st # "issue"
  <2>1. ~layer'[l].wpend /\ ~Committed(l) /\ ~LastOp(l) /\ ~NextPixel(l)
    BY <1>4, <1>10, LayerCases
  <2>2. layer'[l].st = "issue" => GetsBank(l)
    BY <1>3, <1>10
  <2>3. GetsBank(l) => WarmedUp(l) \/ layer[l].iidx = 0
    BY <1>1, LayerCases DEF LayerInv
  <2>4. GetsBank(l) => layer'[l].iidx = 0
    BY <2>1, <2>3, LayerControl
  <2>5. QED
    BY <1>10, <2>1, <2>2, <2>4 DEF Issued
<1>11. QED
  BY <1>6, <1>7, <1>8, <1>9, <1>10

(* The word that leaves the pipe is stored behind those that are there. *)
LEMMA LayerStores ==
  ASSUME ControlInv, DataInv, Clock, NEW l \in 1 .. N, NEW m \in Nat, Stored(l, m), Landing(l) # {}
  PROVE  /\ Landing(l) = {[tile |-> layer[l].otag, pix |-> m, left |-> 0]}
         /\ m < Issued(l)
         /\ mem'[l][buf'[l].wp] = Word(layer[l].otag, m + 1)
<1>1. l \in 0 .. N /\ l # 0
  BY Sizes
<1>2. PICK w \in layer[l].flight : w.left = 0
  BY DEF Landing
<1>3. Issued(l) \in Nat /\ PipeDelay(l) \in Nat
  BY IssuedTyped, Sizes
<1>4. /\ m < Issued(l)
      /\ w = [tile |-> layer[l].otag, pix |-> m, left |-> 0]
      /\ {v \in layer[l].flight : v.left = 0} = {w}
  BY <1>2, <1>3, FirstLands DEF Stored
<1>5. Landing(l) = {[tile |-> layer[l].otag, pix |-> m, left |-> 0]}
  BY <1>4 DEF Landing
<1>6. Writes(l) = {[tile |-> layer[l].otag, pix |-> m, left |-> 0]}
  BY <1>1, <1>5 DEF Writes
<1>7. ~PulsesAt(l).wd
  BY <1>1, <1>6, OwnWords DEF OwnWord
<1>8. buf'[l].wp = buf[l].wp
  BY <1>1, <1>7, PointerStep
<1>9. mem'[l][buf[l].wp] = Written([tile |-> layer[l].otag, pix |-> m, left |-> 0], mem[l][buf[l].wp])
  BY <1>1, <1>6, MemStep
<1>10. m > 0 => mem[l][buf[l].wp] = Word(layer[l].otag, m)
  BY DEF Stored
<1>11. QED
  BY <1>4, <1>5, <1>8, <1>9, <1>10, LandedAppended

(* A tile is committed with the word that completes it. *)
LEMMA CommitsWhole ==
  ASSUME ControlInv, DataInv, Clock, NEW l \in 1 .. N, NEW m \in Nat, Stored(l, m)
  PROVE  Committed(l) <=> layer[l].wpend /\ Landing(l) # {} /\ m + 1 = Issued(l)
<1>1. layer[l].wpend => Issued(l) = Pixels[l]
  BY DEF Issued
<1>2. Landing(l) # {} => Landing(l) = {[tile |-> layer[l].otag, pix |-> m, left |-> 0]}
  BY LayerStores
<1>3. Landing(l) # {} => ((\E w \in Landing(l) : w.pix = Pixels[l] - 1) <=> m = Pixels[l] - 1)
  BY <1>2
<1>4. Pixels[l] \in Nat
  BY Sizes
<1>5. QED
  BY <1>1, <1>3, <1>4 DEF Committed

LEMMA LayerPipeStep ==
  ASSUME ControlInv, DataInv, Clock, NEW l \in 1 .. N
  PROVE  LayerPipe(l)'
<1>1. PICK m \in Nat : Stored(l, m)
  BY DEF DataInv, LayerPipe
<1>2. LayerInv(l) /\ LayerTyped(l) /\ l \in 0 .. N /\ l # 0
  BY Sizes DEF ControlInv
<1>3. /\ m <= Issued(l) /\ Issued(l) \in Nat /\ PipeDelay(l) \in Nat
      /\ InFlight(layer[l].flight, layer[l].otag, m, Issued(l), PipeDelay(l))
      /\ m > 0 => mem[l][buf[l].wp] = Word(layer[l].otag, m)
      /\ layer[l].wpend => m < Issued(l)
  BY <1>1, IssuedTyped, Sizes DEF Stored
<1> DEFINE n == IF Landing(l) = {} THEN m ELSE m + 1
           j == IF LastOp(l) THEN Issued(l) + 1 ELSE Issued(l)
<1>4. LastOp(l) => layer[l].otag = layer[l].tile /\ layer[l].iidx = Issued(l)
  BY <1>2, LayerCases DEF LayerInv, Issued
<1>5. layer'[l].flight = {[w EXCEPT !.left = @ - 1] : w \in layer[l].flight \ Landing(l)}
                         \cup IF LastOp(l) THEN {[tile |-> layer[l].otag, pix |-> Issued(l),
                                                  left |-> PipeDelay(l)]} ELSE {}
  BY <1>4, LayerTiles DEF Flying
<1>6. LastOp(l) \in BOOLEAN
  BY DEF LastOp
<1>7. Landing(l) = {w \in layer[l].flight : w.left = 0}
  BY DEF Landing
<1>8. InFlight(layer'[l].flight, layer[l].otag, n, j, PipeDelay(l))
  <2> DEFINE F == layer[l].flight
             T == layer[l].otag
             K == Issued(l)
             D == PipeDelay(l)
             B == LastOp(l)
             L == {w \in F : w.left = 0}
             G == {[w EXCEPT !.left = @ - 1] : w \in F \ L}
                  \cup IF B THEN {[tile |-> T, pix |-> K, left |-> D]} ELSE {}
  <2>1. K \in Nat /\ D \in Nat /\ m <= K /\ InFlight(F, T, m, K, D) /\ B \in BOOLEAN
    BY <1>3, <1>6
  <2>2. Landing(l) = L /\ layer'[l].flight = G
    BY <1>5, <1>7
  <2> HIDE DEF F, T, K, D, B
  <2>3. InFlight(G, T, IF L = {} THEN m ELSE m + 1, IF B THEN K + 1 ELSE K, D)
    BY <2>1, FlightStep
  <2> HIDE DEF L, G
  <2>4. n = (IF L = {} THEN m ELSE m + 1) /\ j = (IF B THEN K + 1 ELSE K)
    BY <2>2 DEF B, K
  <2>5. InFlight(layer'[l].flight, T, n, j, D)
    BY <2>2, <2>3, <2>4
  <2>6. QED
    BY <2>5 DEF T, D
<1>9. n \in Nat /\ j \in Nat /\ n <= j /\ (n > m => m < Issued(l))
  BY <1>1, <1>3, LayerStores
<1>10. n > 0 => mem'[l][buf'[l].wp] = Word(layer[l].otag, n)
  <2>1. CASE Landing(l) # {}
    BY <1>1, <2>1, LayerStores
  <2>2. CASE Landing(l) = {} /\ m > 0
    <3>1. Issued(l) > 0
      BY <1>3, <2>2
    <3>2. ~PulsesAt(l).wd
      BY <1>2, <3>1, PipeOpen DEF PulsesAt
    <3>3. buf'[l].wp = buf[l].wp /\ buf[l].wp \in Banks
      BY <1>2, <3>2, PointerStep
    <3>4. Writes(l) = {}
      BY <1>2, <2>2 DEF Writes
    <3>5. mem'[l][buf[l].wp] = mem[l][buf[l].wp]
      BY <1>2, <3>3, <3>4, MemStep
    <3>6. QED
      BY <1>3, <2>2, <3>3, <3>5
  <2>3. QED
    BY <2>1, <2>2
<1> HIDE DEF n, j
<1>11. CASE Committed(l)
  <2>1. n = j
    <3>1. ~LastOp(l)
      BY <1>2, <1>11, LayerCases DEF LayerInv
    <3>2. Landing(l) # {} /\ m + 1 = Issued(l)
      BY <1>1, <1>11, CommitsWhole
    <3>3. QED
      BY <3>1, <3>2 DEF n, j
  <2>2. layer'[l].flight = {}
    <3>1. \A w \in layer'[l].flight : w.pix \in n .. j - 1
      BY <1>8 DEF InFlight
    <3>2. n .. j - 1 = {}
      BY <1>9, <2>1
    <3>3. QED
      BY <3>1, <3>2
  <2>3. Issued(l)' = 0 /\ ~layer'[l].wpend
    BY <1>11, IssuedStep, LayerTiles
  <2>4. InFlight({}, layer'[l].otag, 0, 0, PipeDelay(l))
    BY DEF InFlight
  <2>5. Stored(l, 0)'
    BY <2>2, <2>3, <2>4 DEF Stored, PipeDelay
  <2>6. QED
    BY <2>5 DEF LayerPipe
<1>12. CASE ~Committed(l)
  <2>1. Issued(l)' = j
    BY <1>12, IssuedStep DEF j
  <2>2. layer'[l].otag = layer[l].otag \/ (j = 0 /\ n = 0)
    <3>1. layer'[l].otag = layer[l].otag \/ GetsBank(l)
      BY LayerTiles
    <3>2. GetsBank(l) => Issued(l) = 0 /\ ~LastOp(l)
      BY GetsFree, LayerCases DEF Issued
    <3>3. GetsBank(l) => j = 0
      BY <3>2 DEF j
    <3>4. QED
      BY <1>9, <3>1, <3>3
  <2>3. InFlight(layer'[l].flight, layer'[l].otag, n, j, PipeDelay(l))
    <3>1. CASE layer'[l].otag = layer[l].otag
      BY <1>8, <3>1
    <3>2. CASE j = 0 /\ n = 0
      <4>1. \A w \in layer'[l].flight : w.pix \in 0 .. -1
        BY <1>8, <3>2 DEF InFlight
      <4>2. layer'[l].flight = {}
        BY <4>1
      <4>3. InFlight({}, layer'[l].otag, 0, 0, PipeDelay(l))
        BY DEF InFlight
      <4>4. QED
        BY <3>2, <4>2, <4>3
    <3>3. QED
      BY <2>2, <3>1, <3>2
  <2>4. n > 0 => mem'[l][buf'[l].wp] = Word(layer'[l].otag, n)
    BY <1>9, <1>10, <2>2
  <2>5. layer'[l].wpend => n < j
    <3>1. CASE LastOp(l)
      BY <1>1, <1>3, <1>9, <3>1, LayerStores DEF n, j
    <3>2. CASE ~LastOp(l)
      <4>1. layer'[l].wpend => layer[l].wpend
        BY <3>2, LayerTiles, LayerCases
      <4>2. layer[l].wpend => n < j
        BY <1>1, <1>3, <1>9, <1>12, <3>2, CommitsWhole DEF n, j
      <4>3. QED
        BY <4>1, <4>2
    <3>3. QED
      BY <3>1, <3>2
  <2>6. n <= j
    BY <1>9
  <2>7. PICK a \in Nat : a = n
    BY <1>9
  <2>8. Stored(l, a)'
    BY <2>1, <2>3, <2>4, <2>5, <2>6, <2>7 DEF Stored, PipeDelay
  <2>9. QED
    BY <2>8 DEF LayerPipe
<1>13. QED
  BY <1>11, <1>12

-----------------------------------------------------------------------------
(* What the banks hold *)

LEMMA CommitKnown ==
  ASSUME ControlInv, DataInv, Clock, NEW b \in 0 .. N, PulsesAt(b)'.wd
  PROVE  mem'[b][buf'[b].wp] = Word(TilesIn(b)', Words(b))
<1>1. CASE b = 0
  <2>1. feed.st = "done"
    BY <1>1, FeedControl DEF PulsesAt
  <2>2. FeedStored = CopyWords - 1 /\ FeedPipe
    BY <2>1 DEF FeedStored, DataInv
  <2>3. FeedStored >= 0 /\ FeedStored + 1 = Words(0)
    BY <2>2, Sizes DEF Words
  <2>4. mem'[0][buf'[0].wp] = Word(feed.tag, Words(0))
    BY <2>1, <2>3, FeederStores
  <2>5. feed'.tag = feed.tag
    BY <2>1, FeedControl DEF Opening
  <2>6. QED
    BY <1>1, <2>4, <2>5 DEF TilesIn
<1>2. CASE b # 0
  <2>1. b \in 1 .. N
    BY <1>2, Sizes
  <2>2. Committed(b)
    BY <1>2, <2>1, LayerTiles DEF PulsesAt
  <2>3. PICK m \in Nat : Stored(b, m)
    BY <2>1 DEF DataInv, LayerPipe
  <2>4. layer[b].wpend /\ Landing(b) # {} /\ m + 1 = Issued(b)
    BY <2>1, <2>2, <2>3, CommitsWhole
  <2>5. Issued(b) = Words(b)
    BY <1>2, <2>4 DEF Issued, Words
  <2>6. mem'[b][buf'[b].wp] = Word(layer[b].otag, Words(b))
    BY <2>1, <2>3, <2>4, <2>5, LayerStores
  <2>7. layer'[b].otag = layer[b].otag
    BY <2>1, <2>4, GetsFree, LayerTiles
  <2>8. QED
    BY <1>2, <2>6, <2>7 DEF TilesIn
<1>3. QED
  BY <1>1, <1>2

LEMMA MemInvStep ==
  ASSUME ControlInv, DataInv, Clock, NEW b \in 0 .. N
  PROVE  MemInv(b)'
<1>1. MemInv(b)
  BY DEF DataInv
<1>2. ASSUME NEW k \in Banks, buf'[b].st[k] \in {"full", "reading"}
      PROVE  mem'[b][k] = Word(buf'[b].tag[k], Words(b))
  <2>1. \/ buf[b].st[k] \in {"full", "reading"}
        \/ k = buf[b].wp /\ PulsesAt(b).wd
    BY <1>2, PointerStep
  <2>2. CASE buf[b].st[k] \in {"full", "reading"}
    <3>1. ~(k = buf[b].wp /\ PulsesAt(b).ws)
      BY <2>2, PointerStep
    <3>2. buf'[b].tag[k] = buf[b].tag[k]
      BY <3>1, PointerStep
    <3>3. k # buf[b].wp \/ Writes(b) = {}
      BY <2>2, OwnWords DEF OwnWord
    <3>4. mem'[b][k] = mem[b][k]
      BY <3>3, MemStep
    <3>5. QED
      BY <1>1, <2>2, <3>2, <3>4 DEF MemInv
  <2>3. CASE k = buf[b].wp /\ PulsesAt(b).wd
    <3>1. Linked(b)
      BY DEF ControlInv
    <3>2. WriterOn(b) /\ ~PulsesAt(b).ws
      BY <2>3, <3>1 DEF Linked, Link
    <3>3. buf[b].tag[k] = TilesIn(b)
      BY <2>3, <3>2, OpenBankOf
    <3>4. buf'[b].tag[k] = buf[b].tag[k]
      BY <3>2, PointerStep
    <3>5. Writes(b) = {}
      BY <2>3, OwnWords DEF OwnWord
    <3>6. mem'[b][k] = mem[b][k]
      BY <3>5, MemStep
    <3>7. mem[b][k] = Word(TilesIn(b), Words(b))
      BY <1>1, <2>3 DEF MemInv
    <3>8. QED
      BY <3>3, <3>4, <3>6, <3>7
  <2>4. QED
    BY <2>1, <2>2, <2>3
<1>3. PulsesAt(b)'.wd => mem'[b][buf'[b].wp] = Word(TilesIn(b)', Words(b))
  BY CommitKnown
<1>4. QED
  BY <1>2, <1>3 DEF MemInv, Words

LEMMA DataStep ==
  ASSUME ControlInv, DataInv, Clock
  PROVE  DataInv'
  BY FeedPipeStep, LayerPipeStep, MemInvStep DEF DataInv

LEMMA DataInit == Init => DataInv
<1> SUFFICES ASSUME Init PROVE DataInv
  OBVIOUS
<1>1. feed.st = "start" /\ feed.valid = {} /\ feed.en = {} /\ feed.wd = FALSE
  BY DEF Init
<1>2. FeedPipe
  <2>1. FeedStored = 0
    BY <1>1 DEF FeedStored
  <2>2. QED
    BY <1>1, <2>1 DEF FeedPipe
<1>3. \A l \in 1 .. N : /\ layer[l].st = "idle" /\ layer[l].wpend = FALSE
                        /\ layer[l].flight = {} /\ layer[l].wd = FALSE
  BY DEF Init, IdleLayer
<1>4. ASSUME NEW l \in 1 .. N PROVE LayerPipe(l)
  <2>1. Issued(l) = 0 /\ ~layer[l].wpend
    BY <1>3 DEF Issued
  <2>2. InFlight({}, layer[l].otag, 0, 0, PipeDelay(l))
    BY DEF InFlight
  <2>3. Stored(l, 0)
    BY <1>3, <2>1, <2>2 DEF Stored
  <2>4. QED
    BY <2>3 DEF LayerPipe
<1>5. ASSUME NEW b \in 0 .. N PROVE MemInv(b)
  <2>1. \A k \in Banks : buf[b].st[k] = "free"
    BY DEF Init, EmptyBuffer
  <2>2. ~PulsesAt(b).wd
    BY <1>1, <1>3, Sizes DEF PulsesAt
  <2>3. QED
    BY <2>1, <2>2 DEF MemInv
<1>6. QED
  BY <1>2, <1>4, <1>5 DEF DataInv

LEMMA DataStutter ==
  ASSUME DataInv, UNCHANGED vars
  PROVE  DataInv'
<1>1. feed' = feed /\ layer' = layer /\ head' = head /\ buf' = buf /\ mem' = mem
  BY DEF vars
<1>2. FeedPipe' <=> FeedPipe
  BY <1>1 DEF FeedPipe, FeedStored, FeedWord
<1>3. \A l \in 1 .. N : LayerPipe(l)' <=> LayerPipe(l)
  BY <1>1 DEF LayerPipe, Stored, Issued, PipeDelay
<1>4. \A b \in 0 .. N : MemInv(b)' <=> MemInv(b)
  BY <1>1 DEF MemInv, PulsesAt, TilesIn, Words
<1>5. QED
  BY <1>2, <1>3, <1>4 DEF DataInv

LEMMA CoreAlways == Spec => [](ControlInv /\ DataInv)
<1>1. ControlInv /\ DataInv /\ [Clock]_vars => (ControlInv /\ DataInv)'
  BY ControlStep, ControlStutter, DataStep, DataStutter
<1>2. QED
  BY <1>1, ControlInit, DataInit, PTL DEF Spec

(* A bank a stage may read holds every word of the tile its tag names: the *)
(* commit pulse never overtakes the last write, whatever the depth of the  *)
(* pipe behind a layer (conv_layer.sv:418-421, tile_feeder.sv:176-185).    *)
THEOREM BanksHoldWholeTiles == Spec => []WholeTiles
<1>1. DataInv => WholeTiles
  BY DEF DataInv, MemInv, WholeTiles, Word
<1>2. QED
  BY <1>1, CoreAlways, PTL

(* A reader that has its bank reads the tile it took. *)
LEMMA ReadBank ==
  ASSUME ControlInv, NEW b \in 0 .. N, ReaderOn(b), ~PulsesAt(b).rs
  PROVE  buf[b].st[buf[b].rp] = "reading" /\ RdTag(buf[b]) = TilesOut(b)
<1>1. Linked(b)
  BY DEF ControlInv
<1>2. buf[b].st[buf[b].rp] = "reading"
  BY <1>1 DEF Linked, Link
<1>3. buf[b].tag[buf[b].rp] = Oldest(ReaderOn(b), TilesOut(b))
  BY <1>1, <1>2 DEF Linked, Link
<1>4. QED
  BY <1>2, <1>3 DEF Oldest, RdTag

LEMMA GatherReads ==
  ASSUME ControlInv, NEW l \in 1 .. N, layer[l].gathering, layer[l].gphase >= 1
  PROVE  buf[l - 1].st[buf[l - 1].rp] = "reading" /\ RdTag(buf[l - 1]) = layer[l].tile
<1>1. l - 1 \in 0 .. N /\ l - 1 # N /\ (l - 1) + 1 = l /\ LayerInv(l)
  BY Sizes DEF ControlInv
<1>2. layer[l].st # "idle" /\ ~layer[l].rs
  BY <1>1 DEF LayerInv
<1>3. ReaderOn(l - 1) /\ ~PulsesAt(l - 1).rs /\ TilesOut(l - 1) = layer[l].tile
  BY <1>1, <1>2 DEF ReaderOn, PulsesAt, TilesOut
<1>4. QED
  BY <1>1, <1>3, ReadBank

(* A word lands in the bank its own tile has open, although the stage may  *)
(* be gathering, or waiting to open, the next tile by then; and a gather   *)
(* or a sum reads a bank its consumer still holds (fmap_pingpong.sv:70-76, *)
(* conv_layer.sv:325-334, 397-422, gap_head.sv:108-130).                   *)
THEOREM EachStageHasItsBank == Spec => []OwnBank
<1>1. ASSUME ControlInv, DataInv PROVE OwnBank
  <2>1. \A b \in 0 .. N : \A w \in Writes(b) :
          /\ buf[b].st[buf[b].wp] = "writing"
          /\ buf[b].tag[buf[b].wp] = w.tile
    BY <1>1, OwnWords DEF OwnWord
  <2>2. \A l \in 1 .. N : layer[l].gathering /\ layer[l].gphase >= 1 =>
          /\ buf[l - 1].st[buf[l - 1].rp] = "reading"
          /\ RdTag(buf[l - 1]) = layer[l].tile
    BY <1>1, GatherReads
  <2>3. ASSUME head.st = "sum", head.n >= 1
        PROVE  buf[N].st[buf[N].rp] = "reading" /\ RdTag(buf[N]) = head.tile
    <3>1. HeadInv /\ N \in 0 .. N
      BY <1>1, Sizes DEF ControlInv
    <3>2. ~head.rs
      BY <2>3, <3>1 DEF HeadInv
    <3>3. ReaderOn(N) /\ ~PulsesAt(N).rs /\ TilesOut(N) = head.tile
      BY <2>3, <3>2 DEF ReaderOn, PulsesAt, TilesOut
    <3>4. QED
      BY <1>1, <3>1, <3>3, ReadBank
  <2>4. QED
    BY <2>1, <2>2, <2>3 DEF OwnBank
<1>2. QED
  BY <1>1, CoreAlways, PTL

(* The registers keep their types; in particular no counter of a layer     *)
(* leaves its range, no two words leave a pipe together, and no more tiles *)
(* are scored than were fed.                                               *)
THEOREM CoreTypeCorrect == Spec => []TypeOK
<1>1. ASSUME ControlInv, DataInv PROVE TypeOK
  <2>1. FeedTyped /\ HeadTyped /\ HeadInv /\ results \in Nat
    BY <1>1 DEF ControlInv
  <2>2. results \in 0 .. MaxTiles
    BY <2>1, Sizes DEF HeadTyped, HeadInv
  <2>3. ASSUME NEW l \in 1 .. N
        PROVE  layer[l].flight \subseteq
                 [tile : Tiles, pix : 0 .. Pixels[l] - 1, left : 0 .. PipeDelay(l)]
    <3>1. PICK m \in Nat : Stored(l, m)
      BY <1>1 DEF DataInv, LayerPipe
    <3>2. LayerInv(l) /\ LayerTyped(l)
      BY <1>1 DEF ControlInv
    <3>3. Issued(l) \in Nat /\ Issued(l) <= Pixels[l]
      <4>1. layer[l].iidx \in 0 .. Pixels[l] - 1 /\ Pixels[l] \in Nat
        BY <3>2, Sizes DEF LayerTyped
      <4>2. QED
        BY <4>1 DEF Issued
    <3>4. SUFFICES ASSUME NEW w \in layer[l].flight
                   PROVE  w \in [tile : Tiles, pix : 0 .. Pixels[l] - 1, left : 0 .. PipeDelay(l)]
      OBVIOUS
    <3>5. /\ w = [tile |-> layer[l].otag, pix |-> w.pix, left |-> w.left]
          /\ w.pix \in m .. Issued(l) - 1 /\ w.left \in 0 .. PipeDelay(l)
      BY <3>1 DEF Stored, InFlight
    <3>6. Issued(l) > 0 /\ w.pix \in 0 .. Pixels[l] - 1
      BY <3>3, <3>5, Sizes
    <3>7. layer[l].otag > 0
      BY <1>1, <3>2, <3>6, PipeOpen DEF LayerInv
    <3>8. layer[l].otag \in Tiles
      <4>1. layer[l].otag \in 0 .. MaxTiles /\ MaxTiles \in Nat
        BY <3>2, Sizes DEF LayerTyped
      <4>2. Tiles = 1 .. MaxTiles
        BY CoreAssumption
      <4>3. QED
        BY <3>7, <4>1, <4>2
    <3>9. QED
      BY <3>5, <3>6, <3>8
  <2>4. ASSUME NEW l \in 1 .. N PROVE Cardinality(Landing(l)) <= 1
    <3>1. l \in 0 .. N /\ Writes(l) = Landing(l)
      BY Sizes DEF Writes
    <3>2. Landing(l) = {} \/ \E w : Landing(l) = {w}
      BY <1>1, <3>1, OwnWords DEF OwnWord
    <3>3. CASE Landing(l) = {}
      <4>1. Cardinality({}) = 0
        BY FS_EmptySet
      <4>2. QED
        BY <3>3, <4>1
    <3>4. CASE \E w : Landing(l) = {w}
      <4>1. PICK w : Landing(l) = {w}
        BY <3>4
      <4>2. Cardinality({w}) = 1
        BY FS_Singleton
      <4>3. QED
        BY <4>1, <4>2
    <3>5. QED
      BY <3>2, <3>3, <3>4
  <2>5. \A l \in 1 .. N : LayerTyped(l)
    BY <1>1 DEF ControlInv
  <2>6. \A l \in 1 .. N :
          /\ layer[l].st \in {"idle", "warmup", "waitout", "issue"}
          /\ layer[l].gphase \in 0 .. GatherLast
          /\ layer[l].gidx \in 0 .. Pixels[l] - 1
          /\ layer[l].iidx \in 0 .. Pixels[l] - 1
          /\ layer[l].icnt \in 0 .. Ops[l] - 1
    BY <2>5 DEF LayerTyped
  <2>7. buf \in [0 .. N -> Buffers]
    BY <1>1 DEF ControlInv
  <2>8. /\ feed.st \in {"idle", "start", "copy", "flush", "done", "off"}
        /\ feed.tile \in Tiles /\ feed.n \in 0 .. CopyWords - 1
        /\ head.st \in {"idle", "sum", "drain", "work", "done"}
    BY <2>1 DEF FeedTyped, HeadTyped
  <2>9. QED
    BY <2>2, <2>3, <2>4, <2>6, <2>7, <2>8 DEF TypeOK
<1>2. QED
  BY <1>1, CoreAlways, PTL

-----------------------------------------------------------------------------
(* The window of a layer *)

\* The output pixel after i; the index of a layer wraps (conv_layer.sv:102).
PixelAfter(l, i) == IF i = Pixels[l] - 1 THEN 0 ELSE i + 1

WindowOf(win, l, p) ==
  \A g \in 1 .. GatherLast : win[g] = <<layer[l].tile, p>>

(* While a pixel is issued the next one is being gathered, has been        *)
(* gathered, or is about to be; the gather is of the pixel after the one   *)
(* issued and its index two pixels ahead.                                  *)
WindowInv(l) ==
  /\ DOMAIN layer[l].nxt = 1 .. GatherLast
  /\ layer[l].gathering =>
       \A g \in 1 .. GatherLast :
         g < layer[l].gphase => layer[l].nxt[g] = <<layer[l].tile, layer[l].gpix>>
  /\ layer[l].st = "warmup" =>
       /\ layer[l].gpix = 0 /\ layer[l].gidx = 1
       /\ layer[l].gdone => WindowOf(layer[l].nxt, l, 0)
  /\ layer[l].st \in {"waitout", "issue"} => WindowOf(layer[l].cur, l, layer[l].iidx)
  /\ layer[l].st = "waitout" => layer[l].gpix = 1 /\ layer[l].gidx = PixelAfter(l, 1)
  /\ layer[l].st = "issue" =>
       \/ /\ layer[l].gathering
          /\ layer[l].gpix = PixelAfter(l, layer[l].iidx)
          /\ layer[l].gidx = PixelAfter(l, PixelAfter(l, layer[l].iidx))
       \/ /\ ~layer[l].gathering /\ layer[l].icnt > 0
          /\ WindowOf(layer[l].nxt, l, PixelAfter(l, layer[l].iidx))
          /\ layer[l].gidx = PixelAfter(l, PixelAfter(l, layer[l].iidx))
       \/ /\ ~layer[l].gathering /\ layer[l].icnt = 0
          /\ layer[l].gidx = PixelAfter(l, layer[l].iidx)

(* A layer that has waited for a bank gets it while the gather begun before *)
(* the wait still goes on.  Nothing in the code makes it so: it depends on  *)
(* how much faster a layer is than the one behind it.                       *)
WaitsBriefly ==
  \A l \in 1 .. N : layer[l].st = "waitout" /\ WrReady(buf[l]) =>
    layer[l].gathering /\ layer[l].gphase < GatherLast

LEMMA PixelAfterNext ==
  ASSUME NEW l \in 1 .. N
  PROVE  /\ layer[l].gidx \in 0 .. Pixels[l] - 1 => NextIndex(l) = PixelAfter(l, layer[l].gidx)
         /\ PixelAfter(l, 0) = 1
         /\ \A i \in 0 .. Pixels[l] - 1 : PixelAfter(l, i) \in 0 .. Pixels[l] - 1
         /\ \A i \in 0 .. Pixels[l] - 1 : i # Pixels[l] - 1 => PixelAfter(l, i) = i + 1
<1>1. Pixels[l] \in Nat /\ Pixels[l] > 1
  BY Sizes
<1>2. layer[l].gidx \in 0 .. Pixels[l] - 1 => NextIndex(l) = PixelAfter(l, layer[l].gidx)
  BY NextIndexTyped DEF PixelAfter
<1>3. QED
  BY <1>1, <1>2 DEF PixelAfter

(* A gather starts only when none is going on. *)
LEMMA GatherAlone ==
  ASSUME ControlInv, NEW l \in 1 .. N, GatherStarts(l)
  PROVE  ~layer[l].gathering
<1>1. LayerInv(l)
  BY DEF ControlInv
<1>2. WarmedUp(l) => layer[l].gdone
  BY DEF WarmedUp
<1>3. QED
  BY <1>1, <1>2, LayerCases DEF LayerInv

(* What a gather captures is of the tile and the pixel it is for. *)
LEMMA TapKnown ==
  ASSUME ControlInv, DataInv, NEW l \in 1 .. N, layer[l].gathering, layer[l].gphase >= 1
  PROVE  Tap(l, layer[l].gpix) = <<layer[l].tile, layer[l].gpix>>
<1>1. l - 1 \in 0 .. N
  BY Sizes
<1>2. buf[l - 1].st[buf[l - 1].rp] = "reading" /\ buf[l - 1].tag[buf[l - 1].rp] = layer[l].tile
  BY GatherReads DEF RdTag
<1>3. buf[l - 1].rp \in Banks
  BY <1>1 DEF ControlInv, Buffers
<1>4. mem[l - 1][buf[l - 1].rp] = Word(buf[l - 1].tag[buf[l - 1].rp], Words(l - 1))
  BY <1>1, <1>2, <1>3 DEF DataInv, MemInv
<1>5. mem[l - 1][buf[l - 1].rp].tile = layer[l].tile
  BY <1>2, <1>4 DEF Word
<1>6. QED
  BY <1>5 DEF Tap

(* The taps gathered so far, after one more clock. *)
LEMMA CapturedTaps ==
  ASSUME ControlInv, DataInv, NEW l \in 1 .. N, WindowInv(l)
  PROVE  /\ DOMAIN Captured(l) = 1 .. GatherLast
         /\ layer[l].gathering =>
              \A g \in 1 .. GatherLast : g < layer[l].gphase + 1 =>
                Captured(l)[g] = <<layer[l].tile, layer[l].gpix>>
         /\ ~layer[l].gathering => Captured(l) = layer[l].nxt
<1>1. LayerTyped(l)
  BY DEF ControlInv
<1>2. layer[l].gphase \in 0 .. 5 /\ 1 .. GatherLast = 1 .. 5
  BY <1>1 DEF LayerTyped, GatherLast
<1>3. DOMAIN layer[l].nxt = 1 .. 5
  BY <1>2 DEF WindowInv
<1>4. ~layer[l].gathering => Captured(l) = layer[l].nxt
  BY DEF Captured
<1>5. CASE layer[l].gathering /\ layer[l].gphase >= 1
  <2>1. Captured(l) = [layer[l].nxt EXCEPT ![layer[l].gphase] = <<layer[l].tile, layer[l].gpix>>]
    BY <1>5, TapKnown DEF Captured
  <2>2. DOMAIN Captured(l) = 1 .. 5
    BY <1>3, <2>1
  <2>3. \A g \in 1 .. 5 : g < layer[l].gphase => layer[l].nxt[g] = <<layer[l].tile, layer[l].gpix>>
    BY <1>2, <1>5 DEF WindowInv
  <2>4. \A g \in 1 .. 5 : Captured(l)[g] = IF g = layer[l].gphase THEN <<layer[l].tile, layer[l].gpix>>
                                           ELSE layer[l].nxt[g]
    BY <1>3, <2>1
  <2>5. \A g \in 1 .. 5 : g < layer[l].gphase + 1 => g = layer[l].gphase \/ g < layer[l].gphase
    BY <1>2
  <2>6. QED
    BY <1>2, <1>5, <2>2, <2>3, <2>4, <2>5
<1>6. CASE layer[l].gathering /\ layer[l].gphase = 0
  <2>1. Captured(l) = layer[l].nxt
    BY <1>6 DEF Captured
  <2>2. \A g \in 1 .. 5 : ~(g < layer[l].gphase + 1)
    BY <1>6
  <2>3. QED
    BY <1>2, <1>3, <1>6, <2>1, <2>2
<1>7. CASE ~layer[l].gathering
  BY <1>2, <1>3, <1>4, <1>7
<1>8. QED
  BY <1>2, <1>5, <1>6, <1>7

(* The gather after one clock: the taps it has, and all when it has ended. *)
LEMMA GatherStep ==
  ASSUME ControlInv, DataInv, Clock, NEW l \in 1 .. N, WindowInv(l)
  PROVE  /\ DOMAIN layer'[l].nxt = 1 .. GatherLast
         /\ layer'[l].gathering =>
              \A g \in 1 .. GatherLast :
                g < layer'[l].gphase => layer'[l].nxt[g] = <<layer'[l].tile, layer'[l].gpix>>
         /\ GatherEnds(l) => WindowOf(layer'[l].nxt, l, layer[l].gpix)
         /\ ~layer[l].gathering => layer'[l].nxt = layer[l].nxt
<1>1. LayerTyped(l)
  BY DEF ControlInv
<1>2. layer[l].gphase \in 0 .. 5 /\ 1 .. GatherLast = 1 .. 5 /\ GatherLast = 5
  BY <1>1 DEF LayerTyped, GatherLast
<1>3. layer'[l].nxt = Captured(l)
  BY LayerGatherIndex
<1>4. GatherEnds(l) => WindowOf(layer'[l].nxt, l, layer[l].gpix)
  <2>1. SUFFICES ASSUME GatherEnds(l) PROVE WindowOf(layer'[l].nxt, l, layer[l].gpix)
    OBVIOUS
  <2>2. layer[l].gathering /\ layer[l].gphase = 5
    BY <1>2, <2>1 DEF GatherEnds
  <2>3. \A g \in 1 .. GatherLast : g < layer[l].gphase + 1
    BY <1>2, <2>2
  <2>4. QED
    BY <1>3, <2>2, <2>3, CapturedTaps DEF WindowOf
<1>5. ASSUME layer'[l].gathering, NEW g \in 1 .. GatherLast, g < layer'[l].gphase
      PROVE  layer'[l].nxt[g] = <<layer'[l].tile, layer'[l].gpix>>
  <2>1. ~GatherStarts(l)
    BY <1>2, <1>5, LayerControl
  <2>2. layer[l].gathering /\ layer'[l].gphase = layer[l].gphase + 1
    BY <1>5, <2>1, LayerControl
  <2>3. ~Accepts(l)
    BY <2>1, LayerCases
  <2>4. layer'[l].gpix = layer[l].gpix /\ layer'[l].tile = layer[l].tile
    BY <2>1, <2>3, LayerGatherIndex, LayerTiles
  <2>5. QED
    BY <1>3, <1>5, <2>2, <2>4, CapturedTaps
<1>6. QED
  BY <1>3, <1>4, <1>5, CapturedTaps

(* A window is of a tile, and the tile changes only when one is accepted.  *)
LEMMA WindowKept ==
  ASSUME Clock, NEW l \in 1 .. N, NEW win, NEW p, WindowOf(win, l, p), ~Accepts(l)
  PROVE  \A g \in 1 .. GatherLast : win[g] = <<layer'[l].tile, p>>
<1>1. layer'[l].tile = layer[l].tile
  BY LayerTiles
<1>2. QED
  BY <1>1 DEF WindowOf

(* A gather is over before the pixel issued beside it is: this takes one   *)
(* clock more than the budget conv_layer.sv:88-89 insists on.              *)
LEMMA GatherBeforeLastOp ==
  ASSUME ControlInv, NEW l \in 1 .. N, Ops[l] > GatherLast + 2, LastOp(l)
  PROVE  ~layer[l].gathering /\ layer[l].icnt > 0
<1>1. LayerTyped(l) /\ LayerInv(l) /\ Ops[l] \in Nat
  BY Sizes DEF ControlInv
<1>2. layer[l].gphase <= 5 /\ layer[l].gphase \in Int
  BY <1>1 DEF LayerTyped, GatherLast
<1>3. layer[l].icnt = Ops[l] - 1 /\ layer[l].st = "issue"
  BY DEF LastOp
<1>4. layer[l].icnt > 6
  BY <1>1, <1>3 DEF GatherLast
<1>5. layer[l].gathering => layer[l].icnt <= layer[l].gphase + 1
  BY <1>1, <1>3 DEF LayerInv
<1>6. layer[l].icnt \in Int
  BY <1>1, <1>3
<1>7. QED
  BY <1>2, <1>4, <1>5, <1>6

\* The three stages of the window after the one issued.
NextGathers(l) ==
  /\ layer[l].gathering
  /\ layer[l].gpix = PixelAfter(l, layer[l].iidx)
  /\ layer[l].gidx = PixelAfter(l, PixelAfter(l, layer[l].iidx))

NextGathered(l) ==
  /\ ~layer[l].gathering /\ layer[l].icnt > 0
  /\ WindowOf(layer[l].nxt, l, PixelAfter(l, layer[l].iidx))
  /\ layer[l].gidx = PixelAfter(l, PixelAfter(l, layer[l].iidx))

NextDue(l) ==
  /\ ~layer[l].gathering /\ layer[l].icnt = 0
  /\ layer[l].gidx = PixelAfter(l, layer[l].iidx)

LEMMA IssueStep ==
  ASSUME ControlInv, DataInv, Clock, NEW l \in 1 .. N, WindowInv(l), Ops[l] > GatherLast + 2,
         layer[l].st = "issue", layer'[l].st = "issue"
  PROVE  /\ WindowOf(layer[l].cur, l, layer[l].iidx)'
         /\ NextGathers(l)' \/ NextGathered(l)' \/ NextDue(l)'
<1>1. LayerTyped(l) /\ LayerInv(l)
  BY DEF ControlInv
<1>2. /\ layer[l].gidx \in 0 .. Pixels[l] - 1 /\ layer[l].iidx \in 0 .. Pixels[l] - 1
      /\ layer[l].icnt \in Nat /\ Pixels[l] \in Nat /\ Pixels[l] > 1
  BY <1>1, Sizes DEF LayerTyped
<1>3. NextGathers(l) \/ NextGathered(l) \/ NextDue(l)
  BY DEF WindowInv, NextGathers, NextGathered, NextDue
<1>4. ~Accepts(l) /\ ~WarmedUp(l) /\ ~GetsBank(l)
  BY LayerCases
<1>5. ~TileIssued(l)
  BY <1>4, LayerControl
<1>6. layer'[l].tile = layer[l].tile
  BY <1>4, LayerTiles
<1>7. GatherStarts(l) <=> GathersAgain(l)
  BY <1>4 DEF GatherStarts, Accepts, WarmedUp, GathersAgain
<1>8. CASE LastOp(l)
  <2>1. NextPixel(l) /\ layer[l].iidx # Pixels[l] - 1
    BY <1>5, <1>8, LayerCases
  <2>2. ~layer[l].gathering /\ layer[l].icnt > 0
    BY <1>8, GatherBeforeLastOp
  <2>3. NextGathered(l)
    BY <1>3, <2>2 DEF NextGathers, NextDue
  <2>4. PixelAfter(l, layer[l].iidx) = layer[l].iidx + 1
    BY <1>2, <2>1, PixelAfterNext
  <2>5. /\ layer'[l].iidx = layer[l].iidx + 1 /\ layer'[l].icnt = 0
        /\ layer'[l].cur = layer[l].nxt
    BY <1>4, <1>8, <2>1, LayerControl, LayerGatherIndex
  <2>6. ~GatherStarts(l)
    BY <1>7, <2>2 DEF GathersAgain
  <2>7. ~layer'[l].gathering /\ layer'[l].gidx = layer[l].gidx
    BY <1>4, <2>2, <2>6, LayerControl, LayerGatherIndex
  <2>8. layer'[l].gidx = PixelAfter(l, layer'[l].iidx)
    BY <2>3, <2>4, <2>5, <2>7 DEF NextGathered
  <2>9. WindowOf(layer[l].nxt, l, layer[l].iidx + 1)
    BY <2>3, <2>4 DEF NextGathered
  <2>10. \A g \in 1 .. GatherLast : layer'[l].cur[g] = <<layer'[l].tile, layer'[l].iidx>>
    BY <1>6, <2>5, <2>9 DEF WindowOf
  <2>11. WindowOf(layer[l].cur, l, layer[l].iidx)'
    BY <2>10 DEF WindowOf
  <2>12. NextDue(l)'
    BY <2>5, <2>7, <2>8 DEF NextDue, PixelAfter
  <2>13. QED
    BY <2>11, <2>12
<1>9. CASE ~LastOp(l)
  <2>1. ~NextPixel(l)
    BY <1>9, LayerCases
  <2>2. /\ layer'[l].iidx = layer[l].iidx /\ layer'[l].icnt = layer[l].icnt + 1
        /\ layer'[l].cur = layer[l].cur
    BY <1>4, <1>9, <2>1, LayerControl, LayerGatherIndex
  <2>3. WindowOf(layer[l].cur, l, layer[l].iidx)'
    BY <1>6, <2>2 DEF WindowInv, WindowOf
  <2>4. CASE NextDue(l)
    <3>1. GathersAgain(l)
      BY <1>2, <2>4 DEF NextDue, GathersAgain
    <3>2. /\ layer'[l].gathering
          /\ layer'[l].gpix = layer[l].gidx /\ layer'[l].gidx = NextIndex(l)
      BY <1>4, <1>7, <3>1, LayerControl, LayerGatherIndex
    <3>3. NextIndex(l) = PixelAfter(l, layer[l].gidx)
      BY <1>2, PixelAfterNext
    <3>4. NextGathers(l)'
      BY <2>2, <2>4, <3>2, <3>3 DEF NextDue, NextGathers, PixelAfter
    <3>5. QED
      BY <2>3, <3>4
  <2>5. CASE NextGathers(l)
    <3>1. ~GatherStarts(l)
      BY <1>7, <2>5 DEF NextGathers, GathersAgain
    <3>2. layer'[l].gpix = layer[l].gpix /\ layer'[l].gidx = layer[l].gidx
      BY <1>4, <3>1, LayerGatherIndex
    <3>3. CASE GatherEnds(l)
      <4>1. ~layer'[l].gathering
        BY <3>1, <3>3, LayerControl
      <4>2. WindowOf(layer'[l].nxt, l, layer[l].gpix)
        BY <3>3, GatherStep
      <4>3. \A g \in 1 .. GatherLast : layer'[l].nxt[g] = <<layer'[l].tile, PixelAfter(l, layer'[l].iidx)>>
        BY <1>6, <2>2, <2>5, <4>2 DEF WindowOf, NextGathers
      <4>4. layer'[l].icnt > 0
        BY <1>2, <2>2
      <4>5. NextGathered(l)'
        BY <2>2, <2>5, <3>2, <4>1, <4>3, <4>4 DEF NextGathers, NextGathered, WindowOf, PixelAfter
      <4>6. QED
        BY <2>3, <4>5
    <3>4. CASE ~GatherEnds(l)
      <4>1. layer'[l].gathering
        BY <2>5, <3>1, <3>4, LayerControl DEF NextGathers
      <4>2. NextGathers(l)'
        BY <2>2, <2>5, <3>2, <4>1 DEF NextGathers, PixelAfter
      <4>3. QED
        BY <2>3, <4>2
    <3>5. QED
      BY <3>3, <3>4
  <2>6. CASE NextGathered(l)
    <3>1. ~GatherStarts(l) /\ ~layer[l].gathering
      BY <1>7, <2>6 DEF NextGathered, GathersAgain
    <3>2. layer'[l].gidx = layer[l].gidx /\ ~layer'[l].gathering
      BY <1>4, <3>1, LayerControl, LayerGatherIndex
    <3>3. layer'[l].nxt = layer[l].nxt
      BY <3>1, GatherStep
    <3>4. layer'[l].icnt > 0
      BY <1>2, <2>2
    <3>5. NextGathered(l)'
      BY <1>6, <2>2, <2>6, <3>2, <3>3, <3>4 DEF NextGathered, WindowOf, PixelAfter
    <3>6. QED
      BY <2>3, <3>5
  <2>7. QED
    BY <1>3, <2>4, <2>5, <2>6
<1>10. QED
  BY <1>8, <1>9

(* A tile's first window: gathered alone, then issued at once or kept while *)
(* the layer waits for a bank.                                             *)
LEMMA WarmupStep ==
  ASSUME ControlInv, DataInv, Clock, NEW l \in 1 .. N, WindowInv(l), layer'[l].st = "warmup"
  PROVE  /\ layer'[l].gpix = 0 /\ layer'[l].gidx = 1
         /\ layer'[l].gdone => WindowOf(layer[l].nxt, l, 0)'
<1>1. LayerTyped(l) /\ LayerInv(l)
  BY DEF ControlInv
<1>2. ~GetsBank(l) /\ ~WarmedUp(l) /\ (Accepts(l) \/ layer[l].st = "warmup")
  BY <1>1, LayerCases, LayerControl DEF LayerTyped
<1>3. CASE Accepts(l)
  <2>1. ~layer[l].gathering
    BY <1>3, GatherAlone, LayerCases
  <2>2. ~layer'[l].gdone
    BY <2>1, LayerControl DEF GatherEnds
  <2>3. QED
    BY <1>3, <2>2, LayerGatherIndex
<1>4. CASE ~Accepts(l) /\ layer[l].st = "warmup"
  <2>1. ~GatherStarts(l)
    BY <1>2, <1>4, LayerCases
  <2>2. layer[l].gpix = 0 /\ layer[l].gidx = 1
    BY <1>4 DEF WindowInv
  <2>3. layer'[l].gpix = 0 /\ layer'[l].gidx = 1
    BY <1>4, <2>1, <2>2, LayerGatherIndex
  <2>4. layer'[l].gdone = GatherEnds(l)
    BY LayerControl
  <2>5. GatherEnds(l) => WindowOf(layer'[l].nxt, l, 0)
    BY <2>2, GatherStep
  <2>6. WindowOf(layer'[l].nxt, l, 0) => WindowOf(layer[l].nxt, l, 0)'
    BY <1>4, LayerTiles DEF WindowOf
  <2>7. QED
    BY <2>3, <2>4, <2>5, <2>6
<1>5. QED
  BY <1>2, <1>3, <1>4

LEMMA WarmedUpStep ==
  ASSUME ControlInv, DataInv, Clock, NEW l \in 1 .. N, WindowInv(l), WarmedUp(l)
  PROVE  /\ WindowOf(layer[l].cur, l, 0)' /\ layer'[l].iidx = 0
         /\ layer'[l].gathering
         /\ layer'[l].gpix = 1 /\ layer'[l].gidx = PixelAfter(l, 1)
<1>1. layer[l].st = "warmup" /\ layer[l].gdone
  BY DEF WarmedUp
<1>2. layer[l].gidx = 1 /\ WindowOf(layer[l].nxt, l, 0)
  BY <1>1 DEF WindowInv
<1>3. ~Accepts(l)
  BY <1>1, LayerCases
<1>4. 1 \in 0 .. Pixels[l] - 1 /\ 1 < Pixels[l]
  BY Sizes
<1>5. GatherStarts(l)
  BY <1>2, <1>4 DEF GatherStarts
<1>6. NextIndex(l) = PixelAfter(l, 1)
  BY <1>2, <1>4, PixelAfterNext
<1>7. layer'[l].cur = layer[l].nxt /\ layer'[l].gpix = 1 /\ layer'[l].gidx = PixelAfter(l, 1)
  BY <1>2, <1>3, <1>5, <1>6, LayerGatherIndex
<1>8. layer'[l].iidx = 0 /\ layer'[l].gathering
  BY <1>5, LayerControl
<1>9. WindowOf(layer[l].cur, l, 0)'
  BY <1>2, <1>3, <1>7, LayerTiles DEF WindowOf
<1>10. QED
  BY <1>7, <1>8, <1>9

LEMMA WaitoutStep ==
  ASSUME ControlInv, Clock, NEW l \in 1 .. N, WindowInv(l), layer[l].st = "waitout"
  PROVE  /\ WindowOf(layer[l].cur, l, 0)' /\ layer'[l].iidx = 0
         /\ layer'[l].gpix = 1 /\ layer'[l].gidx = PixelAfter(l, 1)
         /\ layer'[l].gathering = (layer[l].gathering /\ ~GatherEnds(l))
<1>1. LayerInv(l)
  BY DEF ControlInv
<1>2. ~Accepts(l) /\ ~WarmedUp(l) /\ ~NextPixel(l) /\ ~GatherStarts(l)
  BY LayerCases
<1>3. layer[l].iidx = 0 /\ layer[l].gpix = 1 /\ layer[l].gidx = PixelAfter(l, 1)
  BY <1>1 DEF LayerInv, WindowInv
<1>4. layer'[l].gpix = 1 /\ layer'[l].gidx = PixelAfter(l, 1) /\ layer'[l].cur = layer[l].cur
  BY <1>2, <1>3, LayerGatherIndex
<1>5. layer'[l].iidx = 0 /\ layer'[l].gathering = (layer[l].gathering /\ ~GatherEnds(l))
  BY <1>2, <1>3, LayerControl
<1>6. WindowOf(layer[l].cur, l, 0)
  BY <1>3 DEF WindowInv
<1>7. WindowOf(layer[l].cur, l, 0)'
  BY <1>2, <1>4, <1>6, LayerTiles DEF WindowOf
<1>8. QED
  BY <1>4, <1>5, <1>7

LEMMA WindowStep ==
  ASSUME ControlInv, DataInv, WaitsBriefly, Clock, NEW l \in 1 .. N, Ops[l] > GatherLast + 2,
         WindowInv(l)
  PROVE  WindowInv(l)'
<1>1. LayerTyped(l) /\ LayerInv(l)
  BY DEF ControlInv
<1>2. LayerTyped(l)'
  BY LayerTypedStep
<1>3. /\ DOMAIN layer'[l].nxt = 1 .. GatherLast
      /\ layer'[l].gathering =>
           \A g \in 1 .. GatherLast :
             g < layer'[l].gphase => layer'[l].nxt[g] = <<layer'[l].tile, layer'[l].gpix>>
  BY GatherStep
<1>4. CASE layer'[l].st = "idle"
  BY <1>3, <1>4 DEF WindowInv
<1>5. CASE layer'[l].st = "warmup"
  BY <1>3, <1>5, WarmupStep DEF WindowInv
<1>6. CASE layer'[l].st = "waitout"
  <2>1. WarmedUp(l) \/ layer[l].st = "waitout"
    BY <1>1, <1>6, LayerControl DEF LayerTyped
  <2>2. /\ WindowOf(layer[l].cur, l, 0)' /\ layer'[l].iidx = 0
        /\ layer'[l].gpix = 1 /\ layer'[l].gidx = PixelAfter(l, 1)
    BY <2>1, WarmedUpStep, WaitoutStep
  <2>3. WindowOf(layer[l].cur, l, layer[l].iidx)'
    BY <2>2 DEF WindowOf
  <2>4. QED
    BY <1>3, <1>6, <2>2, <2>3 DEF WindowInv, PixelAfter
<1>7. CASE layer'[l].st = "issue" /\ layer[l].st # "issue"
  <2>1. GetsBank(l)
    BY <1>1, <1>7, LayerControl DEF LayerTyped
  <2>2. WarmedUp(l) \/ layer[l].st = "waitout"
    BY <2>1 DEF GetsBank
  <2>3. layer[l].st = "waitout" => layer[l].gathering /\ ~GatherEnds(l)
    <3>1. WrReady(buf[l])
      BY <2>1 DEF GetsBank
    <3>2. layer[l].gphase \in Int /\ GatherLast = 5
      BY <1>1 DEF LayerTyped, GatherLast
    <3>3. QED
      BY <3>1, <3>2 DEF WaitsBriefly, GatherEnds
  <2>4. /\ WindowOf(layer[l].cur, l, 0)' /\ layer'[l].iidx = 0
        /\ layer'[l].gpix = 1 /\ layer'[l].gidx = PixelAfter(l, 1)
        /\ layer'[l].gathering
    BY <2>2, <2>3, WarmedUpStep, WaitoutStep
  <2>5. PixelAfter(l, 0) = 1
    BY PixelAfterNext
  <2>6. NextGathers(l)'
    BY <2>4, <2>5 DEF NextGathers, PixelAfter
  <2>7. WindowOf(layer[l].cur, l, layer[l].iidx)'
    BY <2>4 DEF WindowOf
  <2>8. QED
    BY <1>3, <1>7, <2>6, <2>7 DEF WindowInv, NextGathers
<1>8. CASE layer'[l].st = "issue" /\ layer[l].st = "issue"
  <2>1. /\ WindowOf(layer[l].cur, l, layer[l].iidx)'
        /\ NextGathers(l)' \/ NextGathered(l)' \/ NextDue(l)'
    BY <1>8, IssueStep
  <2>2. QED
    BY <1>3, <1>8, <2>1 DEF WindowInv, NextGathers, NextGathered, NextDue
<1>9. QED
  BY <1>2, <1>4, <1>5, <1>6, <1>7, <1>8 DEF LayerTyped

LEMMA WindowInit == Init => \A l \in 1 .. N : WindowInv(l)
<1>1. SUFFICES ASSUME Init, NEW l \in 1 .. N PROVE WindowInv(l)
  OBVIOUS
<1>2. layer[l] = IdleLayer
  BY <1>1 DEF Init
<1>3. DOMAIN layer[l].nxt = 1 .. GatherLast /\ layer[l].gathering = FALSE /\ layer[l].st = "idle"
  BY <1>2 DEF IdleLayer, EmptyWindow
<1>4. QED
  BY <1>3 DEF WindowInv

LEMMA WindowStutter ==
  ASSUME UNCHANGED vars, NEW l \in 1 .. N, WindowInv(l)
  PROVE  WindowInv(l)'
<1>1. layer' = layer
  BY DEF vars
<1>2. WindowInv(l)' <=> WindowInv(l)
  BY <1>1 DEF WindowInv, WindowOf, PixelAfter
<1>3. QED
  BY <1>2

(* Whenever a layer issues an op, the taps are all of the output pixel and *)
(* the tile the op is for (conv_layer.sv:286-411).  Two things must be so  *)
(* for it, and the code states neither: an output pixel takes a clock more *)
(* than the least OPS_PER_PIX the module accepts, and a layer never waits  *)
(* for a bank so long that the gather begun before the wait has ended.     *)
THEOREM WindowsMatch ==
  ASSUME \A l \in 1 .. N : Ops[l] > GatherLast + 2
  PROVE  Spec /\ []WaitsBriefly => []OwnWindow
<1> DEFINE Windows == \A l \in 1 .. N : WindowInv(l)
<1>1. ControlInv /\ DataInv /\ WaitsBriefly /\ Windows /\ [Clock]_vars => Windows'
  BY WindowStep, WindowStutter
<1>2. Init => Windows
  BY WindowInit
<1>3. Windows => OwnWindow
  BY DEF WindowInv, WindowOf, OwnWindow
<1> HIDE DEF Windows
<1>4. QED
  BY <1>1, <1>2, <1>3, CoreAlways, PTL DEF Spec
=============================================================================
