-------------------------- MODULE TcnnRun_proofs --------------------------
(***************************************************************************)
(* Runs of the tiny-CNN test system, for frames, strips and runs of every  *)
(* size and every relative speed of the stages.                            *)
(*                                                                         *)
(* Places: the number tile_feeder gives a band is the row its pixels come  *)
(* from.  Player and feeder count rows on their own, two bands are between *)
(* them, and a start resets only the player, so the invariant says at      *)
(* every moment which row the filling band, the full bands and the pixel   *)
(* on offer belong to.                                                     *)
(*                                                                         *)
(* Counts: every pixel fetched is scored, in the core, in a band or on     *)
(* offer, the tiles in the core follow one another row by row, and the     *)
(* sink's own count is the place of the tile it takes next.  So a sink     *)
(* that is done has left nothing anywhere.                                 *)
(*                                                                         *)
(* Results: while the firmware polls every pixel on its way is from the    *)
(* strip row its frame row repeats, and the result RAM holds the score of  *)
(* every place the sink has passed.                                        *)
(***************************************************************************)
EXTENDS TcnnRun, TLAPS

Counter == 0 .. CounterWrap - 1
Origins == [upload : Int, srow : Nat, col : Nat, row : Nat]
TwoBands == {0, 1}

RegTypes == regs.w \in Widths /\ regs.h \in Heights /\ regs.nf \in FrameCounts \cup {1}

PlayerTypes ==
  player \in [st : {"idle", "run", "done"}, w : Nat, sh : Nat, row : Counter, col : Counter,
              srow : Counter, frame : Counter, valid : BOOLEAN, px : Origins]

BandTypes ==
  bands \in [st : [TwoBands -> {"free", "filling", "full"}],
             w : [TwoBands -> 0 .. CounterWrap],
             px : [TwoBands -> [Counter -> Origins]], fill : TwoBands, col : Counter]

DrainTypes ==
  drain \in [st : {"idle", "start"}, ptr : TwoBands, col : Counter, ctr : Counter]

\* A band that is in use has a width, and the one that is copied out is full.
BandWidths == \A k \in TwoBands : bands.st[k] # "free" => bands.w[k] \in 1 .. CounterWrap

Draining ==
  drain.st = "start" => bands.st[drain.ptr] = "full" /\ drain.col < bands.w[drain.ptr]

CoreTypes ==
  /\ core \in Seq([band : Counter, col : Counter, px : Origins])
  /\ Len(core) <= PipeCap

Types ==
  /\ RegTypes /\ regs.sh \in Nat \ {0} /\ strip \in Nat /\ PlayerTypes /\ BandTypes /\ DrainTypes
  /\ BandWidths /\ Draining /\ CoreTypes /\ fw \in {"idle", "poll"} /\ clean \in BOOLEAN

-----------------------------------------------------------------------------
RowAfter(r) == IF r = regs.h - 1 THEN 0 ELSE r + 1

\* The row of the band that is filled, as the draining side would number it.
FillRow ==
  IF bands.st[drain.ptr] # "full" THEN drain.ctr
  ELSE IF bands.fill = drain.ptr THEN RowAfter(RowAfter(drain.ctr))
  ELSE RowAfter(drain.ctr)

\* Where the two sides stand: the filling side is at most two bands ahead.
Order ==
  /\ drain.ctr \in 0 .. regs.h - 1
  /\ bands.col \in 0 .. regs.w - 1
  /\ bands.st[bands.fill] # "filling" => bands.col = 0
  /\ bands.st[drain.ptr] # "full" =>
       bands.fill = drain.ptr /\ bands.st[1 - drain.ptr] = "free"
  /\ bands.st[drain.ptr] = "full" =>
       (bands.fill = drain.ptr <=> bands.st[1 - drain.ptr] = "full")

\* The first n places of band k hold the pixels of a row.
HoldsRow(k, row, n) ==
  bands.w[k] = regs.w
    /\ \A c \in 0 .. n - 1 : bands.px[k][c].row = row /\ bands.px[k][c].col = c

Contents ==
  /\ bands.st[drain.ptr] = "full" => HoldsRow(drain.ptr, drain.ctr, regs.w)
  /\ bands.st[1 - drain.ptr] = "full" =>
       HoldsRow(1 - drain.ptr, RowAfter(drain.ctr), regs.w)
  /\ bands.st[bands.fill] = "filling" => HoldsRow(bands.fill, FillRow, bands.col)

\* The pixel on offer is the next one of the filling band, and the player
\* goes on behind it.  Before the first pixel of a run all bands are free.
Offer ==
  /\ player.valid => player.px.row = FillRow /\ player.px.col = bands.col
  /\ player.st = "run" => player.w = regs.w
  /\ player.st = "run" /\ player.valid =>
       IF bands.col = regs.w - 1
       THEN player.col = 0 /\ player.row = RowAfter(FillRow)
       ELSE player.col = bands.col + 1 /\ player.row = FillRow
  /\ player.st = "run" /\ ~player.valid =>
       /\ player.col = 0 /\ player.row = 0
       /\ drain.ctr = 0 /\ \A k \in TwoBands : bands.st[k] = "free"

PlaceInv == clean => Order /\ Contents /\ Offer /\ TagIsPlace

IInv == Types /\ PlaceInv

-----------------------------------------------------------------------------
(* The tiles of a run *)

SinkTypes ==
  sink \in [tiles : Nat, mismatch : Nat, inFrame : Nat, frame : Nat, done : BOOLEAN,
            ram : [Places -> Int \X Nat \X Nat]]

\* Tiles of the band being copied out that are in the core already.
DrainCol == IF drain.st = "start" THEN drain.col ELSE 0

Held(k) == IF bands.st[k] = "full" THEN regs.w ELSE 0

\* Tiles the feeder has taken and not yet sent.
Waiting == Held(0) + Held(1) + bands.col - DrainCol

OneFilling ==
  \A k \in TwoBands : bands.st[k] = "filling" => k = bands.fill /\ bands.col # 0

\* Every pixel the player has fetched is scored, in the core, in a band or on
\* offer: none is lost and none is counted twice.
Fetches == sink.tiles + Len(core) + Waiting + (IF player.valid THEN 1 ELSE 0)

Conserved ==
  /\ OneFilling
  /\ player.st = "idle" => Fetches = 0
  /\ player.st = "done" => Fetches = regs.nf * (regs.h * regs.w)
  /\ player.st = "run" =>
       /\ player.frame \in Nat /\ player.frame < regs.nf /\ player.row \in Nat /\ player.row < regs.h
       /\ player.col \in Nat /\ player.col < regs.w
       /\ Fetches = player.frame * (regs.h * regs.w) + player.row * regs.w + player.col

\* The row and column of tile i of the core; behind the last one comes the
\* tile the feeder sends next.
RowOf(i) == IF i <= Len(core) THEN core[i].band ELSE drain.ctr
ColOf(i) == IF i <= Len(core) THEN core[i].col ELSE DrainCol

\* Tiles are sent row by row, and the first row follows the last.
InTurn ==
  \A i \in 1 .. Len(core) :
    /\ RowOf(i) \in Nat /\ RowOf(i) < regs.h /\ ColOf(i) \in Nat /\ ColOf(i) < regs.w
    /\ IF ColOf(i) = regs.w - 1
       THEN RowOf(i + 1) = RowAfter(RowOf(i)) /\ ColOf(i + 1) = 0
       ELSE RowOf(i + 1) = RowOf(i) /\ ColOf(i + 1) = ColOf(i) + 1

\* The sink counts whole frames, and the tile it takes next is at the place
\* its own count gives.
Counted ==
  /\ sink.frame \in Nat /\ sink.frame < regs.nf
  /\ sink.inFrame = RowOf(1) * regs.w + ColOf(1)
  /\ sink.tiles = IF sink.done THEN regs.nf * (regs.h * regs.w)
                  ELSE sink.frame * (regs.h * regs.w) + sink.inFrame
  /\ sink.done => sink.inFrame = 0

CountInv == clean => Conserved /\ InTurn /\ Counted

-----------------------------------------------------------------------------
(* What the tiles are worth *)

FromStrip(px) == px.upload = strip /\ px.srow = px.row % regs.sh

\* While the firmware polls nobody uploads, and every pixel on its way is from
\* the strip row its frame row repeats.
Genuine ==
  /\ player.st = "run" => player.sh = regs.sh /\ player.srow = player.row % regs.sh
  /\ player.valid => FromStrip(player.px)
  /\ \A k \in TwoBands :
       bands.st[k] = "full" => \A c \in 0 .. regs.w - 1 : FromStrip(bands.px[k][c])
  /\ \A c \in 0 .. bands.col - 1 : FromStrip(bands.px[bands.fill][c])
  /\ \A i \in 1 .. Len(core) : FromStrip(core[i].px)

\* The sink has passed this place of the first frame.
Passed(r, c) ==
  sink.frame # 0 \/ sink.done \/ r < RowOf(1) \/ (r = RowOf(1) /\ c < ColOf(1))

Stored ==
  /\ sink.mismatch = 0
  /\ \A r \in 0 .. regs.h - 1, c \in 0 .. regs.w - 1 :
       Passed(r, c) => sink.ram[<<r, c>>] = <<strip, r % regs.sh, c>>

ResultInv == clean /\ fw = "poll" => Genuine /\ Stored

-----------------------------------------------------------------------------
\* A counter that stays below its size does not wrap.
LEMMA NoWrap == \A n \in Nat : n < CounterWrap => n % CounterWrap = n
BY RunAssumption

LEMMA Wraps == \A n \in Nat : n % CounterWrap \in Counter
BY RunAssumption DEF Counter

LEMMA Shapes ==
  RegTypes => /\ regs.w \in 1 .. CounterWrap /\ regs.h \in 1 .. CounterWrap
              /\ CounterWrap \in Nat \ {0} /\ regs.nf \in 1 .. CounterWrap
<1>1. CounterWrap \in Nat \ {0} /\ 1 \in 1 .. CounterWrap
  BY RunAssumption
<1>2. Widths \subseteq 1 .. CounterWrap /\ Heights \subseteq 1 .. CounterWrap
      /\ FrameCounts \subseteq 1 .. CounterWrap
  BY RunAssumption
<1> QED
  BY <1>1, <1>2 DEF RegTypes

LEMMA InitTypes == Init => Types
<1> SUFFICES ASSUME Init PROVE Types
  OBVIOUS
<1> USE RunAssumption
<1>1. RegTypes /\ regs.sh \in Nat \ {0}
  BY LargestAssumption DEF Init, RegTypes
<1>2. 0 \in Counter /\ Blank \in Origins
  BY DEF Counter, Blank, Origins
<1>3. PlayerTypes
  BY <1>2 DEF Init, PlayerTypes
<1>4. BandTypes /\ BandWidths
  BY <1>2 DEF Init, BandTypes, BandWidths, TwoBands, Counter
<1>5. DrainTypes /\ Draining
  BY <1>2 DEF Init, DrainTypes, Draining, TwoBands
<1>6. CoreTypes
  BY DEF Init, CoreTypes
<1> QED
  BY <1>1, <1>3, <1>4, <1>5, <1>6 DEF Init, Types

LEMMA InitPlace == Init => PlaceInv
<1> SUFFICES ASSUME Init PROVE PlaceInv
  OBVIOUS
<1>1. regs.w \in 1 .. CounterWrap /\ regs.h \in 1 .. CounterWrap
  BY RunAssumption, LargestAssumption DEF Init
<1>2. /\ bands.st = [k \in {0, 1} |-> "free"] /\ bands.col = 0 /\ bands.fill = 0
      /\ drain.ptr = 0 /\ drain.ctr = 0 /\ core = <<>>
      /\ player.st = "idle" /\ player.valid = FALSE
  BY DEF Init
<1>3. Order /\ Contents
  BY <1>1, <1>2 DEF Order, Contents
<1>4. Offer /\ TagIsPlace
  BY <1>2 DEF Offer, TagIsPlace
<1> QED
  BY <1>3, <1>4 DEF PlaceInv

-----------------------------------------------------------------------------
(* Types *)

\* Taking a pixel leaves whole bands, and the full ones alone.
LEMMA AfterPixelTypes ==
  ASSUME Types, PxReady, bands' = AfterPixel, UNCHANGED drain
  PROVE  BandTypes' /\ BandWidths' /\ Draining'
<1> DEFINE k == bands.fill
<1>1. k \in TwoBands /\ 1 - k \in TwoBands /\ bands.col \in Counter
  BY DEF Types, BandTypes, TwoBands
<1>2. bands.st[k] # "full"
  BY DEF PxReady
<1>3. bands'.st \in [TwoBands -> {"free", "filling", "full"}]
  BY <1>1 DEF AfterPixel, Types, BandTypes
<1>4. bands'.w \in [TwoBands -> 0 .. CounterWrap]
  BY <1>1, Shapes DEF AfterPixel, Types, BandTypes
<1>5. bands'.px \in [TwoBands -> [Counter -> Origins]]
  <2>1. player.px \in Origins /\ bands.px \in [TwoBands -> [Counter -> Origins]]
    BY DEF Types, PlayerTypes, BandTypes
  <2>2. bands'.px = [bands.px EXCEPT ![k] = [bands.px[k] EXCEPT ![bands.col] = player.px]]
    BY DEF AfterPixel
  <2>3. [bands.px[k] EXCEPT ![bands.col] = player.px] \in [Counter -> Origins]
    BY <2>1, <1>1
  <2> QED
    BY <2>1, <2>2, <2>3, <1>1
<1>6. bands'.fill \in TwoBands
  BY <1>1 DEF AfterPixel
<1>7. bands'.col \in Counter
  <2>1. 0 \in Counter /\ bands.col + 1 \in Nat
    BY <1>1, RunAssumption DEF Counter
  <2> QED
    BY <2>1, Wraps DEF AfterPixel
<1>8. BandTypes'
  <2>1. bands' = [st |-> bands'.st, w |-> bands'.w, px |-> bands'.px,
                  fill |-> bands'.fill, col |-> bands'.col]
    BY DEF AfterPixel
  <2> QED
    BY <2>1, <1>3, <1>4, <1>5, <1>6, <1>7 DEF BandTypes
<1>9. BandWidths'
  <2> SUFFICES ASSUME NEW j \in TwoBands, bands'.st[j] # "free"
               PROVE  bands'.w[j] \in 1 .. CounterWrap
    BY DEF BandWidths
  <2>1. CASE j = k
    <3>1. bands.w[k] \in 1 .. CounterWrap \/ bands.st[k] = "free"
      BY <1>1 DEF Types, BandWidths
    <3> QED
      BY <2>1, <3>1, <1>1, Shapes DEF AfterPixel, Types, BandTypes
  <2>2. CASE j # k
    <3>1. bands'.st[j] = bands.st[j] /\ bands'.w[j] = bands.w[j]
      BY <2>2, <1>1 DEF AfterPixel, Types, BandTypes
    <3> QED
      BY <3>1 DEF Types, BandWidths
  <2> QED
    BY <2>1, <2>2
<1>10. Draining'
  <2> SUFFICES ASSUME drain.st = "start"
               PROVE  bands'.st[drain.ptr] = "full" /\ drain.col < bands'.w[drain.ptr]
    BY DEF Draining
  <2>1. drain.ptr \in TwoBands /\ bands.st[drain.ptr] = "full"
        /\ drain.col < bands.w[drain.ptr]
    BY DEF Types, Draining, DrainTypes
  <2> QED
    BY <2>1, <1>1, <1>2 DEF AfterPixel, Types, BandTypes
<1> QED
  BY <1>8, <1>9, <1>10

LEMMA FetchedTypes == ASSUME Types, player' = Fetched PROVE PlayerTypes'
<1>1. player \in [st : {"idle", "run", "done"}, w : Nat, sh : Nat, row : Counter,
                  col : Counter, srow : Counter, frame : Counter, valid : BOOLEAN,
                  px : Origins]
  BY DEF Types, PlayerTypes
<1>2. Counter \subseteq Nat /\ 0 \in Counter
  BY RunAssumption DEF Counter
<1>7. /\ player.col \in Nat /\ player.row \in Nat
      /\ player.frame \in Nat /\ player.srow \in Nat
  <2>1. /\ player.col \in Counter /\ player.row \in Counter
        /\ player.frame \in Counter /\ player.srow \in Counter
    BY <1>1
  <2> QED
    BY <2>1, <1>2
<1>3. [upload |-> strip, srow |-> player.srow, col |-> player.col, row |-> player.row]
        \in Origins
  BY <1>7 DEF Origins, Types
<1>4. /\ (player.col + 1) % CounterWrap \in Counter
      /\ (player.row + 1) % CounterWrap \in Counter
      /\ (player.frame + 1) % CounterWrap \in Counter
      /\ (player.srow + 1) % CounterWrap \in Counter
  <2>1. player.col + 1 \in Nat /\ player.row + 1 \in Nat /\ player.frame + 1 \in Nat
        /\ player.srow + 1 \in Nat
    BY <1>7
  <2> QED
    BY <2>1, Wraps
<1>5. StripRowAfter \in Counter
  BY <1>2, <1>4 DEF StripRowAfter
<1> QED
  BY <1>1, <1>2, <1>3, <1>4, <1>5 DEF PlayerTypes, Fetched

LEMMA SendTileTypes == ASSUME Types, SendTile PROVE Types'
<1>1. /\ drain.ptr \in TwoBands /\ 1 - drain.ptr \in TwoBands
      /\ drain.col \in Counter /\ drain.ctr \in Counter
      /\ bands.st[drain.ptr] = "full" /\ drain.col < bands.w[drain.ptr]
      /\ bands.w[drain.ptr] \in 1 .. CounterWrap
  BY DEF Types, SendTile, Draining, BandWidths, DrainTypes, TwoBands
<1>2. CoreTypes'
  <2>1. bands.px[drain.ptr][drain.col] \in Origins
    BY <1>1 DEF Types, BandTypes
  <2>2. core \in Seq([band : Counter, col : Counter, px : Origins]) /\ Len(core) < PipeCap
    BY DEF Types, CoreTypes, SendTile, Room
  <2>3. [band |-> drain.ctr, col |-> drain.col, px |-> bands.px[drain.ptr][drain.col]]
          \in [band : Counter, col : Counter, px : Origins]
    BY <2>1, <1>1
  <2>4. core' = Append(core, [band |-> drain.ctr, col |-> drain.col,
                              px |-> bands.px[drain.ptr][drain.col]])
    BY DEF SendTile
  <2> HIDE DEF Counter, Origins
  <2> QED
    BY <2>2, <2>3, <2>4, RunAssumption DEF CoreTypes
<1>3. BandAfter \in Counter
  <2>1. drain.ctr + 1 \in Nat /\ 0 \in Counter
    BY <1>1, RunAssumption DEF Counter
  <2> QED
    BY <2>1, Wraps DEF BandAfter
<1>4. BandTypes' /\ DrainTypes' /\ BandWidths' /\ Draining'
  <2>1. CASE drain.col = bands.w[drain.ptr] - 1
    <3>1. /\ bands' = [bands EXCEPT !.st[drain.ptr] = "free"]
          /\ drain' = [drain EXCEPT !.st = "idle", !.ptr = 1 - @, !.ctr = BandAfter]
      BY <2>1 DEF SendTile
    <3>2. BandTypes' /\ BandWidths'
      BY <3>1, <1>1 DEF Types, BandTypes, BandWidths
    <3>3. DrainTypes' /\ Draining'
      BY <3>1, <1>1, <1>3 DEF Types, DrainTypes, Draining
    <3> QED
      BY <3>2, <3>3
  <2>2. CASE drain.col # bands.w[drain.ptr] - 1
    <3>1. bands' = bands /\ drain' = [drain EXCEPT !.col = @ + 1]
      BY <2>2 DEF SendTile
    <3>2. drain.col + 1 < bands.w[drain.ptr] /\ drain.col + 1 \in Counter
      BY <2>2, <1>1, RunAssumption DEF Counter
    <3> QED
      BY <3>1, <3>2, <1>1 DEF Types, DrainTypes, Draining, BandTypes, BandWidths
  <2> QED
    BY <2>1, <2>2
<1> QED
  BY <1>2, <1>4 DEF Types, SendTile, RegTypes, PlayerTypes

LEMMA CmdRunTypes == ASSUME Types, CmdRun PROVE Types'
<1>1. RegTypes' /\ regs'.sh \in Nat \ {0}
  BY RunAssumption DEF CmdRun, RegTypes
<1>2. regs'.w \in Nat
  <2>1. regs'.w \in Widths
    BY <1>1 DEF RegTypes
  <2>2. Widths \subseteq Nat
    BY RunAssumption
  <2> QED
    BY <2>1, <2>2
<1>3. PlayerTypes'
  <2>1. player' = player
          \/ player' = [player EXCEPT
               !.w = regs'.w, !.sh = regs'.sh, !.row = 0, !.col = 0, !.srow = 0,
               !.frame = 0, !.valid = FALSE, !.st = "run"]
    BY DEF CmdRun, Started
  <2>2. 0 \in Counter
    BY RunAssumption DEF Counter
  <2> QED
    BY <2>1, <2>2, <1>1, <1>2 DEF Types, PlayerTypes
<1>4. clean' \in BOOLEAN
  BY DEF CmdRun, Drained
<1> QED
  BY <1>1, <1>3, <1>4
     DEF Types, CmdRun, BandTypes, DrainTypes, BandWidths, Draining, CoreTypes

LEMMA TypesStep == Types /\ [Next]_vars => Types'
<1> SUFFICES ASSUME Types, [Next]_vars PROVE Types'
  OBVIOUS
<1>1. CASE Stream
  <2>1. PlayerTypes'
    BY <1>1, FetchedTypes DEF Stream
  <2>2. BandTypes' /\ BandWidths' /\ Draining'
    <3>1. CASE player.valid
      BY <1>1, <3>1, AfterPixelTypes DEF Stream
    <3>2. CASE ~player.valid
      BY <1>1, <3>2 DEF Stream, Types, BandTypes, BandWidths, Draining
    <3> QED
      BY <3>1, <3>2
  <2> QED
    BY <1>1, <2>1, <2>2 DEF Stream, Types, RegTypes, DrainTypes, CoreTypes
<1>2. CASE TakeLast
  <2>1. PlayerTypes'
    BY <1>2 DEF TakeLast, Types, PlayerTypes
  <2>2. BandTypes' /\ BandWidths' /\ Draining'
    BY <1>2, AfterPixelTypes DEF TakeLast
  <2> QED
    BY <1>2, <2>1, <2>2 DEF TakeLast, Types, RegTypes, DrainTypes, CoreTypes
<1>3. CASE DrainBand
  <2>1. drain.ptr \in TwoBands /\ bands.w[drain.ptr] \in 1 .. CounterWrap
    BY <1>3 DEF DrainBand, Types, DrainTypes, BandWidths
  <2>2. 0 \in Counter /\ 0 < bands.w[drain.ptr]
    BY <2>1, RunAssumption DEF Counter
  <2>3. DrainTypes'
    BY <1>3, <2>2 DEF DrainBand, Types, DrainTypes
  <2>4. drain'.ptr = drain.ptr /\ drain'.col = 0 /\ bands' = bands
    BY <1>3 DEF DrainBand, Types, DrainTypes
  <2>5. Draining'
    BY <1>3, <2>2, <2>4 DEF DrainBand, Draining
  <2> QED
    BY <1>3, <2>3, <2>5 DEF DrainBand, Types, RegTypes, PlayerTypes, BandTypes, BandWidths, CoreTypes
<1>4. CASE SendTile
  BY <1>4, SendTileTypes
<1>5. CASE TakeScore
  <2>1. CoreTypes'
    BY <1>5, RunAssumption DEF TakeScore, Types, CoreTypes
  <2> QED
    BY <1>5, <2>1
       DEF TakeScore, Types, RegTypes, PlayerTypes, BandTypes, BandWidths, DrainTypes, Draining
<1>6. CASE CmdRun
  BY <1>6, CmdRunTypes
<1>7. CASE RunDone \/ RunSpunOut \/ CmdUpload \/ UNCHANGED vars
  BY <1>7 DEF RunDone, RunSpunOut, CmdUpload, vars, Types, RegTypes, PlayerTypes, BandTypes,
              BandWidths, DrainTypes, Draining, CoreTypes
<1> QED
  BY <1>1, <1>2, <1>3, <1>4, <1>5, <1>6, <1>7 DEF Next, Stages, Firmware

-----------------------------------------------------------------------------
(* Places *)

\* The rows the filling side can be at.
LEMMA FillRowInFrame ==
  ASSUME Types, Order
  PROVE  /\ FillRow \in 0 .. regs.h - 1 /\ RowAfter(FillRow) \in 0 .. regs.h - 1
         /\ drain.ctr \in 0 .. regs.h - 1 /\ RowAfter(drain.ctr) \in 0 .. regs.h - 1
<1>1. regs.h \in 1 .. CounterWrap
  BY Shapes DEF Types
<1>2. \A r \in 0 .. regs.h - 1 : RowAfter(r) \in 0 .. regs.h - 1
  BY <1>1, RunAssumption DEF RowAfter
<1>3. drain.ctr \in 0 .. regs.h - 1
  BY DEF Order
<1>4. FillRow \in 0 .. regs.h - 1
  BY <1>2, <1>3 DEF FillRow
<1> QED
  BY <1>2, <1>3, <1>4

\* The pixel on offer is taken: the filling side moves one pixel on, at the
\* end of a row to the next band and row.
LEMMA AfterPixelPlace ==
  ASSUME Types, Order, Contents, PxReady, UNCHANGED <<regs, drain>>, bands' = AfterPixel,
         player.px.row = FillRow, player.px.col = bands.col
  PROVE  /\ Order' /\ Contents'
         /\ bands'.col = IF bands.col = regs.w - 1 THEN 0 ELSE bands.col + 1
         /\ FillRow' = IF bands.col = regs.w - 1 THEN RowAfter(FillRow) ELSE FillRow
<1> DEFINE k == bands.fill
           p == drain.ptr
           last == bands.col = regs.w - 1
<1>1. /\ k \in {0, 1} /\ p \in {0, 1} /\ bands.col \in Counter
      /\ regs.w \in 1 .. CounterWrap /\ CounterWrap \in Nat \ {0}
      /\ bands.col \in 0 .. regs.w - 1
  BY Shapes DEF Types, BandTypes, DrainTypes, TwoBands, Order
<1>2. bands.st[k] # "full" /\ bands.st[k] \in {"free", "filling"}
  BY DEF PxReady
<1>3. bands'.col = IF last THEN 0 ELSE bands.col + 1
  <2>1. ~last => bands.col + 1 \in Nat /\ bands.col + 1 < CounterWrap
    BY <1>1
  <2> QED
    BY <2>1, NoWrap DEF AfterPixel
<1>4. /\ bands'.fill = IF last THEN 1 - k ELSE k
      /\ bands'.st[k] = IF last THEN "full" ELSE "filling"
      /\ bands'.st[1 - k] = bands.st[1 - k]
      /\ bands'.w[1 - k] = bands.w[1 - k]
      /\ bands'.px[1 - k] = bands.px[1 - k]
  BY <1>1 DEF AfterPixel, Types, BandTypes, TwoBands
<1>5. /\ bands'.w[k] = regs.w
      /\ \A c \in 0 .. bands.col :
           bands'.px[k][c].row = FillRow /\ bands'.px[k][c].col = c
  <2>1. bands.st[k] = "free" => bands.col = 0
    BY DEF Order
  <2>2. bands.st[k] = "filling" => HoldsRow(k, FillRow, bands.col)
    BY DEF Contents
  <2>3. bands'.w[k] = regs.w
    BY <1>1, <1>2, <2>2 DEF AfterPixel, HoldsRow, Types, BandTypes, TwoBands
  <2>4. bands'.px[k] = [bands.px[k] EXCEPT ![bands.col] = player.px]
    BY <1>1 DEF AfterPixel, Types, BandTypes, TwoBands
  <2>5. bands.px[k] \in [Counter -> Origins]
    BY <1>1 DEF Types, BandTypes, TwoBands
  <2>6. \A c \in 0 .. bands.col :
          bands'.px[k][c].row = FillRow /\ bands'.px[k][c].col = c
    <3> SUFFICES ASSUME NEW c \in 0 .. bands.col
                 PROVE  bands'.px[k][c].row = FillRow /\ bands'.px[k][c].col = c
      OBVIOUS
    <3>1. c \in Counter
      BY <1>1 DEF Counter
    <3>2. CASE c = bands.col
      BY <3>2, <2>4, <2>5, <3>1
    <3>3. CASE c # bands.col
      <4>1. bands.st[k] = "filling" /\ c \in 0 .. bands.col - 1
        BY <3>3, <1>1, <1>2, <2>1
      <4> QED
        BY <4>1, <2>2, <2>4, <2>5, <3>1, <3>3 DEF HoldsRow
    <3> QED
      BY <3>2, <3>3
  <2> QED
    BY <2>3, <2>6
<1>6. regs' = regs /\ drain' = drain /\ \A r : RowAfter(r)' = RowAfter(r)
  BY DEF RowAfter
<1>7. CASE bands.st[p] # "full"
  <2>1. k = p /\ bands.st[1 - p] = "free" /\ FillRow = drain.ctr
    BY <1>7 DEF Order, FillRow
  <2>2. CASE last
    <3>1. /\ bands'.st[p] = "full" /\ bands'.st[1 - p] = "free" /\ bands'.fill = 1 - p
          /\ bands'.col = 0
      BY <2>1, <2>2, <1>3, <1>4
    <3>2. Order'
      BY <3>1, <1>1, <1>6 DEF Order
    <3>3. FillRow' = RowAfter(FillRow)
      BY <3>1, <2>1, <1>1, <1>6 DEF FillRow, RowAfter
    <3>4. Contents'
      BY <3>1, <2>1, <2>2, <1>1, <1>5, <1>6 DEF Contents, HoldsRow
    <3> QED
      BY <3>2, <3>3, <3>4, <2>2, <1>3
  <2>3. CASE ~last
    <3>1. /\ bands'.st[p] = "filling" /\ bands'.st[1 - p] = "free" /\ bands'.fill = p
          /\ bands'.col = bands.col + 1
      BY <2>1, <2>3, <1>3, <1>4
    <3>2. Order'
      BY <3>1, <2>3, <1>1, <1>6 DEF Order
    <3>3. FillRow' = FillRow
      BY <3>1, <2>1, <1>6 DEF FillRow
    <3>4. Contents'
      BY <3>1, <3>3, <2>1, <1>1, <1>5, <1>6 DEF Contents, HoldsRow
    <3> QED
      BY <3>2, <3>3, <3>4, <2>3, <1>3
  <2> QED
    BY <2>2, <2>3
<1>8. CASE bands.st[p] = "full"
  <2>1. k = 1 - p /\ 1 - k = p /\ bands.st[1 - p] # "full" /\ FillRow = RowAfter(drain.ctr)
    BY <1>1, <1>2, <1>8 DEF Order, FillRow
  <2>2. /\ bands'.st[p] = "full" /\ bands'.w[p] = bands.w[p] /\ bands'.px[p] = bands.px[p]
        /\ HoldsRow(p, drain.ctr, regs.w)
    BY <2>1, <1>4, <1>8 DEF Contents
  <2>3. CASE last
    <3>1. bands'.st[1 - p] = "full" /\ bands'.fill = p /\ bands'.col = 0
      BY <2>1, <2>3, <1>3, <1>4
    <3>2. Order'
      BY <3>1, <2>2, <1>1, <1>6 DEF Order
    <3>3. FillRow' = RowAfter(FillRow)
      BY <3>1, <2>1, <2>2, <1>6 DEF FillRow, RowAfter
    <3>4. Contents'
      BY <3>1, <2>1, <2>2, <2>3, <1>1, <1>5, <1>6 DEF Contents, HoldsRow, RowAfter
    <3> QED
      BY <3>2, <3>3, <3>4, <2>3, <1>3
  <2>4. CASE ~last
    <3>1. /\ bands'.st[1 - p] = "filling" /\ bands'.fill = 1 - p
          /\ bands'.col = bands.col + 1
      BY <2>1, <2>4, <1>3, <1>4
    <3>2. Order'
      BY <3>1, <2>2, <2>4, <1>1, <1>6 DEF Order
    <3>3. FillRow' = FillRow
      BY <3>1, <2>1, <2>2, <1>1, <1>6 DEF FillRow, RowAfter
    <3>4. Contents'
      BY <3>1, <3>3, <2>1, <2>2, <1>1, <1>5, <1>6 DEF Contents, HoldsRow
    <3> QED
      BY <3>2, <3>3, <3>4, <2>4, <1>3
  <2> QED
    BY <2>3, <2>4
<1> QED
  BY <1>7, <1>8

\* A fetch puts the player's next pixel on offer and moves the player behind it.
LEMMA FetchedPlace ==
  ASSUME Types, player' = Fetched, player.st = "run", player.w = regs.w,
         player.col \in 0 .. regs.w - 1, player.row \in 0 .. regs.h - 1
  PROVE  /\ player'.valid /\ player'.w = regs.w
         /\ player'.px.row = player.row /\ player'.px.col = player.col
         /\ player'.st = "run" =>
              IF player.col = regs.w - 1
              THEN player'.col = 0 /\ player'.row = RowAfter(player.row)
              ELSE player'.col = player.col + 1 /\ player'.row = player.row
<1>1. /\ regs.w \in 1 .. CounterWrap /\ regs.h \in 1 .. CounterWrap
      /\ CounterWrap \in Nat \ {0}
  BY Shapes DEF Types
<1>2. player.col # regs.w - 1 => (player.col + 1) % CounterWrap = player.col + 1
  <2>1. player.col # regs.w - 1 => player.col + 1 \in Nat /\ player.col + 1 < CounterWrap
    BY <1>1
  <2> QED
    BY <2>1, NoWrap
<1>3. player.row # regs.h - 1 => (player.row + 1) % CounterWrap = player.row + 1
  <2>1. player.row # regs.h - 1 => player.row + 1 \in Nat /\ player.row + 1 < CounterWrap
    BY <1>1
  <2> QED
    BY <2>1, NoWrap
<1>4. /\ player'.valid = TRUE /\ player'.w = player.w
      /\ player'.px.row = player.row /\ player'.px.col = player.col
      /\ player'.col = IF EndOfRow THEN 0 ELSE (player.col + 1) % CounterWrap
      /\ player'.row = IF EndOfFrame THEN 0
                       ELSE IF EndOfRow THEN (player.row + 1) % CounterWrap ELSE player.row
  BY DEF Fetched, Types, PlayerTypes
<1> QED
  BY <1>2, <1>3, <1>4 DEF EndOfRow, EndOfFrame, RowAfter

\* With a valid pixel, or at the start of a run, the player is where the next
\* pixel of the filling side comes from.
LEMMA StreamPlace == ASSUME Types, clean, PlaceInv, Stream PROVE PlaceInv'
<1>1. Order /\ Contents /\ Offer /\ TagIsPlace /\ player.st = "run"
      /\ UNCHANGED <<regs, drain, core, clean>> /\ player.w = regs.w
  BY DEF PlaceInv, Stream, Offer
<1>2. /\ Order' /\ Contents' /\ bands'.col = player.col /\ FillRow' = player.row
  <2>1. CASE player.valid
    <3>1. PxReady /\ bands' = AfterPixel /\ UNCHANGED <<regs, drain>>
          /\ player.px.row = FillRow /\ player.px.col = bands.col
      BY <2>1, <1>1 DEF Stream, Offer
    <3> QED
      BY <3>1, <2>1, <1>1, AfterPixelPlace DEF Offer
  <2>2. CASE ~player.valid
    <3>1. /\ bands' = bands /\ regs' = regs /\ drain' = drain
          /\ player.col = 0 /\ player.row = 0 /\ drain.ctr = 0
          /\ \A k \in TwoBands : bands.st[k] = "free"
      BY <2>2, <1>1 DEF Stream, Offer
    <3>2. bands.fill \in TwoBands /\ drain.ptr \in TwoBands
      BY DEF Types, BandTypes, DrainTypes
    <3>3. Order' /\ Contents' /\ FillRow' = FillRow
      BY <3>1, <1>1 DEF Order, Contents, HoldsRow, FillRow, RowAfter
    <3>4. FillRow = 0 /\ bands.col = 0
      BY <3>1, <3>2, <1>1 DEF FillRow, Order
    <3> QED
      BY <3>1, <3>3, <3>4
  <2> QED
    BY <2>1, <2>2
<1>3. player.col \in 0 .. regs.w - 1 /\ player.row \in 0 .. regs.h - 1
  <2>1. bands'.col \in 0 .. regs.w - 1
    BY <1>1, <1>2 DEF Order
  <2>2. FillRow' \in 0 .. regs.h - 1
    <3>1. Types'
      BY TypesStep DEF Next, Stages
    <3>2. (FillRow \in 0 .. regs.h - 1)'
      BY <3>1, <1>2, FillRowInFrame, PTL
    <3> QED
      BY <3>2, <1>1
  <2> QED
    BY <2>1, <2>2, <1>2
<1>4. /\ player'.valid /\ player'.w = regs.w
      /\ player'.px.row = player.row /\ player'.px.col = player.col
      /\ player'.st = "run" =>
           IF player.col = regs.w - 1
           THEN player'.col = 0 /\ player'.row = RowAfter(player.row)
           ELSE player'.col = player.col + 1 /\ player'.row = player.row
  BY <1>1, <1>3, FetchedPlace DEF Stream
<1>5. Offer'
  BY <1>1, <1>2, <1>4 DEF Offer, RowAfter
<1> QED
  BY <1>1, <1>2, <1>5 DEF PlaceInv, TagIsPlace

LEMMA TakeLastPlace == ASSUME Types, clean, PlaceInv, TakeLast PROVE PlaceInv'
<1>1. Order /\ Contents /\ Offer /\ TagIsPlace /\ PxReady
      /\ bands' = AfterPixel /\ UNCHANGED <<regs, drain, core, clean>>
      /\ player.px.row = FillRow /\ player.px.col = bands.col
  BY DEF PlaceInv, TakeLast, Offer
<1>2. Order' /\ Contents'
  BY <1>1, AfterPixelPlace
<1>3. player'.st = "done" /\ ~player'.valid
  BY DEF TakeLast, Types, PlayerTypes
<1>4. Offer'
  BY <1>3 DEF Offer
<1> QED
  BY <1>1, <1>2, <1>4 DEF PlaceInv, TagIsPlace

LEMMA SendTilePlace == ASSUME Types, clean, PlaceInv, SendTile PROVE PlaceInv'
<1> DEFINE p == drain.ptr
<1>1. Order /\ Contents /\ Offer /\ TagIsPlace /\ UNCHANGED <<regs, player, clean>>
  BY DEF PlaceInv, SendTile
<1>2. /\ p \in {0, 1} /\ bands.fill \in {0, 1} /\ drain.col \in Nat
      /\ bands.st[p] = "full" /\ drain.col < bands.w[p]
      /\ regs.w \in 1 .. CounterWrap /\ regs.h \in 1 .. CounterWrap
      /\ CounterWrap \in Nat \ {0}
  BY Shapes DEF Types, SendTile, Draining, DrainTypes, BandTypes, TwoBands, Counter
<1>3. bands.w[p] = regs.w /\ bands.px[p][drain.col].row = drain.ctr
      /\ bands.px[p][drain.col].col = drain.col
  <2>1. HoldsRow(p, drain.ctr, regs.w)
    BY <1>1, <1>2 DEF Contents
  <2>2. drain.col \in 0 .. regs.w - 1
    BY <2>1, <1>2 DEF HoldsRow
  <2> QED
    BY <2>1, <2>2 DEF HoldsRow
<1>4. TagIsPlace'
  <2>1. core' = Append(core, [band |-> drain.ctr, col |-> drain.col,
                              px |-> bands.px[p][drain.col]])
    BY DEF SendTile
  <2>2. core \in Seq([band : Counter, col : Counter, px : Origins])
    BY DEF Types, CoreTypes
  <2> SUFFICES ASSUME NEW i \in 1 .. Len(core')
               PROVE  core'[i].band = core'[i].px.row /\ core'[i].col = core'[i].px.col
    BY DEF TagIsPlace
  <2>3. CASE i = Len(core) + 1
    BY <2>1, <2>2, <2>3, <1>3
  <2>4. CASE i # Len(core) + 1
    <3>1. i \in 1 .. Len(core) /\ core'[i] = core[i]
      BY <2>1, <2>2, <2>4
    <3> QED
      BY <3>1, <1>1 DEF TagIsPlace
  <2> QED
    BY <2>3, <2>4
<1>5. CASE drain.col # bands.w[p] - 1
  <2>1. bands' = bands /\ drain' = [drain EXCEPT !.col = @ + 1]
    BY <1>5 DEF SendTile
  <2>2. drain'.ptr = p /\ drain'.ctr = drain.ctr
    BY <2>1 DEF Types, DrainTypes
  <2>3. Order' /\ Contents' /\ Offer'
    BY <2>1, <2>2, <1>1 DEF Order, Contents, Offer, HoldsRow, FillRow, RowAfter
  <2> QED
    BY <2>3, <1>4 DEF PlaceInv
<1>6. CASE drain.col = bands.w[p] - 1
  <2>1. /\ bands' = [bands EXCEPT !.st[p] = "free"]
        /\ drain' = [drain EXCEPT !.st = "idle", !.ptr = 1 - @, !.ctr = BandAfter]
    BY <1>6 DEF SendTile
  <2>2. /\ bands'.st[p] = "free" /\ bands'.st[1 - p] = bands.st[1 - p]
        /\ bands'.fill = bands.fill /\ bands'.col = bands.col
        /\ bands'.w = bands.w /\ bands'.px = bands.px
    BY <2>1, <1>2 DEF Types, BandTypes, TwoBands
  <2>3. BandAfter = RowAfter(drain.ctr)
    <3>1. drain.ctr \in 0 .. regs.h - 1
      BY <1>1 DEF Order
    <3>2. drain.ctr # regs.h - 1 => drain.ctr + 1 \in Nat /\ drain.ctr + 1 < CounterWrap
      BY <3>1, <1>2
    <3> QED
      BY <3>2, NoWrap DEF BandAfter, RowAfter
  <2>4. drain'.ptr = 1 - p /\ drain'.ctr = RowAfter(drain.ctr) /\ 1 - (1 - p) = p
    BY <2>1, <2>3, <1>2 DEF Types, DrainTypes
  <2>5. RowAfter(drain.ctr) \in 0 .. regs.h - 1
    BY <1>1, FillRowInFrame
  <2>6. Order'
    BY <2>2, <2>4, <2>5, <1>1, <1>2 DEF Order
  <2>7. FillRow' = FillRow
    BY <2>2, <2>4, <1>1, <1>2 DEF FillRow, Order, RowAfter
  <2>8. Contents'
    BY <2>2, <2>4, <2>7, <1>1, <1>2 DEF Contents, HoldsRow, Order
  <2>9. Offer'
    <3>1. ~(player.st = "run" /\ ~player.valid)
      BY <1>1, <1>2 DEF Offer, TwoBands
    <3> QED
      BY <3>1, <2>2, <2>7, <1>1 DEF Offer, RowAfter
  <2> QED
    BY <2>6, <2>8, <2>9, <1>4 DEF PlaceInv
<1> QED
  BY <1>5, <1>6

\* A run that starts on drained stages starts both sides at row 0.
LEMMA CmdRunPlace == ASSUME Types, CmdRun, Drained PROVE PlaceInv'
<1>1. /\ bands' = bands /\ drain' = drain /\ core' = core
      /\ bands.st = [k \in {0, 1} |-> "free"] /\ bands.col = 0
      /\ drain.ctr = 0 /\ drain.ptr = bands.fill /\ core = <<>>
      /\ bands.fill \in {0, 1}
  BY DEF CmdRun, Drained, Types, BandTypes, TwoBands
<1>2. regs'.w \in 1 .. CounterWrap /\ regs'.h \in 1 .. CounterWrap
  <2>1. RegTypes'
    BY CmdRunTypes DEF Types
  <2>2. regs'.w \in Widths /\ regs'.h \in Heights
    BY <2>1 DEF RegTypes
  <2>3. Widths \subseteq 1 .. CounterWrap /\ Heights \subseteq 1 .. CounterWrap
    BY RunAssumption
  <2> QED
    BY <2>2, <2>3
<1>3. Order'
  BY <1>1, <1>2, RunAssumption DEF Order
<1>4. Contents'
  BY <1>1 DEF Contents
<1>5. player'.w = regs'.w /\ player'.col = 0 /\ player'.row = 0 /\ player'.valid = FALSE
  BY DEF CmdRun, Drained, Started, Types, PlayerTypes
<1>6. Offer'
  BY <1>1, <1>5 DEF Offer, TwoBands
<1>7. TagIsPlace'
  BY <1>1 DEF TagIsPlace
<1> QED
  BY <1>3, <1>4, <1>6, <1>7 DEF PlaceInv

LEMMA PlaceStep == Types /\ PlaceInv /\ [Next]_vars => PlaceInv'
<1> SUFFICES ASSUME Types, PlaceInv, [Next]_vars, clean' PROVE PlaceInv'
  BY DEF PlaceInv
<1>1. CASE CmdRun
  BY <1>1, CmdRunPlace DEF CmdRun
<1>2. CASE Stream
  BY <1>2, StreamPlace DEF Stream
<1>3. CASE TakeLast
  BY <1>3, TakeLastPlace DEF TakeLast
<1>4. CASE SendTile
  BY <1>4, SendTilePlace DEF SendTile
<1>5. CASE DrainBand
  <2>1. drain'.ptr = drain.ptr /\ drain'.ctr = drain.ctr
        /\ UNCHANGED <<regs, player, bands, core, clean>>
    BY <1>5 DEF DrainBand, Types, DrainTypes
  <2> QED
    BY <2>1 DEF PlaceInv, Order, Contents, Offer, TagIsPlace, HoldsRow, FillRow, RowAfter
<1>6. CASE TakeScore
  <2>1. core # <<>> /\ core' = Tail(core)
        /\ UNCHANGED <<regs, player, bands, drain, clean>>
    BY <1>6 DEF TakeScore
  <2>2. TagIsPlace'
    <3>1. core \in Seq([band : Counter, col : Counter, px : Origins])
      BY DEF Types, CoreTypes
    <3>2. \A i \in 1 .. Len(core') : i + 1 \in 1 .. Len(core) /\ core'[i] = core[i + 1]
      BY <2>1, <3>1
    <3> QED
      BY <2>1, <3>2 DEF PlaceInv, TagIsPlace
  <2> QED
    BY <2>1, <2>2 DEF PlaceInv, Order, Contents, Offer, HoldsRow, FillRow, RowAfter
<1>7. CASE RunDone \/ RunSpunOut \/ CmdUpload \/ UNCHANGED vars
  <2>1. UNCHANGED <<regs, player, bands, drain, core, clean>>
    BY <1>7 DEF RunDone, RunSpunOut, CmdUpload, vars
  <2> QED
    BY <2>1 DEF PlaceInv, Order, Contents, Offer, TagIsPlace, HoldsRow, FillRow, RowAfter
<1> QED
  BY <1>1, <1>2, <1>3, <1>4, <1>5, <1>6, <1>7 DEF Next, Stages, Firmware

-----------------------------------------------------------------------------
(* Arithmetic of frames *)

\* A place of a frame run is before the end of the run.
LEMMA WithinRun ==
  \A f, r, c, n, h, w \in Nat :
    f < n /\ r < h /\ c < w => f * (h * w) + r * w + c < n * (h * w)
OBVIOUS

\* Only the last place of a frame has the last number.
LEMMA LastPlace ==
  \A r, c, h, w \in Nat :
    r < h /\ c < w => r * w + c \in Nat
                      /\ (r * w + c = w * h - 1 <=> r = h - 1 /\ c = w - 1)
OBVIOUS

\* The number of the first place of the next row, of the next frame, and of
\* the first frame behind the run.
LEMMA NextPlace ==
  \A f, r, n, h, w \in Nat :
    /\ (r + 1) * w = r * w + w
    /\ r = h - 1 => r * w + w = h * w
    /\ (f + 1) * (h * w) = f * (h * w) + h * w
    /\ f = n - 1 => f * (h * w) + h * w = n * (h * w)
    /\ h * w = w * h /\ h * w \in Nat
OBVIOUS

LEMMA Division ==
  \A r, s \in Nat :
    s > 0 => r \div s \in Nat /\ r % s \in 0 .. s - 1 /\ r = s * (r \div s) + (r % s)
<1> SUFFICES ASSUME NEW r \in Nat, NEW s \in Nat, s > 0
             PROVE  r \div s \in Nat /\ r % s \in 0 .. s - 1 /\ r = s * (r \div s) + (r % s)
  OBVIOUS
<1>1. r \div s \in Nat
  OBVIOUS
<1>2. r % s \in 0 .. s - 1
  OBVIOUS
<1>3. r % s = r - s * (r \div s)
  OBVIOUS
<1> QED
  BY <1>1, <1>2, <1>3

LEMMA OneRemainder ==
  \A p, q, m, n, s \in Nat : m < s /\ n < s /\ s * p + m = s * q + n => m = n
OBVIOUS

\* A count that starts again at s is the remainder of the count that does not.
LEMMA NextRemainder ==
  \A r, s \in Nat :
    s > 0 => (r + 1) % s = IF r % s = s - 1 THEN 0 ELSE (r % s) + 1
<1> SUFFICES ASSUME NEW r \in Nat, NEW s \in Nat, s > 0
             PROVE  (r + 1) % s = IF r % s = s - 1 THEN 0 ELSE (r % s) + 1
  OBVIOUS
<1> DEFINE p == r \div s
           q == (r + 1) \div s
           m == r % s
           n == (r + 1) % s
<1>1. r = s * p + m /\ p \in Nat /\ m \in Nat /\ m < s
  BY Division
<1>2. r + 1 = s * q + n /\ q \in Nat /\ n \in Nat /\ n < s
  <2>1. r + 1 \in Nat
    OBVIOUS
  <2> QED
    BY <2>1, Division
<1> HIDE DEF p, q, m, n
<1>3. CASE m = s - 1
  <2>1. s * (p + 1) + 0 = s * q + n
    BY <1>1, <1>2, <1>3
  <2>2. n = 0
    BY <2>1, <1>1, <1>2, OneRemainder
  <2> QED
    BY <2>2, <1>3 DEF m, n
<1>4. CASE m # s - 1
  <2>1. s * p + (m + 1) = s * q + n /\ m + 1 \in Nat /\ m + 1 < s
    BY <1>1, <1>2, <1>4
  <2>2. n = m + 1
    BY <2>1, <1>1, <1>2, OneRemainder
  <2> QED
    BY <2>2, <1>4 DEF m, n
<1> QED
  BY <1>3, <1>4

-----------------------------------------------------------------------------
(* The types of the sink *)

LEMMA ElementIn ==
  ASSUME NEW S, NEW s \in Seq(S), NEW i \in 1 .. Len(s)
  PROVE  s[i] \in S
OBVIOUS

LEMMA SinkTypesStep == Types /\ SinkTypes /\ [Next]_vars => SinkTypes'
<1> SUFFICES ASSUME Types, SinkTypes, [Next]_vars PROVE SinkTypes'
  OBVIOUS
<1>1. CASE TakeScore
  <2> DEFINE r == Head(core)
  <2>1. r \in [band : Counter, col : Counter, px : Origins]
    <3>1. core \in Seq([band : Counter, col : Counter, px : Origins]) /\ core # <<>>
      BY <1>1 DEF TakeScore, Types, CoreTypes
    <3>2. Len(core) \in Nat /\ Len(core) # 0
      BY <3>1
    <3>3. r = core[1]
      BY <3>1, <3>2
    <3>4. 1 \in 1 .. Len(core)
      BY <3>2
    <3>5. core[1] \in [band : Counter, col : Counter, px : Origins]
      BY <3>1, <3>4, ElementIn
    <3> QED
      BY <3>3, <3>5
  <2>2. <<r.band, r.col>> \in Places
    BY <2>1 DEF Counter, Places
  <2>3. Score(r.px) \in Int \X Nat \X Nat
    BY <2>1 DEF Origins, Score
  <2> HIDE DEF r
  <2>4. [sink.ram EXCEPT ![<<r.band, r.col>>] = Score(r.px)] \in [Places -> Int \X Nat \X Nat]
    BY <2>2, <2>3 DEF SinkTypes
  <2>5. sink'.ram \in [Places -> Int \X Nat \X Nat]
    BY <1>1, <2>4 DEF TakeScore, SinkTypes, r
  <2>6. /\ sink'.tiles \in Nat /\ sink'.mismatch \in Nat /\ sink'.inFrame \in Nat
        /\ sink'.frame \in Nat /\ sink'.done \in BOOLEAN
    BY <1>1 DEF TakeScore, SinkTypes
  <2>7. sink' = [tiles |-> sink'.tiles, mismatch |-> sink'.mismatch,
                 inFrame |-> sink'.inFrame, frame |-> sink'.frame,
                 done |-> sink'.done, ram |-> sink'.ram]
    BY <1>1 DEF TakeScore, SinkTypes
  <2> QED
    BY <2>5, <2>6, <2>7 DEF SinkTypes
<1>2. CASE CmdRun
  BY <1>2 DEF CmdRun, FreshSink, SinkTypes
<1>3. CASE UNCHANGED sink
  BY <1>3 DEF SinkTypes
<1> QED
  BY <1>1, <1>2, <1>3
     DEF Next, Stages, Firmware, Stream, TakeLast, DrainBand, SendTile, RunDone, RunSpunOut,
         CmdUpload, vars

-----------------------------------------------------------------------------
(* Counts *)

\* The sizes every count is made of.
LEMMA Numbers ==
  ASSUME Types, Order, SinkTypes
  PROVE  /\ regs.w \in Nat \ {0} /\ regs.h \in Nat \ {0} /\ regs.nf \in Nat \ {0}
         /\ regs.w <= CounterWrap /\ regs.h <= CounterWrap /\ regs.nf <= CounterWrap
         /\ CounterWrap \in Nat \ {0}
         /\ bands.col \in Nat /\ bands.col < regs.w /\ DrainCol \in Nat
         /\ (Held(0) = 0 \/ Held(0) = regs.w) /\ (Held(1) = 0 \/ Held(1) = regs.w)
         /\ Len(core) \in Nat /\ sink.tiles \in Nat /\ sink.inFrame \in Nat
         /\ sink.frame \in Nat
         /\ drain.ptr \in {0, 1} /\ bands.fill \in {0, 1}
         /\ drain.ctr \in Nat /\ drain.ctr < regs.h
<1>1. /\ regs.w \in Nat \ {0} /\ regs.h \in Nat \ {0} /\ regs.nf \in Nat \ {0}
      /\ regs.w <= CounterWrap /\ regs.h <= CounterWrap /\ regs.nf <= CounterWrap
      /\ CounterWrap \in Nat \ {0}
  BY Shapes DEF Types
<1>2. core \in Seq([band : Counter, col : Counter, px : Origins])
  BY DEF Types, CoreTypes
<1>3. Len(core) \in Nat
  BY <1>2
<1>4. drain.ptr \in {0, 1} /\ bands.fill \in {0, 1}
  BY DEF Types, BandTypes, DrainTypes, TwoBands
<1>5. drain.col \in Nat
  BY RunAssumption DEF Types, DrainTypes, Counter
<1>6. /\ sink.tiles \in Nat /\ sink.inFrame \in Nat /\ sink.frame \in Nat
  BY DEF SinkTypes
<1>7. bands.col \in Nat /\ bands.col < regs.w /\ drain.ctr \in Nat /\ drain.ctr < regs.h
  BY <1>1 DEF Order
<1> QED
  BY <1>1, <1>3, <1>4, <1>5, <1>6, <1>7 DEF DrainCol, Held

\* What the feeder holds is never less than nothing.
LEMMA WaitingIsCount ==
  ASSUME Types, Order, Contents, SinkTypes
  PROVE  Waiting \in Nat /\ DrainCol < regs.w
<1>1. drain.st = "start" => Held(drain.ptr) = regs.w /\ drain.col < regs.w
  BY DEF Types, Draining, Contents, HoldsRow, Held
<1>2. /\ regs.w \in Nat \ {0} /\ bands.col \in Nat /\ drain.ptr \in {0, 1}
      /\ DrainCol \in Nat /\ (Held(0) = 0 \/ Held(0) = regs.w) /\ (Held(1) = 0 \/ Held(1) = regs.w)
  BY Numbers
<1>3. DrainCol < regs.w /\ (DrainCol # 0 => Held(drain.ptr) = regs.w)
  BY <1>1, <1>2 DEF DrainCol
<1>4. Held(drain.ptr) = Held(0) \/ Held(drain.ptr) = Held(1)
  BY <1>2
<1>5. Held(0) + Held(1) + bands.col - DrainCol \in Nat
  BY <1>2, <1>3, <1>4
<1> QED
  BY <1>3, <1>5 DEF Waiting

LEMMA AfterPixelCount ==
  ASSUME Types, Order, SinkTypes, OneFilling, PxReady, UNCHANGED <<regs, drain>>,
         bands' = AfterPixel
  PROVE  OneFilling' /\ Waiting' = Waiting + 1
<1> DEFINE k == bands.fill
           last == bands.col = regs.w - 1
<1>1. /\ k \in {0, 1} /\ bands.st[k] # "full"
      /\ regs.w \in Nat \ {0} /\ regs.w <= CounterWrap /\ CounterWrap \in Nat \ {0}
      /\ bands.col \in Nat /\ bands.col < regs.w /\ DrainCol \in Nat
      /\ (Held(0) = 0 \/ Held(0) = regs.w) /\ (Held(1) = 0 \/ Held(1) = regs.w)
  BY Numbers DEF PxReady
<1>2. bands'.col = IF last THEN 0 ELSE bands.col + 1
  <2>1. ~last => bands.col + 1 \in Nat /\ bands.col + 1 < CounterWrap
    BY <1>1
  <2> QED
    BY <2>1, NoWrap DEF AfterPixel
<1>3. /\ bands'.fill = IF last THEN 1 - k ELSE k
      /\ bands'.st[k] = IF last THEN "full" ELSE "filling"
      /\ bands'.st[1 - k] = bands.st[1 - k]
  BY <1>1 DEF AfterPixel, Types, BandTypes, TwoBands
<1>4. DrainCol' = DrainCol /\ regs' = regs
  BY DEF DrainCol
<1>5. Held(0)' + Held(1)' = Held(0) + Held(1) + (IF last THEN regs.w ELSE 0)
  <2>1. CASE k = 0
    <3>1. Held(0) = 0 /\ Held(0)' = (IF last THEN regs.w ELSE 0) /\ Held(1)' = Held(1)
      BY <1>1, <1>3, <1>4, <2>1 DEF Held
    <3> QED
      BY <3>1, <1>1
  <2>2. CASE k = 1
    <3>1. Held(1) = 0 /\ Held(1)' = (IF last THEN regs.w ELSE 0) /\ Held(0)' = Held(0)
      BY <1>1, <1>3, <1>4, <2>2 DEF Held
    <3> QED
      BY <3>1, <1>1
  <2> QED
    BY <1>1, <2>1, <2>2
<1>6. Held(0)' \in Nat /\ Held(1)' \in Nat
  BY <1>1, <1>4 DEF Held
<1>7. Waiting' = Waiting + 1
  BY <1>1, <1>2, <1>4, <1>5, <1>6 DEF Waiting
<1>8. OneFilling'
  BY <1>1, <1>2, <1>3 DEF OneFilling, TwoBands
<1> QED
  BY <1>7, <1>8

\* A fetch moves the player one place on, and past the last place of the run
\* it is done.
LEMMA FetchedCount ==
  ASSUME Types, player' = Fetched, player.st = "run", player.w = regs.w, UNCHANGED regs,
         player.frame \in Nat /\ player.frame < regs.nf, player.row \in Nat /\ player.row < regs.h,
         player.col \in Nat /\ player.col < regs.w
  PROVE  /\ player'.valid /\ player'.st \in {"run", "done"}
         /\ player'.st = "done" =>
              player.frame * (regs.h * regs.w) + player.row * regs.w + player.col + 1
                = regs.nf * (regs.h * regs.w)
         /\ player'.st = "run" =>
              /\ player'.frame \in Nat /\ player'.frame < regs.nf /\ player'.row \in Nat /\ player'.row < regs.h
              /\ player'.col \in Nat /\ player'.col < regs.w
              /\ player'.frame * (regs.h * regs.w) + player'.row * regs.w + player'.col
                   = player.frame * (regs.h * regs.w) + player.row * regs.w + player.col + 1
<1> DEFINE f == player.frame
           r == player.row
           c == player.col
           w == regs.w
           h == regs.h
           n == regs.nf
<1>1. /\ w \in Nat \ {0} /\ h \in Nat \ {0} /\ n \in Nat \ {0} /\ CounterWrap \in Nat \ {0}
      /\ w <= CounterWrap /\ h <= CounterWrap /\ n <= CounterWrap
      /\ f \in Nat /\ r \in Nat /\ c \in Nat /\ f < n /\ r < h /\ c < w
  BY Shapes DEF Types
<1>2. /\ c # w - 1 => (c + 1) % CounterWrap = c + 1
      /\ r # h - 1 => (r + 1) % CounterWrap = r + 1
      /\ f # n - 1 => (f + 1) % CounterWrap = f + 1
  <2>1. /\ c # w - 1 => c + 1 \in Nat /\ c + 1 < CounterWrap
        /\ r # h - 1 => r + 1 \in Nat /\ r + 1 < CounterWrap
        /\ f # n - 1 => f + 1 \in Nat /\ f + 1 < CounterWrap
    BY <1>1
  <2> QED
    BY <2>1, NoWrap
<1>3. /\ player'.valid = TRUE
      /\ player'.st = IF EndOfRun THEN "done" ELSE "run"
      /\ player'.col = IF EndOfRow THEN 0 ELSE (c + 1) % CounterWrap
      /\ player'.row = IF EndOfFrame THEN 0
                       ELSE IF EndOfRow THEN (r + 1) % CounterWrap ELSE r
      /\ player'.frame = IF EndOfFrame /\ ~EndOfRun THEN (f + 1) % CounterWrap ELSE f
  BY DEF Fetched, Types, PlayerTypes
<1>4. /\ EndOfRow <=> c = w - 1
      /\ EndOfFrame <=> c = w - 1 /\ r = h - 1
      /\ EndOfRun <=> c = w - 1 /\ r = h - 1 /\ f = n - 1
  BY DEF EndOfRow, EndOfFrame, EndOfRun
<1>5. /\ (r + 1) * w = r * w + w
      /\ r = h - 1 => r * w + w = h * w
      /\ (f + 1) * (h * w) = f * (h * w) + h * w
      /\ f = n - 1 => f * (h * w) + h * w = n * (h * w)
      /\ f * (h * w) \in Nat /\ r * w \in Nat /\ h * w \in Nat /\ n * (h * w) \in Nat
      /\ 0 * w = 0
  BY <1>1, NextPlace
<1> HIDE DEF f, r, c, w, h, n
<1>6. CASE c # w - 1
  <2>1. player'.st = "run" /\ player'.col = c + 1 /\ player'.row = r /\ player'.frame = f
    BY <1>2, <1>3, <1>4, <1>6
  <2>2. /\ player'.frame \in Nat /\ player'.frame < n /\ player'.row \in Nat /\ player'.row < h
        /\ player'.col \in Nat /\ player'.col < w
    BY <1>1, <1>6, <2>1
  <2>3. player'.frame * (h * w) + player'.row * w + player'.col
          = f * (h * w) + r * w + c + 1
    BY <1>1, <1>5, <2>1
  <2> QED
    BY <1>3, <2>1, <2>2, <2>3 DEF f, r, c, w, h, n
<1>7. CASE c = w - 1 /\ r # h - 1
  <2>1. player'.st = "run" /\ player'.col = 0 /\ player'.row = r + 1 /\ player'.frame = f
    BY <1>2, <1>3, <1>4, <1>7
  <2>2. /\ player'.frame \in Nat /\ player'.frame < n /\ player'.row \in Nat /\ player'.row < h
        /\ player'.col \in Nat /\ player'.col < w
    BY <1>1, <1>7, <2>1
  <2>3. player'.row * w = r * w + w
    BY <2>1, <1>5
  <2>4. player'.frame * (h * w) + player'.row * w + player'.col
          = f * (h * w) + r * w + c + 1
    BY <1>1, <1>5, <1>7, <2>1, <2>3
  <2> QED
    BY <1>3, <2>1, <2>2, <2>4 DEF f, r, c, w, h, n
<1>8. CASE c = w - 1 /\ r = h - 1 /\ f # n - 1
  <2>1. player'.st = "run" /\ player'.col = 0 /\ player'.row = 0 /\ player'.frame = f + 1
    BY <1>2, <1>3, <1>4, <1>8
  <2>2. /\ player'.frame \in Nat /\ player'.frame < n /\ player'.row \in Nat /\ player'.row < h
        /\ player'.col \in Nat /\ player'.col < w
    BY <1>1, <1>8, <2>1
  <2>3. player'.frame * (h * w) = f * (h * w) + h * w /\ player'.row * w = 0
    BY <2>1, <1>5
  <2>4. player'.frame * (h * w) + player'.row * w + player'.col
          = f * (h * w) + r * w + c + 1
    BY <1>1, <1>5, <1>8, <2>1, <2>3
  <2> QED
    BY <1>3, <2>1, <2>2, <2>4 DEF f, r, c, w, h, n
<1>9. CASE c = w - 1 /\ r = h - 1 /\ f = n - 1
  <2>1. player'.st = "done"
    BY <1>3, <1>4, <1>9
  <2>2. f * (h * w) + r * w + c + 1 = n * (h * w)
    BY <1>1, <1>5, <1>9
  <2> QED
    BY <1>3, <2>1, <2>2 DEF f, r, c, w, h, n
<1> QED
  BY <1>6, <1>7, <1>8, <1>9

\* Nothing is fetched past the end of the run, so when the sink has counted to
\* the end nothing is left anywhere.
LEMMA NothingLeft ==
  ASSUME Types, SinkTypes, clean, PlaceInv, CountInv, sink.done
  PROVE  Drained
<1>1. Order /\ Contents /\ Offer /\ Conserved /\ InTurn /\ Counted
  BY DEF PlaceInv, CountInv
<1> DEFINE total == regs.nf * (regs.h * regs.w)
<1>2. /\ regs.w \in Nat \ {0} /\ regs.h \in Nat \ {0} /\ regs.nf \in Nat \ {0}
      /\ bands.col \in Nat /\ Len(core) \in Nat /\ sink.tiles \in Nat /\ DrainCol \in Nat
      /\ (Held(0) = 0 \/ Held(0) = regs.w) /\ (Held(1) = 0 \/ Held(1) = regs.w)
      /\ drain.ptr \in {0, 1} /\ bands.fill \in {0, 1} /\ Waiting \in Nat
      /\ DrainCol < regs.w /\ drain.ctr \in Nat
  BY <1>1, Numbers, WaitingIsCount
<1>3. sink.tiles = total /\ total \in Nat /\ total > 0
  <2>1. sink.tiles = total
    BY <1>1 DEF Counted
  <2>2. \A n, h, w \in Nat \ {0} : n * (h * w) > 0 /\ n * (h * w) \in Nat
    OBVIOUS
  <2> QED
    BY <2>1, <2>2, <1>2
<1>4. Fetches <= total /\ (player.st = "run" => Fetches < total)
  <2>1. player.st = "run" => Fetches < total
    <3> SUFFICES ASSUME player.st = "run" PROVE Fetches < total
      OBVIOUS
    <3>1. Fetches = player.frame * (regs.h * regs.w) + player.row * regs.w + player.col
      BY <1>1 DEF Conserved
    <3>2. /\ player.frame \in Nat /\ player.frame < regs.nf /\ player.row \in Nat /\ player.row < regs.h
          /\ player.col \in Nat /\ player.col < regs.w
      BY <1>1 DEF Conserved
    <3>3. regs.w \in Nat /\ regs.h \in Nat /\ regs.nf \in Nat
      BY <1>2
    <3>4. player.frame * (regs.h * regs.w) + player.row * regs.w + player.col < total
      BY <3>2, <3>3, WithinRun
    <3> QED
      BY <3>1, <3>4
  <2>2. player.st \in {"idle", "run", "done"}
    BY DEF Types, PlayerTypes
  <2>3. player.st # "run" => Fetches = 0 \/ Fetches = total
    BY <1>1, <2>2 DEF Conserved
  <2>4. Fetches \in Int
    BY <1>2 DEF Fetches
  <2> HIDE DEF total
  <2> QED
    BY <2>1, <2>2, <2>3, <2>4, <1>3
<1>5. /\ Len(core) = 0 /\ Waiting = 0 /\ player.valid = FALSE /\ player.st # "run"
  <2>1. player.valid \in BOOLEAN
    BY DEF Types, PlayerTypes
  <2>2. Fetches = total + Len(core) + Waiting + (IF player.valid THEN 1 ELSE 0)
    BY <1>3 DEF Fetches
  <2> HIDE DEF total
  <2> QED
    BY <2>1, <2>2, <1>2, <1>3, <1>4
<1>6. core = <<>>
  <2>1. core \in Seq([band : Counter, col : Counter, px : Origins])
    BY DEF Types, CoreTypes
  <2> QED
    BY <2>1, <1>5
<1>7. drain.ctr = 0 /\ DrainCol = 0
  <2>1. RowOf(1) * regs.w + ColOf(1) = 0
    BY <1>1 DEF Counted
  <2>2. RowOf(1) = drain.ctr /\ ColOf(1) = DrainCol
    BY <1>5 DEF RowOf, ColOf
  <2>3. \A r, c \in Nat, w \in Nat \ {0} : r * w + c = 0 => r = 0 /\ c = 0
    OBVIOUS
  <2> QED
    BY <2>1, <2>2, <2>3, <1>2
<1>8. bands.st[0] # "full" /\ bands.st[1] # "full" /\ bands.col = 0
  <2>1. Held(0) = 0 /\ Held(1) = 0 /\ bands.col = 0
    BY <1>2, <1>5, <1>7 DEF Waiting
  <2> QED
    BY <2>1, <1>2 DEF Held
<1>9. bands.st = [k \in {0, 1} |-> "free"]
  <2>1. bands.st \in [TwoBands -> {"free", "filling", "full"}]
    BY DEF Types, BandTypes
  <2>2. \A k \in TwoBands : bands.st[k] = "free"
    BY <2>1, <1>1, <1>8 DEF Conserved, OneFilling, TwoBands
  <2> QED
    BY <2>1, <2>2 DEF TwoBands
<1>10. drain.st = "idle" /\ drain.ptr = bands.fill
  <2>1. bands.st[drain.ptr] # "full"
    BY <1>8, <1>2
  <2> QED
    BY <2>1, <1>1 DEF Types, Draining, DrainTypes, Order
<1> QED
  BY <1>5, <1>6, <1>7, <1>8, <1>9, <1>10 DEF Drained

LEMMA StreamCount ==
  ASSUME Types, SinkTypes, clean, PlaceInv, CountInv, Stream
  PROVE  CountInv'
<1>1. /\ Order /\ Conserved /\ InTurn /\ Counted /\ player.st = "run" /\ player.w = regs.w
      /\ UNCHANGED <<regs, drain, core, sink>> /\ player' = Fetched
  BY DEF PlaceInv, CountInv, Stream, Offer
<1>2. OneFilling' /\ Waiting' = Waiting + (IF player.valid THEN 1 ELSE 0)
  <2>1. CASE player.valid
    BY <2>1, <1>1, AfterPixelCount DEF Stream, Conserved
  <2>2. CASE ~player.valid
    <3>1. bands' = bands
      BY <2>2 DEF Stream
    <3>2. Waiting' = Waiting
      BY <3>1, <1>1 DEF Waiting, Held, DrainCol
    <3>3. Waiting \in Int
      BY <1>1, Numbers DEF Waiting
    <3> QED
      BY <2>2, <3>1, <3>2, <3>3, <1>1 DEF Conserved, OneFilling
  <2> QED
    BY <2>1, <2>2
<1>3. /\ player'.valid /\ player'.st \in {"run", "done"}
      /\ player'.st = "done" =>
           player.frame * (regs.h * regs.w) + player.row * regs.w + player.col + 1
             = regs.nf * (regs.h * regs.w)
      /\ player'.st = "run" =>
           /\ player'.frame \in Nat /\ player'.frame < regs.nf /\ player'.row \in Nat /\ player'.row < regs.h
           /\ player'.col \in Nat /\ player'.col < regs.w
           /\ player'.frame * (regs.h * regs.w) + player'.row * regs.w + player'.col
                = player.frame * (regs.h * regs.w) + player.row * regs.w + player.col + 1
  BY <1>1, FetchedCount DEF Conserved
<1>4. Fetches' = Fetches + 1
  <2>1. /\ Waiting \in Int /\ Len(core) \in Nat /\ sink.tiles \in Nat
    BY <1>1, Numbers DEF Waiting
  <2> QED
    BY <1>1, <1>2, <1>3, <2>1 DEF Fetches
<1>5. Conserved'
  BY <1>1, <1>2, <1>3, <1>4 DEF Conserved
<1>6. InTurn' /\ Counted'
  BY <1>1 DEF InTurn, Counted, RowOf, ColOf, RowAfter, DrainCol
<1> QED
  BY <1>5, <1>6 DEF CountInv

LEMMA TakeLastCount ==
  ASSUME Types, SinkTypes, clean, PlaceInv, CountInv, TakeLast
  PROVE  CountInv'
<1>1. /\ Order /\ Conserved /\ InTurn /\ Counted /\ player.st = "done" /\ player.valid
      /\ UNCHANGED <<regs, drain, core, sink>>
      /\ player'.st = "done" /\ player'.valid = FALSE
  BY DEF PlaceInv, CountInv, TakeLast, Types, PlayerTypes
<1>2. OneFilling' /\ Waiting' = Waiting + 1
  BY <1>1, AfterPixelCount DEF TakeLast, Conserved
<1>3. Fetches' = Fetches
  <2>1. /\ Waiting \in Int /\ Len(core) \in Nat /\ sink.tiles \in Nat
    BY <1>1, Numbers DEF Waiting
  <2> QED
    BY <1>1, <1>2, <2>1 DEF Fetches
<1>4. Conserved'
  BY <1>1, <1>2, <1>3 DEF Conserved
<1>5. InTurn' /\ Counted'
  BY <1>1 DEF InTurn, Counted, RowOf, ColOf, RowAfter, DrainCol
<1> QED
  BY <1>4, <1>5 DEF CountInv

LEMMA DrainBandCount ==
  ASSUME Types, clean, CountInv, DrainBand
  PROVE  CountInv'
<1>1. /\ UNCHANGED <<regs, player, bands, core, sink, clean>>
      /\ drain'.ctr = drain.ctr /\ drain.st = "idle" /\ drain'.st = "start" /\ drain'.col = 0
  BY DEF DrainBand, Types, DrainTypes
<1>2. DrainCol' = DrainCol
  BY <1>1 DEF DrainCol
<1>3. Waiting' = Waiting
  BY <1>1, <1>2 DEF Waiting, Held
<1>4. Conserved'
  BY <1>1, <1>3 DEF CountInv, Conserved, OneFilling, Fetches
<1>5. InTurn' /\ Counted'
  BY <1>1, <1>2 DEF CountInv, InTurn, Counted, RowOf, ColOf, RowAfter
<1> QED
  BY <1>4, <1>5 DEF CountInv

LEMMA SendTileCount ==
  ASSUME Types, SinkTypes, clean, PlaceInv, CountInv, SendTile
  PROVE  CountInv'
<1> DEFINE p == drain.ptr
           n == Len(core)
<1>1. /\ Order /\ Contents /\ Conserved /\ InTurn /\ Counted
      /\ UNCHANGED <<regs, player, sink, clean>> /\ drain.st = "start"
  BY DEF PlaceInv, CountInv, SendTile
<1>2. /\ regs.w \in Nat \ {0} /\ regs.h \in Nat \ {0} /\ regs.h <= CounterWrap
      /\ CounterWrap \in Nat /\ n \in Nat /\ drain.col \in Nat
      /\ p \in {0, 1} /\ bands.fill \in {0, 1} /\ DrainCol = drain.col
      /\ drain.ctr \in Nat /\ drain.ctr < regs.h
  BY <1>1, Numbers DEF DrainCol
<1>3. /\ Held(0) \in Nat /\ Held(1) \in Nat /\ bands.col \in Nat /\ drain.col \in Nat
      /\ regs.w \in Nat /\ Waiting = Held(0) + Held(1) + bands.col - drain.col
  BY <1>1, <1>2, Numbers DEF Waiting
<1>4. bands.st[p] = "full" /\ bands.w[p] = regs.w /\ drain.col < regs.w
  BY <1>1 DEF Types, Draining, Contents, HoldsRow
<1>5. /\ core \in Seq([band : Counter, col : Counter, px : Origins])
      /\ core' = Append(core, [band |-> drain.ctr, col |-> drain.col,
                               px |-> bands.px[p][drain.col]])
  BY DEF Types, CoreTypes, SendTile
<1>6. /\ Len(core') = n + 1 /\ core'[n + 1].band = drain.ctr /\ core'[n + 1].col = drain.col
      /\ \A i \in 1 .. n : core'[i] = core[i]
  BY <1>5
<1>7. \A i \in 1 .. n + 1 : RowOf(i)' = RowOf(i) /\ ColOf(i)' = ColOf(i)
  BY <1>2, <1>6 DEF RowOf, ColOf
<1>8. /\ RowOf(n + 1) = drain.ctr /\ ColOf(n + 1) = drain.col
      /\ \A i \in Nat : i = n + 2 => RowOf(i)' = drain'.ctr /\ ColOf(i)' = DrainCol'
  BY <1>2, <1>6 DEF RowOf, ColOf
<1>9. /\ Waiting' = Waiting - 1 /\ OneFilling'
      /\ IF drain.col = regs.w - 1
         THEN drain'.ctr = RowAfter(drain.ctr) /\ DrainCol' = 0
         ELSE drain'.ctr = drain.ctr /\ DrainCol' = drain.col + 1
  <2>1. CASE drain.col # regs.w - 1
    <3>1. bands' = bands /\ drain' = [drain EXCEPT !.col = @ + 1]
      BY <2>1, <1>4 DEF SendTile
    <3>2. drain'.ctr = drain.ctr /\ DrainCol' = drain.col + 1
      BY <3>1, <1>1 DEF Types, DrainTypes, DrainCol
    <3>3. Held(0)' = Held(0) /\ Held(1)' = Held(1)
      BY <3>1, <1>1 DEF Held
    <3>4. Waiting' = Waiting - 1
      BY <3>1, <3>2, <3>3, <1>3 DEF Waiting
    <3>5. OneFilling'
      BY <3>1, <1>1 DEF Conserved, OneFilling
    <3> QED
      BY <2>1, <3>2, <3>5, <3>4
  <2>2. CASE drain.col = regs.w - 1
    <3>1. /\ bands' = [bands EXCEPT !.st[p] = "free"]
          /\ drain' = [drain EXCEPT !.st = "idle", !.ptr = 1 - @, !.ctr = BandAfter]
      BY <2>2, <1>4 DEF SendTile
    <3>2. /\ bands'.st[p] = "free" /\ bands'.st[1 - p] = bands.st[1 - p]
          /\ bands'.fill = bands.fill /\ bands'.col = bands.col
      BY <3>1, <1>2 DEF Types, BandTypes, TwoBands
    <3>3. drain'.ctr = BandAfter /\ DrainCol' = 0
      BY <3>1 DEF Types, DrainTypes, DrainCol
    <3>4. BandAfter = RowAfter(drain.ctr)
      <4>1. drain.ctr # regs.h - 1 => drain.ctr + 1 \in Nat /\ drain.ctr + 1 < CounterWrap
        BY <1>2
      <4> QED
        BY <4>1, NoWrap DEF BandAfter, RowAfter
    <3>5. Held(0)' + Held(1)' = Held(0) + Held(1) - regs.w
      <4>1. CASE p = 0
        <5>1. Held(0) = regs.w /\ Held(0)' = 0 /\ Held(1)' = Held(1)
          BY <4>1, <3>2, <1>1, <1>4 DEF Held
        <5> QED
          BY <5>1, <1>3
      <4>2. CASE p = 1
        <5>1. Held(1) = regs.w /\ Held(1)' = 0 /\ Held(0)' = Held(0)
          BY <4>2, <3>2, <1>1, <1>4 DEF Held
        <5> QED
          BY <5>1, <1>3
      <4> QED
        BY <4>1, <4>2, <1>2
    <3>6. Held(0)' \in Nat /\ Held(1)' \in Nat
      BY <1>1, <1>3 DEF Held
    <3>7. Waiting' = Waiting - 1
      BY <3>2, <3>3, <3>5, <3>6, <2>2, <1>3 DEF Waiting
    <3>8. OneFilling'
      BY <3>2, <1>1, <1>2 DEF Conserved, OneFilling, TwoBands
    <3> QED
      BY <2>2, <3>3, <3>4, <3>7, <3>8
  <2> QED
    BY <2>1, <2>2
<1>10. Conserved'
  <2>1. Waiting \in Int /\ sink.tiles \in Nat
    BY <1>3, <1>1, Numbers
  <2>2. Waiting' = Waiting - 1 /\ Len(core') = n + 1 /\ n \in Nat
        /\ sink' = sink /\ player' = player
    BY <1>1, <1>2, <1>6, <1>9
  <2>3. Fetches' = Fetches
    BY <2>1, <2>2 DEF Fetches
  <2> QED
    BY <2>3, <1>1, <1>9 DEF Conserved
<1>11. InTurn'
  <2> SUFFICES ASSUME NEW i \in 1 .. n + 1
               PROVE  /\ RowOf(i)' \in Nat /\ RowOf(i)' < regs.h /\ ColOf(i)' \in Nat /\ ColOf(i)' < regs.w
                      /\ IF ColOf(i)' = regs.w - 1
                         THEN RowOf(i + 1)' = RowAfter(RowOf(i)') /\ ColOf(i + 1)' = 0
                         ELSE RowOf(i + 1)' = RowOf(i)' /\ ColOf(i + 1)' = ColOf(i)' + 1
    BY <1>1, <1>6 DEF InTurn, RowAfter
  <2>1. CASE i \in 1 .. n
    <3>1. i \in 1 .. n + 1 /\ i + 1 \in 1 .. n + 1
      BY <2>1, <1>2
    <3> QED
      BY <2>1, <3>1, <1>1, <1>7 DEF InTurn
  <2>2. CASE i = n + 1
    <3>1. RowOf(i)' = drain.ctr /\ ColOf(i)' = drain.col /\ i + 1 = n + 2
      BY <2>2, <1>2, <1>7, <1>8
    <3>2. RowOf(i + 1)' = drain'.ctr /\ ColOf(i + 1)' = DrainCol'
      BY <3>1, <1>2, <1>8
    <3> QED
      BY <3>1, <3>2, <1>2, <1>4, <1>9
  <2> QED
    BY <2>1, <2>2, <1>2
<1>12. Counted'
  BY <1>1, <1>2, <1>7 DEF Counted
<1> QED
  BY <1>10, <1>11, <1>12 DEF CountInv

\* The sink takes a tile: unless it is the last of its frame, the next one
\* is one place on, and the next frame starts at its first place.
LEMMA TakeScoreCount ==
  ASSUME Types, SinkTypes, clean, PlaceInv, CountInv, TakeScore
  PROVE  /\ CountInv' /\ ~sink.done
         /\ FrameScored <=> RowOf(1) = regs.h - 1 /\ ColOf(1) = regs.w - 1
<1>1. /\ Order /\ Contents /\ Conserved /\ InTurn /\ Counted
      /\ UNCHANGED <<regs, player, bands, drain, clean>>
      /\ core # <<>> /\ core' = Tail(core)
  BY DEF PlaceInv, CountInv, TakeScore
<1>2. ~sink.done
  BY <1>1, NothingLeft DEF Drained
<1>3. core \in Seq([band : Counter, col : Counter, px : Origins])
  BY DEF Types, CoreTypes
<1>4. /\ Len(core) \in Nat \ {0} /\ Len(core') = Len(core) - 1
      /\ \A i \in 1 .. Len(core) - 1 : core'[i] = core[i + 1]
  BY <1>1, <1>3
<1>5. /\ regs.w \in Nat \ {0} /\ regs.h \in Nat \ {0} /\ regs.nf \in Nat \ {0}
      /\ sink.tiles \in Nat /\ sink.frame \in Nat /\ sink.inFrame \in Nat /\ Waiting \in Nat
  BY <1>1, Numbers, WaitingIsCount
<1>6. DrainCol' = DrainCol /\ Waiting' = Waiting /\ OneFilling'
  BY <1>1 DEF DrainCol, Waiting, Held, Conserved, OneFilling
<1>7. \A i \in 1 .. Len(core) : RowOf(i)' = RowOf(i + 1) /\ ColOf(i)' = ColOf(i + 1)
  BY <1>1, <1>4, <1>6 DEF RowOf, ColOf
<1>8. InTurn'
  <2> SUFFICES ASSUME NEW i \in 1 .. Len(core) - 1
               PROVE  /\ RowOf(i)' \in Nat /\ RowOf(i)' < regs.h /\ ColOf(i)' \in Nat /\ ColOf(i)' < regs.w
                      /\ IF ColOf(i)' = regs.w - 1
                         THEN RowOf(i + 1)' = RowAfter(RowOf(i)') /\ ColOf(i + 1)' = 0
                         ELSE RowOf(i + 1)' = RowOf(i)' /\ ColOf(i + 1)' = ColOf(i)' + 1
    BY <1>1, <1>4 DEF InTurn, RowAfter
  <2>1. i \in 1 .. Len(core) /\ i + 1 \in 1 .. Len(core)
    BY <1>4
  <2> QED
    BY <2>1, <1>1, <1>7 DEF InTurn
<1>9. /\ sink'.tiles = sink.tiles + 1
      /\ sink'.inFrame = IF FrameScored THEN 0 ELSE sink.inFrame + 1
      /\ sink'.frame = IF FrameScored /\ ~LastFrame THEN sink.frame + 1 ELSE sink.frame
      /\ sink'.done = (FrameScored /\ LastFrame)
  BY <1>2 DEF TakeScore, SinkTypes
<1>10. Conserved'
  <2>1. Fetches' = Fetches
    BY <1>1, <1>4, <1>5, <1>6, <1>9 DEF Fetches
  <2> QED
    BY <2>1, <1>1, <1>6 DEF Conserved
<1> DEFINE r == RowOf(1)
           c == ColOf(1)
           f == sink.frame
           w == regs.w
           h == regs.h
           n == regs.nf
<1>11. /\ r \in Nat /\ c \in Nat /\ r < h /\ c < w
       /\ IF c = w - 1 THEN RowOf(1)' = RowAfter(r) /\ ColOf(1)' = 0
          ELSE RowOf(1)' = r /\ ColOf(1)' = c + 1
  <2>1. 1 \in 1 .. Len(core) /\ 1 + 1 = 2
    BY <1>4
  <2>2. /\ RowOf(1) \in Nat /\ RowOf(1) < regs.h /\ ColOf(1) \in Nat /\ ColOf(1) < regs.w
        /\ IF ColOf(1) = regs.w - 1
           THEN RowOf(2) = RowAfter(RowOf(1)) /\ ColOf(2) = 0
           ELSE RowOf(2) = RowOf(1) /\ ColOf(2) = ColOf(1) + 1
    BY <2>1, <1>1 DEF InTurn
  <2>3. RowOf(1)' = RowOf(2) /\ ColOf(1)' = ColOf(2)
    BY <2>1, <1>7
  <2> QED
    BY <2>2, <2>3, <1>5
<1>12. /\ sink.inFrame = r * w + c
       /\ sink.tiles = f * (h * w) + sink.inFrame
       /\ f \in Nat /\ f < n
  BY <1>1, <1>2 DEF Counted
<1>13. /\ FrameScored <=> r = h - 1 /\ c = w - 1
       /\ LastFrame <=> f = n - 1
  <2>1. FrameScored <=> r * w + c = w * h - 1
    BY <1>12 DEF FrameScored
  <2>2. w \in Nat /\ h \in Nat /\ r \in Nat /\ c \in Nat /\ r < h /\ c < w
    BY <1>5, <1>11
  <2> HIDE DEF r, c, w, h
  <2>3. r * w + c = w * h - 1 <=> r = h - 1 /\ c = w - 1
    BY <2>2, LastPlace
  <2> QED
    BY <2>1, <2>3 DEF LastFrame
<1>14. /\ (r + 1) * w = r * w + w
       /\ r = h - 1 => r * w + w = h * w
       /\ (f + 1) * (h * w) = f * (h * w) + h * w
       /\ f = n - 1 => f * (h * w) + h * w = n * (h * w)
       /\ f * (h * w) \in Nat /\ r * w \in Nat /\ h * w \in Nat /\ n * (h * w) \in Nat
       /\ 0 * w = 0
  BY <1>5, <1>11, NextPlace
<1>15. RowAfter(r) = IF r = h - 1 THEN 0 ELSE r + 1
  BY DEF RowAfter
<1>16. /\ sink'.frame \in Nat /\ sink'.frame < n
       /\ sink'.inFrame = RowOf(1)' * w + ColOf(1)'
       /\ sink'.tiles = IF sink'.done THEN n * (h * w) ELSE sink'.frame * (h * w) + sink'.inFrame
       /\ sink'.done => sink'.inFrame = 0
  <2>1. /\ sink'.tiles = f * (h * w) + (sink.inFrame + 1) /\ sink.inFrame = r * w + c
        /\ f * (h * w) \in Nat /\ r * w \in Nat /\ c \in Nat /\ f \in Nat /\ f < n /\ n \in Nat
    BY <1>5, <1>9, <1>11, <1>12, <1>14
  <2> HIDE DEF r, c, f, w, h, n
  <2>2. CASE c # w - 1
    <3>1. /\ sink'.inFrame = sink.inFrame + 1 /\ sink'.frame = f /\ sink'.done = FALSE
      BY <2>2, <1>9, <1>13 DEF f
    <3>2. RowOf(1)' = r /\ ColOf(1)' = c + 1
      BY <2>2, <1>11
    <3>3. sink'.inFrame = RowOf(1)' * w + ColOf(1)'
      BY <3>1, <3>2, <2>1
    <3>4. sink'.tiles = sink'.frame * (h * w) + sink'.inFrame
      BY <3>1, <2>1
    <3> QED
      BY <3>1, <3>3, <3>4, <2>1
  <2>3. CASE c = w - 1 /\ r # h - 1
    <3>1. /\ sink'.inFrame = sink.inFrame + 1 /\ sink'.frame = f /\ sink'.done = FALSE
      BY <2>3, <1>9, <1>13 DEF f
    <3>2. RowOf(1)' = r + 1 /\ ColOf(1)' = 0
      BY <2>3, <1>11, <1>15
    <3>3. RowOf(1)' * w = r * w + w
      BY <3>2, <1>14
    <3>4. sink'.inFrame = RowOf(1)' * w + ColOf(1)'
      BY <2>3, <3>1, <3>2, <3>3, <1>11, <1>12, <1>14, <1>5 DEF w
    <3>5. sink'.tiles = sink'.frame * (h * w) + sink'.inFrame
      BY <3>1, <2>1
    <3> QED
      BY <3>1, <3>4, <3>5, <2>1
  <2>4. CASE c = w - 1 /\ r = h - 1
    <3>1. RowOf(1)' = 0 /\ ColOf(1)' = 0 /\ RowOf(1)' * w = 0
      BY <2>4, <1>11, <1>14, <1>15
    <3>2. sink'.inFrame = 0
      BY <2>4, <1>9, <1>13
    <3>3. sink'.tiles = f * (h * w) + h * w
      <4>1. sink.inFrame + 1 = h * w
        BY <2>4, <1>5, <1>11, <1>12, <1>14 DEF w
      <4> QED
        BY <4>1, <1>5, <1>9, <1>12, <1>14
    <3>4. CASE f = n - 1
      <4>1. sink'.frame = f /\ sink'.done = TRUE
        BY <2>4, <3>4, <1>9, <1>13 DEF f
      <4>2. sink'.tiles = n * (h * w)
        BY <3>3, <3>4, <1>14
      <4> QED
        BY <3>1, <3>2, <4>1, <4>2, <2>1
    <3>5. CASE f # n - 1
      <4>1. f + 1 \in Nat /\ f + 1 < n
        BY <3>5, <2>1
      <4>2. sink'.frame = f + 1 /\ sink'.done = FALSE
        BY <2>4, <3>5, <1>9, <1>13 DEF f
      <4>3. sink'.frame * (h * w) = f * (h * w) + h * w
        BY <4>2, <1>14
      <4> QED
        BY <3>1, <3>2, <3>3, <4>2, <4>3, <4>1, <1>14
    <3> QED
      BY <3>4, <3>5
  <2> QED
    BY <2>2, <2>3, <2>4
<1>17. Counted'
  BY <1>1, <1>16 DEF Counted
<1> QED
  BY <1>2, <1>8, <1>10, <1>13, <1>17 DEF CountInv

LEMMA CmdRunCount == ASSUME Types, SinkTypes, CmdRun, Drained PROVE CountInv'
<1>1. /\ bands' = bands /\ drain' = drain /\ core' = <<>>
      /\ bands.st = [k \in {0, 1} |-> "free"] /\ bands.col = 0
      /\ drain.st = "idle" /\ drain.ctr = 0
  BY DEF CmdRun, Drained
<1>2. /\ regs'.w \in Nat \ {0} /\ regs'.h \in Nat \ {0} /\ regs'.nf \in Nat \ {0}
  <2>1. Types'
    BY CmdRunTypes
  <2>2. (/\ regs.w \in 1 .. CounterWrap /\ regs.h \in 1 .. CounterWrap
         /\ CounterWrap \in Nat \ {0} /\ regs.nf \in 1 .. CounterWrap)'
    <3>1. RegTypes'
      BY <2>1 DEF Types
    <3> QED
      BY <3>1, Shapes, PTL
  <2> QED
    BY <2>2
<1>3. /\ player'.st = "run" /\ player'.valid = FALSE
      /\ player'.frame = 0 /\ player'.row = 0 /\ player'.col = 0
  BY DEF CmdRun, Drained, Started, Types, PlayerTypes
<1>4. /\ sink'.tiles = 0 /\ sink'.inFrame = 0 /\ sink'.frame = 0 /\ sink'.done = FALSE
  BY DEF CmdRun, FreshSink
<1>5. DrainCol' = 0 /\ Held(0)' = 0 /\ Held(1)' = 0 /\ Len(core') = 0
  BY <1>1 DEF DrainCol, Held
<1>6. Fetches' = 0
  BY <1>1, <1>3, <1>4, <1>5 DEF Fetches, Waiting
<1>7. RowOf(1)' = 0 /\ ColOf(1)' = 0
  BY <1>1, <1>5 DEF RowOf, ColOf
<1>8. \A h, w \in Nat : 0 * w = 0 /\ 0 * (h * w) = 0
  OBVIOUS
<1>9. Conserved'
  <2>1. OneFilling'
    BY <1>1 DEF OneFilling, TwoBands
  <2> QED
    BY <2>1, <1>2, <1>3, <1>6, <1>8 DEF Conserved
<1>10. InTurn'
  BY <1>5 DEF InTurn
<1>11. Counted'
  BY <1>2, <1>4, <1>7, <1>8 DEF Counted
<1> QED
  BY <1>9, <1>10, <1>11 DEF CountInv

LEMMA InitCount == Init => SinkTypes /\ CountInv
<1> SUFFICES ASSUME Init PROVE SinkTypes /\ CountInv
  OBVIOUS
<1>1. SinkTypes
  BY DEF Init, SinkTypes, FreshSink, Score, Blank
<1>2. Types
  BY InitTypes
<1>3. /\ regs.w \in Nat \ {0} /\ regs.h \in Nat \ {0} /\ regs.nf \in Nat \ {0}
  BY <1>2, Shapes DEF Types
<1>4. /\ bands.st = [k \in {0, 1} |-> "free"] /\ bands.col = 0
      /\ drain.st = "idle" /\ drain.ctr = 0 /\ core = <<>>
      /\ player.st = "idle" /\ player.valid = FALSE
      /\ sink.tiles = 0 /\ sink.inFrame = 0 /\ sink.frame = 0 /\ sink.done = FALSE
  BY DEF Init, FreshSink
<1>5. DrainCol = 0 /\ Held(0) = 0 /\ Held(1) = 0 /\ Len(core) = 0
  BY <1>4 DEF DrainCol, Held
<1>6. Fetches = 0
  BY <1>4, <1>5 DEF Fetches, Waiting
<1>7. RowOf(1) = 0 /\ ColOf(1) = 0
  BY <1>4, <1>5 DEF RowOf, ColOf
<1>8. \A h, w \in Nat : 0 * w = 0 /\ 0 * (h * w) = 0
  OBVIOUS
<1>9. Conserved
  BY <1>4, <1>6 DEF Conserved, OneFilling, TwoBands
<1>10. InTurn
  BY <1>5 DEF InTurn
<1>11. Counted
  <2>1. RowOf(1) * regs.w + ColOf(1) = 0 /\ sink.frame * (regs.h * regs.w) = 0
    BY <1>3, <1>4, <1>7, <1>8
  <2> QED
    BY <2>1, <1>3, <1>4 DEF Counted
<1> QED
  BY <1>1, <1>9, <1>10, <1>11 DEF CountInv

LEMMA CountStep == Types /\ SinkTypes /\ PlaceInv /\ CountInv /\ [Next]_vars => CountInv'
<1> SUFFICES ASSUME Types, SinkTypes, PlaceInv, CountInv, [Next]_vars, clean' PROVE CountInv'
  BY DEF CountInv
<1>1. CASE CmdRun
  BY <1>1, CmdRunCount DEF CmdRun
<1>2. CASE Stream
  BY <1>2, StreamCount DEF Stream
<1>3. CASE TakeLast
  BY <1>3, TakeLastCount DEF TakeLast
<1>4. CASE SendTile
  BY <1>4, SendTileCount DEF SendTile
<1>5. CASE DrainBand
  BY <1>5, DrainBandCount DEF DrainBand
<1>6. CASE TakeScore
  BY <1>6, TakeScoreCount DEF TakeScore
<1>7. CASE RunDone \/ RunSpunOut \/ CmdUpload \/ UNCHANGED vars
  <2>1. UNCHANGED <<regs, player, bands, drain, core, sink, clean>>
    BY <1>7 DEF RunDone, RunSpunOut, CmdUpload, vars
  <2>2. UNCHANGED <<DrainCol, Waiting, Fetches>>
    BY <2>1 DEF DrainCol, Waiting, Held, Fetches
  <2> QED
    BY <2>1, <2>2 DEF CountInv, Conserved, OneFilling, InTurn, Counted, RowOf, ColOf, RowAfter
<1> QED
  BY <1>1, <1>2, <1>3, <1>4, <1>5, <1>6, <1>7 DEF Next, Stages, Firmware

-----------------------------------------------------------------------------
(* Results *)

\* The pixel on offer goes into the filling band, the others stay.
LEMMA AfterPixelGenuine ==
  ASSUME Types, Order, OneFilling, Genuine, PxReady, UNCHANGED <<regs, strip>>,
         bands' = AfterPixel, FromStrip(player.px)
  PROVE  /\ \A k \in TwoBands :
              bands'.st[k] = "full" => \A c \in 0 .. regs.w - 1 : FromStrip(bands'.px[k][c])
         /\ \A c \in 0 .. bands'.col - 1 : FromStrip(bands'.px[bands'.fill][c])
<1> DEFINE k == bands.fill
           last == bands.col = regs.w - 1
<1>1. /\ k \in {0, 1} /\ bands.st[k] # "full"
      /\ regs.w \in Nat \ {0} /\ regs.w <= CounterWrap /\ CounterWrap \in Nat \ {0}
      /\ bands.col \in Nat /\ bands.col < regs.w
  BY Shapes DEF PxReady, Types, BandTypes, TwoBands, Order
<1>2. bands'.col = IF last THEN 0 ELSE bands.col + 1
  <2>1. ~last => bands.col + 1 \in Nat /\ bands.col + 1 < CounterWrap
    BY <1>1
  <2> QED
    BY <2>1, NoWrap DEF AfterPixel
<1>3. /\ bands'.fill = IF last THEN 1 - k ELSE k
      /\ bands'.st[k] = IF last THEN "full" ELSE "filling"
      /\ bands'.st[1 - k] = bands.st[1 - k]
      /\ bands'.px[1 - k] = bands.px[1 - k]
  BY <1>1 DEF AfterPixel, Types, BandTypes, TwoBands
<1>4. \A c \in Counter :
        bands'.px[k][c] = IF c = bands.col THEN player.px ELSE bands.px[k][c]
  <2>1. bands'.px[k] = [bands.px[k] EXCEPT ![bands.col] = player.px]
    BY <1>1 DEF AfterPixel, Types, BandTypes, TwoBands
  <2>2. bands.px[k] \in [Counter -> Origins]
    BY <1>1 DEF Types, BandTypes, TwoBands
  <2> QED
    BY <2>1, <2>2
<1>5. \A c \in 0 .. bands.col : FromStrip(bands'.px[k][c])
  <2> SUFFICES ASSUME NEW c \in 0 .. bands.col PROVE FromStrip(bands'.px[k][c])
    OBVIOUS
  <2>1. c \in Counter
    BY <1>1 DEF Counter
  <2>2. c = bands.col \/ c \in 0 .. bands.col - 1
    BY <1>1
  <2>3. c \in 0 .. bands.col - 1 => FromStrip(bands.px[k][c])
    BY DEF Genuine
  <2>4. bands'.px[k][c] = IF c = bands.col THEN player.px ELSE bands.px[k][c]
    BY <2>1, <1>4
  <2> QED
    BY <2>2, <2>3, <2>4
<1>6. bands.st[1 - k] = "full" =>
        \A c \in 0 .. regs.w - 1 : FromStrip(bands.px[1 - k][c])
  <2>1. 1 - k \in TwoBands
    BY <1>1 DEF TwoBands
  <2> HIDE DEF k
  <2> QED
    BY <2>1 DEF Genuine
<1>7. CASE last
  <2>1. /\ bands'.col = 0 /\ bands'.fill = 1 - k /\ bands'.st[k] = "full"
    BY <1>2, <1>3, <1>7
  <2>2. \A c \in 0 .. regs.w - 1 : FromStrip(bands'.px[k][c])
    BY <1>1, <1>5, <1>7
  <2>3. bands'.st[1 - k] = "full" =>
          \A c \in 0 .. regs.w - 1 : FromStrip(bands'.px[1 - k][c])
    BY <1>3, <1>6
  <2>4. \A j \in TwoBands : j = k \/ j = 1 - k
    BY <1>1 DEF TwoBands
  <2> QED
    BY <2>1, <2>2, <2>3, <2>4
<1>8. CASE ~last
  <2>1. /\ bands'.col = bands.col + 1 /\ bands'.fill = k /\ bands'.st[k] = "filling"
    BY <1>2, <1>3, <1>8
  <2>2. \A c \in 0 .. bands'.col - 1 : FromStrip(bands'.px[k][c])
    BY <1>1, <1>5, <2>1
  <2>3. bands'.st[1 - k] = "full" =>
          \A c \in 0 .. regs.w - 1 : FromStrip(bands'.px[1 - k][c])
    BY <1>3, <1>6
  <2>4. \A j \in TwoBands : j = k \/ j = 1 - k
    BY <1>1 DEF TwoBands
  <2> QED
    BY <2>1, <2>2, <2>3, <2>4
<1> QED
  BY <1>7, <1>8

\* The player counts strip rows on its own, from 0 at the start of a frame and
\* again after the last, so that they repeat with the rows of the frame.
LEMMA FetchedGenuine ==
  ASSUME Types, Genuine, player' = Fetched, UNCHANGED <<regs, strip>>,
         player.st = "run", player.row \in Nat, player.row < regs.h
  PROVE  /\ player'.sh = regs.sh /\ player'.srow = player'.row % regs.sh
         /\ FromStrip(player'.px)
<1> DEFINE r == player.row
           s == regs.sh
<1>1. /\ player.sh = s /\ player.srow = r % s /\ r \in Nat /\ s \in Nat /\ s > 0
      /\ regs.h \in Nat /\ r < regs.h /\ regs.h <= CounterWrap /\ CounterWrap \in Nat \ {0}
  BY Shapes DEF Genuine, Types
<1>2. r % s \in Nat /\ r % s <= r
  <2>1. \A a, b \in Nat : b > 0 => a % b \in Nat /\ a % b <= a
    OBVIOUS
  <2> QED
    BY <2>1, <1>1
<1>3. /\ player'.sh = player.sh
      /\ player'.px = [upload |-> strip, srow |-> player.srow, col |-> player.col,
                       row |-> player.row]
      /\ player'.row = IF EndOfFrame THEN 0
                       ELSE IF EndOfRow THEN (r + 1) % CounterWrap ELSE r
      /\ player'.srow = IF EndOfFrame THEN 0
                        ELSE IF EndOfRow THEN StripRowAfter ELSE player.srow
  BY DEF Fetched, Types, PlayerTypes
<1>4. FromStrip(player'.px)
  BY <1>1, <1>3 DEF FromStrip
<1>5. player'.srow = player'.row % s
  <2>1. CASE EndOfFrame
    <3>1. \A b \in Nat : b > 0 => 0 % b = 0
      OBVIOUS
    <3> QED
      BY <2>1, <3>1, <1>1, <1>3
  <2>2. CASE ~EndOfFrame /\ EndOfRow
    <3>1. r # regs.h - 1
      BY <2>2 DEF EndOfFrame
    <3>2. r + 1 \in Nat /\ r + 1 < CounterWrap
      BY <3>1, <1>1
    <3>3. player'.row = r + 1
      BY <2>2, <3>2, <1>3, NoWrap
    <3>4. (r % s) + 1 \in Nat /\ (r % s) + 1 < CounterWrap
      BY <3>2, <1>1, <1>2
    <3>5. ((r % s) + 1) % CounterWrap = (r % s) + 1
      BY <3>4, NoWrap
    <3>6. (r + 1) % s = IF r % s = s - 1 THEN 0 ELSE (r % s) + 1
      BY <1>1, NextRemainder
    <3>7. player'.srow = IF r % s = s - 1 THEN 0 ELSE (r % s) + 1
      BY <2>2, <3>5, <1>1, <1>3 DEF StripRowAfter
    <3> QED
      BY <3>3, <3>6, <3>7
  <2>3. CASE ~EndOfFrame /\ ~EndOfRow
    BY <2>3, <1>1, <1>3
  <2> QED
    BY <2>1, <2>2, <2>3
<1> QED
  BY <1>1, <1>3, <1>4, <1>5

\* Where no band is taken from or filled, what is in the bands stays genuine.
LEMMA StreamResult ==
  ASSUME Types, clean, PlaceInv, CountInv, ResultInv, fw = "poll", Stream
  PROVE  ResultInv'
<1>1. /\ Order /\ Offer /\ Conserved /\ Genuine /\ Stored
      /\ player.st = "run" /\ player' = Fetched
      /\ UNCHANGED <<regs, strip, drain, core, sink>>
  BY DEF PlaceInv, CountInv, ResultInv, Stream
<1>2. /\ player'.sh = regs.sh /\ player'.srow = player'.row % regs.sh
      /\ FromStrip(player'.px)
  BY <1>1, FetchedGenuine DEF Conserved
<1>3. /\ \A k \in TwoBands :
           bands'.st[k] = "full" => \A c \in 0 .. regs.w - 1 : FromStrip(bands'.px[k][c])
      /\ \A c \in 0 .. bands'.col - 1 : FromStrip(bands'.px[bands'.fill][c])
  <2>1. CASE player.valid
    <3>1. PxReady /\ bands' = AfterPixel /\ FromStrip(player.px) /\ OneFilling
      BY <1>1, <2>1 DEF Stream, Genuine, Conserved
    <3> QED
      BY <1>1, <3>1, AfterPixelGenuine
  <2>2. CASE ~player.valid
    <3>1. bands' = bands
      BY <2>2 DEF Stream
    <3> QED
      BY <1>1, <3>1 DEF Genuine
  <2> QED
    BY <2>1, <2>2
<1>4. Genuine'
  BY <1>1, <1>2, <1>3 DEF Genuine, FromStrip
<1>5. Stored'
  BY <1>1 DEF Stored, Passed, RowOf, ColOf, DrainCol
<1> QED
  BY <1>4, <1>5 DEF ResultInv

LEMMA TakeLastResult ==
  ASSUME Types, clean, PlaceInv, CountInv, ResultInv, fw = "poll", TakeLast
  PROVE  ResultInv'
<1>1. /\ Order /\ OneFilling /\ Genuine /\ Stored /\ PxReady /\ bands' = AfterPixel
      /\ UNCHANGED <<regs, strip, drain, core, sink>>
      /\ player.valid /\ player'.st = "done" /\ player'.valid = FALSE
  BY DEF PlaceInv, CountInv, Conserved, ResultInv, TakeLast, Types, PlayerTypes
<1>2. FromStrip(player.px)
  BY <1>1 DEF Genuine
<1>3. /\ \A k \in TwoBands :
           bands'.st[k] = "full" => \A c \in 0 .. regs.w - 1 : FromStrip(bands'.px[k][c])
      /\ \A c \in 0 .. bands'.col - 1 : FromStrip(bands'.px[bands'.fill][c])
  BY <1>1, <1>2, AfterPixelGenuine
<1>4. Genuine'
  BY <1>1, <1>3 DEF Genuine, FromStrip
<1>5. Stored'
  BY <1>1 DEF Stored, Passed, RowOf, ColOf, DrainCol
<1> QED
  BY <1>4, <1>5 DEF ResultInv

LEMMA SendTileResult ==
  ASSUME Types, clean, PlaceInv, CountInv, ResultInv, fw = "poll", SendTile
  PROVE  ResultInv'
<1> DEFINE p == drain.ptr
           n == Len(core)
<1>1. /\ Order /\ Contents /\ Genuine /\ Stored
      /\ UNCHANGED <<regs, strip, player, sink>>
  BY DEF PlaceInv, ResultInv, SendTile
<1>2. /\ p \in TwoBands /\ drain.col \in Nat /\ regs.w \in Nat /\ drain.col < regs.w
      /\ bands.st[p] = "full"
  BY <1>1, Shapes DEF Types, SendTile, Draining, DrainTypes, Contents, HoldsRow, Counter
<1>3. FromStrip(bands.px[p][drain.col])
  <2>1. drain.col \in 0 .. regs.w - 1
    BY <1>2
  <2> QED
    BY <2>1, <1>1, <1>2 DEF Genuine
<1>4. /\ core \in Seq([band : Counter, col : Counter, px : Origins])
      /\ core' = Append(core, [band |-> drain.ctr, col |-> drain.col,
                               px |-> bands.px[p][drain.col]])
  BY DEF Types, CoreTypes, SendTile
<1>5. /\ Len(core') = n + 1 /\ n \in Nat
      /\ core'[n + 1].band = drain.ctr /\ core'[n + 1].col = drain.col
      /\ core'[n + 1].px = bands.px[p][drain.col]
      /\ \A i \in 1 .. n : core'[i] = core[i]
  BY <1>4
<1>6. \A i \in 1 .. Len(core') : FromStrip(core'[i].px)
  <2> SUFFICES ASSUME NEW i \in 1 .. n + 1 PROVE FromStrip(core'[i].px)
    BY <1>5
  <2>1. i = n + 1 \/ i \in 1 .. n
    BY <1>5
  <2>2. i \in 1 .. n => FromStrip(core[i].px)
    BY <1>1 DEF Genuine
  <2> QED
    BY <2>1, <2>2, <1>3, <1>5
<1>7. /\ bands'.px = bands.px /\ bands'.col = bands.col /\ bands'.fill = bands.fill
      /\ \A k \in TwoBands : bands'.st[k] = "full" => bands.st[k] = "full"
  BY <1>2 DEF SendTile, Types, BandTypes
<1>8. Genuine'
  BY <1>1, <1>6, <1>7 DEF Genuine, FromStrip
<1>9. RowOf(1)' = RowOf(1) /\ ColOf(1)' = ColOf(1)
  <2>1. drain.st = "start" /\ DrainCol = drain.col
    BY DEF SendTile, DrainCol
  <2>2. CASE n = 0
    BY <2>1, <2>2, <1>5 DEF RowOf, ColOf
  <2>3. CASE n # 0
    <3>1. 1 \in 1 .. n /\ 1 <= n /\ 1 <= n + 1
      BY <1>5, <2>3
    <3> QED
      BY <3>1, <1>5 DEF RowOf, ColOf
  <2> QED
    BY <2>2, <2>3
<1>10. Stored'
  BY <1>1, <1>9 DEF Stored, Passed
<1> QED
  BY <1>8, <1>10 DEF ResultInv

LEMMA TakeScoreResult ==
  ASSUME Types, SinkTypes, clean, PlaceInv, CountInv, ResultInv, fw = "poll", TakeScore
  PROVE  ResultInv'
<1> DEFINE R == RowOf(1)
           C == ColOf(1)
           worth == <<strip, R % regs.sh, C>>
<1>1. /\ Order /\ TagIsPlace /\ InTurn /\ Counted /\ Genuine /\ Stored
      /\ UNCHANGED <<regs, strip, player, bands, drain>>
      /\ core # <<>> /\ core' = Tail(core)
  BY DEF PlaceInv, CountInv, ResultInv, TakeScore
<1>2. core \in Seq([band : Counter, col : Counter, px : Origins])
  BY DEF Types, CoreTypes
<1>3. /\ Len(core) \in Nat /\ Len(core) >= 1 /\ 1 \in 1 .. Len(core)
      /\ Len(core') = Len(core) - 1 /\ Head(core) = core[1]
      /\ \A i \in 1 .. Len(core) - 1 : core'[i] = core[i + 1]
  BY <1>1, <1>2
<1>4. ~sink.done /\ (FrameScored <=> R = regs.h - 1 /\ C = regs.w - 1)
  BY TakeScoreCount
<1>5. Score(core[1].px) = worth /\ core[1].band = R /\ core[1].col = C
  <2>1. core[1].band = R /\ core[1].col = C
    BY <1>3 DEF RowOf, ColOf
  <2>2. core[1].band = core[1].px.row /\ core[1].col = core[1].px.col
    BY <1>1, <1>3 DEF TagIsPlace
  <2>3. FromStrip(core[1].px)
    BY <1>1, <1>3 DEF Genuine
  <2>4. core[1] \in [band : Counter, col : Counter, px : Origins]
    BY <1>2, <1>3, ElementIn
  <2>5. core[1].px \in Origins
    BY <2>4
  <2>6. core[1].px.col = C /\ core[1].px.row = R
    BY <2>1, <2>2
  <2> QED
    BY <2>1, <2>3, <2>6 DEF Score, FromStrip
<1>6. /\ R \in Nat /\ C \in Nat /\ R < regs.h /\ C < regs.w
      /\ IF C = regs.w - 1 THEN RowOf(1)' = RowAfter(R) /\ ColOf(1)' = 0
         ELSE RowOf(1)' = R /\ ColOf(1)' = C + 1
      /\ regs.w \in Nat /\ regs.h \in Nat /\ regs.w <= CounterWrap /\ regs.h <= CounterWrap
      /\ CounterWrap \in Nat
  <2>1. /\ RowOf(1)' = RowOf(2) /\ ColOf(1)' = ColOf(2)
    <3>1. DrainCol' = DrainCol
      BY <1>1 DEF DrainCol
    <3>2. CASE Len(core) = 1
      <4>1. Len(core') = 0
        BY <3>2, <1>3
      <4>2. drain'.ctr = drain.ctr
        BY <1>1
      <4>3. ~(1 <= Len(core')) /\ ~(2 <= Len(core)) /\ drain'.ctr = drain.ctr
        BY <3>2, <4>1, <4>2
      <4> QED
        BY <3>1, <4>3 DEF RowOf, ColOf
    <3>3. CASE Len(core) # 1
      <4>1. 1 \in 1 .. Len(core) - 1 /\ 1 <= Len(core') /\ 2 <= Len(core) /\ 1 + 1 = 2
        BY <1>3, <3>3
      <4>2. core'[1] = core[2]
        BY <4>1, <1>3
      <4> QED
        BY <4>1, <4>2 DEF RowOf, ColOf
    <3> QED
      BY <3>2, <3>3
  <2>2. /\ RowOf(1) \in Nat /\ RowOf(1) < regs.h /\ ColOf(1) \in Nat /\ ColOf(1) < regs.w
        /\ IF ColOf(1) = regs.w - 1
           THEN RowOf(1 + 1) = RowAfter(RowOf(1)) /\ ColOf(1 + 1) = 0
           ELSE RowOf(1 + 1) = RowOf(1) /\ ColOf(1 + 1) = ColOf(1) + 1
    BY <1>1, <1>3 DEF InTurn
  <2>3. 1 + 1 = 2
    OBVIOUS
  <2>4. /\ regs.w \in Nat /\ regs.h \in Nat /\ regs.w <= CounterWrap
        /\ regs.h <= CounterWrap /\ CounterWrap \in Nat
    BY Shapes DEF Types
  <2> QED
    BY <2>1, <2>2, <2>3, <2>4
<1>7. /\ sink'.ram = IF sink.frame = 0 THEN [sink.ram EXCEPT ![<<R, C>>] = worth] ELSE sink.ram
      /\ sink'.mismatch = IF sink.frame # 0 /\ sink.ram[<<R, C>>] # worth
                          THEN sink.mismatch + 1 ELSE sink.mismatch
      /\ sink'.frame = IF FrameScored /\ ~LastFrame THEN sink.frame + 1 ELSE sink.frame
      /\ sink'.done = (sink.done \/ (FrameScored /\ LastFrame))
  <2>1. core[1] = Head(core)
    BY <1>3
  <2> HIDE DEF R, C, worth
  <2> QED
    BY <2>1, <1>5 DEF TakeScore, SinkTypes
<1>8. Genuine'
  <2>1. \A i \in 1 .. Len(core') : i + 1 \in 1 .. Len(core) /\ core'[i] = core[i + 1]
    BY <1>3
  <2>2. \A i \in 1 .. Len(core') : FromStrip(core'[i].px)
    BY <2>1, <1>1 DEF Genuine
  <2> QED
    BY <2>2, <1>1 DEF Genuine, FromStrip
<1>9. sink'.mismatch = 0
  <2>1. sink.frame # 0 => sink.ram[<<R, C>>] = worth
    <3>1. R \in 0 .. regs.h - 1 /\ C \in 0 .. regs.w - 1
      BY <1>6
    <3> QED
      BY <3>1, <1>1 DEF Stored, Passed
  <2> QED
    BY <2>1, <1>1, <1>7 DEF Stored
<1>10. \A r \in 0 .. regs.h - 1, c \in 0 .. regs.w - 1 :
         Passed(r, c)' => sink'.ram[<<r, c>>] = <<strip, r % regs.sh, c>>
  <2> SUFFICES ASSUME NEW r \in 0 .. regs.h - 1, NEW c \in 0 .. regs.w - 1, Passed(r, c)'
               PROVE  sink'.ram[<<r, c>>] = <<strip, r % regs.sh, c>>
    OBVIOUS
  <2>1. Passed(r, c) => sink.ram[<<r, c>>] = <<strip, r % regs.sh, c>>
    BY <1>1 DEF Stored
  <2>2. Passed(r, c) \/ (r = R /\ c = C)
    <3>1. r \in Nat /\ c \in Nat /\ r < regs.h /\ c < regs.w
      BY <1>6
    <3>2. CASE FrameScored
      BY <3>1, <3>2, <1>4, <1>6 DEF Passed
    <3>3. CASE ~FrameScored
      <4>1. sink'.frame = sink.frame /\ ~sink'.done
        BY <3>3, <1>4, <1>7
      <4>2. sink.frame # 0 \/ r < RowOf(1)' \/ (r = RowOf(1)' /\ c < ColOf(1)')
        BY <4>1 DEF Passed
      <4>3. CASE C # regs.w - 1
        BY <4>2, <4>3, <3>1, <1>6 DEF Passed
      <4>4. CASE C = regs.w - 1
        <5>1. RowOf(1)' = R + 1 /\ ColOf(1)' = 0
          BY <4>4, <3>3, <1>4, <1>6 DEF RowAfter
        <5> QED
          BY <5>1, <4>2, <4>4, <3>1, <1>6 DEF Passed
      <4> QED
        BY <4>3, <4>4
    <3> QED
      BY <3>2, <3>3
  <2>3. <<r, c>> \in Places /\ <<R, C>> \in Places
    BY <1>6 DEF Places
  <2>4. sink.ram \in [Places -> Int \X Nat \X Nat]
    BY DEF SinkTypes
  <2>5. CASE r = R /\ c = C
    <3>1. CASE sink.frame = 0
      BY <2>3, <2>4, <2>5, <3>1, <1>7
    <3>2. CASE sink.frame # 0
      <4>1. Passed(r, c)
        BY <3>2 DEF Passed
      <4> QED
        BY <4>1, <2>1, <3>2, <1>7
    <3> QED
      BY <3>1, <3>2
  <2>6. CASE ~(r = R /\ c = C)
    <3>1. <<r, c>> # <<R, C>>
      BY <2>6
    <3>2. sink'.ram[<<r, c>>] = sink.ram[<<r, c>>]
      BY <3>1, <2>3, <2>4, <1>7
    <3> QED
      BY <3>2, <2>1, <2>2, <2>6
  <2> QED
    BY <2>5, <2>6
<1>11. Stored'
  BY <1>1, <1>9, <1>10 DEF Stored
<1> QED
  BY <1>8, <1>11 DEF ResultInv

LEMMA CmdRunResult == ASSUME Types, SinkTypes, CmdRun, Drained PROVE ResultInv'
<1>1. /\ bands' = bands /\ drain' = drain /\ core' = <<>>
      /\ bands.st = [k \in {0, 1} |-> "free"] /\ bands.col = 0
      /\ drain.st = "idle" /\ drain.ctr = 0 /\ strip' = strip
  BY DEF CmdRun, Drained
<1>2. regs'.sh \in Nat /\ regs'.sh > 0
  <2>1. Types'
    BY CmdRunTypes
  <2> QED
    BY <2>1 DEF Types
<1>3. /\ player'.st = "run" /\ player'.valid = FALSE
      /\ player'.row = 0 /\ player'.srow = 0 /\ player'.sh = regs'.sh
  BY DEF CmdRun, Drained, Started, Types, PlayerTypes
<1>4. sink'.mismatch = 0 /\ sink'.frame = 0 /\ sink'.done = FALSE
  BY DEF CmdRun, FreshSink
<1>5. Genuine'
  <2>1. \A s \in Nat : s > 0 => 0 % s = 0
    OBVIOUS
  <2> QED
    BY <2>1, <1>1, <1>2, <1>3 DEF Genuine, TwoBands
<1>6. RowOf(1)' = 0 /\ ColOf(1)' = 0
  BY <1>1 DEF RowOf, ColOf, DrainCol
<1>7. Stored'
  <2>1. \A r \in 0 .. regs'.h - 1, c \in 0 .. regs'.w - 1 : ~Passed(r, c)'
    BY <1>4, <1>6 DEF Passed
  <2> QED
    BY <2>1, <1>4 DEF Stored
<1> QED
  BY <1>5, <1>7 DEF ResultInv

LEMMA ResultStep ==
  Types /\ SinkTypes /\ PlaceInv /\ CountInv /\ ResultInv /\ [Next]_vars => ResultInv'
<1> SUFFICES ASSUME Types, SinkTypes, PlaceInv, CountInv, ResultInv, [Next]_vars,
                    clean', fw' = "poll"
             PROVE  ResultInv'
  BY DEF ResultInv
<1>1. CASE CmdRun
  BY <1>1, CmdRunResult DEF CmdRun
<1>2. CASE Stream
  BY <1>2, StreamResult DEF Stream
<1>3. CASE TakeLast
  BY <1>3, TakeLastResult DEF TakeLast
<1>4. CASE SendTile
  BY <1>4, SendTileResult DEF SendTile
<1>5. CASE DrainBand
  <2>1. /\ UNCHANGED <<regs, strip, player, bands, core, sink, fw, clean>>
        /\ drain'.ctr = drain.ctr /\ DrainCol' = DrainCol
    BY <1>5 DEF DrainBand, Types, DrainTypes, DrainCol
  <2> QED
    BY <2>1 DEF ResultInv, Genuine, FromStrip, Stored, Passed, RowOf, ColOf
<1>6. CASE TakeScore
  BY <1>6, TakeScoreResult DEF TakeScore
<1>7. CASE RunDone \/ RunSpunOut \/ CmdUpload
  BY <1>7 DEF RunDone, RunSpunOut, CmdUpload
<1>8. CASE UNCHANGED vars
  BY <1>8 DEF vars, ResultInv, Genuine, FromStrip, Stored, Passed, RowOf, ColOf, DrainCol
<1> QED
  BY <1>1, <1>2, <1>3, <1>4, <1>5, <1>6, <1>7, <1>8 DEF Next, Stages, Firmware

-----------------------------------------------------------------------------
THEOREM RunInvariant == Spec => []IInv
<1>1. Init => IInv
  BY InitTypes, InitPlace DEF IInv
<1>2. IInv /\ [Next]_vars => IInv'
  BY TypesStep, PlaceStep DEF IInv
<1> QED
  BY <1>1, <1>2, PTL DEF Spec

(* The registers, counters and buffers of whole runs keep their types,     *)
(* whatever the host asks for and whenever the firmware gives up.          *)
THEOREM RunTypeCorrect == Spec => []TypeOK
<1>1. IInv => TypeOK
  BY DEF IInv, Types, RegTypes, PlayerTypes, BandTypes, DrainTypes, CoreTypes, TypeOK,
         Counter, TwoBands
<1> QED
  BY <1>1, RunInvariant, PTL

(* The tag of every tile in the core is its place in the frame, for frames *)
(* and strips of every size, any number of frames and runs, and every      *)
(* relative speed of player, feeder, core and sink.                        *)
THEOREM TagsArePlaces == Spec => []TagIsPlace
<1>1. IInv => TagIsPlace
  BY DEF IInv, PlaceInv, TagIsPlace
<1> QED
  BY <1>1, RunInvariant, PTL
LEMMA RunCounts == Spec => [](SinkTypes /\ CountInv /\ ResultInv)
<1>1. Init => SinkTypes /\ CountInv /\ ResultInv
  BY InitCount DEF Init, ResultInv
<1>2. IInv /\ SinkTypes /\ CountInv /\ ResultInv /\ [Next]_vars
        => (SinkTypes /\ CountInv /\ ResultInv)'
  BY SinkTypesStep, CountStep, ResultStep DEF IInv
<1> QED
  BY <1>1, <1>2, RunInvariant, PTL DEF Spec

(* A run that is done has left no stage with a tile of its own, whatever   *)
(* the sizes, the number of frames and the relative speed of the stages:   *)
(* every pixel that was fetched is scored, so that the next start may      *)
(* clear the player and the sink only.                                     *)
THEOREM DoneRunsAreDrained == Spec => []DrainedWhenDone
<1>1. IInv /\ SinkTypes /\ CountInv => DrainedWhenDone
  BY NothingLeft DEF IInv, DrainedWhenDone
<1> QED
  BY <1>1, RunInvariant, RunCounts, PTL

(* When the firmware sees done, the result RAM and the counters are those  *)
(* of the run it asked for: one score per tile, each at its own place and  *)
(* of the strip row its frame row repeats, and no frame unlike the first.  *)
THEOREM RunsAreScored == Spec => []RunResults
<1>1. IInv /\ CountInv /\ ResultInv => RunResults
  <2> SUFFICES ASSUME IInv, CountInv, ResultInv, fw = "poll", sink.done, clean
               PROVE  /\ sink.tiles = regs.nf * regs.w * regs.h
                      /\ sink.mismatch = 0
                      /\ \A r \in 0 .. regs.h - 1, c \in 0 .. regs.w - 1 :
                           sink.ram[<<r, c>>] = <<strip, r % regs.sh, c>>
    BY DEF RunResults
  <2>1. sink.tiles = regs.nf * (regs.h * regs.w)
    BY DEF CountInv, Counted
  <2>2. regs.w \in Nat /\ regs.h \in Nat /\ regs.nf \in Nat
    BY Shapes DEF IInv, Types
  <2>3. \A n, h, w \in Nat : n * (h * w) = n * w * h
    OBVIOUS
  <2>4. sink.tiles = regs.nf * regs.w * regs.h
    BY <2>1, <2>2, <2>3
  <2>5. Stored
    BY DEF ResultInv
  <2> QED
    BY <2>4, <2>5 DEF Stored, Passed
<1> QED
  BY <1>1, RunInvariant, RunCounts, PTL
=============================================================================
