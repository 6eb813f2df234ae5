------------------------------ MODULE TcnnRun ------------------------------
(***************************************************************************)
(* Runs of the tiny-CNN test system: the firmware's commands (main.c), the *)
(* registers of tcnn_avalon_slave, and the streaming path they start:      *)
(* frame_player, the two bands of tile_feeder, the core and result_sink.   *)
(*                                                                         *)
(* The core is a queue that scores tiles in order: that is what TcnnCore   *)
(* and PingpongSpec show of it.  Each stage takes a step whenever it can,  *)
(* so the model allows every relative speed, the clocked one among them.   *)
(*                                                                         *)
(* A tile is one pixel here: a band is one row, and the column, row and    *)
(* frame counters count tiles.  What a pixel is worth is where it comes    *)
(* from: the upload and the place in the strip, which the score repeats.   *)
(***************************************************************************)
EXTENDS Integers, Sequences

CONSTANTS
  Widths, Heights,   \* tiles in a row and in a column of a frame
  StripRows,         \* rows of an uploaded strip
  FrameCounts,       \* values of NFRAMES
  MaxRuns,           \* runs the host asks for
  MaxUploads,        \* uploads of another strip
  PipeCap,           \* tiles in the core
  CounterWrap,       \* the size of a row, frame or band counter
  MayTimeOut         \* the firmware's spin limit may end a run

ASSUME RunAssumption ==
  /\ Widths \subseteq 1 .. CounterWrap /\ Heights \subseteq 1 .. CounterWrap
  /\ StripRows \subseteq Nat \ {0} /\ FrameCounts \subseteq 1 .. CounterWrap
  /\ MaxRuns \in Nat /\ MaxUploads \in Nat /\ PipeCap \in Nat \ {0}
  /\ CounterWrap \in Nat \ {0} /\ MayTimeOut \in BOOLEAN

VARIABLES
  regs,      \* frame_w_reg, frame_h_reg, strip_h_reg, nframes_reg
  strip,     \* which upload strip_mem holds
  player,    \* frame_player
  bands,     \* the two band buffers and fill_ptr, fill_col
  drain,     \* dst, drain_ptr, tcol, band_tag_ctr
  core,      \* the tiles in tcnn_core, oldest first
  sink,      \* result_sink and run_done_seen_since_start
  fw,        \* the firmware: idle, or polling STATUS in cmd_run
  runs,      \* runs asked for
  clean      \* the last start found every stage drained

vars == <<regs, strip, player, bands, drain, core, sink, fw, runs, clean>>

Places == (0 .. CounterWrap - 1) \X (0 .. CounterWrap - 1)

Blank == [upload |-> -1, srow |-> 0, col |-> 0, row |-> 0]

\* What a tile's score depends on.
Score(px) == <<px.upload, px.srow, px.col>>

Largest(S) == CHOOSE x \in S : \A y \in S : y <= x

\* The registers start at values a host may ask for.
ASSUME LargestAssumption == \A S \in {Widths, Heights, StripRows} : Largest(S) \in S

\* A start clears the counters of the sink and leaves its result RAM alone.
FreshSink(ram) ==
  [tiles |-> 0, mismatch |-> 0, inFrame |-> 0, frame |-> 0, done |-> FALSE, ram |-> ram]

Init ==
  /\ regs = [w |-> Largest(Widths), h |-> Largest(Heights), sh |-> Largest(StripRows), nf |-> 1]
  /\ strip = 0
  /\ player = [st |-> "idle", w |-> 0, sh |-> 0, row |-> 0, col |-> 0, srow |-> 0,
               frame |-> 0, valid |-> FALSE, px |-> Blank]
  /\ bands = [st |-> [k \in {0, 1} |-> "free"], w |-> [k \in {0, 1} |-> 0],
              px |-> [k \in {0, 1} |-> [c \in 0 .. CounterWrap - 1 |-> Blank]],
              fill |-> 0, col |-> 0]
  /\ drain = [st |-> "idle", ptr |-> 0, col |-> 0, ctr |-> 0]
  /\ core = <<>>
  /\ sink = FreshSink([p \in Places |-> Score(Blank)])
  /\ fw = "idle"
  /\ runs = 0
  /\ clean = TRUE

-----------------------------------------------------------------------------
(* tile_feeder, filling side *)

PxReady == bands.st[bands.fill] \in {"free", "filling"}

\* The band buffers after the pixel on offer has been taken.  frame_first
\* clears fill_row, which has no counterpart here; the fill_col it also clears
\* is overwritten in the same clock.
AfterPixel ==
  LET k == bands.fill
      last == bands.col = regs.w - 1
  IN  [st   |-> [bands.st EXCEPT ![k] = IF last THEN "full" ELSE "filling"],
       w    |-> IF bands.st[k] = "free" THEN [bands.w EXCEPT ![k] = regs.w] ELSE bands.w,
       px   |-> [bands.px EXCEPT ![k][bands.col] = player.px],
       fill |-> IF last THEN 1 - k ELSE k,
       col  |-> IF last THEN 0 ELSE (bands.col + 1) % CounterWrap]

-----------------------------------------------------------------------------
(* frame_player.  frame_h and nframes are read live, frame_w and strip_h   *)
(* were copied at the start.                                               *)

EndOfRow == player.col = player.w - 1

EndOfFrame == EndOfRow /\ player.row = regs.h - 1

EndOfRun == EndOfFrame /\ player.frame = regs.nf - 1

StripRowAfter ==
  IF player.srow = player.sh - 1 THEN 0 ELSE (player.srow + 1) % CounterWrap

Fetched ==
  [player EXCEPT
     !.px = [upload |-> strip, srow |-> player.srow, col |-> player.col, row |-> player.row],
     !.valid = TRUE,
     !.st = IF EndOfRun THEN "done" ELSE "run",
     !.col = IF EndOfRow THEN 0 ELSE (player.col + 1) % CounterWrap,
     !.row = IF EndOfFrame THEN 0
             ELSE IF EndOfRow THEN (player.row + 1) % CounterWrap ELSE player.row,
     !.srow = IF EndOfFrame THEN 0 ELSE IF EndOfRow THEN StripRowAfter ELSE player.srow,
     !.frame = IF EndOfFrame /\ ~EndOfRun
               THEN (player.frame + 1) % CounterWrap ELSE player.frame]

\* P_RUN: the pixel held is taken, or there is none, and the next is fetched.
Stream ==
  /\ player.st = "run"
  /\ ~player.valid \/ PxReady
  /\ player' = Fetched
  /\ bands' = IF player.valid THEN AfterPixel ELSE bands
  /\ UNCHANGED <<regs, strip, drain, core, sink, fw, runs, clean>>

\* P_DONE: the last pixel is taken.
TakeLast ==
  /\ player.st = "done" /\ player.valid /\ PxReady
  /\ player' = [player EXCEPT !.valid = FALSE]
  /\ bands' = AfterPixel
  /\ UNCHANGED <<regs, strip, drain, core, sink, fw, runs, clean>>

\* Mutant: as it was before the board bring-up, P_DONE only leads to P_IDLE.
StartedViaIdle ==
  IF player.st = "run" THEN player
  ELSE IF player.st = "done" THEN [player EXCEPT !.st = "idle"]
  ELSE [player EXCEPT
          !.w = regs'.w, !.sh = regs'.sh, !.row = 0, !.col = 0, !.srow = 0,
          !.frame = 0, !.valid = FALSE, !.st = "run"]

\* start: ignored in P_RUN.  P_IDLE holds no pixel, P_DONE drops its own.
Started ==
  IF player.st = "run" THEN player
  ELSE [player EXCEPT
          !.w = regs'.w, !.sh = regs'.sh, !.row = 0, !.col = 0, !.srow = 0,
          !.frame = 0, !.valid = FALSE, !.st = "run"]

-----------------------------------------------------------------------------
(* tile_feeder, draining side *)

DrainBand ==
  /\ drain.st = "idle" /\ bands.st[drain.ptr] = "full"
  /\ drain' = [drain EXCEPT !.st = "start", !.col = 0]
  /\ UNCHANGED <<regs, strip, player, bands, core, sink, fw, runs, clean>>

\* Mutant: the band number runs on from frame to frame, as it once did.
BandRunsOn == (drain.ctr + 1) % CounterWrap

BandAfter == IF drain.ctr = regs.h - 1 THEN 0 ELSE (drain.ctr + 1) % CounterWrap

\* Mutant: the tile is started although no bank is free.
RoomUnchecked == TRUE

Room == Len(core) < PipeCap

\* D_START to D_DONE: one tile is copied out and its band freed after the last.
SendTile ==
  /\ drain.st = "start" /\ Room
  /\ core' = Append(core, [band |-> drain.ctr, col |-> drain.col,
                           px |-> bands.px[drain.ptr][drain.col]])
  /\ IF drain.col = bands.w[drain.ptr] - 1
     THEN /\ bands' = [bands EXCEPT !.st[drain.ptr] = "free"]
          /\ drain' = [drain EXCEPT !.st = "idle", !.ptr = 1 - @, !.ctr = BandAfter]
     ELSE /\ drain' = [drain EXCEPT !.col = @ + 1]
          /\ UNCHANGED bands
  /\ UNCHANGED <<regs, strip, player, sink, fw, runs, clean>>

-----------------------------------------------------------------------------
(* result_sink *)

\* Mutant: the last frame is taken for finished one frame early.
LastFrameEarly == sink.frame + 1 >= regs.nf - 1

LastFrame == sink.frame = regs.nf - 1

FrameScored == sink.inFrame = regs.w * regs.h - 1

TakeScore ==
  /\ core # <<>>
  /\ core' = Tail(core)
  /\ LET r == Head(core)
         place == <<r.band, r.col>>
     IN  sink' = [sink EXCEPT
           !.tiles = @ + 1,
           !.ram = IF sink.frame = 0 THEN [@ EXCEPT ![place] = Score(r.px)] ELSE @,
           !.mismatch = IF sink.frame # 0 /\ sink.ram[place] # Score(r.px) THEN @ + 1 ELSE @,
           !.inFrame = IF FrameScored THEN 0 ELSE @ + 1,
           !.frame = IF FrameScored /\ ~LastFrame THEN @ + 1 ELSE @,
           !.done = @ \/ (FrameScored /\ LastFrame)]
  /\ UNCHANGED <<regs, strip, player, bands, drain, fw, runs, clean>>

-----------------------------------------------------------------------------
(* The firmware: one command at a time, answered before the next is read.  *)

\* Nothing of an earlier run is left in any stage.
Drained ==
  /\ player.st # "run" /\ ~player.valid
  /\ bands.st = [k \in {0, 1} |-> "free"] /\ bands.col = 0
  /\ drain.st = "idle" /\ drain.ctr = 0 /\ drain.ptr = bands.fill
  /\ core = <<>>

\* 'R': the parameters, then the start pulse, which also resets the sink.
CmdRun ==
  /\ fw = "idle" /\ runs < MaxRuns
  /\ \E w \in Widths, h \in Heights, s \in StripRows, n \in FrameCounts :
       regs' = [w |-> w, h |-> h, sh |-> s, nf |-> n]
  /\ player' = Started
  /\ sink' = FreshSink(sink.ram)
  /\ fw' = "poll"
  /\ runs' = runs + 1
  /\ clean' = Drained
  /\ UNCHANGED <<strip, bands, drain, core>>

RunDone ==
  /\ fw = "poll" /\ sink.done
  /\ fw' = "idle"
  /\ UNCHANGED <<regs, strip, player, bands, drain, core, sink, runs, clean>>

\* RUN_DONE_SPIN_MAX: RDON is sent all the same.
RunSpunOut ==
  /\ MayTimeOut
  /\ fw = "poll" /\ ~sink.done
  /\ fw' = "idle"
  /\ UNCHANGED <<regs, strip, player, bands, drain, core, sink, runs, clean>>

\* 'U'
CmdUpload ==
  /\ fw = "idle" /\ strip < MaxUploads
  /\ strip' = strip + 1
  /\ UNCHANGED <<regs, player, bands, drain, core, sink, fw, runs, clean>>

Stages == Stream \/ TakeLast \/ DrainBand \/ SendTile \/ TakeScore

\* 'X' is no action: its pulse, soft_reset_pulse, is connected to nothing.
Firmware == CmdRun \/ RunDone \/ RunSpunOut \/ CmdUpload

Next == Stages \/ Firmware

(* The stages are clocked for ever, and cmd_run polls until it is answered. *)
Spec ==
  /\ Init /\ [][Next]_vars
  /\ WF_vars(Stream) /\ WF_vars(TakeLast) /\ WF_vars(DrainBand)
  /\ WF_vars(SendTile) /\ WF_vars(TakeScore) /\ WF_vars(RunDone)

-----------------------------------------------------------------------------
TypeOK ==
  /\ regs.w \in Widths /\ regs.h \in Heights /\ regs.nf \in FrameCounts \cup {1}
  /\ player.st \in {"idle", "run", "done"}
  /\ \A f \in {"row", "col", "srow", "frame"} : player[f] \in 0 .. CounterWrap - 1
  /\ \A k \in {0, 1} : bands.st[k] \in {"free", "filling", "full"}
  /\ bands.col \in 0 .. CounterWrap - 1
  /\ drain.st \in {"idle", "start"} /\ drain.ctr \in 0 .. CounterWrap - 1
  /\ Len(core) <= PipeCap
  /\ fw \in {"idle", "poll"}

(* When STATUS says done of a run that was started on drained stages, the  *)
(* counters and the result RAM are those of the run that was asked for:    *)
(* every tile of its first frame is stored at its own place, and no later  *)
(* frame differed from it.  The tags are numbered by the feeder, the       *)
(* frames by the sink and the pixels by the player, each on its own, and   *)
(* none of the three is told where a run begins.                           *)
RunResults ==
  fw = "poll" /\ sink.done /\ clean =>
    /\ sink.tiles = regs.nf * regs.w * regs.h
    /\ sink.mismatch = 0
    /\ \A r \in 0 .. regs.h - 1, c \in 0 .. regs.w - 1 :
         sink.ram[<<r, c>>] = <<strip, r % regs.sh, c>>

(* A tag is the place of its tile in the frame, of a run that was started  *)
(* on drained stages.                                                      *)
TagIsPlace ==
  clean => \A i \in 1 .. Len(core) :
    core[i].band = core[i].px.row /\ core[i].col = core[i].px.col

(* A run that is done has left nothing behind in any stage, which is what  *)
(* the next start relies on: start clears the player and the sink, never   *)
(* the feeder or the core.  So as long as the firmware waits for done, one *)
(* run after another starts on drained stages.                             *)
DrainedWhenDone == sink.done /\ clean => Drained

(* Every run that was started on drained stages ends by itself: cmd_run    *)
(* sees done and need not reach its spin limit.                            *)
RunEnds == fw = "poll" /\ clean ~> fw = "idle"

(* What frame_player.sv:133-136 says of a start: the previous run is fully *)
(* drained.                                                                *)
StartFindsDrained ==
  [][runs' # runs => player.st # "run" /\ ~player.valid]_vars
=============================================================================
