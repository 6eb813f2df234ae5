# Verification of the low-latency visual object tracker

TLA+ models of the FPGA tracker and its host software, checked with TLC and, where it pays, proved with TLAPS.

## The system

The repository holds three FPGA systems around the same idea, a template matched in a small region of interest (ROI) around the last known target position.

| system | source | what runs |
|---|---|---|
| Ethernet hardware-in-the-loop tracking (P3) | `src/hardware/ethernet/` | a host streams frames row by row over UDP, the board crops the ROI, tracks, and answers with the new position |
| Tiny-CNN accelerator | `src/tiny_cnn/` | a streaming CNN behind ping-pong buffers, fed and read by a Nios V and a JTAG host |
| Camera pipeline | `src/hardware/rtl/processing/`, `src/hardware/firmware/` | a camera stream matched on chip, a Nios V that reads results and writes templates |

Two more parts are shared by the last two: the JTAG UART driver of the firmware's board support package, and the command protocol both firmwares speak with their hosts through it. All three systems are modelled, down to where numbers and image content begin; what is left out is listed at the end.

## Inventory

### P3 receiver (`p3_track/rtl/row_stats.v`)
State: the receive FSM and the packet being received (`p_*`), the open frame (`f_*`), the target position (`pos_*`), one frame held in `S_SLOT` (`n_*`), one frame pending for the tracker (`q_*`), the latched answer (`l_*`), the reply being transmitted (`s_*`, `r_*`).
Operations: receive a row, template chunk or position; forward ROI rows; close a frame (complete or not); take, time out or report the pending frame; transmit.
Hard: everything overlaps. Rows of the next frame arrive while the tracker works on the last one; answers come early, late, or never; rows are lost, doubled, damaged or overtaken.
Correct when: every frame is reported once, in order; a tracked frame carries the answer to its own rows; no answer moves the position under a frame whose origin was taken from it; damage to one frame does not reach another; the receiver never hangs.

### Tracker cores (`zsad_core.sv`, `s3x8_core.sv`)
State: frame tag, row count, in-order flag, shadow template with a pending flag, the template in use.
Operations: take a row or chunk from the FIFO, restart at a new frame, answer after the last ROI row.
Correct when: a frame is matched against one whole template, and a cut frame leaves nothing behind.

### Board and link (`fpga_core.v`, `host/board_link3.py`)
The composition: receiver, dual-clock frame FIFO, core, and a host that sends frames, templates and positions and waits for replies.

### Host loop (`host/demo.py`, `corrections.py`, `trackers.py`)
State: current session, frame number, the corrections in flight, the displayed position. Hard: corrections come back frames later and are applied to a moved position; replies are lost; sessions restart the frame number at 1. Not modelled (see the end).

### Tiny-CNN (`src/tiny_cnn/rtl/`, `firmware/`, `host/`)
`fmap_pingpong.sv` (two banks, FREE, WRITING, FULL, READING), `conv_layer.sv` (window sweep over a full bank, writes to the next buffer), `gap_head.sv`, `tile_feeder.sv` (bands of lines from the frame player, scores to the sink), `frame_player.sv`, `result_sink.sv`, the Avalon slave, the firmware command loop and `host/tcnn_link.py`.
State: bank states, pointers and tags of each buffer; per layer the FSM, the gather of the next window (`gphase`, `gidx`) and the issue of the current one (`iidx`, `icnt`); two line bands and the band number; the player's position; the sink's counters and result RAM.
Interaction: every stage raises pulses (`wr_start`, `wr_done`, `rd_start`, `rd_done`) at the buffers beside it; player and feeder use a valid/ready handshake; the firmware writes parameters, pulses start and polls done.
Hard: every stage runs at its own pace and stalls the one before; a bank handed over too early mixes two tiles; the window of a pixel is fetched while the one before is computed, with nothing but delays to keep them apart; start clears the player and the sink and nothing between them.
Correct when: a buffer is a queue of two tiles; a layer computes every pixel from its own window of its own tile; results come in order and none is lost; a run reports its own results.

### JTAG UART driver (`tiny_cnn/firmware/bsp/drivers/src/altera_avalon_jtag_uart_*.c`)
State: two rings with their indices, the interrupt enable bits, `host_inactive` and `timeout`; in the hardware two FIFOs and the activity bit.
Operations: the interrupt routine moves bytes between FIFOs and rings and switches its own enables off; a once-a-second alarm counts how long no host has been there; `read`, `write`, `close` and `TIOCSTIMEOUT` run in the program between them.
Hard: no lock but two short critical sections; an index is read once and used after the interrupt has moved it; an interrupt that switches itself off at the wrong moment is never switched on again; the calls spin on memory the interrupt writes, for a host that may be gone.
Correct when: each direction is a byte stream in order; no byte waits for an interrupt that is off; every call ends, unless it was told to wait for ever.

### Camera control path (`hardware/rtl/processing/`, `DE2_115_TV.v`, `hardware/firmware/src/main.c`)
State: the registers of the Avalon slave (50 MHz), toggles and synchronisers of four crossings (template byte with acknowledgement, match position, freeze request, frozen status), the template and the latched position (27 MHz), the gate of the frame buffer's writes, the firmware's command.
Operations: write and verify a template, read it back, read a position in two accesses, freeze and grab a frame, unfreeze, read the state.
Hard: two unrelated clocks; a bus that crosses without synchroniser behind a toggle that has one; a slave whose reads return the word the read before selected; a freeze that takes effect a field later, may never be confirmed, and must resume on the right parity.
Correct when: a reply says what the other clock domain did.

### Command links (both `main.c`, `tcnn_link.py`, `niosv_link.py`)
State: bytes in both directions, the firmware's place in its command, the stored strip or template, the host's operation and what it waits for.
Hard: replies carry no number; a timeout leaves a reply on the line, a terminal that ends cuts a command off from its arguments.
Correct when: it is known how stale a reply a host can take, and a firmware in step always answers.

## Modules

### Ethernet tracking

| module | what it is |
|---|---|
| `RowStats` | the receiver `row_stats.v` in an arbitrary environment (any packets, any answers) |
| `FrameService` | what the receiver promises about frames, abstractly |
| `TrackerCore` | the tracker core behind the FIFO, extends `RowStats` |
| `TrackBoard` | both, with a host and a faulty network |
| `RowHistory` | `TrackBoard` with a history variable: which rows each frame was closed from |
| `MCTrackBoard`, `MCRowHistory` | a three-row ROI and the frame sizes for TLC |
| `RowStats_proofs`, `TrackBoard_proofs` | theorems |

`RowStats`: `state`, `pkt`, `p` are the receive FSM and its `p_*` registers, `f` the open frame (`f_*`), `n` the frame held in `S_SLOT`, `q` the pending frame, `l` the answer latch, `tx` the reply being sent. `RxHeader` takes a packet to the end of its header, `RowHeader` is `S_HDR_A`..`S_HDR_B` with the two stalls, `RowCtrl`, `WindowEnd` and `PayloadEnd` forward ROI rows, the `Commit...` actions are the branches of `S_COMMIT`, `TakeSlot` is `S_SLOT`. `TakeAnswer`, `TimeOut`, `LatchAnswer`, `EmitPending` and `TxDone` are the parts of the same always block that run beside the FSM. The block assigns at one clock edge; the model gives each part a step of its own, since the effect of two updates in one clock is that of one of their orders (the cases in which the code gives one of them priority are guards: `AnswerDue` in `LatchAnswer`, `RowCtrl`).

`TrackerCore`: `trk` is the core's tag, row count, in-order flag, shadow and active template. A row is taken from the FIFO whole. The matching may return any offset, good or not.

`TrackBoard`: the host sends rows, positions and template chunks (`board_link3.py`); `Lockstep` says that it waits for every reply as `_wait` does, without it frames are streamed. The network loses, doubles, damages and delays rows. `BoardTimeOut` is `TimeOut`, under `Patient` only while the tracker has nothing left to do (10 ms are far longer than the tracker takes for what the FIFO can hold). `script`, `hit`, `basis`, `src` and `sent` are history.

`RowHistory` adds `got`, the row numbers that `CommitRow` has counted into each frame. The receiver keeps their count only, so the variable stands beside the specification: every step is one of `BoardNext`, and `got` records it.

### Tiny-CNN

| module | what it is |
|---|---|
| `FmapPingpong` | `fmap_pingpong.sv` as operators: next state of a buffer under the pulses of one clock |
| `PingpongSpec` | one buffer under any pulses |
| `TileQueue` | a queue of at most two tiles: what a buffer promises |
| `PingpongSpec_proofs` | theorems |
| `TcnnCore`, `MCTcnnCore` | feeder, four `conv_layer`s, five buffers, `gap_head`, clock by clock |
| `TcnnCore_proofs` | theorems |
| `TcnnRun` | whole runs: firmware, player, bands, core, sink |
| `TcnnRun_proofs` | theorems |

`TcnnCore` has one action, `Clock`: the design is synchronous and its correctness is a matter of delays, so the model keeps the clock. The concurrency is in how far each stage is in its own tile. `layer[l]` holds the registers of one `conv_layer` and `LayerNext` its always block; the operand, product, adder and requantiser stages are a set of words in flight with the clocks they have left; `mem` says for each bank how many words of which tile it holds; a captured tap is "tile t, output pixel p". Padding taps and weights have no tile and are left out. The read latency of one clock is part of `Captured`. `PausedTiles` and `Pauses` say before which tiles and for how long the feeder may have no full band.

`TcnnRun` takes the core as a queue that scores in order (what `TcnnCore` and `PingpongSpec` establish) and lets every stage take a step whenever it can, so any relative speed is covered. One pixel stands for a tile and one row for a band: `fill_row` has no counterpart. `CmdRun` is the parameter writes and the start pulse of `cmd_run`, one step, because the start is written last and nothing reads the parameters before unless a run is still going. `Started` is the start branch of `frame_player.sv`. `clean` is history: the last start found nothing left of an earlier run. `soft_reset_pulse` is connected to nothing, so the firmware's 'X' has no action.

### JTAG UART

| module | what it is |
|---|---|
| `ByteLink` | two byte streams in order: what the driver promises |
| `JtagUart` | the interrupt-driven driver, its hardware and the host behind it |
| `JtagUart_proofs` | theorems |

The program is interrupted between any two accesses to a field it shares with the interrupt routine, so each call is cut at those accesses (`ReadSample`, `ReadMove`, ..., `WriteSpin`, `WriteLeave`, `CloseSpin`). The interrupt routine and the alarm do not interrupt each other, but the host moves bytes between any two of their register accesses (`IsrControl`, `IsrReceive`, `IsrReceiveEmpty`, `IsrReceiveFull`, `IsrTransmit`). A byte is its place in its stream. `isr` and `call` are program counters with the locals that live across a step (`seen` is the `in` or `out` read once per loop). The model assumes that the compiler keeps program order between the ring and its index: the ring's contents, `rx_out` and `tx_in` are not volatile. The polled variant of the driver and its RTOS branches are not compiled in this project.

### Camera

| module | what it is |
|---|---|
| `Synchroniser` | a two-stage synchroniser and its edge detector |
| `Camera`, `MCCamera` | firmware, slave, crossings, template registers and write gate, edge by edge |
| `Camera_proofs` | theorems |

`since` counts 50 MHz edges since the last 27 MHz edge: one or two fit in between, at any phase, since 50/27 is below 2. `Edge50` is one edge of everything clocked at 50 MHz, with or without an access of the processor; `Edge27` one pixel clock, at which a field may end (`VsEdge`). The frame buffer is its two halves, each with the field last begun there; `NextHalf` is `wr_fb_ptr`. A field is its number modulo four and a position is the number of the field at whose end it was latched. Every VS latches one and sends it across (`process_top.sv:50-69`, `src_valid`); `field_gate.sv` lets the matcher search in every second field only, and at the end of the others `template_match.sv` holds the position of the one before, which is then latched again. The stamp therefore names the latching, not the search it is the result of. `MayEnd` says that a field is longer than a crossing and a position command together (16.7 ms against microseconds). The processor's accesses are at least `Gap` = 5 bus edges apart: fetching and executing between two accesses takes longer than that, and `FreezeHolds` and the settling of a crossed bus rely on it. A read returns the word the read before it selected (`readdata` is registered behind a registered `avs_readdata`), which is why the firmware reads everything twice (`read_settled`); `fw.again` is the first of the two.

### Command links

| module | what it is |
|---|---|
| `HostLink`, `MCHostLink` | the command loop of both firmwares and the two host drivers, over two byte streams |
| `HostLink_proofs` | theorems |

The channel is what `ByteLink` says and the theorem `UartIsTwoStreams` shows of the driver: order and nothing lost, while a session lasts. A token stands for a byte or a group of bytes that are read together. An argument may look like a command (`Looks`): after a cut the firmware takes arguments for commands. `_sync` discards what comes before the magic it waits for, in one step; `TimesOut` is the end of a read without data, after which `niosv_link.py` goes on (`persists`) and pings, drains and retries before a grab, while `tcnn_link.py` ends. `Close` is the end of the terminal process at any moment. `session`, `sent`, `abandoned` and `cut` are history.

## Runs

| run | what it shows | bounds |
|---|---|---|
| `board_stream` | a tracked frame carries the answer of its own undamaged rows (`OwnAnswer`); damage to one frame does not spread (`FaultContained`) | 3 streamed frames, 2 faults among loss, doubling and damage, exact and cropped frames |
| `board_late` | every frame in exactly one place, origins wait, reports in order, `FrameService` implemented, every closed frame reported, the receiver always returns to idle | 2 frames of all three sizes, 1 fault, late rows among them, timeouts at any moment, a host that may stop anywhere |
| `board_lockstep` | host in lockstep: one whole template per frame, the host knows the position | 2 frames, 4 chunks of 2-chunk templates, 1 command, 1 fault |
| `pingpong` | banks alternate, the buffer is a queue of two | any pulses, 4 tiles |
| `core` | own windows, whole tiles, own banks, one score each 524 clocks, scores in order, every tile scored | 54 tiles, the constants of `tcnn_core.sv`, pauses of 0, 300 or 700 clocks before six of them |
| `runs` | results, drained stages and termination of runs started on drained stages | 2 runs, frames of 1 or 2 by 1 or 3 tiles, 1 or 2 frames, the spin limit at any poll |
| `jtag` | two byte streams (`LinkSpec`), no direction stalls, every call ends, what was written arrives | rings of 3, FIFOs of 1, 4 bytes in both directions together, calls of 1 or 2 bytes, a host that leaves once |
| `camera` | template replies are true, a confirmed freeze holds, halves keep their fields, a position is of one moment | templates of 2 bytes, every command in any order, every phase of the clocks, video that comes and goes |
| `link` | how stale a reply can be, whose strip results are of, a firmware in step answers | both protocols, 5 commands, 2 timeouts or closes with a command outstanding |
| `doc_complete`, `doc_template`, `doc_start` | see Divergences | |

Why the bounds are enough.

Board. The tracker's tag has 16 values: the frames in flight (open, held, pending) plus the one in the tracker never reach round it, so three frames give every overlap of two neighbours and of a frame with the next but one; `board_late`, with every size, every fault and timeouts at any moment, has two, a frame and its successor. A ROI of three rows has a first, a middle and a last row; a frame of four has a row outside the ROI on either side. FIFO sizes of three or four rows make the FIFO fill. Faults in pairs cover one fault whose effect a second hides. Positions do not matter to `board_stream`; the two origins of a four-row frame occur in the other two.

Core. With the shipped constants the first layer is faster than the second, and the buffer between them fills: the first layer waits for an output bank (`S_WAIT_OUTBANK`) from the first tiles on and in the steady state, also after every pause. Fifty-four tiles reach the steady state, break it with pauses while the pipeline fills and twice when it has long been full (before tiles 40 and 44), and reach it again. A pause of 300 clocks is shorter than an interval and one of 700 longer. `SteadyInterval` leaves out the ten scores after each tile that may be late, as `result_sink.sv` leaves out the first eight gaps. The wait for a bank is shorter than the gather of the next window; a layer that waited longer would start to overwrite the prefetched window, because the `win_next_valid` flag of `docs/implementation_plan.md:146` was not built. Nothing but the constants keeps the waits short. `docs/architecture.md:66` gives `gap_head` about 110 clocks a tile; `gap_head.sv` takes some 286, still below 524.

Runs. Two runs of different shapes are enough for every way a start can meet what is left of the run before it; heights of three wrap the two bands; two frames compare a frame with the one before. One tile in the core at a time is the strongest back-pressure.

JTAG. Three slots are the fewest in which a ring can be neither empty nor full; four bytes go once round a ring, fill it with one in the FIFO, and let a copy end at the end of the array and go on at its start. FIFOs of one byte are empty and full in turn. `INT_MAX` is 4 and the timeout 2, so the alarm counts below, to and past it; a request of 0 means for ever. The theorems below hold for every size.

Camera. Two template bytes are a first and a last; a byte's crossing does not depend on its value. A field's number modulo four tells the result a command finds from the next one and from the two fields around them.

Links. Five commands are an operation of three and one of two, or a retried ping with its grab behind two abandoned transactions, and two abandonments show that lags add up and that each further step takes one off (`EachStepFilters`).

Mutants: each property of a passing run is refuted by a plausible mistake in a modelled definition (listed in `PROJECT.json`; the mutated operators stand before the originals in the modules).

## Fairness

`FairSpec` of the board: each part of the board is clocked for ever, so each has weak fairness; the host and the network owe nothing. `TcnnCore`: weak fairness of `Clock`. `TcnnRun`: weak fairness of every stage, which is clocked, and of `RunDone`, because `cmd_run` polls and answers nothing else meanwhile; uploads, runs and the spin limit are not fair. `JtagUart`: the interrupt routine (a pending interrupt is taken), the alarm (it is periodic), the program's next step inside a call (it runs whenever it is not interrupted), and `HostPull`, weakly: a host that is on for ever takes bytes. The host's sending, polling, leaving and returning and the program's calls are not fair. `HostLink`: the firmware's loop, which reads whenever there is a byte, and the driver's next step; a timeout or close is never forced. `Camera` has no liveness property, so no fairness.

Deadlock is checked in `board_stream`, `board_lockstep`, `pingpong`, `core`, `jtag` and `camera`, where a behaviour goes on for ever or ends only where everything is answered (`Finished` of the board). It is not checked in `board_late` (the host may stop anywhere), `runs` and `link` (the host stops asking at its bound).

## What is proved

For every value of the constants that satisfies the named assumptions:

- `RowStats_proofs`: `TypeCorrect`, and `OriginSafe` (`[]OriginWaits`). `OriginWaits` alone is not inductive: between the stall in `RowHeader` and the row's commit the frame is not open yet, so `OriginInv` says the same of a row on its way. `OriginClamp`: the muxes of `S_HDR_A2` compute the host's clamp. `FramesReportedOnce` (`EachFrameOnce` is inductive over `TypeOK`), `ReportsOrdered`, and `ReceiverImplementsService`. The lemma `Events` reduces the actions to what they do to the four sets of the service; everything after it speaks of sets only.
- `TrackBoard_proofs`: `BoardImplementsReceiver` (`BoardSpec => Spec`), hence `BoardSafe`: all of the above holds of the board with its host, network and tracker, any number of frames and faults. Four theorems are about a host that waits for each reply (`Lockstep`). `PositionKnown` (`[]HostKnowsPosition`): `PosInv` says of every place a position passes through, from the answer latch to the reply on the wire, that nothing behind it can still change it. `TemplateOfFrame` (`[]TemplateWhole`) follows the template from the host's upload through the receiver and the FIFO into the shadow (`LoadInv`), and the frame from its header to its answer (`HeaderInv`, `TurnInv`, `SourceInv`). A template of one chunk needs no more. With more chunks it holds if the host uploads one template between two frames (`OneUpload`) and the tracker has copied the pending template whenever a frame has been sent (`Taken`): a frame of which no row reaches the tracker leaves `sh_pending` set, and the next upload then mixes with the one before, as in `doc_template`.
  `AnswerIsOwn` (`[]OwnAnswer`) takes a network that loses, doubles and damages rows but lets none overtake another and damages none of two copies (`InOrderFaults`; with a damaged copy it is false, see Divergences), and a ROI of more than two rows. `RowsInv`: the rows of a frame arrive in order, and a damaged one is the last of its number. `RunInv`: what the tracker has collected is a run of consecutive rows of one frame. `PathInv`: every word from the receiver through FIFO, tracker and answer to the latch was a row of the frame being sent, each the successor of the one before or the first of a new run. `OnceInv`: a complete frame has had its last row, so no second frame of the same number completes. `OwnInv` joins them: everything on the path was forwarded with the frame's origin, and no damaged row whose number the frame has received as good can be part of an answer.
  `FaultsContained` (`[]FaultContained`) allows every fault the network has, overtaken rows and damaged copies too; it needs the timeout to be longer than the tracker's work (`Patient`, which is what the 10 ms of `TRK_TIMEOUT` are for). `UnhitInv` speaks of the frame being sent as long as none of its rows has met a fault, and of nothing else: how many of its rows have been committed (`Arrived`) fixes the receiver's registers (`UnhitFrame`), how many were forwarded (`RowsOut`) and taken (`RowsTaken`) fixes each word in the FIFO (`UnhitPath`), and the tracker counts and answers what it has taken (`UnhitTracker`). So a frame that waits with nothing left on the way has its answer in the latch, and does not time out (`UnhitInTime`). Whatever the frames before it left, an open frame, a half-read window, an old answer, is closed, restarted over or forgotten by its first rows. Tags play no part: nothing of another frame is on the board.
- `PingpongSpec_proofs`: `PingpongTypeCorrect`, `BanksAlternate` and `BufferIsQueue` (`Spec => QueueSpec`). `Alternation` is the inductive invariant: the pointers and the four bank states are in one of eight configurations. The refinement maps the banks that are full or being read, oldest first, to the queue; `ContentsStep` goes through the configurations.
- `TcnnRun_proofs`: `RunTypeCorrect` and `TagsArePlaces` (`[]TagIsPlace`). The player and the feeder number rows each on their own with two bands between them, so the invariant names the row of the band being filled as the draining side would number it (`FillRow`: its counter, or one or two rows on), and says that the full bands hold whole rows (`Contents`), that the pixel on offer is the next of that row and that the player stands behind it (`Offer`). `Order` keeps the filling side at most two bands ahead. `DoneRunsAreDrained` (`[]DrainedWhenDone`) counts: rows, tiles and scores on their way are what the player has sent and the sink has not got, so there are none when the sink has got the last. `RunsAreScored` (`[]RunResults`) adds what each of them is worth: the score of a tile is that of its place in the strip the run was started with, wherever between player and sink it is.
- `TcnnCore_proofs`, for any number of layers, and any map sizes, operations per pixel, pipe depths and pauses: `ScoresInOrder`, `BanksHoldWholeTiles`, `EachStageHasItsBank`, `CoreTypeCorrect`. The control part of the invariant (`ControlInv`) says of each buffer what its two sides may rely on (`Link`): every pulse finds the bank in the state it is for, and the tiles in the buffer are the consecutive ones from the reader's to the writer's. `LinkStep` proves it of one buffer between any two sides that keep their part, and `BufferSides` shows that feeder, layers and head do. The gather of a window is never more than a clock behind the issue beside it (`LayerInv`), which is why no layer gathers from a bank it has given back. The data part (`DataInv`) says that the words in a layer's pipe are the pixels after those in the bank, without a gap, the earlier the closer to the end (`InFlight`): so each word that lands extends the bank by one, and the commit comes with the last. `WindowsMatch` (`[]OwnWindow`) has two hypotheses, and both are about the code: the invariant `WindowInv` needs a clock more per pixel than the least `OPS_PER_PIX` the module accepts (see Divergences), and `WaitsBriefly`, that a layer that waited for an output bank gets it before the gather begun before the wait is over. Without it the layer would start the gather after next too soon and lose a window, and no register prevents it. With the shipped constants the waits are that short: where they are not, `OwnWindow`, which `core` checks, is violated at the next pixel.
- `JtagUart_proofs`: `UartTypeCorrect`; `NoOverrun` (the space read from the control register is there when it is used); `ReceiveNeverStalls` and `TransmitNeverStalls` (`NoLostReceive`, `NoLostTransmit`): an enable bit is off only while somebody who will set it again is on the way; `ForEverIsForEver`: a program that asked to wait for ever is never told that the host is gone, since the alarm's counter stops short of `INT_MAX`; `UartIsTwoStreams` (`Spec => LinkSpec`): rings and FIFOs together are the two streams of `ByteLink`, for every ring and FIFO size, every interleaving of program, interrupt and host. The sequence lemmas at its head describe a ring's contents when a byte enters, leaves or a block is copied.
- `Camera_proofs`: `FieldsKept` (`[]FieldsKeepHalves`). `HalfFollows` makes it inductive: while writing goes on, the half being written has the field's parity; while it is stopped the half stays and the parity goes on, and they agree again exactly when the parity flag differs from the one at the freeze, which is what the gate compares. `WellTyped` (`[]TypeOK`). `TemplateTold` (`[]TemplateReplies`): each byte's way through the toggles and back is a cycle of few phases, and in each it is known which of slave, crossing and matcher already have it. `FreezeKept` (`[]FreezeHolds`) needs `Gap >= 5`, the distance of two accesses in bus edges: a write to the freeze register and the status read after it are kept apart by the synchronisers of both directions only if that many edges pass, and with 4 TLC finds the freeze lifted under the firmware. `BoundsTold` (`[]BoundsOfOneMoment`) follows the position bus: it has been still for long enough whenever its toggle is seen on the other side, and `InOrder` orders what was read between the result the command found and the one after it.
- `HostLink_proofs`, for every protocol, any number of commands, sessions, timeouts and closes, and arguments that look like anything: `LinkTypeCorrect`, `RepliesFiltered` (`[]EachStepFilters`) and `ChecksOwnStrip` (`[]OwnStrip`). One part of the invariant holds always: tokens are typed, a payload comes right behind its magic (`Paired`), and the last commands sent are those of the operation going on (`OwnCommands`). The rest holds until a close cuts a command off from its arguments: what is on its way to the firmware is the rest of the command it reads and then whole commands (`InStep`); the numbers of magics, firmware and commands ascend from the host's end to the other (`Ordered`); and each reply still to come is of one of the last commands, one more behind for each transaction given up (`Lag`). `Lag` needs `Ordered`: `_sync` takes the first magic of its kind, and what is left is younger, so the one it took pays for the command just sent. `EachStepFilters` then counts: the commands behind and the other commands of the operation are different ones among those sent after the one answered. `CheckInv` follows strip and result through the three commands of a check.

Assumptions on constants are named (`RowStatsAssumption`, `OffsetsAssumption`, `BoardAssumption`, `ProtocolAssumption`, `OperationAssumption`, `TileAssumption`, `RunAssumption`, `LargestAssumption`, `BufLenAssumption`, `GapAssumption`, `CoreAssumption`, ...) and evaluated by TLC in the runs. `OperationAssumption` is what the drivers do: no operation sends two commands of a kind, a ping comes first, and results have a payload. Hypotheses of single theorems stand in their statements: `Lockstep` (what `_wait` of `board_link3.py` does), `Patient` (what `TRK_TIMEOUT` is chosen for), `InOrderFaults` and `ROI > 2` (the board has 80 or 72), `Gap >= 5` (what the bus and the processor's pace give), and those of `TemplateOfFrame` and `WindowsMatch` described above.

Only model-checked:

- `OwnAnswer` and `FaultContained` for a host that streams. There they are not true for every value of the constants: with few tags and many short frames outstanding an old tag comes round again, and what prevents it on the board, a FIFO that holds fewer frames than there are tags, is not in the receiver's code. For a host in lockstep both are proved; `board_stream`, which checks them, has a host that does not wait, and so more behaviours than the theorems speak of.
- `SteadyInterval`: the interval is 524 because of the delays of `tcnn_core.sv`, and not for others.
- All liveness, which the prover cannot reach.

## Divergences between documents and code

Kept as runs:

- `doc_complete`: `ethernet/README.md:101` says a frame closes when all rows have arrived; the receiver counts rows, so a doubled row closes the frame one row early, reported complete with a row number that never arrived, and the missing row opens a second frame. `CompleteHasAllRows` is about the row numbers (`RowHistory`), not about the fault: it holds when rows are lost, damaged, overtaken or doubled with a damaged copy, and a receiver that ignores a row it already has would satisfy it under doubled rows as well.
- `doc_template`: `zsad_core.sv:9-11` says a frame is never matched against a half-written template; a frame between the chunks of a second upload is, because `sh_pending` of the first one is still set. It takes a second upload, begun before a frame used the first and given up after a chunk.
- `doc_start`: `frame_player.sv:133-136` says the previous run is drained at every start; after the spin limit of `cmd_run` it need not be.

Not kept as runs:

- `fpga_core.v:323` and `zsad_core.sv:4` say bad rows are dropped before the tracker; in a frame wider than the ROI the FIFO frame ends before the row is known to be bad (`row_stats.v:203`). Where the row is damaged and does not come again, the frame closes incomplete and the answer is not used (`OwnAnswer` holds). Where a good copy of it comes as well, the frame is complete: with a damaged copy of the last window row before the good one, the tracker has answered by then and the answer from the damaged row is used. TLC shows it when "copy" is among the faults of `board_stream`, which therefore has loss, doubling and damage but no copies; `board_late`, with copies, does not ask for `OwnAnswer`.
- `altera_avalon_jtag_uart_write.c:183` gives up with `-EIO` ("Host not connected") as soon as one alarm has found no activity, while `TIOCGCONNECTED` (`..._ioctl.c:74`) still says connected. `send_all` of the firmware tries again, and nothing is lost.
- `niosv_link.py:229` says no stale stream is left after a drained ping; after two timeouts one reply can still be behind. After one timeout every later position poll answers the poll before it: nothing drains on that path.
- `tcnn_link.py:163` says a firmware cut off in a command never answers until it is downloaded again; enough further bytes fill its `recv_all`.
- `conv_layer.sv:102` says `gidx` reaches `NPIX`; it is too narrow, and after the last pixel pixel 0 is gathered again, harmlessly. `conv_layer.sv:88-89` accepts `OPS_PER_PIX` = `GATHER_LAST` + 2; a gather that starts with the issue of a pixel then captures its last tap in the clock in which the window is copied, and the copy lacks it. The shipped layers use 8 and 32. `main.c:15` calls 'X' a soft reset; no register is reset.
- `alt_fd_lock.c:61` and `alt_open.c:79` disagree whether `alt_max_fd` is a used descriptor, and closing descriptors 0 to 2 keeps their lock. The firmwares open nothing.

## Not modelled

- Numbers: SAD scores, convolution sums, correlation filters, the window and line buffers of the camera pipeline. They decide values, not order or timing.
- The host's correction loop (`demo.py`, `corrections.py`, `trackers.py`): threads paced by wall-clock time; whether a correction is right depends on where the target went, which no state of the program says. Its hazards are listed without a property. Lost replies of `board_link3.py` after its five tries belong to it.
- Tags that wrap (sixteen frames in flight): out of TLC's reach with 16 tags, and the FIFO does not hold that many frames.
- Bands of more than one row in `TcnnRun` (`fill_row`, `frame_first`): they multiply pixels, and what `frame_first` realigns matters only after a run that was given up, of which nothing is claimed.
- A grab after a freeze that was not confirmed: the firmware sends the frame anyway and says so, and the picture may be torn by design.
- Generated code (Qsys, system headers), vendored video and SDRAM controllers, the `verilog-ethernet` submodule (its FIFO and stream interface are modelled from their use), earlier versions of the receiver, bench scripts and displays. Checksums and bad-row counters of `row_stats.v`, cycle counters and read-back registers of the tiny-CNN slave.
- The rest of the Altera hardware abstraction layer under `tiny_cnn/firmware/bsp`. It makes up nearly all of the repository's C: register macros, headers, startup code, drivers of devices the design does not have, an exception dispatcher and a file table the firmware uses for one device opened before `main`. None of it keeps state the modelled properties depend on, so the share of C lines under a definition stays small; the program's own logic is in SystemVerilog, Verilog, Python and the two `main.c`, and that is what the modules translate.

## What is left to do

1. Proofs: `OwnAnswer` with overtaken rows, and both board properties for a host that streams, from an assumption on `NTags` and `FifoRows` that bounds the frames in flight.
2. A host that goes on after lost replies, and sessions that restart frame numbers, once `demo.py` has a recovery to model.
3. Bands of several rows with an abstract player, to follow a start after a run that was given up.
