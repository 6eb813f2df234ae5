---------------------------- MODULE Synchroniser ----------------------------
(***************************************************************************)
(* The clock-domain crossings of the camera design                         *)
(* (rtl/processing/cdc_pulse_sync.sv, cdc_bus_sync.sv and the two-flop     *)
(* level crossings of process_top.sv), as the registers of their receiving *)
(* side: two synchroniser flops and the last value seen.                   *)
(***************************************************************************)

Quiet == [first |-> FALSE, second |-> FALSE, last |-> FALSE]

Crossings == [first : BOOLEAN, second : BOOLEAN, last : BOOLEAN]

\* One edge of the receiving clock; in is the sender's flop.
Shifted(sync, in) == [first |-> in, second |-> sync.first, last |-> sync.second]

\* A toggle of the sender is seen as a pulse of one clock.
Pulse(sync) == sync.second # sync.last
=============================================================================
