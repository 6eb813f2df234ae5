----------------------------- MODULE MCTcnnCore -----------------------------
(* The layer pipeline with the shipped constants of tcnn_core.sv. *)
EXTENDS TcnnCore

UpToAll == 1 .. MaxTiles

ShippedPixels == <<64, 64, 16, 16>>
ShippedOps == <<8, 8, 32, 32>>
ShippedLatency == <<6, 8, 7, 8>>
=============================================================================
