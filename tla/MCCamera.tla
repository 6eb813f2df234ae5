----------------------------- MODULE MCCamera -----------------------------
(* The camera design on a template of two bytes. *)
EXTENDS Camera, TLC

TwoTemplates == {0 :> 1 @@ 1 :> 2, 0 :> 2 @@ 1 :> 1}
=============================================================================
