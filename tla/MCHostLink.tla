----------------------------- MODULE MCHostLink -----------------------------
(* The two protocols, with the commands whose replies can be told apart by  *)
(* what follows them; arguments in two parts.                               *)
EXTENDS HostLink, TLC

CameraLink ==
    [args |-> "ping" :> 0 @@ "boundary" :> 0 @@ "template" :> 2 @@ "frame" :> 0,
     payload |-> "ping" :> TRUE @@ "boundary" :> TRUE @@ "template" :> TRUE @@ "frame" :> TRUE,
     operations |-> {<<"boundary">>, <<"template">>, <<"ping", "frame">>},
     persists |-> TRUE]

TcnnLink ==
    [args |-> "ping" :> 0 @@ "upload" :> 2 @@ "run" :> 1 @@ "results" :> 1,
     payload |-> "ping" :> FALSE @@ "upload" :> TRUE @@ "run" :> TRUE @@ "results" :> TRUE,
     operations |-> {<<"ping">>, <<"upload", "run", "results">>},
     persists |-> FALSE]

Both == {CameraLink, TcnnLink}
=============================================================================
