------------------------------ MODULE HostLink ------------------------------
(***************************************************************************)
(* The command protocol both boards speak with their hosts over the JTAG   *)
(* UART: the firmwares' main loops (tiny_cnn/firmware/src/main.c,          *)
(* hardware/firmware/src/main.c) and the host drivers (tcnn_link.py,       *)
(* niosv_link.py).  A command is a byte and its arguments, a reply a magic *)
(* and a payload.  Nothing on the wire tells which command a reply is for: *)
(* the host waits for the magic of the kind it asked for and discards      *)
(* everything before it.                                                   *)
(*                                                                         *)
(* The UART is two byte streams in order, as ByteLink promises.  A session *)
(* is one juart-terminal process: when it is closed the bytes in its pipes *)
(* are gone, whatever the firmware is in the middle of.                    *)
(*                                                                         *)
(* A byte or group of bytes is a token: a command, the n-th part of its    *)
(* arguments, a magic or a payload, with the number of the request it is   *)
(* part of.                                                                *)
(***************************************************************************)
EXTENDS Naturals, Sequences, FiniteSets, FiniteSetsExt

CONSTANTS
    Protocols,     \* records: args and payload of each command, the host's
                   \* operations, whether it goes on after a timeout
    Looks,         \* what an argument read as a command is taken for
    MaxSent,       \* bound: commands the hosts send
    MaxAbandoned   \* bound: transactions given up or cut off by a close

Kinds == UNION {DOMAIN p.args : p \in Protocols}

ASSUME ProtocolAssumption ==
    \A p \in Protocols :
        /\ p.args \in [DOMAIN p.args -> Nat] /\ p.payload \in [DOMAIN p.args -> BOOLEAN]
        /\ \A op \in p.operations : op \in Seq(DOMAIN p.args) /\ op # << >>
        /\ p.persists \in BOOLEAN

\* No operation sends two commands of a kind, and a ping, which may be sent
\* again, begins one (niosv_link.py, grab).  Results follow their magic.
ASSUME OperationAssumption ==
    \A p \in Protocols :
        /\ \A op \in p.operations : \A i, j \in DOMAIN op :
             (op[i] = op[j] => i = j) /\ (op[i] = "ping" => i = 1)
        /\ "results" \in DOMAIN p.args => p.payload["results"]

ASSUME BoundAssumption == MaxSent \in Nat /\ MaxAbandoned \in Nat
ASSUME LooksAssumption == Looks \subseteq Kinds \cup {"stray"}

VARIABLES
    proto,       \* the protocol, which does not change
    down, up,    \* bytes on their way to the firmware, and to the host
    fw,          \* the firmware: its command, how much of it has been read
    store,       \* the strip or template the firmware holds
    result,      \* what the last run was computed from
    host,        \* the host: its operation, and what it waits for
    sent,        \* the kind of every command sent
    session,     \* commands sent before this session
    abandoned,   \* transactions given up
    cut          \* a close has cut a command off from its arguments

vars == <<proto, down, up, fw, store, result, host, sent, session, abandoned, cut>>
board == <<fw, store, result>>
history == <<session, abandoned, cut>>

Requests == 0..MaxSent
Parts == [req : Requests, part : Nat]
Tokens == [type : {"command"}, kind : Kinds, req : Requests]
     \cup [type : {"argument"}, kind : Looks, req : Requests, part : Nat]
     \cup [type : {"magic"}, kind : Kinds, req : Requests]
     \cup [type : {"payload"}, kind : Kinds, req : Requests, of : Seq(Parts)]

Waiting == [req |-> 0, of |-> << >>]
AtLoop == [at |-> "loop", kind |-> "none", req |-> 0, read |-> << >>]
AtRest == [at |-> "idle", op |-> << >>, step |-> 0, retried |-> FALSE,
           reply |-> Waiting]

TypeOK ==
    /\ proto \in Protocols
    /\ down \in Seq(Tokens) /\ up \in Seq(Tokens)
    /\ fw.at \in {"loop", "read", "magic", "payload"} /\ fw.req \in Requests
    /\ {fw.read, store, result, host.reply.of} \subseteq Seq(Parts)
    /\ host.at \in {"idle", "send", "sync", "payload", "drain", "taken"}
    /\ host.op \in proto.operations \cup {<< >>} /\ host.step \in 0..Len(host.op)
    /\ sent \in Seq(DOMAIN proto.args) /\ session \in 0..Len(sent)
    /\ abandoned \in 0..MaxAbandoned /\ cut \in BOOLEAN

Init ==
    /\ proto \in Protocols
    /\ down = << >> /\ up = << >>
    /\ fw = AtLoop /\ store = << >> /\ result = << >>
    /\ host = AtRest /\ sent = << >>
    /\ session = 0 /\ abandoned = 0 /\ cut = FALSE

-----------------------------------------------------------------------------
(* The firmware's loop.                                                    *)

\* A byte read at the loop is a command or is ignored.
FwCommand ==
    /\ fw.at = "loop" /\ down # << >>
    /\ down' = Tail(down)
    /\ LET kind == Head(down).kind
       IN  fw' = IF kind \in DOMAIN proto.args
                   THEN [at |-> IF proto.args[kind] > 0 THEN "read" ELSE "magic",
                         kind |-> kind, req |-> Head(down).req, read |-> << >>]
                   ELSE AtLoop
    /\ UNCHANGED <<proto, up, store, result, host, sent, history>>

PartOf(token) == [req |-> token.req,
                  part |-> IF token.type = "argument" THEN token.part ELSE 0]

\* Mutant: the last part of the arguments stays in the stream.
FwReadShort ==
    /\ fw.at = "read" /\ down # << >>
    /\ down' = Tail(down)
    /\ fw' = [fw EXCEPT !.read = Append(@, PartOf(Head(down))),
                        !.at = IF Len(fw.read) + 2 >= proto.args[fw.kind]
                                 THEN "magic" ELSE "read"]
    /\ UNCHANGED <<proto, up, store, result, host, sent, history>>

\* recv_all: whatever comes is taken for the arguments.
FwRead ==
    /\ fw.at = "read" /\ down # << >>
    /\ down' = Tail(down)
    /\ fw' = [fw EXCEPT !.read = Append(@, PartOf(Head(down))),
                        !.at = IF Len(fw.read) + 1 = proto.args[fw.kind]
                                 THEN "magic" ELSE "read"]
    /\ UNCHANGED <<proto, up, store, result, host, sent, history>>

\* The command is carried out and its magic sent.
FwMagic ==
    /\ fw.at = "magic"
    /\ store' = IF fw.kind \in {"upload", "template"} THEN fw.read ELSE store
    /\ result' = IF fw.kind = "run" THEN store ELSE result
    /\ up' = Append(up, [type |-> "magic", kind |-> fw.kind, req |-> fw.req])
    /\ fw' = IF proto.payload[fw.kind] THEN [fw EXCEPT !.at = "payload"] ELSE AtLoop
    /\ UNCHANGED <<proto, down, host, sent, history>>

FwPayload ==
    /\ fw.at = "payload"
    /\ up' = Append(up, [type |-> "payload", kind |-> fw.kind, req |-> fw.req,
                         of |-> IF fw.kind = "results" THEN result ELSE store])
    /\ fw' = AtLoop
    /\ UNCHANGED <<proto, down, store, result, host, sent, history>>
-----------------------------------------------------------------------------
(* The host, one transaction after the other.                              *)

Asked == host.op[host.step]
Arguments(kind, looks, req) ==
    [i \in 1..proto.args[kind] |->
        [type |-> "argument", kind |-> looks, req |-> req, part |-> i]]

\* A driver that does not go on after an error is one process per operation.
Begin(op) ==
    /\ host.at = "idle" /\ (proto.persists \/ session = Len(sent))
    /\ host' = [AtRest EXCEPT !.at = "send", !.op = op, !.step = 1]
    /\ UNCHANGED <<proto, down, up, board, sent, history>>

\* Mutant: the command is sent twice, to be sure that one arrives.
SendTwice(looks) ==
    /\ host.at = "send" /\ Len(sent) < MaxSent
    /\ sent' = Append(sent, Asked)
    /\ LET command == <<[type |-> "command", kind |-> Asked, req |-> Len(sent')]>>
                       \o Arguments(Asked, looks, Len(sent'))
       IN  down' = down \o command \o command
    /\ host' = [host EXCEPT !.at = "sync"]
    /\ UNCHANGED <<proto, up, board, history>>

Send(looks) ==
    /\ host.at = "send" /\ Len(sent) < MaxSent
    /\ sent' = Append(sent, Asked)
    /\ down' = down \o <<[type |-> "command", kind |-> Asked, req |-> Len(sent')]>>
                    \o Arguments(Asked, looks, Len(sent'))
    /\ host' = [host EXCEPT !.at = "sync"]
    /\ UNCHANGED <<proto, up, board, history>>

Answer == {i \in DOMAIN up : up[i].type = "magic" /\ up[i].kind = Asked}
Rest(n) == SubSeq(up, n + 1, Len(up))

\* _sync: the first magic of the kind, and nothing of what was before it.
Sync ==
    /\ host.at = "sync" /\ Answer # {}
    /\ up' = Rest(Min(Answer))
    /\ host' = [host EXCEPT !.at = IF proto.payload[Asked] THEN "payload" ELSE "taken",
                            !.reply = [Waiting EXCEPT !.req = up[Min(Answer)].req]]
    /\ UNCHANGED <<proto, down, board, sent, history>>

\* _read
Read ==
    /\ host.at = "payload" /\ up # << >>
    /\ up' = Tail(up)
    /\ host' = [host EXCEPT !.at = "taken", !.reply.of = Head(up).of]
    /\ UNCHANGED <<proto, down, board, sent, history>>

\* Mutant: the operation goes on past its last step.
TakenPastEnd ==
    /\ host.at = "taken"
    /\ host' = IF host.step <= Len(host.op)
                 THEN [host EXCEPT !.at = "send", !.step = @ + 1, !.retried = FALSE]
                 ELSE AtRest
    /\ UNCHANGED <<proto, down, up, board, sent, history>>

\* The reply was used; the operation goes on or is over.
Taken ==
    /\ host.at = "taken"
    /\ host' = IF host.step < Len(host.op)
                 THEN [host EXCEPT !.at = "send", !.step = @ + 1, !.retried = FALSE]
                 ELSE AtRest
    /\ UNCHANGED <<proto, down, up, board, sent, history>>

Silent == \/ host.at = "sync" /\ Answer = {}
          \/ host.at = "payload" /\ up = << >>

\* No data for the length of the timeout.  ping() drains the line and tries
\* once more, everything else fails; what _sync has read is gone.
TimesOut ==
    /\ Silent /\ proto.persists /\ abandoned < MaxAbandoned
    /\ abandoned' = abandoned + 1
    /\ up' = << >>
    /\ host' = IF Asked = "ping" /\ ~host.retried
                 THEN [host EXCEPT !.at = "drain", !.retried = TRUE] ELSE AtRest
    /\ UNCHANGED <<proto, down, board, sent, session, cut>>

\* Mutant: the command is not sent again.
DrainOnly ==
    /\ host.at = "drain"
    /\ up' = << >>
    /\ host' = [host EXCEPT !.at = "sync"]
    /\ UNCHANGED <<proto, down, board, sent, history>>

\* drain: everything that comes before the line is quiet.
Drain ==
    /\ host.at = "drain"
    /\ up' = << >>
    /\ host' = [host EXCEPT !.at = "send"]
    /\ UNCHANGED <<proto, down, board, sent, history>>

Outstanding == host.at \in {"sync", "payload"}

\* The terminal ends, with the driver or by itself: what it had not delivered
\* of this session's commands is lost, and what it had read of the replies.
Close(kept, lost) ==
    /\ \A i \in (kept + 1)..Len(down) : down[i].req > session
    /\ Outstanding => abandoned < MaxAbandoned
    /\ abandoned' = IF Outstanding THEN abandoned + 1 ELSE abandoned
    /\ cut' = (cut \/ (kept < Len(down) /\ down[kept + 1].type = "argument"))
    /\ down' = SubSeq(down, 1, kept) /\ up' = Rest(lost)
    /\ session' = Len(sent) /\ host' = AtRest
    /\ UNCHANGED <<proto, board, sent>>
-----------------------------------------------------------------------------
Firmware == FwCommand \/ FwRead \/ FwMagic \/ FwPayload

Driver == \/ \E looks \in Looks : Send(looks)
          \/ Sync \/ Read \/ Taken \/ Drain

Next == \/ Firmware \/ Driver \/ TimesOut
        \/ \E op \in proto.operations : Begin(op)
        \/ \E kept \in 0..Len(down), lost \in 0..Len(up) : Close(kept, lost)

Spec == Init /\ [][Next]_vars

\* The firmware runs, and the driver's thread and its pump.
Fairness == WF_vars(Firmware) /\ WF_vars(Driver)

FairSpec == Spec /\ Fairness
-----------------------------------------------------------------------------
(* Properties.                                                             *)

\* How many commands of the kind asked for were sent after the one answered.
Behind == Cardinality({r \in (host.reply.req + 1)..Len(sent) : sent[r] = Asked})

\* Each step of an operation filters one stale reply: the reply taken in the
\* k-th step is behind by at most the transactions given up so far, less k-1,
\* as long as no command was cut off from its arguments.
EachStepFilters ==
    host.at = "taken" /\ ~cut => Behind = 0 \/ Behind + host.step <= abandoned + 1

\* The results of a check are of the strip it sent, unless their reply is
\* stale or a closed session left the firmware in the middle of a command.
OwnStrip ==
    host.at = "taken" /\ host.op = <<"upload", "run", "results">> /\ host.step = 3
        /\ Behind = 0 /\ ~cut
    => LET own == Len(sent) - 2
       IN  host.reply.of = [i \in 1..proto.args["upload"] |-> [req |-> own, part |-> i]]

\* A firmware in step answers every command that reaches it.
Answered == []~cut => (Outstanding ~> ~Outstanding)
=============================================================================
