------------------------------- MODULE Camera -------------------------------
(***************************************************************************)
(* The camera design's control side: the Nios V firmware's commands        *)
(* (firmware/src/main.c), the Avalon slave they go through                 *)
(* (avalon_interface.sv, 50 MHz), the crossings to the pixel clock         *)
(* (process_top.sv), and behind them the template registers                *)
(* (template_match.sv) and the gate that stops the frame buffer's writes   *)
(* (DE2_115_TV.v), edge by edge of the two clocks.                         *)
(*                                                                         *)
(* A field of the video is its number modulo Stamps, a position is the     *)
(* field at whose end it was latched, and the frame buffer is two halves,  *)
(* each with the field that was last begun there.  (Every VS latches a     *)
(* position and sends it across; field_gate.sv lets the matcher search in  *)
(* every second field, so at the end of the others the position of the one *)
(* before is latched again, which is no difference to the crossing.)       *)
(***************************************************************************)
EXTENDS Naturals, Synchroniser

CONSTANTS
    Cells,      \* TMPL_CNT: registers of the template
    Templates,  \* the templates the host sends
    Blank,      \* 8'hFF: a template byte after reset
    Gap,        \* 50 MHz edges from one access of the processor to the next
    Commands    \* the commands the host sends

ASSUME CellsAssumption == Cells \in Nat \ {0}
ASSUME TemplatesAssumption == Templates \subseteq [0..(Cells - 1) -> Nat] /\ Blank \in Nat
ASSUME GapAssumption == Gap \in Nat
ASSUME CommandAssumption == Commands \subseteq {"S", "T", "R", "B", "F", "U", "P"}

VARIABLES
    since,      \* 50 MHz edges since the last 27 MHz edge
    slave,      \* registers of avalon_slave_top
    reqToggle, ackIn,          \* 50 MHz ends of the template handshake
    boundIn, bound,            \* 50 MHz end of the boundary crossing
    frozenIn,                  \* 50 MHz end of the frozen status
    reqIn, ackToggle,          \* 27 MHz ends of the template handshake
    indexClk, dataClk, tmpl,   \* template write registers, the template
    boundToggle, boundary,     \* the last result of the matcher
    freezeIn,                  \* 27 MHz end of the freeze request
    gate,                      \* wr_frozen, fld, fld_at_freeze
    video, field,              \* is there video; the field being received
    mem, half,                 \* the frame buffer; the half being written
    fw,                        \* the firmware: its command and its locals
    gap, asking                \* edges since its last access; one is waiting

link == <<slave, reqToggle, ackIn, boundIn, bound, frozenIn>>
pixels == <<reqIn, ackToggle, indexClk, dataClk, tmpl, boundToggle, boundary,
            freezeIn, gate>>
stream == <<video, field, mem, half>>
vars == <<since, link, pixels, stream, fw, gap, asking>>

Stamps == 4
Later(stamp, n) == (stamp + n) % Stamps
Index == 0..(Cells - 1)
Halves == 0..1
\* Mutants: the status is one bit too high, or is what was asked for.
CtrlWordShifted(frozen, request) == (IF frozen THEN 4 ELSE 0) + (IF request THEN 1 ELSE 0)
CtrlWordAsked(frozen, request) == IF request THEN 3 ELSE 0
CtrlWord(frozen, request) == (IF frozen THEN 2 ELSE 0) + (IF request THEN 1 ELSE 0)
FrozenBit(word) == word >= 2

Phases == {"idle", "write", "check", "read", "bound", "freeze", "poll", "grab",
           "unfreeze", "state"}
Words == (UNION {{t[n] : n \in Index} : t \in Templates}) \cup {Blank} \cup (0..(Stamps - 1))

TypeOK ==
    /\ since \in 0..2
    /\ slave \in [busy : BOOLEAN, req : BOOLEAN, index : Index, data : Words,
                  mirror : [Index -> Words], readdata : Words, freeze_req : BOOLEAN]
    /\ {reqToggle, ackToggle, boundToggle, video, asking} \subseteq BOOLEAN
    /\ {ackIn, boundIn, frozenIn, reqIn, freezeIn} \subseteq Crossings
    /\ {bound, boundary, field} \subseteq 0..(Stamps - 1)
    /\ indexClk \in Index /\ dataClk \in Words /\ tmpl \in [Index -> Words]
    /\ gate \in [frozen : BOOLEAN, fld : BOOLEAN, atFreeze : BOOLEAN]
    /\ mem \in [Halves -> 0..(Stamps - 1)] /\ half \in Halves
    /\ fw \in [cmd : Commands \cup {"none"}, at : Phases, i : Nat, again : BOOLEAN,
               want : [Index -> Words], got : [Index \cup Halves -> Words],
               bad : 0..Cells, ok : BOOLEAN, from : 0..(Stamps - 1), edges : 0..1]
    /\ gap \in 0..Gap

Stopped == [cmd |-> "none", at |-> "idle", i |-> 0, again |-> FALSE,
            want |-> [n \in Index |-> Blank], got |-> [n \in Index \cup Halves |-> Blank],
            bad |-> 0, ok |-> FALSE, from |-> 0, edges |-> 0]

\* Field 2 is being received into the half of the even fields; the position
\* after reset stands for the result of field 1.
Init ==
    /\ since = 0
    /\ slave = [busy |-> FALSE, req |-> FALSE, index |-> 0, data |-> 0,
                mirror |-> [n \in Index |-> Blank], readdata |-> 0, freeze_req |-> FALSE]
    /\ reqToggle = FALSE /\ ackIn = Quiet /\ boundIn = Quiet /\ bound = 1
    /\ frozenIn = Quiet /\ reqIn = Quiet /\ ackToggle = FALSE
    /\ indexClk = 0 /\ dataClk = 0 /\ tmpl = [n \in Index |-> Blank]
    /\ boundToggle = FALSE /\ boundary = 1 /\ freezeIn = Quiet
    /\ gate = [frozen |-> FALSE, fld |-> FALSE, atFreeze |-> FALSE]
    /\ video \in BOOLEAN /\ field = 2
    /\ mem = [h \in Halves |-> IF h = 0 THEN 2 ELSE 1] /\ half = 0
    /\ fw = [Stopped EXCEPT !.at = "unfreeze"]
    /\ gap = Gap /\ asking = FALSE

-----------------------------------------------------------------------------
(* The pixel clock.                                                        *)

\* Mutant: writing is resumed on the next field, whatever its parity.
GateAfterAnyField ==
    [frozen |-> freezeIn.second, fld |-> ~gate.fld,
     atFreeze |-> IF ~gate.frozen /\ freezeIn.second THEN gate.fld ELSE gate.atFreeze]

\* State changes only on a rising edge of VS, and writing is resumed on an
\* edge of the parity it was stopped on.
GateAfter ==
    LET stop == ~gate.frozen /\ freezeIn.second
        resume == gate.frozen /\ ~freezeIn.second /\ gate.fld = gate.atFreeze
    IN  [frozen |-> stop \/ (gate.frozen /\ ~resume),
         fld |-> ~gate.fld,
         atFreeze |-> IF stop THEN gate.fld ELSE gate.atFreeze]

\* The frame buffer's write pointer moves on with every field that was written.
NextHalf == IF gate.frozen THEN half ELSE 1 - half

\* A field is longer than a crossing and a boundary command together.
Crossed == boundIn.last = boundToggle /\ bound = boundary
MayEnd == video /\ Crossed /\ ~(fw.at = "bound" /\ fw.edges = 1)

\* VS rises: the field ends, and with it the search in it.
FieldEnds ==
    /\ MayEnd
    /\ field' = Later(field, 1)
    /\ boundary' = field /\ boundToggle' = ~boundToggle
    /\ gate' = GateAfter
    /\ half' = NextHalf
    /\ mem' = IF GateAfter.frozen THEN mem ELSE [mem EXCEPT ![NextHalf] = Later(field, 1)]
    /\ fw' = IF fw.at = "bound" THEN [fw EXCEPT !.edges = 1] ELSE fw

WithinField == UNCHANGED <<field, boundary, boundToggle, gate, half, mem, fw>>

\* The template register is written when the request has crossed.
TemplateWrite ==
    /\ tmpl' = IF Pulse(reqIn) THEN [tmpl EXCEPT ![indexClk] = dataClk] ELSE tmpl
    /\ ackToggle' = (ackToggle # Pulse(reqIn))
    /\ reqIn' = Shifted(reqIn, reqToggle)
    /\ indexClk' = slave.index /\ dataClk' = slave.data

Edge27 ==
    /\ since >= 1 /\ since' = 0
    /\ TemplateWrite
    /\ freezeIn' = Shifted(freezeIn, slave.freeze_req)
    /\ UNCHANGED <<link, video, gap, asking>>

PixelEdge == Edge27 /\ WithinField
VsEdge == Edge27 /\ FieldEnds

\* The video goes away, and comes back within a field.
VideoSwitch ==
    /\ video' = ~video
    /\ UNCHANGED <<since, link, pixels, field, mem, half, fw, gap, asking>>
-----------------------------------------------------------------------------
(* The firmware: what it accesses next, and what it does with the answer.  *)

Selected ==    \* the word a read selects
    CASE fw.at = "bound" -> bound
      [] fw.at \in {"check", "read"} -> slave.mirror[fw.i]
      [] OTHER -> CtrlWord(frozenIn.second, slave.freeze_req)

Reads == fw.at \in {"check", "read", "bound", "poll", "state"}
CtrlWrites == fw.at \in {"freeze", "unfreeze"}

To(place) == [fw EXCEPT !.at = place, !.i = 0, !.again = FALSE]
After(last, place) == IF fw.i = last THEN To(place)
                      ELSE [fw EXCEPT !.i = @ + 1, !.again = FALSE]

\* read_settled: the first read is thrown away, the second is used.
Settled(word) ==
    CASE fw.at = "check" ->
           [After(Cells - 1, "idle") EXCEPT
              !.bad = IF word # fw.want[fw.i] THEN @ + 1 ELSE @]
      [] fw.at = "read" -> [After(Cells - 1, "idle") EXCEPT !.got[fw.i] = word]
      [] fw.at = "bound" -> [After(1, "idle") EXCEPT !.got[fw.i] = word]
      [] fw.at = "state" -> [To("idle") EXCEPT !.got[0] = word]
      [] fw.at = "poll" ->
           IF FrozenBit(word)
             THEN [To(IF fw.cmd = "S" THEN "grab" ELSE "state") EXCEPT !.ok = TRUE]
             ELSE [fw EXCEPT !.again = FALSE]

\* Mutant: the word of the first read is used.
AnsweredAtOnce(word) ==
    CASE fw.at = "write" -> After(Cells - 1, "check")
      [] fw.at = "freeze" -> To("poll")
      [] fw.at = "unfreeze" -> To(IF fw.cmd = "U" THEN "state" ELSE "idle")
      [] fw.at = "grab" -> After(1, "unfreeze")
      [] Reads -> Settled(word)

\* The firmware after an access that has been answered with word.
Answered(word) ==
    CASE fw.at = "write" -> After(Cells - 1, "check")
      [] fw.at = "freeze" -> To("poll")
      [] fw.at = "unfreeze" -> To(IF fw.cmd = "U" THEN "state" ELSE "idle")
      [] fw.at = "grab" -> After(1, "unfreeze")
      [] Reads -> IF fw.again THEN Settled(word) ELSE [fw EXCEPT !.again = TRUE]

\* The poll's limit: reached when no video comes, since a field is shorter.
GiveUp ==
    /\ fw.at = "poll" /\ ~fw.again /\ ~asking /\ ~video
    /\ fw' = To(IF fw.cmd = "S" THEN "grab" ELSE "state")
    /\ UNCHANGED <<since, link, pixels, stream, gap, asking>>

FirstPhase(cmd) == CASE cmd \in {"S", "F"} -> "freeze" [] cmd = "T" -> "write"
                     [] cmd = "R" -> "read" [] cmd = "B" -> "bound"
                     [] cmd = "U" -> "unfreeze" [] cmd = "P" -> "state"

Command(cmd, want) ==
    /\ fw.at = "idle" /\ cmd \in Commands
    /\ fw' = [Stopped EXCEPT !.cmd = cmd, !.at = FirstPhase(cmd),
                    !.from = IF cmd = "B" THEN bound ELSE 0,
                    !.edges = IF cmd = "B" /\ ~Crossed THEN 1 ELSE 0,
                    !.want = IF cmd = "T" THEN want ELSE @]
    /\ UNCHANGED <<since, link, pixels, stream, gap, asking>>
-----------------------------------------------------------------------------
(* The 50 MHz clock.                                                       *)

\* avalon_slave_top: access is what the processor asks for at this edge.
SlaveAfter(access) ==
    LET write == access /\ fw.at = "write" /\ ~slave.busy
    IN  [busy |-> write \/ (slave.busy /\ ~Pulse(ackIn)),
         req |-> write,
         index |-> IF write THEN fw.i ELSE slave.index,
         data |-> IF write THEN fw.want[fw.i] ELSE slave.data,
         mirror |-> IF write THEN [slave.mirror EXCEPT ![fw.i] = fw.want[fw.i]]
                             ELSE slave.mirror,
         readdata |-> IF access /\ Reads THEN Selected ELSE slave.readdata,
         freeze_req |-> IF access /\ CtrlWrites /\ ~slave.busy THEN fw.at = "freeze"
                                                               ELSE slave.freeze_req]

Edge50(access) ==
    /\ since < 2 /\ since' = since + 1
    /\ access => fw.at # "idle" /\ gap = Gap
    /\ asking => access
    /\ slave' = SlaveAfter(access)
    /\ reqToggle' = (reqToggle # slave.req)
    /\ ackIn' = Shifted(ackIn, ackToggle)
    /\ boundIn' = Shifted(boundIn, boundToggle)
    /\ bound' = IF Pulse(boundIn) THEN boundary ELSE bound
    /\ frozenIn' = Shifted(frozenIn, gate.frozen)
    /\ LET waits == access /\ fw.at # "grab" /\ slave.busy    \* avs_waitrequest
       IN  /\ asking' = waits
           /\ fw' = IF access /\ ~waits THEN Answered(slave.readdata) ELSE fw
           /\ gap' = IF access /\ ~waits /\ fw'.at # "idle" THEN 0
                     ELSE IF gap < Gap /\ fw'.at # "idle" THEN gap + 1 ELSE Gap
    /\ UNCHANGED <<pixels, stream>>

BusEdge == Edge50(TRUE)
IdleEdge == Edge50(FALSE)

Next == \/ PixelEdge \/ VsEdge \/ VideoSwitch
        \/ BusEdge \/ IdleEdge \/ GiveUp
        \/ \E cmd \in Commands, want \in Templates : Command(cmd, want)

Spec == Init /\ [][Next]_vars
-----------------------------------------------------------------------------
(* Properties.                                                             *)

Done(cmd) == fw.at = "idle" /\ fw.cmd = cmd

\* TACK with no mismatch means the matcher has the template that was sent,
\* and TMPL is the template the matcher has.
TemplateReplies ==
    /\ Done("T") => fw.bad = 0 /\ tmpl = fw.want
    /\ Done("R") => \A n \in Index : fw.got[n] = tmpl[n]

\* A freeze the firmware took as confirmed holds until it lifts it: no field
\* is written while it reads the frame.
FreezeHolds ==
    /\ fw.at = "grab" /\ fw.ok => gate.frozen
    /\ Done("F") /\ fw.ok => gate.frozen /\ fw.got[0] = CtrlWord(TRUE, TRUE)

\* However often writing is stopped and resumed, the halves of the frame
\* buffer never swap fields.
FieldsKeepHalves == \A h \in Halves : mem[h] % 2 = h

\* The two coordinates are of one result or of two successive ones, in this
\* order: none older than the one that had crossed when the command came, and
\* none newer than the next.
BoundsOfOneMoment ==
    Done("B") => /\ fw.got[0] \in {fw.from, Later(fw.from, 1)}
                 /\ fw.got[1] \in {fw.got[0], Later(fw.from, 1)}
=============================================================================
