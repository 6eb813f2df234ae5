--------------------------- MODULE Camera_proofs ---------------------------
(***************************************************************************)
(* Proofs about the camera design's control side, for every template size, *)
(* set of templates and commands, access time and phase of the two clocks: *)
(* registers keep their types, an answer about the template is true of the *)
(* matcher, a confirmed freeze holds, the coordinates of an answer are of  *)
(* one moment, and the halves of the frame buffer keep their fields        *)
(* (main.c, avalon_interface.sv, process_top.sv, DE2_115_TV.v).            *)
(*                                                                         *)
(* The inductive invariant has a part for each: where in its command the   *)
(* firmware is (Begun); where on its way the one template request is, and  *)
(* what the two copies hold there (Handshake); how far a freeze request    *)
(* has crossed (OnItsWay, Crossing, Holding); how far the matcher's result *)
(* has, and how what was read is ordered with it (Result, InOrder).        *)
(***************************************************************************)
EXTENDS Camera, TLAPS
-----------------------------------------------------------------------------
(* The gate of the writes. *)

StreamTypes ==
    /\ field \in 0..(Stamps - 1) /\ half \in Halves
    /\ mem \in [Halves -> 0..(Stamps - 1)]
    /\ gate \in [frozen : BOOLEAN, fld : BOOLEAN, atFreeze : BOOLEAN]

\* While writing goes on, the half that is written is the field's.  While it
\* is stopped the half stays and the field goes on: they agree again exactly
\* when the parity differs from the one writing was stopped on, since fld is
\* compared before it is toggled.
HalfFollows == half = field % 2 <=> (gate.frozen => gate.fld # gate.atFreeze)

GateInv == StreamTypes /\ HalfFollows /\ FieldsKeepHalves

StreamUnchanged == UNCHANGED <<field, half, mem, gate>>
-----------------------------------------------------------------------------
(* Types, and where in its command the firmware is. *)

Begun ==
    /\ fw.at \in {"write", "check"} => fw.cmd = "T" /\ fw.i < Cells
    /\ fw.at = "read" => fw.cmd = "R" /\ fw.i < Cells
    /\ fw.at = "bound" => fw.cmd = "B" /\ fw.i < 2
    /\ fw.at = "grab" => fw.cmd = "S" /\ fw.i < 2
    /\ fw.at \in {"freeze", "poll"} => fw.cmd \in {"S", "F"}
    /\ fw.at = "state" => fw.cmd \in {"F", "U", "P"} /\ fw.i = 0
    /\ fw.at = "unfreeze" => fw.cmd \in {"none", "S", "U"}
    /\ fw.at = "check" => fw.bad <= fw.i
    /\ fw.at = "write" => fw.bad = 0

Types == TypeOK /\ Begun

-----------------------------------------------------------------------------
(* The template handshake. *)

\* Where a toggle differs from the flop behind it: the request at its
\* synchroniser's three flops, then the acknowledgement at its own.
Asked == reqToggle # reqIn.first
Arriving == reqIn.first # reqIn.second
Seen == Pulse(reqIn)
Acked == ackToggle # ackIn.first
Returning == ackIn.first # ackIn.second
Cleared == Pulse(ackIn)

\* The request or its acknowledgement is at place k of its way, 0 for nowhere.
Wave(k) ==
    /\ slave.req <=> k = 1
    /\ Asked <=> k = 2
    /\ Arriving <=> k = 3
    /\ Seen <=> k = 4
    /\ Acked <=> k = 5
    /\ Returning <=> k = 6
    /\ Cleared <=> k = 7

\* There is one request at a time, the slave is busy for as long as it is on
\* its way, and the processor's copy is the template but for its byte.
Mirrored(k) ==
    /\ slave.busy <=> k # 0
    /\ k \in {3, 4} => indexClk = slave.index /\ dataClk = slave.data
    /\ slave.mirror = IF k \in 1..4 THEN [tmpl EXCEPT ![slave.index] = slave.data] ELSE tmpl

Handshake == \E k \in 0..7 : Wave(k) /\ Mirrored(k)

\* What the firmware knows of the copy.
Known ==
    /\ fw.at = "write" => \A n \in Index : n < fw.i => slave.mirror[n] = fw.want[n]
    /\ fw.at = "check" => slave.mirror = fw.want /\ fw.bad = 0
    /\ fw.at = "read" => \A n \in Index : n < fw.i => fw.got[n] = slave.mirror[n]
    /\ fw.at \in {"check", "read"} /\ fw.again => slave.readdata = slave.mirror[fw.i]
    /\ Done("T") => slave.mirror = fw.want /\ fw.bad = 0 /\ ~slave.busy
    /\ Done("R") => (\A n \in Index : fw.got[n] = slave.mirror[n]) /\ ~slave.busy

TemplateInv == Handshake /\ Known

-----------------------------------------------------------------------------
(* Freezing. *)

\* The request has crossed, and what has crossed back is not from before it.
Crossing ==
    /\ freezeIn.first /\ freezeIn.second
    /\ (frozenIn.first => gate.frozen)
    /\ (frozenIn.second => frozenIn.first)

\* Writing is stopped, and both sides know.
Holding ==
    slave.freeze_req /\ freezeIn.first /\ freezeIn.second /\ gate.frozen
      /\ frozenIn.first /\ frozenIn.second

\* How far the request has come gap edges after it was written.
OnItsWay ==
    /\ gap >= since => freezeIn.first
    /\ gap >= since + 2 => freezeIn.second
    /\ gap >= 4 => freezeIn.first /\ freezeIn.second /\ (frozenIn.first => gate.frozen)
    /\ gap >= 5 => Crossing

FreezeInv ==
    /\ fw.at \in {"freeze", "poll"} => ~fw.ok
    /\ fw.at = "poll" => slave.freeze_req /\ (Crossing \/ (~fw.again /\ OnItsWay))
    /\ fw.at = "poll" /\ fw.again => Crossing /\ (FrozenBit(slave.readdata) => Holding)
    /\ fw.at = "grab" /\ fw.ok => Holding
    /\ fw.at = "state" /\ fw.cmd = "F" /\ fw.ok =>
         Holding /\ (fw.again => slave.readdata = CtrlWord(TRUE, TRUE))
    /\ Done("F") /\ fw.ok => Holding /\ fw.got[0] = CtrlWord(TRUE, TRUE)

-----------------------------------------------------------------------------
(* Positions. *)

\* The matcher's last result is that of the field before, and it crosses once.
Result ==
    /\ boundary = Later(field, 3)
    /\ \/ boundIn.first = boundToggle /\ boundIn.second = boundToggle
            /\ boundIn.last = boundToggle /\ bound = boundary
       \/ /\ bound = Later(boundary, 3)
          /\ \/ boundIn.first # boundToggle /\ boundIn.second = boundIn.first
                  /\ boundIn.last = boundIn.first
             \/ boundIn.first = boundToggle /\ boundIn.second # boundToggle
                  /\ boundIn.last # boundToggle
             \/ boundIn.first = boundToggle /\ boundIn.second = boundToggle
                  /\ boundIn.last # boundToggle

\* In a command that found the result from, and field f now, with e fields
\* ended since or a result on its way when it began: b was the result at some
\* moment of it, and a at one not later.
InOrder(f, e, from, a, b) ==
    IF f = Later(from, 1)
    THEN a = from /\ b = from
    ELSE /\ f = Later(from, 2) /\ e = 1
         /\ a \in {from, Later(from, 1)} /\ b \in {a, Later(from, 1)}

Ordered(a, b) == InOrder(field, fw.edges, fw.from, a, b)

BoundInv ==
    /\ Result
    /\ fw.at = "bound" =>
         /\ fw.edges = 0 => field = Later(fw.from, 1) /\ Crossed
         /\ Ordered(bound, bound)
         /\ fw.again => Ordered(slave.readdata, bound)
         /\ fw.i = 1 => Ordered(fw.got[0], bound)
                        /\ (fw.again => Ordered(fw.got[0], slave.readdata))
    /\ BoundsOfOneMoment

-----------------------------------------------------------------------------
LEMMA GateInit == Init => GateInv
BY DEF Init, GateInv, StreamTypes, HalfFollows, FieldsKeepHalves, Stamps, Halves

\* A field's successor has the other parity, for all four stamps.
LEMMA NextField ==
    \A f \in 0..3 : Later(f, 1) \in 0..3 /\ Later(f, 1) % 2 = 1 - (f % 2) /\ f % 2 \in 0..1
<1> TAKE f \in 0..3
<1>1. f = 0 \/ f = 1 \/ f = 2 \/ f = 3
  OBVIOUS
<1> QED
  BY <1>1 DEF Later, Stamps

LEMMA GateTyped ==
    ASSUME gate \in [frozen : BOOLEAN, fld : BOOLEAN, atFreeze : BOOLEAN],
           freezeIn.second \in BOOLEAN
    PROVE  GateAfter \in [frozen : BOOLEAN, fld : BOOLEAN, atFreeze : BOOLEAN]
BY DEF GateAfter

\* The freeze request that has crossed is a Boolean.
FreezeTypes == freezeIn \in Crossings /\ slave.freeze_req \in BOOLEAN

LEMMA FreezeTyped == Spec => []FreezeTypes
<1>1. Init => FreezeTypes
  BY DEF Init, FreezeTypes, Quiet, Crossings
<1>2. FreezeTypes /\ [Next]_vars => FreezeTypes'
  <2> SUFFICES ASSUME FreezeTypes, [Next]_vars PROVE FreezeTypes'
    OBVIOUS
  <2> USE DEF FreezeTypes
  <2>1. CASE PixelEdge \/ VsEdge
    BY <2>1 DEF PixelEdge, VsEdge, Edge27, link, Shifted, Crossings
  <2>2. ASSUME NEW access \in BOOLEAN, Edge50(access) PROVE FreezeTypes'
    BY <2>2 DEF Edge50, pixels, SlaveAfter
  <2>3. CASE VideoSwitch
    BY <2>3 DEF VideoSwitch, link, pixels
  <2>4. CASE GiveUp
    BY <2>4 DEF GiveUp, link, pixels
  <2>5. ASSUME NEW cmd \in Commands, NEW want \in Templates, Command(cmd, want)
        PROVE  FreezeTypes'
    BY <2>5 DEF Command, link, pixels
  <2>6. CASE UNCHANGED vars
    BY <2>6 DEF vars, link, pixels
  <2> QED
    BY <2>1, <2>2, <2>3, <2>4, <2>5, <2>6 DEF Next, BusEdge, IdleEdge
<1> QED
  BY <1>1, <1>2, PTL DEF Spec
-----------------------------------------------------------------------------
\* The end of a field: the gate may stop or resume writing, the half moves on
\* if the field was written, and the next field is begun in it if written.
LEMMA FieldEndsStep ==
    ASSUME GateInv, FreezeTypes, FieldEnds
    PROVE  GateInv'
<1> USE DEF GateInv
<1>1. field \in 0..3 /\ half \in 0..1 /\ mem \in [0..1 -> 0..3]
  BY DEF StreamTypes, Stamps, Halves
<1>2. gate \in [frozen : BOOLEAN, fld : BOOLEAN, atFreeze : BOOLEAN]
  BY DEF StreamTypes
<1>3. field' = Later(field, 1) /\ field' \in 0..3 /\ field' % 2 = 1 - (field % 2)
      /\ field % 2 \in 0..1
  BY <1>1, NextField DEF FieldEnds
<1>4. gate' = GateAfter /\ gate' \in [frozen : BOOLEAN, fld : BOOLEAN, atFreeze : BOOLEAN]
  BY <1>2, GateTyped DEF FieldEnds, FreezeTypes, Crossings
<1>5. half' = (IF gate.frozen THEN half ELSE 1 - half) /\ half' \in 0..1
  BY <1>1 DEF FieldEnds, NextHalf
<1>6. mem' = IF gate'.frozen THEN mem ELSE [mem EXCEPT ![half'] = field']
  BY <1>3, <1>4, <1>5 DEF FieldEnds, NextHalf
<1>7. StreamTypes'
  BY <1>1, <1>3, <1>4, <1>5, <1>6 DEF StreamTypes, Stamps, Halves
<1>8. half' = field' % 2 <=> (gate'.frozen => gate'.fld # gate'.atFreeze)
  <2>1. gate'.fld = ~gate.fld
    BY <1>4 DEF GateAfter
  <2>2. CASE ~gate.frozen
    <3>1. half = field % 2
      BY <2>2 DEF HalfFollows
    <3>2. half' = field' % 2
      BY <3>1, <2>2, <1>1, <1>3, <1>5
    <3>3. gate'.frozen => gate'.atFreeze = gate.fld
      BY <2>2, <1>2, <1>4 DEF GateAfter
    <3> QED
      BY <3>2, <3>3, <2>1, <1>2
  <2>3. CASE gate.frozen
    <3>1. half' = field' % 2 <=> half # field % 2
      BY <2>3, <1>1, <1>3, <1>5
    <3>2. half' = field' % 2 <=> gate.fld = gate.atFreeze
      BY <3>1, <2>3, <1>2 DEF HalfFollows
    <3>3. gate'.atFreeze = gate.atFreeze
      BY <2>3, <1>2, <1>4 DEF GateAfter
    <3>4. ~gate'.frozen => gate.fld = gate.atFreeze
      BY <2>3, <1>2, <1>4 DEF GateAfter
    <3> QED
      BY <3>2, <3>3, <3>4, <2>1, <1>2
  <2> QED
    BY <2>2, <2>3, <1>2
<1>9. FieldsKeepHalves'
  <2>1. CASE gate'.frozen
    BY <2>1, <1>6 DEF FieldsKeepHalves
  <2>2. CASE ~gate'.frozen
    <3>1. half' = field' % 2
      BY <2>2, <1>8
    <3>2. mem' = [mem EXCEPT ![half'] = field']
      BY <2>2, <1>6
    <3> SUFFICES ASSUME NEW h \in 0..1 PROVE mem'[h] % 2 = h
      BY DEF FieldsKeepHalves, Halves
    <3>3. CASE h = half'
      BY <3>1, <3>2, <3>3, <1>1
    <3>4. CASE h # half'
      BY <3>2, <3>4, <1>1 DEF FieldsKeepHalves, Halves
    <3> QED
      BY <3>3, <3>4
  <2> QED
    BY <2>1, <2>2, <1>4
<1> QED
  BY <1>7, <1>8, <1>9 DEF HalfFollows

LEMMA Undisturbed ==
    ASSUME GateInv, StreamUnchanged
    PROVE  GateInv'
BY DEF GateInv, StreamUnchanged, StreamTypes, HalfFollows, FieldsKeepHalves, Halves

LEMMA GateStep ==
    ASSUME GateInv, FreezeTypes, [Next]_vars
    PROVE  GateInv'
<1>1. CASE VsEdge
  BY <1>1, FieldEndsStep DEF VsEdge
<1>2. CASE PixelEdge
  BY <1>2, Undisturbed DEF PixelEdge, WithinField, StreamUnchanged
<1>3. ASSUME NEW access \in BOOLEAN, Edge50(access) PROVE StreamUnchanged
  BY <1>3 DEF Edge50, pixels, stream, StreamUnchanged
<1>4. CASE VideoSwitch
  BY <1>4, Undisturbed DEF VideoSwitch, pixels, StreamUnchanged
<1>5. CASE GiveUp
  BY <1>5, Undisturbed DEF GiveUp, pixels, stream, StreamUnchanged
<1>6. ASSUME NEW cmd \in Commands, NEW want \in Templates, Command(cmd, want)
      PROVE  StreamUnchanged
  BY <1>6 DEF Command, pixels, stream, StreamUnchanged
<1>7. CASE UNCHANGED vars
  BY <1>7, Undisturbed DEF vars, pixels, stream, StreamUnchanged
<1> QED
  BY <1>1, <1>2, <1>3, <1>4, <1>5, <1>6, <1>7, Undisturbed DEF Next, BusEdge, IdleEdge

(* However often and at whatever moments writing is stopped and resumed,   *)
(* each half of the frame buffer only ever holds fields of its parity.     *)
THEOREM FieldsKept == Spec => []FieldsKeepHalves
<1>1. Init => GateInv
  BY GateInit
<1>2. FreezeTypes /\ GateInv /\ [Next]_vars => GateInv'
  BY GateStep
<1>3. GateInv => FieldsKeepHalves
  BY DEF GateInv
<1> QED
  BY <1>1, <1>2, <1>3, FreezeTyped, PTL DEF Spec
-----------------------------------------------------------------------------
(* Types. *)

FwRecords ==
    [cmd : Commands \cup {"none"}, at : Phases, i : Nat, again : BOOLEAN,
     want : [Index -> Words], got : [Index \cup Halves -> Words],
     bad : 0..Cells, ok : BOOLEAN, from : 0..(Stamps - 1), edges : 0..1]

SlaveRecords ==
    [busy : BOOLEAN, req : BOOLEAN, index : Index, data : Words,
     mirror : [Index -> Words], readdata : Words, freeze_req : BOOLEAN]

LEMMA WordKinds ==
    /\ Blank \in Words /\ 0 \in Words /\ 1 \in Words /\ 2 \in Words /\ 3 \in Words
    /\ 0 \in Index /\ Cells - 1 \in Index /\ Cells - 1 \in Nat
    /\ \A t \in Templates : t \in [Index -> Words]
<1> DEFINE bytes == UNION {{t[n] : n \in Index} : t \in Templates}
<1>a. Words = bytes \cup {Blank} \cup (0..(Stamps - 1))
  BY DEF Words
<1>b. Stamps - 1 = 3
  BY DEF Stamps
<1> HIDE DEF bytes
<1>1. Blank \in Words
  BY <1>a
<1>2. 0 \in Words /\ 1 \in Words /\ 2 \in Words /\ 3 \in Words
  BY <1>a, <1>b
<1>3. ASSUME NEW t \in Templates PROVE t \in [Index -> Words]
  <2>1. t \in [Index -> Nat]
    BY TemplatesAssumption DEF Index
  <2>2. ASSUME NEW n \in Index PROVE t[n] \in Words
    <3>1. t[n] \in {t[m] : m \in Index}
      OBVIOUS
    <3>2. t[n] \in bytes
      BY <3>1, Zenon DEF bytes
    <3> QED
      BY <3>2, <1>a
  <2> QED
    BY <2>1, <2>2
<1>4. 0 \in Index /\ Cells - 1 \in Index /\ Cells - 1 \in Nat
  BY CellsAssumption DEF Index
<1> QED
  BY <1>1, <1>2, <1>3, <1>4

LEMMA InitTypes == Init => Types
<1> SUFFICES ASSUME Init PROVE Types
  OBVIOUS
<1>1. 0 \in Index /\ 0 \in Words /\ Blank \in Words /\ 0 \in 0..Cells /\ 1 \in Words
  BY CellsAssumption, WordKinds
<1>2. fw \in FwRecords
  <2>1. [n \in Index |-> Blank] \in [Index -> Words]
    BY <1>1
  <2>2. [n \in Index \cup Halves |-> Blank] \in [Index \cup Halves -> Words]
    BY <1>1
  <2>3. fw = [cmd |-> "none", at |-> "unfreeze", i |-> 0, again |-> FALSE,
              want |-> [n \in Index |-> Blank], got |-> [n \in Index \cup Halves |-> Blank],
              bad |-> 0, ok |-> FALSE, from |-> 0, edges |-> 0]
    BY DEF Init, Stopped
  <2> QED
    BY <2>1, <2>2, <2>3, <1>1 DEF FwRecords, Phases, Stamps
<1>3. slave \in SlaveRecords
  <2>1. [n \in Index |-> Blank] \in [Index -> Words]
    BY <1>1
  <2> QED
    BY <1>1, <2>1 DEF Init, SlaveRecords
<1>4. Begun
  <2>1. fw.at = "unfreeze" /\ fw.cmd = "none"
    BY DEF Init, Stopped
  <2> QED
    BY <2>1 DEF Begun
<1>5. gap \in 0..Gap /\ since \in 0..2
  BY GapAssumption DEF Init
<1>6. {ackIn, boundIn, frozenIn, reqIn, freezeIn} \subseteq Crossings
  BY DEF Init, Quiet, Crossings
<1>7. reqToggle \in BOOLEAN /\ ackToggle \in BOOLEAN /\ boundToggle \in BOOLEAN
      /\ video \in BOOLEAN /\ asking \in BOOLEAN
  BY DEF Init
<1>8. bound \in 0..3 /\ boundary \in 0..3 /\ field \in 0..3
  BY DEF Init
<1>9. indexClk \in Index /\ dataClk \in Words /\ tmpl \in [Index -> Words]
  BY <1>1 DEF Init
<1>10. gate \in [frozen : BOOLEAN, fld : BOOLEAN, atFreeze : BOOLEAN]
  BY DEF Init
<1>11. mem \in [Halves -> 0..3] /\ half \in Halves
  BY DEF Init, Halves
<1>12. TypeOK
  BY <1>2, <1>3, <1>5, <1>6, <1>7, <1>8, <1>9, <1>10, <1>11
  DEF TypeOK, FwRecords, SlaveRecords, Stamps
<1> QED
  BY <1>4, <1>12 DEF Types

\* The registers one by one.
LEMMA Registers ==
    ASSUME Types
    PROVE  /\ fw \in FwRecords /\ slave \in SlaveRecords
           /\ reqToggle \in BOOLEAN /\ ackToggle \in BOOLEAN /\ boundToggle \in BOOLEAN
           /\ video \in BOOLEAN /\ asking \in BOOLEAN
           /\ ackIn \in Crossings /\ boundIn \in Crossings /\ frozenIn \in Crossings
           /\ reqIn \in Crossings /\ freezeIn \in Crossings
           /\ bound \in 0..3 /\ boundary \in 0..3 /\ field \in 0..3
           /\ indexClk \in Index /\ dataClk \in Words /\ tmpl \in [Index -> Words]
           /\ gate \in [frozen : BOOLEAN, fld : BOOLEAN, atFreeze : BOOLEAN]
           /\ mem \in [Halves -> 0..3] /\ half \in Halves
           /\ gap \in Nat /\ gap <= Gap /\ Gap \in Nat /\ since \in Nat /\ since <= 2
BY GapAssumption DEF Types, TypeOK, FwRecords, SlaveRecords, Stamps

\* The firmware's fields one by one.
LEMMA FwFields ==
    ASSUME NEW r \in FwRecords
    PROVE  /\ r.cmd \in Commands \cup {"none"} /\ r.at \in Phases /\ r.i \in Nat
           /\ r.again \in BOOLEAN /\ r.want \in [Index -> Words]
           /\ r.got \in [Index \cup Halves -> Words] /\ r.bad \in 0..Cells
           /\ r.ok \in BOOLEAN /\ r.from \in 0..3 /\ r.edges \in 0..1
BY DEF FwRecords, Stamps

LEMMA SlaveFields ==
    ASSUME Types
    PROVE  /\ slave.busy \in BOOLEAN /\ slave.req \in BOOLEAN /\ slave.index \in Index
           /\ slave.data \in Words /\ slave.mirror \in [Index -> Words]
           /\ slave.readdata \in Words /\ slave.freeze_req \in BOOLEAN
BY Registers DEF SlaveRecords

LEMMA ShiftedTypes ==
    ASSUME NEW s \in Crossings, NEW in \in BOOLEAN
    PROVE  Shifted(s, in) \in Crossings /\ Pulse(s) \in BOOLEAN
BY DEF Shifted, Crossings, Pulse
-----------------------------------------------------------------------------
(* The firmware's next access, field by field. *)

\* What an answer leaves alone.
Kept == fw'.cmd = fw.cmd /\ fw'.want = fw.want /\ fw'.from = fw.from /\ fw'.edges = fw.edges

\* The command is done, or goes on at its next phase.
LEMMA ToFields ==
    ASSUME fw \in FwRecords, NEW place \in Phases, fw' = To(place)
    PROVE  /\ fw' \in FwRecords /\ Kept
           /\ fw'.at = place /\ fw'.i = 0 /\ ~fw'.again
           /\ fw'.got = fw.got /\ fw'.bad = fw.bad /\ fw'.ok = fw.ok
BY DEF To, FwRecords, Kept

\* The next of last + 1 accesses of a phase.
LEMMA AfterFields ==
    ASSUME fw \in FwRecords, NEW last \in Nat, NEW place \in Phases, fw' = After(last, place)
    PROVE  /\ fw' \in FwRecords /\ Kept /\ ~fw'.again
           /\ fw'.got = fw.got /\ fw'.bad = fw.bad /\ fw'.ok = fw.ok
           /\ fw.i = last => fw'.at = place /\ fw'.i = 0
           /\ fw.i # last => fw'.at = fw.at /\ fw'.i = fw.i + 1
<1>1. CASE fw.i = last
  BY <1>1, ToFields DEF After
<1>2. CASE fw.i # last
  <2>1. fw' = [fw EXCEPT !.i = @ + 1, !.again = FALSE]
    BY <1>2 DEF After
  <2>2. fw.i + 1 \in Nat
    BY FwFields
  <2> QED
    BY <2>1, <2>2, <1>2 DEF FwRecords, Kept
<1> QED
  BY <1>1, <1>2

\* A write's answer: the next byte of the template, or the first to check.
LEMMA WriteAnswered ==
    ASSUME Types, NEW word, fw.at = "write", fw' = Answered(word)
    PROVE  /\ fw' \in FwRecords /\ Kept /\ ~fw'.again /\ fw'.got = fw.got
           /\ fw'.bad = 0 /\ fw'.ok = fw.ok /\ fw.i < Cells /\ fw.cmd = "T"
           /\ fw.i = Cells - 1 => fw'.at = "check" /\ fw'.i = 0
           /\ fw.i # Cells - 1 => fw'.at = "write" /\ fw'.i = fw.i + 1 /\ fw.i + 1 < Cells
           /\ Begun'
<1>1. fw \in FwRecords /\ Cells - 1 \in Nat /\ fw.i \in Nat /\ Cells \in Nat
      /\ fw.i < Cells /\ fw.cmd = "T" /\ fw.bad = 0
  BY Registers, WordKinds, CellsAssumption, FwFields DEF Types, Begun
<1>2. fw' = After(Cells - 1, "check")
  BY DEF Answered, Reads
<1>3. /\ fw' \in FwRecords /\ Kept /\ ~fw'.again
      /\ fw'.got = fw.got /\ fw'.bad = fw.bad /\ fw'.ok = fw.ok
      /\ fw.i = Cells - 1 => fw'.at = "check" /\ fw'.i = 0
      /\ fw.i # Cells - 1 => fw'.at = fw.at /\ fw'.i = fw.i + 1
  BY <1>1, <1>2, AfterFields DEF Phases
<1>4. fw.i # Cells - 1 => fw.i + 1 < Cells
  BY <1>1
<1>5. Cells > 0
  BY CellsAssumption
<1>6. Begun'
  <2>1. CASE fw.i = Cells - 1
    BY <2>1, <1>1, <1>3, <1>5 DEF Begun, Kept
  <2>2. CASE fw.i # Cells - 1
    BY <2>2, <1>1, <1>3, <1>4 DEF Begun, Kept
  <2> QED
    BY <2>1, <2>2
<1> QED
  BY <1>1, <1>3, <1>4, <1>6

\* A control write's answer.
LEMMA ControlAnswered ==
    ASSUME Types, NEW word, fw.at \in {"freeze", "unfreeze"}, fw' = Answered(word)
    PROVE  /\ fw' \in FwRecords /\ Kept /\ ~fw'.again /\ fw'.got = fw.got
           /\ fw'.bad = fw.bad /\ fw'.ok = fw.ok /\ fw'.i = 0
           /\ fw.at = "freeze" => fw'.at = "poll"
           /\ fw.at = "unfreeze" => fw'.at = IF fw.cmd = "U" THEN "state" ELSE "idle"
           /\ Begun'
<1>1. fw \in FwRecords /\ (fw.at = "freeze" => fw.cmd \in {"S", "F"})
  BY Registers DEF Types, Begun
<1>2. fw.at = "freeze" => fw' = To("poll")
  BY DEF Answered, Reads
<1>3. fw.at = "unfreeze" => fw' = To(IF fw.cmd = "U" THEN "state" ELSE "idle")
  BY DEF Answered, Reads
<1>4. "poll" \in Phases /\ (IF fw.cmd = "U" THEN "state" ELSE "idle") \in Phases
  BY DEF Phases
<1>5. /\ fw' \in FwRecords /\ Kept /\ ~fw'.again /\ fw'.got = fw.got
      /\ fw'.bad = fw.bad /\ fw'.ok = fw.ok /\ fw'.i = 0
      /\ fw.at = "freeze" => fw'.at = "poll"
      /\ fw.at = "unfreeze" => fw'.at = IF fw.cmd = "U" THEN "state" ELSE "idle"
  BY <1>1, <1>2, <1>3, <1>4, ToFields
<1>6. Begun'
  BY <1>1, <1>5 DEF Begun, Kept
<1> QED
  BY <1>5, <1>6

LEMMA GrabAnswered ==
    ASSUME Types, NEW word, fw.at = "grab", fw' = Answered(word)
    PROVE  /\ fw' \in FwRecords /\ Kept /\ ~fw'.again /\ fw'.ok = fw.ok
           /\ fw'.at \in {"grab", "unfreeze"} /\ fw.cmd = "S" /\ Begun'
<1>1. fw \in FwRecords /\ fw.i \in Nat /\ fw.i < 2 /\ fw.cmd = "S"
  BY Registers, FwFields DEF Types, Begun
<1>2. fw' = After(1, "unfreeze")
  BY DEF Answered, Reads
<1>3. /\ fw' \in FwRecords /\ Kept /\ ~fw'.again /\ fw'.ok = fw.ok
      /\ fw.i = 1 => fw'.at = "unfreeze" /\ fw'.i = 0
      /\ fw.i # 1 => fw'.at = fw.at /\ fw'.i = fw.i + 1
  BY <1>1, <1>2, AfterFields DEF Phases
<1>4. fw.i # 1 => fw.i + 1 < 2
  BY <1>1
<1> QED
  BY <1>1, <1>3, <1>4 DEF Begun, Kept

\* The first of two reads.
LEMMA FirstRead ==
    ASSUME Types, NEW word, Reads, ~fw.again, fw' = Answered(word)
    PROVE  /\ fw' \in FwRecords /\ Kept /\ fw'.again /\ fw'.at = fw.at /\ fw'.i = fw.i
           /\ fw'.got = fw.got /\ fw'.bad = fw.bad /\ fw'.ok = fw.ok /\ Begun'
<1>1. fw \in FwRecords /\ Begun
  BY Registers DEF Types
<1>2. fw' = [fw EXCEPT !.again = TRUE]
  BY DEF Answered, Reads
<1>3. /\ fw' \in FwRecords /\ Kept /\ fw'.again /\ fw'.at = fw.at /\ fw'.i = fw.i
      /\ fw'.got = fw.got /\ fw'.bad = fw.bad /\ fw'.ok = fw.ok
  BY <1>1, <1>2 DEF FwRecords, Kept
<1> QED
  BY <1>1, <1>3 DEF Begun, Kept

\* The second read of a byte of the copy, when it is checked.
LEMMA CheckAnswered ==
    ASSUME Types, NEW word, fw.at = "check", fw.again, fw' = Answered(word)
    PROVE  /\ fw' \in FwRecords /\ Kept /\ ~fw'.again /\ fw'.got = fw.got /\ fw'.ok = fw.ok
           /\ fw'.bad = (IF word # fw.want[fw.i] THEN fw.bad + 1 ELSE fw.bad)
           /\ fw.i < Cells /\ fw.cmd = "T"
           /\ fw.i = Cells - 1 => fw'.at = "idle" /\ fw'.i = 0
           /\ fw.i # Cells - 1 => fw'.at = "check" /\ fw'.i = fw.i + 1
           /\ Begun'
<1>1. fw \in FwRecords /\ Cells - 1 \in Nat /\ fw.i \in Nat /\ Cells \in Nat
      /\ fw.i < Cells /\ fw.cmd = "T" /\ fw.bad <= fw.i /\ fw.bad \in Nat
  BY Registers, WordKinds, CellsAssumption, FwFields DEF Types, Begun
<1> DEFINE bad == IF word # fw.want[fw.i] THEN fw.bad + 1 ELSE fw.bad
<1>2. bad \in Nat /\ bad <= fw.i + 1 /\ bad \in 0..Cells
  BY <1>1
<1>3. fw' = [After(Cells - 1, "idle") EXCEPT !.bad = IF word # fw.want[fw.i] THEN @ + 1 ELSE @]
  BY DEF Answered, Settled, Reads
<1> HIDE DEF bad
<1>4. CASE fw.i = Cells - 1
  <2>1. fw' = [cmd |-> fw.cmd, at |-> "idle", i |-> 0, again |-> FALSE, want |-> fw.want,
              got |-> fw.got, bad |-> bad, ok |-> fw.ok, from |-> fw.from, edges |-> fw.edges]
    BY <1>3, <1>4, <1>1 DEF After, To, bad, FwRecords
  <2>2. /\ fw' \in FwRecords /\ Kept /\ ~fw'.again /\ fw'.got = fw.got /\ fw'.ok = fw.ok
        /\ fw'.bad = bad /\ fw'.at = "idle" /\ fw'.i = 0
    BY <2>1, <1>1, <1>2 DEF FwRecords, Kept, Phases
  <2> QED
    BY <2>2, <1>1, <1>4 DEF Begun, bad
<1>5. CASE fw.i # Cells - 1
  <2>1. fw' = [cmd |-> fw.cmd, at |-> fw.at, i |-> fw.i + 1, again |-> FALSE, want |-> fw.want,
              got |-> fw.got, bad |-> bad, ok |-> fw.ok, from |-> fw.from, edges |-> fw.edges]
    BY <1>3, <1>5, <1>1 DEF After, bad, FwRecords
  <2>2. fw.i + 1 \in Nat /\ fw.i + 1 < Cells
    BY <1>1, <1>5
  <2>3. /\ fw' \in FwRecords /\ Kept /\ ~fw'.again /\ fw'.got = fw.got /\ fw'.ok = fw.ok
        /\ fw'.bad = bad /\ fw'.at = "check" /\ fw'.i = fw.i + 1
    BY <2>1, <2>2, <1>1, <1>2 DEF FwRecords, Kept
  <2>4. Begun'
    BY <2>2, <2>3, <1>1, <1>2 DEF Begun, Kept
  <2> QED
    BY <2>3, <2>4, <1>1, <1>5 DEF bad
<1> QED
  BY <1>4, <1>5

\* The second read of one of last + 1 words that are kept.
LEMMA WordKept ==
    ASSUME fw \in FwRecords, NEW last \in Nat, NEW word \in Words, fw.i \in Index \cup Halves
    PROVE  fw' = [After(last, "idle") EXCEPT !.got[fw.i] = word] =>
           /\ fw' \in FwRecords /\ Kept /\ ~fw'.again /\ fw'.bad = fw.bad /\ fw'.ok = fw.ok
           /\ fw'.got = [fw.got EXCEPT ![fw.i] = word]
           /\ fw.i = last => fw'.at = "idle" /\ fw'.i = 0
           /\ fw.i # last => fw'.at = fw.at /\ fw'.i = fw.i + 1
<1> DEFINE got == [fw.got EXCEPT ![fw.i] = word]
           step == fw' = [After(last, "idle") EXCEPT !.got[fw.i] = word]
<1>1. got \in [Index \cup Halves -> Words] /\ fw.i + 1 \in Nat
  BY FwFields
<1> HIDE DEF got, step
<1>2. ASSUME step, fw.i = last
      PROVE  /\ fw' \in FwRecords /\ Kept /\ ~fw'.again /\ fw'.bad = fw.bad
             /\ fw'.ok = fw.ok /\ fw'.got = got /\ fw'.at = "idle" /\ fw'.i = 0
  <2>1. fw' = [cmd |-> fw.cmd, at |-> "idle", i |-> 0, again |-> FALSE, want |-> fw.want,
               got |-> got, bad |-> fw.bad, ok |-> fw.ok, from |-> fw.from,
               edges |-> fw.edges]
    BY <1>2 DEF After, To, FwRecords, got, step
  <2>2. fw' \in FwRecords
    BY <2>1, <1>1 DEF FwRecords, Phases
  <2> QED
    BY <2>1, <2>2 DEF Kept
<1>3. ASSUME step, fw.i # last
      PROVE  /\ fw' \in FwRecords /\ Kept /\ ~fw'.again /\ fw'.bad = fw.bad
             /\ fw'.ok = fw.ok /\ fw'.got = got /\ fw'.at = fw.at /\ fw'.i = fw.i + 1
  <2>1. fw' = [cmd |-> fw.cmd, at |-> fw.at, i |-> fw.i + 1, again |-> FALSE,
               want |-> fw.want, got |-> got, bad |-> fw.bad, ok |-> fw.ok,
               from |-> fw.from, edges |-> fw.edges]
    BY <1>3 DEF After, FwRecords, got, step
  <2>2. fw' \in FwRecords
    BY <2>1, <1>1 DEF FwRecords
  <2> QED
    BY <2>1, <2>2 DEF Kept
<1> QED
  BY <1>2, <1>3 DEF got, step

LEMMA ReadAnswered ==
    ASSUME Types, NEW word \in Words, fw.at = "read", fw.again, fw' = Answered(word)
    PROVE  /\ fw' \in FwRecords /\ Kept /\ ~fw'.again /\ fw'.bad = fw.bad /\ fw'.ok = fw.ok
           /\ fw'.got = [fw.got EXCEPT ![fw.i] = word]
           /\ fw.i < Cells /\ fw.cmd = "R"
           /\ fw.i = Cells - 1 => fw'.at = "idle" /\ fw'.i = 0
           /\ fw.i # Cells - 1 => fw'.at = "read" /\ fw'.i = fw.i + 1
           /\ Begun'
<1>1. fw \in FwRecords /\ Cells - 1 \in Nat /\ fw.i \in Nat /\ Cells \in Nat
      /\ fw.i < Cells /\ fw.cmd = "R"
  BY Registers, WordKinds, CellsAssumption, FwFields DEF Types, Begun
<1>2. fw' = [After(Cells - 1, "idle") EXCEPT !.got[fw.i] = word]
  BY DEF Answered, Settled, Reads
<1>3. fw.i \in Index \cup Halves
  BY <1>1 DEF Index
<1>4. /\ fw' \in FwRecords /\ Kept /\ ~fw'.again /\ fw'.bad = fw.bad /\ fw'.ok = fw.ok
      /\ fw'.got = [fw.got EXCEPT ![fw.i] = word]
      /\ fw.i = Cells - 1 => fw'.at = "idle" /\ fw'.i = 0
      /\ fw.i # Cells - 1 => fw'.at = fw.at /\ fw'.i = fw.i + 1
  BY <1>1, <1>2, <1>3, WordKept
<1>5. fw.i # Cells - 1 => fw.i + 1 < Cells
  BY <1>1
<1> QED
  BY <1>1, <1>4, <1>5 DEF Begun, Kept

LEMMA BoundAnswered ==
    ASSUME Types, NEW word \in Words, fw.at = "bound", fw.again, fw' = Answered(word)
    PROVE  /\ fw' \in FwRecords /\ Kept /\ ~fw'.again /\ fw'.bad = fw.bad /\ fw'.ok = fw.ok
           /\ fw'.got = [fw.got EXCEPT ![fw.i] = word]
           /\ fw.i \in 0..1 /\ fw.cmd = "B"
           /\ fw.i = 1 => fw'.at = "idle" /\ fw'.i = 0
           /\ fw.i # 1 => fw'.at = "bound" /\ fw'.i = 1
           /\ Begun'
<1>1. fw \in FwRecords /\ fw.i \in Nat /\ fw.i < 2 /\ fw.cmd = "B"
  BY Registers, FwFields DEF Types, Begun
<1>2. fw' = [After(1, "idle") EXCEPT !.got[fw.i] = word]
  BY DEF Answered, Settled, Reads
<1>3. fw.i \in Index \cup Halves /\ fw.i \in 0..1
  BY <1>1 DEF Halves
<1>4. /\ fw' \in FwRecords /\ Kept /\ ~fw'.again /\ fw'.bad = fw.bad /\ fw'.ok = fw.ok
      /\ fw'.got = [fw.got EXCEPT ![fw.i] = word]
      /\ fw.i = 1 => fw'.at = "idle" /\ fw'.i = 0
      /\ fw.i # 1 => fw'.at = fw.at /\ fw'.i = fw.i + 1
  BY <1>1, <1>2, <1>3, WordKept
<1>5. fw.i # 1 => fw.i + 1 = 1
  BY <1>3
<1> QED
  BY <1>1, <1>3, <1>4, <1>5 DEF Begun, Kept

LEMMA StateAnswered ==
    ASSUME Types, NEW word \in Words, fw.at = "state", fw.again, fw' = Answered(word)
    PROVE  /\ fw' \in FwRecords /\ Kept /\ ~fw'.again /\ fw'.bad = fw.bad /\ fw'.ok = fw.ok
           /\ fw'.got = [fw.got EXCEPT ![0] = word]
           /\ fw'.at = "idle" /\ fw'.i = 0 /\ Begun'
<1>1. fw \in FwRecords
  BY Registers
<1>2. fw' = [To("idle") EXCEPT !.got[0] = word]
  BY DEF Answered, Settled, Reads
<1> DEFINE got == [fw.got EXCEPT ![0] = word]
<1>3. got \in [Index \cup Halves -> Words]
  BY <1>1, FwFields
<1> HIDE DEF got
<1>4. fw' = [cmd |-> fw.cmd, at |-> "idle", i |-> 0, again |-> FALSE, want |-> fw.want,
              got |-> got, bad |-> fw.bad, ok |-> fw.ok, from |-> fw.from, edges |-> fw.edges]
  BY <1>1, <1>2 DEF To, FwRecords, got
<1>5. /\ fw' \in FwRecords /\ Kept /\ ~fw'.again /\ fw'.bad = fw.bad /\ fw'.ok = fw.ok
      /\ fw'.got = got /\ fw'.at = "idle" /\ fw'.i = 0
  BY <1>1, <1>3, <1>4 DEF FwRecords, Kept, Phases
<1> QED
  BY <1>5 DEF Begun, got

LEMMA PollAnswered ==
    ASSUME Types, NEW word, fw.at = "poll", fw.again, fw' = Answered(word)
    PROVE  /\ fw' \in FwRecords /\ Kept /\ ~fw'.again /\ fw'.got = fw.got
           /\ fw.cmd \in {"S", "F"}
           /\ FrozenBit(word) => /\ fw'.at = (IF fw.cmd = "S" THEN "grab" ELSE "state")
                                 /\ fw'.i = 0 /\ fw'.ok
           /\ ~FrozenBit(word) => fw'.at = "poll" /\ fw'.ok = fw.ok
           /\ Begun'
<1>1. fw \in FwRecords /\ fw.cmd \in {"S", "F"}
  BY Registers DEF Types, Begun
<1>2. CASE FrozenBit(word)
  <2> DEFINE place == IF fw.cmd = "S" THEN "grab" ELSE "state"
  <2>1. fw' = [To(place) EXCEPT !.ok = TRUE]
    BY <1>2 DEF Answered, Settled, Reads
  <2>2. /\ place \in Phases /\ place \in {"grab", "state"}
        /\ (place = "grab" => fw.cmd = "S") /\ (place = "state" => fw.cmd = "F")
    BY <1>1 DEF Phases
  <2> HIDE DEF place
  <2>3. fw' = [cmd |-> fw.cmd, at |-> place, i |-> 0, again |-> FALSE, want |-> fw.want,
              got |-> fw.got, bad |-> fw.bad, ok |-> TRUE, from |-> fw.from, edges |-> fw.edges]
    BY <1>1, <2>1 DEF To, FwRecords
  <2>4. /\ fw' \in FwRecords /\ Kept /\ ~fw'.again /\ fw'.got = fw.got
        /\ fw'.at = place /\ fw'.i = 0 /\ fw'.ok
    BY <1>1, <2>2, <2>3 DEF FwRecords, Kept
  <2>5. Begun'
    BY <2>2, <2>4 DEF Begun, Kept
  <2> QED
    BY <1>1, <1>2, <2>4, <2>5 DEF place
<1>3. CASE ~FrozenBit(word)
  <2>1. fw' = [fw EXCEPT !.again = FALSE]
    BY <1>3 DEF Answered, Settled, Reads
  <2>2. /\ fw' \in FwRecords /\ Kept /\ ~fw'.again /\ fw'.got = fw.got
        /\ fw'.at = "poll" /\ fw'.ok = fw.ok
    BY <1>1, <2>1 DEF FwRecords, Kept
  <2>3. Begun'
    BY <1>1, <2>2 DEF Begun, Kept
  <2> QED
    BY <1>1, <1>3, <2>2, <2>3
<1> QED
  BY <1>2, <1>3
-----------------------------------------------------------------------------
(* An edge of the bus clock, register by register. *)

Writing(access) == access /\ fw.at = "write" /\ ~slave.busy
Waits(access) == access /\ fw.at # "grab" /\ slave.busy

LEMMA BusFirmware ==
    ASSUME NEW access \in BOOLEAN, Edge50(access)
    PROVE  /\ access => fw.at # "idle" /\ gap = Gap
           /\ asking' = Waits(access)
           /\ access /\ ~Waits(access) => fw' = Answered(slave.readdata)
           /\ ~access \/ Waits(access) => fw' = fw
BY DEF Edge50, Waits

LEMMA BusGap ==
    ASSUME NEW access \in BOOLEAN, Edge50(access)
    PROVE  /\ since' = since + 1 /\ since < 2
           /\ access /\ ~Waits(access) /\ fw'.at # "idle" => gap' = 0
           /\ ~(access /\ ~Waits(access)) /\ gap < Gap /\ fw'.at # "idle" => gap' = gap + 1
           /\ gap' = 0 \/ (gap' = gap + 1 /\ gap < Gap) \/ gap' = Gap
           /\ ~(access /\ ~Waits(access)) => (gap' = gap + 1 /\ gap < Gap) \/ gap' = Gap
<1> DEFINE answers == access /\ ~Waits(access)
           runs == fw'.at # "idle"
           short == gap < Gap
<1>1. gap' = IF answers /\ runs THEN 0 ELSE IF short /\ runs THEN gap + 1 ELSE Gap
  BY DEF Edge50, Waits
<1>2. since' = since + 1 /\ since < 2
  BY DEF Edge50
<1> HIDE DEF answers, runs, short
<1>3. /\ answers /\ runs => gap' = 0
      /\ ~answers /\ short /\ runs => gap' = gap + 1
      /\ gap' = 0 \/ (gap' = gap + 1 /\ short) \/ gap' = Gap
      /\ ~answers => (gap' = gap + 1 /\ short) \/ gap' = Gap
  BY <1>1
<1> QED
  BY <1>2, <1>3 DEF answers, runs, short

LEMMA BusCrossings ==
    ASSUME NEW access \in BOOLEAN, Edge50(access)
    PROVE  /\ reqToggle' = (reqToggle # slave.req)
           /\ ackIn' = Shifted(ackIn, ackToggle)
           /\ boundIn' = Shifted(boundIn, boundToggle)
           /\ bound' = IF Pulse(boundIn) THEN boundary ELSE bound
           /\ frozenIn' = Shifted(frozenIn, gate.frozen)
           /\ UNCHANGED <<pixels, stream>>
BY DEF Edge50

LEMMA BusSlave ==
    ASSUME NEW access \in BOOLEAN, Edge50(access)
    PROVE  /\ slave'.busy = (Writing(access) \/ (slave.busy /\ ~Pulse(ackIn)))
           /\ slave'.req = Writing(access)
           /\ slave'.index = IF Writing(access) THEN fw.i ELSE slave.index
           /\ slave'.data = IF Writing(access) THEN fw.want[fw.i] ELSE slave.data
           /\ slave'.mirror = IF Writing(access)
                              THEN [slave.mirror EXCEPT ![fw.i] = fw.want[fw.i]]
                              ELSE slave.mirror
           /\ slave'.readdata = IF access /\ Reads THEN Selected ELSE slave.readdata
           /\ slave'.freeze_req = IF access /\ CtrlWrites /\ ~slave.busy
                                  THEN fw.at = "freeze" ELSE slave.freeze_req
           /\ slave' = [busy |-> slave'.busy, req |-> slave'.req, index |-> slave'.index,
                        data |-> slave'.data, mirror |-> slave'.mirror,
                        readdata |-> slave'.readdata, freeze_req |-> slave'.freeze_req]
<1>1. slave' = SlaveAfter(access)
  BY DEF Edge50
<1> QED
  BY <1>1 DEF SlaveAfter, Writing

\* The copy is not read past its end.
LEMMA SelectedTypes ==
    ASSUME Types, Reads
    PROVE  Selected \in Words
<1>1. bound \in 0..3 /\ \A n \in 0..3 : n \in Words
  BY Registers, WordKinds
<1>2. fw.i \in Nat /\ Cells \in Nat /\ (fw.at \in {"check", "read"} => fw.i < Cells)
  BY Registers, FwFields, CellsAssumption DEF Types, Begun
<1>3. slave.mirror \in [Index -> Words]
  BY SlaveFields
<1>4. CASE fw.at = "bound"
  BY <1>1, <1>4 DEF Selected
<1>5. CASE fw.at \in {"check", "read"}
  <2>1. fw.i \in Index
    BY <1>2, <1>5 DEF Index
  <2>2. Selected = slave.mirror[fw.i]
    BY <1>5 DEF Selected
  <2> QED
    BY <1>3, <2>1, <2>2
<1>6. CASE fw.at \in {"poll", "state"}
  <2>1. Selected = CtrlWord(frozenIn.second, slave.freeze_req)
    BY <1>6 DEF Selected
  <2>2. CtrlWord(frozenIn.second, slave.freeze_req) \in 0..3
    BY DEF CtrlWord
  <2> QED
    BY <1>1, <2>1, <2>2
<1> QED
  BY <1>4, <1>5, <1>6 DEF Reads

LEMMA AnsweredTypes ==
    ASSUME Types, NEW word \in Words, fw.at # "idle", fw' = Answered(word)
    PROVE  fw' \in FwRecords /\ Begun'
<1>1. fw.at \in Phases /\ fw.again \in BOOLEAN
  BY Registers, FwFields
<1>2. Reads <=> fw.at \in {"check", "read", "bound", "poll", "state"}
  BY DEF Reads
<1>3. CASE fw.at \in {"write", "freeze", "unfreeze", "grab"}
  BY <1>3, WriteAnswered, ControlAnswered, GrabAnswered
<1>4. CASE Reads /\ ~fw.again
  BY <1>4, FirstRead
<1>5. CASE Reads /\ fw.again
  BY <1>2, <1>5, CheckAnswered, ReadAnswered, BoundAnswered, PollAnswered, StateAnswered
<1> QED
  BY <1>1, <1>2, <1>3, <1>4, <1>5 DEF Phases

LEMMA BusTypes ==
    ASSUME Types, NEW access \in BOOLEAN, Edge50(access)
    PROVE  Types'
<1>1. fw' \in FwRecords /\ Begun'
  <2>1. CASE access /\ ~Waits(access)
    <3>1. fw.at # "idle" /\ fw' = Answered(slave.readdata) /\ slave.readdata \in Words
      BY <2>1, BusFirmware, SlaveFields
    <3> QED
      BY <3>1, AnsweredTypes
  <2>2. CASE ~access \/ Waits(access)
    <3>1. fw' = fw
      BY <2>2, BusFirmware
    <3> QED
      BY <3>1, Registers DEF Types, Begun
  <2> QED
    BY <2>1, <2>2
<1>2. slave' \in SlaveRecords
  <2>1. Writing(access) => fw.i \in Index /\ fw.want[fw.i] \in Words
    <3>1. fw.i \in Nat /\ Cells \in Nat /\ (fw.at = "write" => fw.i < Cells)
          /\ fw.want \in [Index -> Words]
      BY Registers, FwFields, CellsAssumption DEF Types, Begun
    <3> QED
      BY <3>1 DEF Writing, Index
  <2>2. slave'.busy \in BOOLEAN /\ slave'.req \in BOOLEAN /\ slave'.freeze_req \in BOOLEAN
    BY BusSlave, SlaveFields DEF Writing
  <2>3. slave'.index \in Index /\ slave'.data \in Words
    BY <2>1, BusSlave, SlaveFields
  <2>4. slave'.mirror \in [Index -> Words]
    BY <2>1, BusSlave, SlaveFields
  <2>5. slave'.readdata \in Words
    BY BusSlave, SlaveFields, SelectedTypes
  <2>6. slave' = [busy |-> slave'.busy, req |-> slave'.req, index |-> slave'.index,
                  data |-> slave'.data, mirror |-> slave'.mirror,
                  readdata |-> slave'.readdata, freeze_req |-> slave'.freeze_req]
    BY BusSlave
  <2> QED
    BY <2>2, <2>3, <2>4, <2>5, <2>6 DEF SlaveRecords
<1>3. reqToggle' \in BOOLEAN /\ ackIn' \in Crossings /\ boundIn' \in Crossings
      /\ frozenIn' \in Crossings
  <2>1. gate.frozen \in BOOLEAN
    BY Registers
  <2> QED
    BY <2>1, BusCrossings, ShiftedTypes, Registers, SlaveFields
<1>4. bound' \in 0..3
  BY BusCrossings, Registers
<1>5. asking' \in BOOLEAN
  BY BusFirmware DEF Waits
<1>6. gap' \in 0..Gap
  <2>1. gap \in Nat /\ gap <= Gap /\ Gap \in Nat
    BY Registers
  <2>2. gap' = 0 \/ (gap' = gap + 1 /\ gap < Gap) \/ gap' = Gap
    BY BusGap
  <2> QED
    BY <2>1, <2>2
<1>7. since' \in 0..2
  BY BusGap, Registers
<1>8. /\ ackToggle' \in BOOLEAN /\ boundToggle' \in BOOLEAN /\ video' \in BOOLEAN
      /\ reqIn' \in Crossings /\ freezeIn' \in Crossings
      /\ boundary' \in 0..3 /\ field' \in 0..3
      /\ indexClk' \in Index /\ dataClk' \in Words /\ tmpl' \in [Index -> Words]
      /\ gate' \in [frozen : BOOLEAN, fld : BOOLEAN, atFreeze : BOOLEAN]
      /\ mem' \in [Halves -> 0..3] /\ half' \in Halves
  <2>1. UNCHANGED <<pixels, stream>>
    BY BusCrossings
  <2> QED
    BY <2>1, Registers DEF pixels, stream
<1>9. TypeOK'
  BY <1>1, <1>2, <1>3, <1>4, <1>5, <1>6, <1>7, <1>8
  DEF TypeOK, FwRecords, SlaveRecords, Stamps
<1> QED
  BY <1>1, <1>9 DEF Types
-----------------------------------------------------------------------------
(* The other steps, and types for every step. *)

LEMMA PixelRegisters ==
    ASSUME Edge27
    PROVE  /\ tmpl' = IF Pulse(reqIn) THEN [tmpl EXCEPT ![indexClk] = dataClk] ELSE tmpl
           /\ ackToggle' = (ackToggle # Pulse(reqIn))
           /\ reqIn' = Shifted(reqIn, reqToggle)
           /\ indexClk' = slave.index /\ dataClk' = slave.data
           /\ freezeIn' = Shifted(freezeIn, slave.freeze_req)
           /\ since >= 1 /\ since' = 0 /\ UNCHANGED <<link, video, gap, asking>>
BY DEF Edge27, TemplateWrite

\* A field that ends during a boundary command is noted.
LEMMA NotedFields ==
    ASSUME Types, fw' = IF fw.at = "bound" THEN [fw EXCEPT !.edges = 1] ELSE fw
    PROVE  /\ fw' \in FwRecords
           /\ fw'.at = fw.at /\ fw'.cmd = fw.cmd /\ fw'.i = fw.i /\ fw'.bad = fw.bad
           /\ fw'.again = fw.again /\ fw'.want = fw.want /\ fw'.got = fw.got
           /\ fw'.ok = fw.ok /\ fw'.from = fw.from
           /\ fw'.edges = IF fw.at = "bound" THEN 1 ELSE fw.edges
<1>1. fw \in FwRecords
  BY Registers
<1>2. CASE fw.at = "bound"
  <2>1. fw' = [fw EXCEPT !.edges = 1]
    BY <1>2
  <2> QED
    BY <1>1, <1>2, <2>1 DEF FwRecords
<1>3. CASE fw.at # "bound"
  BY <1>1, <1>3
<1> QED
  BY <1>2, <1>3

LEMMA PixelTypes ==
    ASSUME Types, Edge27, WithinField \/ FieldEnds
    PROVE  Types'
<1>1. UNCHANGED <<slave, reqToggle, ackIn, boundIn, bound, frozenIn, video, gap, asking>>
      /\ since' = 0
  BY PixelRegisters DEF link
<1>2. /\ tmpl' \in [Index -> Words] /\ indexClk' \in Index /\ dataClk' \in Words
      /\ reqIn' \in Crossings /\ freezeIn' \in Crossings /\ ackToggle' \in BOOLEAN
  BY PixelRegisters, Registers, SlaveFields, ShiftedTypes
<1>3. /\ boundary' \in 0..3 /\ field' \in 0..3 /\ boundToggle' \in BOOLEAN
      /\ gate' \in [frozen : BOOLEAN, fld : BOOLEAN, atFreeze : BOOLEAN]
      /\ mem' \in [Halves -> 0..3] /\ half' \in Halves
      /\ fw' \in FwRecords /\ Begun'
  <2>1. CASE WithinField
    BY <2>1, Registers DEF WithinField, Types, Begun
  <2>2. CASE FieldEnds
    <3>1. /\ boundary' = field /\ boundToggle' = ~boundToggle /\ gate' = GateAfter
          /\ field' = Later(field, 1) /\ half' = NextHalf
          /\ mem' = IF GateAfter.frozen THEN mem ELSE [mem EXCEPT ![NextHalf] = Later(field, 1)]
          /\ fw' = IF fw.at = "bound" THEN [fw EXCEPT !.edges = 1] ELSE fw
      BY <2>2 DEF FieldEnds
    <3>2. Later(field, 1) \in 0..3
      BY Registers, NextField
    <3>3. freezeIn.second \in BOOLEAN
      BY Registers DEF Crossings
    <3>4. GateAfter \in [frozen : BOOLEAN, fld : BOOLEAN, atFreeze : BOOLEAN]
      BY <3>3, Registers, GateTyped
    <3>5. NextHalf \in Halves
      BY Registers DEF NextHalf, Halves
    <3>6. mem' \in [Halves -> 0..3]
      <4>1. mem' = mem \/ mem' = [mem EXCEPT ![NextHalf] = Later(field, 1)]
        BY <3>1
      <4> QED
        BY <4>1, <3>2, <3>5, Registers
    <3>7. /\ fw' \in FwRecords
          /\ fw'.at = fw.at /\ fw'.cmd = fw.cmd /\ fw'.i = fw.i /\ fw'.bad = fw.bad
      BY <3>1, NotedFields
    <3>9. Begun'
      BY <3>7 DEF Types, Begun
    <3> QED
      BY <3>1, <3>2, <3>4, <3>5, <3>6, <3>7, <3>9, Registers
  <2> QED
    BY <2>1, <2>2
<1>4. TypeOK'
  BY <1>1, <1>2, <1>3, Registers DEF TypeOK, FwRecords, SlaveRecords, Stamps, Types
<1> QED
  BY <1>3, <1>4 DEF Types

\* The registers a step of the firmware outside its accesses leaves alone.
Outside == <<since, link, pixels, stream, gap, asking>>

LEMMA OutsideTypes ==
    ASSUME Types, UNCHANGED Outside, fw' \in FwRecords, Begun'
    PROVE  Types'
BY Registers DEF Types, TypeOK, FwRecords, SlaveRecords, Stamps, Outside, link, pixels, stream

LEMMA GiveUpFields ==
    ASSUME Types, GiveUp
    PROVE  /\ fw' \in FwRecords /\ Kept /\ Begun' /\ ~fw'.again /\ UNCHANGED Outside
           /\ fw'.got = fw.got /\ fw'.bad = fw.bad /\ fw'.ok = fw.ok
           /\ fw.at = "poll" /\ fw'.at = (IF fw.cmd = "S" THEN "grab" ELSE "state")
<1> DEFINE place == IF fw.cmd = "S" THEN "grab" ELSE "state"
<1>1. fw' = To(place) /\ UNCHANGED Outside /\ fw.at = "poll"
  BY DEF GiveUp, Outside
<1>2. /\ place \in Phases /\ place \in {"grab", "state"}
      /\ (place = "grab" => fw.cmd = "S") /\ (place = "state" => fw.cmd = "F")
  BY <1>1 DEF Phases, Types, Begun
<1> HIDE DEF place
<1>3. /\ fw' \in FwRecords /\ Kept /\ ~fw'.again /\ fw'.at = place /\ fw'.i = 0
      /\ fw'.got = fw.got /\ fw'.bad = fw.bad /\ fw'.ok = fw.ok
  BY <1>1, <1>2, Registers, ToFields
<1>4. Begun'
  BY <1>2, <1>3 DEF Begun, Kept
<1> QED
  BY <1>1, <1>3, <1>4 DEF place

LEMMA CommandFields ==
    ASSUME Types, NEW cmd \in Commands, NEW want \in Templates, Command(cmd, want)
    PROVE  /\ fw' \in FwRecords /\ Begun' /\ UNCHANGED Outside
           /\ fw.at = "idle" /\ fw'.cmd = cmd /\ fw'.at = FirstPhase(cmd) /\ fw'.i = 0
           /\ ~fw'.again /\ fw'.bad = 0 /\ ~fw'.ok
           /\ cmd = "B" => fw'.from = bound /\ fw'.edges = IF Crossed THEN 0 ELSE 1
           /\ FirstPhase(cmd) \in Phases \ {"idle", "check", "grab", "poll"}
<1> DEFINE asked == IF cmd = "T" THEN want ELSE [n \in Index |-> Blank]
           blank == [n \in Index \cup Halves |-> Blank]
           from == IF cmd = "B" THEN bound ELSE 0
           edges == IF cmd = "B" /\ ~Crossed THEN 1 ELSE 0
           phase == FirstPhase(cmd)
<1>1. asked \in [Index -> Words] /\ blank \in [Index \cup Halves -> Words]
  BY WordKinds
<1>2. from \in 0..3 /\ edges \in 0..1 /\ 0 \in 0..Cells
  BY Registers, CellsAssumption
<1>3. cmd \in {"S", "T", "R", "B", "F", "U", "P"}
  BY CommandAssumption
<1>4. /\ cmd \in {"S", "F"} => phase = "freeze"
      /\ cmd = "T" => phase = "write"
      /\ cmd = "R" => phase = "read"
      /\ cmd = "B" => phase = "bound"
      /\ cmd = "U" => phase = "unfreeze"
      /\ cmd = "P" => phase = "state"
  BY DEF FirstPhase
<1> HIDE DEF phase
<1>5. phase \in Phases /\ phase \in Phases \ {"idle", "check", "grab", "poll"}
  BY <1>3, <1>4 DEF Phases
<1>6. fw.at = "idle" /\ UNCHANGED Outside
      /\ fw' = [Stopped EXCEPT !.cmd = cmd, !.at = phase, !.from = from, !.edges = edges,
                               !.want = IF cmd = "T" THEN want ELSE @]
  BY DEF Command, Outside, phase
<1> HIDE DEF asked, blank, from, edges
<1>7. fw' = [cmd |-> cmd, at |-> phase, i |-> 0, again |-> FALSE, want |-> asked,
             got |-> blank, bad |-> 0, ok |-> FALSE, from |-> from, edges |-> edges]
  BY <1>6 DEF Stopped, asked, blank
<1>8. fw' \in FwRecords
  BY <1>1, <1>2, <1>5, <1>7 DEF FwRecords, Stamps
<1>9. Begun'
  <2>1. Cells > 0
    BY CellsAssumption
  <2> QED
    BY <1>3, <1>4, <1>5, <1>7, <2>1 DEF Begun
<1>10. cmd = "B" => fw'.from = bound /\ fw'.edges = IF Crossed THEN 0 ELSE 1
  BY <1>7 DEF from, edges
<1>11. fw'.cmd = cmd /\ fw'.at = phase /\ fw'.i = 0 /\ ~fw'.again /\ fw'.bad = 0 /\ ~fw'.ok
  BY <1>7
<1>12. phase = FirstPhase(cmd)
  BY DEF phase
<1> QED
  BY <1>5, <1>6, <1>8, <1>9, <1>10, <1>11, <1>12

LEMMA SwitchTypes ==
    ASSUME Types, VideoSwitch
    PROVE  Types'
BY Registers DEF Types, TypeOK, Begun, VideoSwitch, link, pixels

LEMMA StillTypes ==
    ASSUME Types, UNCHANGED vars
    PROVE  Types'
BY DEF Types, TypeOK, Begun, vars, link, pixels, stream

LEMMA TypesStep ==
    ASSUME Types, [Next]_vars
    PROVE  Types'
<1>1. CASE PixelEdge \/ VsEdge
  BY <1>1, PixelTypes DEF PixelEdge, VsEdge
<1>2. CASE VideoSwitch
  BY <1>2, SwitchTypes
<1>3. CASE BusEdge \/ IdleEdge
  BY <1>3, BusTypes DEF BusEdge, IdleEdge
<1>4. CASE GiveUp
  BY <1>4, GiveUpFields, OutsideTypes
<1>5. ASSUME NEW cmd \in Commands, NEW want \in Templates, Command(cmd, want)
      PROVE  Types'
  BY <1>5, CommandFields, OutsideTypes
<1>6. CASE UNCHANGED vars
  BY <1>6, StillTypes
<1> QED
  BY <1>1, <1>2, <1>3, <1>4, <1>5, <1>6 DEF Next

LEMMA Typed == Spec => []Types
<1>1. Init => Types
  BY InitTypes
<1>2. Types /\ [Next]_vars => Types'
  BY TypesStep
<1> QED
  BY <1>1, <1>2, PTL DEF Spec

(* Every register holds a value of its width, and the firmware never        *)
(* selects a byte past the template.                                        *)
THEOREM WellTyped == Spec => []TypeOK
<1>1. Types => TypeOK
  BY DEF Types
<1> QED
  BY <1>1, Typed, PTL
-----------------------------------------------------------------------------
(* The template handshake: the wave moves on with the clock whose flop it   *)
(* is in front of.                                                         *)

Wires == <<slave.req, Asked, Arriving, Seen, Acked, Returning, Cleared>>

LEMMA WireTypes ==
    ASSUME Types
    PROVE  /\ slave.req \in BOOLEAN /\ slave.busy \in BOOLEAN
           /\ Asked \in BOOLEAN /\ Arriving \in BOOLEAN /\ Seen \in BOOLEAN
           /\ Acked \in BOOLEAN /\ Returning \in BOOLEAN /\ Cleared \in BOOLEAN
BY SlaveFields DEF Asked, Arriving, Seen, Acked, Returning, Cleared, Pulse

LEMMA PixelWires ==
    ASSUME Types, Edge27
    PROVE  /\ ~Asked' /\ Arriving' = Asked /\ Seen' = Arriving
           /\ Acked' = (Acked # Seen) /\ Returning' = Returning /\ Cleared' = Cleared
<1>1. /\ reqToggle \in BOOLEAN /\ ackToggle \in BOOLEAN
      /\ reqIn.first \in BOOLEAN /\ reqIn.second \in BOOLEAN /\ reqIn.last \in BOOLEAN
      /\ ackIn.first \in BOOLEAN /\ Pulse(reqIn) \in BOOLEAN
  BY Registers DEF Crossings, Pulse
<1>2. /\ reqIn'.first = reqToggle /\ reqIn'.second = reqIn.first /\ reqIn'.last = reqIn.second
  BY PixelRegisters DEF Shifted
<1>3. reqToggle' = reqToggle /\ ackIn' = ackIn /\ ackToggle' = (ackToggle # Pulse(reqIn))
  BY PixelRegisters DEF link
<1>4. ~Asked' /\ Arriving' = Asked /\ Seen' = Arriving
  BY <1>2, <1>3 DEF Asked, Arriving, Seen, Pulse
<1>5. Returning' = Returning /\ Cleared' = Cleared
  BY <1>3 DEF Returning, Cleared, Pulse
<1>6. Acked' = (Acked # Seen)
  BY <1>1, <1>3 DEF Acked, Seen
<1> QED
  BY <1>4, <1>5, <1>6

LEMMA BusWires ==
    ASSUME Types, NEW access \in BOOLEAN, Edge50(access)
    PROVE  /\ slave'.req = Writing(access) /\ Asked' = (Asked # slave.req)
           /\ Arriving' = Arriving /\ Seen' = Seen
           /\ ~Acked' /\ Returning' = Acked /\ Cleared' = Returning
<1>1. /\ reqToggle \in BOOLEAN /\ slave.req \in BOOLEAN /\ reqIn.first \in BOOLEAN
  BY Registers, SlaveFields DEF Crossings
<1>2. reqIn' = reqIn /\ ackToggle' = ackToggle /\ reqToggle' = (reqToggle # slave.req)
  BY BusCrossings DEF pixels
<1>3. ackIn'.first = ackToggle /\ ackIn'.second = ackIn.first /\ ackIn'.last = ackIn.second
  BY BusCrossings DEF Shifted
<1>4. slave'.req = Writing(access)
  BY BusSlave
<1>5. Asked' = (Asked # slave.req)
  BY <1>1, <1>2 DEF Asked
<1>6. Arriving' = Arriving /\ Seen' = Seen
  BY <1>2 DEF Arriving, Seen, Pulse
<1>7. ~Acked' /\ Returning' = Acked /\ Cleared' = Returning
  BY <1>2, <1>3 DEF Acked, Returning, Cleared, Pulse
<1> QED
  BY <1>4, <1>5, <1>6, <1>7

LEMMA PixelHandshake ==
    ASSUME Types, Edge27, Handshake
    PROVE  Handshake'
<1>1. PICK k \in 0..7 : Wave(k) /\ Mirrored(k)
  BY DEF Handshake
<1>2. slave' = slave /\ indexClk' = slave.index /\ dataClk' = slave.data
      /\ tmpl' = IF Seen THEN [tmpl EXCEPT ![indexClk] = dataClk] ELSE tmpl
  BY PixelRegisters DEF link, Seen
<1>3. k = 0 \/ k = 1 \/ k = 2 \/ k = 3 \/ k = 4 \/ k = 5 \/ k = 6 \/ k = 7
  OBVIOUS
<1> DEFINE n == IF k = 2 THEN 3 ELSE IF k = 3 THEN 4 ELSE IF k = 4 THEN 5 ELSE k
<1>4. n \in 0..7
  BY <1>3
<1>5. Wave(n)'
  <2>1. /\ slave.req <=> k = 1
        /\ Asked <=> k = 2
        /\ Arriving <=> k = 3
        /\ Seen <=> k = 4
        /\ Acked <=> k = 5
        /\ Returning <=> k = 6
        /\ Cleared <=> k = 7
    BY <1>1 DEF Wave
  <2>2. /\ slave'.req <=> n = 1
        /\ Asked' <=> n = 2
        /\ Arriving' <=> n = 3
        /\ Seen' <=> n = 4
        /\ Acked' <=> n = 5
        /\ Returning' <=> n = 6
        /\ Cleared' <=> n = 7
    BY <1>2, <1>3, <2>1, PixelWires, WireTypes
  <2> QED
    BY <2>2 DEF Wave
<1>6. Mirrored(n)'
  <2>1. /\ slave.busy <=> k # 0
        /\ k \in {3, 4} => indexClk = slave.index /\ dataClk = slave.data
        /\ slave.mirror = IF k \in 1..4 THEN [tmpl EXCEPT ![slave.index] = slave.data] ELSE tmpl
        /\ Seen <=> k = 4
    BY <1>1 DEF Mirrored, Wave
  <2>2. slave'.busy <=> n # 0
    BY <1>2, <1>3, <2>1
  <2>3. slave'.mirror = IF n \in 1..4 THEN [tmpl' EXCEPT ![slave'.index] = slave'.data] ELSE tmpl'
    <3> DEFINE written == [tmpl EXCEPT ![slave.index] = slave.data]
    <3>1. CASE k = 4
      <4>1. slave.mirror = written /\ n = 5
        BY <3>1, <2>1
      <4>2. tmpl' = written
        BY <3>1, <1>2, <2>1
      <4> QED
        BY <4>1, <4>2, <1>2
    <3>2. CASE k = 1 \/ k = 2 \/ k = 3
      <4>1. slave.mirror = written
        BY <3>2, <2>1
      <4>2. tmpl' = tmpl /\ n \in 1..4
        BY <3>2, <1>2, <2>1
      <4> QED
        BY <4>1, <4>2, <1>2
    <3>3. CASE k \in {0, 5, 6, 7}
      BY <3>3, <1>2, <2>1
    <3> QED
      BY <1>3, <3>1, <3>2, <3>3
  <2> QED
    BY <1>2, <2>2, <2>3 DEF Mirrored
<1> QED
  BY <1>4, <1>5, <1>6 DEF Handshake

\* A write is taken only by a slave that is not busy, so only when nothing is
\* on its way.
LEMMA BusHandshake ==
    ASSUME Types, NEW access \in BOOLEAN, Edge50(access), Handshake
    PROVE  Handshake'
<1>1. PICK k \in 0..7 : Wave(k) /\ Mirrored(k)
  BY DEF Handshake
<1>2. k = 0 \/ k = 1 \/ k = 2 \/ k = 3 \/ k = 4 \/ k = 5 \/ k = 6 \/ k = 7
  OBVIOUS
<1>3. /\ slave.req <=> k = 1
      /\ Asked <=> k = 2
      /\ Arriving <=> k = 3
      /\ Seen <=> k = 4
      /\ Acked <=> k = 5
      /\ Returning <=> k = 6
      /\ Cleared <=> k = 7
      /\ slave.busy <=> k # 0
      /\ k \in {3, 4} => indexClk = slave.index /\ dataClk = slave.data
  BY <1>1 DEF Wave, Mirrored
<1>4. slave.mirror = IF k \in 1..4 THEN [tmpl EXCEPT ![slave.index] = slave.data] ELSE tmpl
  BY <1>1 DEF Mirrored
<1>5. Writing(access) \in BOOLEAN /\ (Writing(access) => k = 0)
  BY <1>3 DEF Writing
<1>6. PICK n \in 0..7 :
        n = IF Writing(access) THEN 1 ELSE IF k = 0 \/ k = 7 THEN 0
            ELSE IF k = 1 THEN 2 ELSE IF k = 5 THEN 6 ELSE IF k = 6 THEN 7 ELSE k
  BY <1>2
<1>7. Wave(n)'
  <2>1. /\ slave'.req <=> n = 1
        /\ Asked' <=> n = 2
        /\ Arriving' <=> n = 3
        /\ Seen' <=> n = 4
        /\ Acked' <=> n = 5
        /\ Returning' <=> n = 6
        /\ Cleared' <=> n = 7
    BY <1>2, <1>3, <1>5, <1>6, BusWires, WireTypes
  <2> QED
    BY <2>1 DEF Wave
<1>8. Mirrored(n)'
  <2>1. tmpl' = tmpl /\ indexClk' = indexClk /\ dataClk' = dataClk
    BY BusCrossings DEF pixels
  <2>2. CASE Writing(access)
    <3>1. n = 1 /\ k = 0 /\ slave.mirror = tmpl
      BY <2>2, <1>4, <1>5, <1>6
    <3>2. slave'.busy /\ slave'.index = fw.i /\ slave'.data = fw.want[fw.i]
          /\ slave'.mirror = [slave.mirror EXCEPT ![fw.i] = fw.want[fw.i]]
      BY <2>2, BusSlave
    <3> QED
      BY <3>1, <3>2, <2>1 DEF Mirrored
  <2>3. CASE ~Writing(access)
    <3>1. slave'.index = slave.index /\ slave'.data = slave.data
          /\ slave'.mirror = slave.mirror
      BY <2>3, BusSlave
    <3>2. slave'.busy <=> n # 0
      <4>1. slave'.busy = (slave.busy /\ ~Cleared)
        BY <2>3, BusSlave, WireTypes DEF Cleared
      <4> QED
        BY <4>1, <2>3, <1>2, <1>3, <1>6, WireTypes
    <3>3. n \in {3, 4} => k = n
      BY <2>3, <1>2, <1>6
    <3>4. n \in 1..4 <=> k \in 1..4
      BY <2>3, <1>2, <1>6
    <3> QED
      BY <3>1, <3>2, <3>3, <3>4, <2>1, <1>3, <1>4 DEF Mirrored
  <2> QED
    BY <2>2, <2>3
<1> QED
  BY <1>6, <1>7, <1>8 DEF Handshake

LEMMA InitHandshake == Init => Handshake
<1> SUFFICES ASSUME Init PROVE Handshake
  OBVIOUS
<1>1. Wave(0)
  <2>1. ~slave.req /\ ~Asked /\ ~Arriving /\ ~Seen /\ ~Acked /\ ~Returning /\ ~Cleared
    BY DEF Init, Asked, Arriving, Seen, Acked, Returning, Cleared, Pulse, Quiet
  <2> QED
    BY <2>1 DEF Wave
<1>2. Mirrored(0)
  BY DEF Init, Mirrored
<1> QED
  BY <1>1, <1>2 DEF Handshake
-----------------------------------------------------------------------------
(* What the firmware knows of the copy. *)

\* An access that is answered finds the slave not busy, except in the
\* frame buffer's window.
LEMMA AnswerNotBusy ==
    ASSUME Types, NEW access \in BOOLEAN, Edge50(access), access, ~Waits(access),
           fw.at # "grab"
    PROVE  ~slave.busy /\ (fw.at # "write" => ~slave'.busy)
<1>1. ~slave.busy
  BY DEF Waits
<1> QED
  BY <1>1, BusSlave DEF Writing

\* The copy changes with a write only.
LEMMA CopyStays ==
    ASSUME NEW access \in BOOLEAN, Edge50(access), ~access \/ Waits(access) \/ fw.at # "write"
    PROVE  slave'.mirror = slave.mirror /\ (~slave.busy => ~slave'.busy)
<1>1. ~Writing(access)
  BY DEF Waits, Writing
<1> QED
  BY <1>1, BusSlave

LEMMA BusKnown ==
    ASSUME Types, NEW access \in BOOLEAN, Edge50(access), Known
    PROVE  Known'
<1>1. CASE ~access \/ Waits(access)
  <2>1. fw' = fw
    BY <1>1, BusFirmware
  <2>2. slave'.mirror = slave.mirror /\ (~slave.busy => ~slave'.busy)
    BY <1>1, CopyStays
  <2>3. fw.at \in {"check", "read"} /\ fw.again => slave'.readdata = slave.mirror[fw.i]
    <3>1. slave'.readdata = slave.readdata \/ (Reads /\ slave'.readdata = Selected)
      BY BusSlave
    <3> QED
      BY <3>1 DEF Known, Selected
  <2> QED
    BY <2>1, <2>2, <2>3 DEF Known, Done
<1>2. CASE access /\ ~Waits(access)
  <2>1. fw.at # "idle" /\ fw' = Answered(slave.readdata) /\ slave.readdata \in Words
    BY <1>2, BusFirmware, SlaveFields
  <2>2. CASE fw.at = "write"
    <3>1. Writing(access) /\ slave'.mirror = [slave.mirror EXCEPT ![fw.i] = fw.want[fw.i]]
      BY <1>2, <2>2, BusSlave DEF Writing, Waits
    <3>2. /\ Kept /\ ~fw'.again /\ fw'.bad = 0 /\ fw.i < Cells
          /\ fw.i = Cells - 1 => fw'.at = "check" /\ fw'.i = 0
          /\ fw.i # Cells - 1 => fw'.at = "write" /\ fw'.i = fw.i + 1 /\ fw.i + 1 < Cells
      BY <2>1, <2>2, WriteAnswered
    <3>3. fw.i \in Nat /\ Cells \in Nat \ {0} /\ slave.mirror \in [Index -> Words]
          /\ fw.want \in [Index -> Words]
      BY Registers, FwFields, SlaveFields, CellsAssumption
    <3>4. fw'.want = fw.want
      BY <3>2 DEF Kept
    <3>5. \A n \in Index : n < fw.i + 1 => slave'.mirror[n] = fw.want[n]
      <4> SUFFICES ASSUME NEW n \in Index, n < fw.i + 1 PROVE slave'.mirror[n] = fw.want[n]
        OBVIOUS
      <4>1. n \in Nat
        BY DEF Index
      <4>2. CASE n = fw.i
        BY <4>2, <3>1, <3>3
      <4>3. CASE n # fw.i
        <5>1. n < fw.i
          BY <4>1, <4>3, <3>3
        <5> QED
          BY <5>1, <4>3, <3>1, <3>3, <2>2 DEF Known
      <4> QED
        BY <4>2, <4>3
    <3>6. CASE fw.i = Cells - 1
      <4>1. \A n \in Index : n < fw.i + 1
        BY <3>3, <3>6 DEF Index
      <4>2. slave'.mirror \in [Index -> Words]
        BY <3>1, <3>3
      <4>3. slave'.mirror = fw.want
        BY <4>1, <4>2, <3>3, <3>5
      <4> QED
        BY <4>3, <3>2, <3>4, <3>6 DEF Known, Done
    <3>7. CASE fw.i # Cells - 1
      BY <3>2, <3>4, <3>5, <3>7 DEF Known, Done
    <3> QED
      BY <3>6, <3>7
  <2>3. CASE fw.at # "write"
    <3>1. slave'.mirror = slave.mirror
      BY <2>3, CopyStays
    <3>2. fw.at # "grab" => ~slave'.busy
      BY <1>2, <2>3, AnswerNotBusy
    <3>3. CASE fw.at \in {"freeze", "unfreeze"}
      <4>1. /\ Kept /\ ~fw'.again
            /\ fw.at = "freeze" => fw'.at = "poll"
            /\ fw.at = "unfreeze" => fw'.at = IF fw.cmd = "U" THEN "state" ELSE "idle"
        BY <2>1, <3>3, ControlAnswered
      <4>2. fw.at = "unfreeze" => fw.cmd \in {"none", "S", "U"}
        BY DEF Types, Begun
      <4> QED
        BY <4>1, <4>2, <3>3 DEF Known, Done, Kept
    <3>4. CASE fw.at = "grab"
      <4>1. fw'.at \in {"grab", "unfreeze"}
        BY <2>1, <3>4, GrabAnswered
      <4> QED
        BY <4>1 DEF Known, Done
    <3>5. CASE Reads /\ ~fw.again
      <4>1. /\ Kept /\ fw'.again /\ fw'.at = fw.at /\ fw'.i = fw.i
            /\ fw'.got = fw.got /\ fw'.bad = fw.bad
        BY <2>1, <3>5, FirstRead
      <4>2. fw.at \in {"check", "read"} => slave'.readdata = slave.mirror[fw.i]
        BY <1>2, <3>5, BusSlave DEF Selected
      <4>3. fw.at # "idle"
        BY <2>1
      <4> QED
        BY <4>1, <4>2, <4>3, <3>1 DEF Known, Done, Kept
    <3>6. CASE fw.at = "check" /\ fw.again
      <4>1. /\ Kept /\ ~fw'.again
            /\ fw'.bad = (IF slave.readdata # fw.want[fw.i] THEN fw.bad + 1 ELSE fw.bad)
            /\ fw.cmd = "T" /\ fw'.at \in {"check", "idle"}
        BY <2>1, <3>6, CheckAnswered
      <4>2. slave.mirror = fw.want /\ fw.bad = 0 /\ slave.readdata = fw.want[fw.i]
        BY <3>6 DEF Known
      <4> QED
        BY <4>1, <4>2, <3>1, <3>2, <3>6 DEF Known, Done, Kept
    <3>7. CASE fw.at = "read" /\ fw.again
      <4>1. /\ Kept /\ ~fw'.again /\ fw.i < Cells /\ fw.cmd = "R"
            /\ fw'.got = [fw.got EXCEPT ![fw.i] = slave.readdata]
            /\ fw.i = Cells - 1 => fw'.at = "idle" /\ fw'.i = 0
            /\ fw.i # Cells - 1 => fw'.at = "read" /\ fw'.i = fw.i + 1
        BY <2>1, <3>7, ReadAnswered
      <4>2. slave.readdata = slave.mirror[fw.i]
        BY <3>7 DEF Known
      <4>3. fw.i \in Nat /\ Cells \in Nat \ {0} /\ fw.got \in [Index \cup Halves -> Words]
        BY Registers, FwFields, CellsAssumption
      <4>4. \A n \in Index : n < fw.i + 1 => fw'.got[n] = slave.mirror[n]
        <5> SUFFICES ASSUME NEW n \in Index, n < fw.i + 1
                     PROVE  fw'.got[n] = slave.mirror[n]
          OBVIOUS
        <5>1. n \in Nat
          BY DEF Index
        <5>2. CASE n = fw.i
          BY <5>2, <4>1, <4>2, <4>3
        <5>3. CASE n # fw.i
          <6>1. n < fw.i
            BY <5>1, <5>3, <4>3
          <6> QED
            BY <6>1, <5>3, <4>1, <4>3, <3>7 DEF Known
        <5> QED
          BY <5>2, <5>3
      <4>5. CASE fw.i = Cells - 1
        <5>1. \A n \in Index : n < fw.i + 1
          BY <4>3, <4>5 DEF Index
        <5> QED
          BY <5>1, <4>1, <4>4, <4>5, <3>1, <3>2, <3>7 DEF Known, Done, Kept
      <4>6. CASE fw.i # Cells - 1
        BY <4>1, <4>4, <4>6, <3>1 DEF Known, Done
      <4> QED
        BY <4>5, <4>6
    <3>8. CASE fw.at = "bound" /\ fw.again
      <4>1. Kept /\ ~fw'.again /\ fw.cmd = "B" /\ fw'.at \in {"bound", "idle"}
        BY <2>1, <3>8, BoundAnswered
      <4> QED
        BY <4>1 DEF Known, Done, Kept
    <3>9. CASE fw.at = "state" /\ fw.again
      <4>1. Kept /\ fw'.at = "idle" /\ fw.cmd \in {"F", "U", "P"}
        BY <2>1, <3>9, StateAnswered DEF Types, Begun
      <4> QED
        BY <4>1 DEF Known, Done, Kept
    <3>10. CASE fw.at = "poll" /\ fw.again
      <4>1. fw'.at \in {"poll", "grab", "state"} 
        BY <2>1, <3>10, PollAnswered
      <4> QED
        BY <4>1 DEF Known, Done
    <3>11. fw.at \in Phases /\ fw.again \in BOOLEAN
      BY Registers, FwFields
    <3> QED
      BY <2>1, <2>3, <3>3, <3>4, <3>5, <3>6, <3>7, <3>8, <3>9, <3>10, <3>11
      DEF Phases, Reads
  <2> QED
    BY <2>2, <2>3
<1> QED
  BY <1>1, <1>2

LEMMA KnownStays ==
    ASSUME Known, slave' = slave, fw'.at = fw.at, fw'.cmd = fw.cmd, fw'.i = fw.i,
           fw'.again = fw.again, fw'.want = fw.want, fw'.got = fw.got, fw'.bad = fw.bad
    PROVE  Known'
BY DEF Known, Done

LEMMA NothingKnown ==
    ASSUME fw'.at \notin {"idle", "check"}, ~fw'.again, fw'.i = 0,
           fw'.at \in {"write", "read"} => \A n \in Index : ~(n < 0)
    PROVE  Known'
BY DEF Known, Done

LEMMA HandshakeStays ==
    ASSUME Handshake,
           UNCHANGED <<slave, reqToggle, ackIn, reqIn, ackToggle, indexClk, dataClk, tmpl>>
    PROVE  Handshake'
<1>1. PICK k \in 0..7 : Wave(k) /\ Mirrored(k)
  BY DEF Handshake
<1>2. Wave(k)' /\ Mirrored(k)'
  BY <1>1 DEF Wave, Mirrored, Asked, Arriving, Seen, Acked, Returning, Cleared
<1> QED
  BY <1>2 DEF Handshake

LEMMA TemplateStep ==
    ASSUME Types, TemplateInv, [Next]_vars
    PROVE  TemplateInv'
<1>1. Handshake /\ Known
  BY DEF TemplateInv
<1>2. CASE PixelEdge \/ VsEdge
  <2>1. Edge27 /\ (WithinField \/ FieldEnds)
    BY <1>2 DEF PixelEdge, VsEdge
  <2>2. slave' = slave
    BY <2>1, PixelRegisters DEF link
  <2>3. /\ fw'.at = fw.at /\ fw'.cmd = fw.cmd /\ fw'.i = fw.i /\ fw'.again = fw.again
        /\ fw'.want = fw.want /\ fw'.got = fw.got /\ fw'.bad = fw.bad
    BY <2>1, NotedFields DEF WithinField, FieldEnds
  <2> QED
    BY <1>1, <2>1, <2>2, <2>3, PixelHandshake, KnownStays DEF TemplateInv
<1>3. CASE BusEdge \/ IdleEdge
  BY <1>1, <1>3, BusHandshake, BusKnown DEF BusEdge, IdleEdge, TemplateInv
<1>4. CASE VideoSwitch
  <2>1. UNCHANGED <<slave, reqToggle, ackIn, reqIn, ackToggle, indexClk, dataClk, tmpl, fw>>
    BY <1>4 DEF VideoSwitch, link, pixels
  <2> QED
    BY <1>1, <2>1, HandshakeStays, KnownStays DEF TemplateInv
<1>5. CASE GiveUp
  <2>1. UNCHANGED <<slave, reqToggle, ackIn, reqIn, ackToggle, indexClk, dataClk, tmpl>>
    BY <1>5 DEF GiveUp, link, pixels
  <2>2. fw'.at \in {"grab", "state"} /\ ~fw'.again
    BY <1>5, GiveUpFields
  <2> QED
    BY <1>1, <2>1, <2>2, HandshakeStays DEF TemplateInv, Known, Done
<1>6. ASSUME NEW cmd \in Commands, NEW want \in Templates, Command(cmd, want)
      PROVE  TemplateInv'
  <2>1. UNCHANGED <<slave, reqToggle, ackIn, reqIn, ackToggle, indexClk, dataClk, tmpl>>
    BY <1>6 DEF Command, link, pixels
  <2>2. fw'.at \in Phases \ {"idle", "check", "grab", "poll"} /\ ~fw'.again /\ fw'.i = 0
    BY <1>6, CommandFields
  <2>3. \A n \in Index : ~(n < 0)
    BY CellsAssumption DEF Index
  <2>4. Known'
    BY <2>2, <2>3, NothingKnown
  <2> QED
    BY <1>1, <2>1, <2>4, HandshakeStays DEF TemplateInv
<1>7. CASE UNCHANGED vars
  <2>1. UNCHANGED <<slave, reqToggle, ackIn, reqIn, ackToggle, indexClk, dataClk, tmpl, fw>>
    BY <1>7 DEF vars, link, pixels
  <2> QED
    BY <1>1, <2>1, HandshakeStays, KnownStays DEF TemplateInv
<1> QED
  BY <1>2, <1>3, <1>4, <1>5, <1>6, <1>7 DEF Next

LEMMA InitTemplate == Init => TemplateInv
<1>1. Init => Known
  BY DEF Init, Known, Done, Stopped
<1> QED
  BY <1>1, InitHandshake DEF TemplateInv

(* An answer to a template command is true of the matcher: when the         *)
(* firmware reports no mismatch the matcher has the template that was sent, *)
(* and what it reads back is what the matcher has, though both look only at *)
(* the processor's own copy.                                                *)
THEOREM TemplateTold == Spec => []TemplateReplies
<1>1. Init => TemplateInv
  BY InitTemplate
<1>2. Types /\ TemplateInv /\ [Next]_vars => TemplateInv'
  BY TemplateStep
<1>3. TemplateInv => TemplateReplies
  <2> SUFFICES ASSUME Handshake, Known PROVE TemplateReplies
    BY DEF TemplateInv
  <2>1. PICK k \in 0..7 : Wave(k) /\ Mirrored(k)
    BY DEF Handshake
  <2>2. ~slave.busy => slave.mirror = tmpl
    BY <2>1 DEF Mirrored
  <2> QED
    BY <2>2 DEF Known, TemplateReplies
<1> QED
  BY <1>1, <1>2, <1>3, Typed, PTL DEF Spec
-----------------------------------------------------------------------------
(* Freezing. *)

\* An edge of the pixel clock, in a field or at its end.
PixelStep == Edge27 /\ (WithinField \/ FieldEnds)

LEMMA FreezeBits ==
    ASSUME Types
    PROVE  /\ freezeIn.first \in BOOLEAN /\ freezeIn.second \in BOOLEAN
           /\ frozenIn.first \in BOOLEAN /\ frozenIn.second \in BOOLEAN
           /\ gate.frozen \in BOOLEAN /\ slave.freeze_req \in BOOLEAN
BY Registers, SlaveFields DEF Crossings

\* Writing stays stopped while the request that has crossed is up.
LEMMA GateStays ==
    ASSUME Types, PixelStep, gate.frozen, freezeIn.second
    PROVE  gate'.frozen
<1>1. CASE WithinField
  BY <1>1 DEF WithinField
<1>2. CASE FieldEnds
  <2>1. gate' = GateAfter
    BY <1>2 DEF FieldEnds
  <2> QED
    BY <2>1 DEF GateAfter
<1> QED
  BY <1>1, <1>2 DEF PixelStep

LEMMA PixelFreeze ==
    ASSUME PixelStep
    PROVE  /\ freezeIn'.first = slave.freeze_req /\ freezeIn'.second = freezeIn.first
           /\ slave' = slave /\ frozenIn' = frozenIn /\ since' = 0 /\ gap' = gap
           /\ since >= 1
BY PixelRegisters DEF PixelStep, Shifted, link

LEMMA BusFreeze ==
    ASSUME NEW access \in BOOLEAN, Edge50(access)
    PROVE  /\ frozenIn'.first = gate.frozen /\ frozenIn'.second = frozenIn.first
           /\ freezeIn' = freezeIn /\ gate' = gate
           /\ fw.at \notin {"freeze", "unfreeze"} \/ ~access \/ Waits(access) =>
                slave'.freeze_req = slave.freeze_req
<1>1. CtrlWrites <=> fw.at \in {"freeze", "unfreeze"}
  BY DEF CtrlWrites
<1> QED
  BY <1>1, BusCrossings, BusSlave DEF Shifted, pixels, Waits

LEMMA CrossingPixel ==
    ASSUME Types, PixelStep, Crossing, slave.freeze_req
    PROVE  Crossing'
BY PixelFreeze, GateStays DEF Crossing

LEMMA CrossingBus ==
    ASSUME Types, NEW access \in BOOLEAN, Edge50(access), Crossing
    PROVE  Crossing'
BY BusFreeze DEF Crossing

LEMMA HoldingPixel ==
    ASSUME Types, PixelStep, Holding
    PROVE  Holding'
BY PixelFreeze, GateStays DEF Holding

LEMMA HoldingBus ==
    ASSUME Types, NEW access \in BOOLEAN, Edge50(access), Holding, slave'.freeze_req
    PROVE  Holding'
BY BusFreeze DEF Holding

\* At most two bus edges pass between two pixel edges, so gap counts pixel
\* edges too.
LEMMA OnItsWayPixel ==
    ASSUME Types, PixelStep, OnItsWay, slave.freeze_req
    PROVE  OnItsWay'
<1>1. gap \in Nat /\ since \in Nat /\ since <= 2
  BY Registers
<1>2. gap' = gap /\ since' = 0 /\ freezeIn'.first /\ freezeIn'.second = freezeIn.first
      /\ frozenIn' = frozenIn
  BY PixelFreeze
<1>3. gap >= 2 => freezeIn'.second
  BY <1>1, <1>2 DEF OnItsWay
<1>4. gap >= 4 => (frozenIn'.first => gate'.frozen)
  BY <1>2, GateStays DEF OnItsWay
<1>5. gap >= 5 => Crossing'
  BY CrossingPixel DEF OnItsWay
<1> QED
  BY <1>1, <1>2, <1>3, <1>4, <1>5 DEF OnItsWay

LEMMA OnItsWayBus ==
    ASSUME Types, NEW access \in BOOLEAN, Edge50(access), OnItsWay, Gap >= 5,
           ~(access /\ ~Waits(access)), fw'.at # "idle"
    PROVE  OnItsWay'
<1>1. gap \in Nat /\ since \in Nat /\ since <= 2 /\ Gap \in Nat
  BY Registers
<1>2. since' = since + 1 /\ since < 2 /\ (gap < Gap => gap' = gap + 1)
  BY BusGap
<1>3. /\ frozenIn'.first = gate.frozen /\ frozenIn'.second = frozenIn.first
      /\ freezeIn' = freezeIn /\ gate' = gate
  BY BusFreeze
<1>4. CASE gap >= 5
  <2>1. Crossing'
    BY <1>4, CrossingBus DEF OnItsWay
  <2> QED
    BY <2>1 DEF OnItsWay, Crossing
<1>5. CASE ~(gap >= 5)
  <2>0. gap' = gap + 1
    BY <1>1, <1>2, <1>5
  <2>1. gap' >= since' => freezeIn'.first
    BY <1>1, <1>2, <1>3, <1>5, <2>0 DEF OnItsWay
  <2>2. gap' >= since' + 2 => freezeIn'.second
    BY <1>1, <1>2, <1>3, <1>5, <2>0 DEF OnItsWay
  <2>3. gap' >= 4 => freezeIn'.first /\ freezeIn'.second
    BY <2>0, <2>1, <2>2, <1>1, <1>2, <1>5
  <2>4. frozenIn'.first => gate'.frozen
    BY <1>3
  <2>5. gap' >= 5 => Crossing'
    <3>1. gap' >= 5 => gap >= 4
      BY <1>1, <1>5, <2>0
    <3> QED
      BY <3>1, <2>3, <2>4, <1>1, <1>3, <1>5 DEF OnItsWay, Crossing
  <2> QED
    BY <2>1, <2>2, <2>3, <2>4, <2>5 DEF OnItsWay
<1> QED
  BY <1>4, <1>5

\* What a read of the control register tells of the pixel side.
LEMMA StatusRead ==
    ASSUME Types, NEW access \in BOOLEAN, Edge50(access), fw.at \in {"poll", "state"}
    PROVE  slave'.readdata = slave.readdata
             \/ slave'.readdata = CtrlWord(frozenIn.second, slave.freeze_req)
<1>1. slave'.readdata = slave.readdata \/ slave'.readdata = Selected
  BY BusSlave
<1>2. Selected = CtrlWord(frozenIn.second, slave.freeze_req)
  BY DEF Selected
<1> QED
  BY <1>1, <1>2

LEMMA FrozenWord ==
    ASSUME Types
    PROVE  /\ FrozenBit(CtrlWord(frozenIn.second, slave.freeze_req)) => frozenIn.second
           /\ Holding => CtrlWord(frozenIn.second, slave.freeze_req) = CtrlWord(TRUE, TRUE)
BY FreezeBits DEF FrozenBit, CtrlWord, Holding

\* A bus edge on which the firmware goes no further.
LEMMA FreezeWaits ==
    ASSUME Types, FreezeInv, Gap >= 5, NEW access \in BOOLEAN, Edge50(access),
           ~access \/ Waits(access)
    PROVE  FreezeInv'
<1>1. fw' = fw
  BY BusFirmware
<1>2. slave'.freeze_req = slave.freeze_req
  BY BusFreeze
<1>3. Holding => Holding'
  BY <1>2, HoldingBus DEF Holding
<1>4. Crossing => Crossing'
  BY CrossingBus
<1>5. OnItsWay /\ fw.at # "idle" => OnItsWay'
  BY <1>1, OnItsWayBus DEF Waits
<1>6. fw.at = "poll" /\ fw.again =>
        slave.freeze_req /\ Crossing /\ (FrozenBit(slave.readdata) => Holding)
  BY DEF FreezeInv
<1>7. fw.at = "poll" /\ fw.again => (FrozenBit(slave'.readdata) => Holding')
  BY <1>3, <1>6, StatusRead, FrozenWord DEF Crossing, Holding
<1>8. fw.at = "state" /\ fw.cmd = "F" /\ fw.ok /\ fw.again =>
        slave'.readdata = CtrlWord(TRUE, TRUE)
  BY StatusRead, FrozenWord DEF FreezeInv
<1>9. /\ fw'.at \in {"freeze", "poll"} => ~fw'.ok
      /\ fw'.at = "poll" => slave'.freeze_req /\ (Crossing' \/ (~fw'.again /\ OnItsWay'))
  BY <1>1, <1>2, <1>4, <1>5 DEF FreezeInv
<1>10. /\ fw'.at = "poll" /\ fw'.again => Crossing' /\ (FrozenBit(slave'.readdata) => Holding')
       /\ fw'.at = "grab" /\ fw'.ok => Holding'
  BY <1>1, <1>3, <1>4, <1>6, <1>7 DEF FreezeInv
<1>11. /\ fw'.at = "state" /\ fw'.cmd = "F" /\ fw'.ok =>
            Holding' /\ (fw'.again => slave'.readdata = CtrlWord(TRUE, TRUE))
       /\ Done("F")' /\ fw'.ok => Holding' /\ fw'.got[0] = CtrlWord(TRUE, TRUE)
  BY <1>1, <1>3, <1>8 DEF FreezeInv, Done
<1> QED
  BY <1>9, <1>10, <1>11 DEF FreezeInv

\* A bus edge on which an access is answered.
LEMMA FreezeAnswers ==
    ASSUME Types, FreezeInv, Gap >= 5, NEW access \in BOOLEAN, Edge50(access),
           access, ~Waits(access)
    PROVE  FreezeInv'
<1>1. fw.at # "idle" /\ fw' = Answered(slave.readdata) /\ slave.readdata \in Words
      /\ gap = Gap
  BY BusFirmware, SlaveFields
<1>2. fw.at \notin {"freeze", "unfreeze"} => slave'.freeze_req = slave.freeze_req
  BY BusFreeze
<1>3. fw.at \notin {"freeze", "unfreeze"} /\ Holding => Holding'
  BY <1>2, HoldingBus DEF Holding
<1>4. CASE fw.at = "freeze"
  <2>1. Kept /\ ~fw'.again /\ fw'.ok = fw.ok /\ fw'.at = "poll"
    BY <1>1, <1>4, ControlAnswered
  <2>2. slave'.freeze_req
    BY <1>4, BusSlave DEF CtrlWrites, Waits
  <2>3. OnItsWay'
    <3>1. gap' = 0 /\ since' = since + 1 /\ since \in Nat
      BY <2>1, BusGap, Registers
    <3> QED
      BY <3>1 DEF OnItsWay
  <2>4. ~fw.ok
    BY <1>4 DEF FreezeInv
  <2> QED
    BY <2>1, <2>2, <2>3, <2>4 DEF FreezeInv, Done
<1>5. CASE fw.at = "unfreeze"
  <2>1. Kept /\ fw'.at \in {"state", "idle"} /\ fw.cmd \in {"none", "S", "U"}
    BY <1>1, <1>5, ControlAnswered DEF Types, Begun
  <2> QED
    BY <2>1 DEF FreezeInv, Done, Kept
<1>6. CASE fw.at = "grab"
  <2>1. Kept /\ fw'.ok = fw.ok /\ fw'.at \in {"grab", "unfreeze"}
    BY <1>1, <1>6, GrabAnswered
  <2> QED
    BY <2>1, <1>3, <1>6 DEF FreezeInv, Done
<1>7. CASE fw.at = "poll" /\ ~fw.again
  <2>1. Kept /\ fw'.again /\ fw'.at = "poll" /\ fw'.ok = fw.ok
    BY <1>1, <1>7, FirstRead DEF Reads
  <2>2. slave.freeze_req /\ ~fw.ok /\ Crossing
    BY <1>1, <1>7 DEF FreezeInv, OnItsWay
  <2>3. slave'.freeze_req /\ Crossing'
    BY <1>2, <1>7, <2>2, CrossingBus
  <2>4. slave'.readdata = CtrlWord(frozenIn.second, slave.freeze_req)
    BY <1>7, BusSlave DEF Reads, Selected
  <2>5. FrozenBit(slave'.readdata) => Holding'
    BY <1>3, <1>7, <2>2, <2>4, FrozenWord DEF Crossing, Holding
  <2> QED
    BY <2>1, <2>2, <2>3, <2>5 DEF FreezeInv, Done
<1>8. CASE fw.at = "poll" /\ fw.again
  <2>1. /\ Kept /\ ~fw'.again /\ fw.cmd \in {"S", "F"}
        /\ FrozenBit(slave.readdata) => fw'.at = (IF fw.cmd = "S" THEN "grab" ELSE "state")
        /\ ~FrozenBit(slave.readdata) => fw'.at = "poll" /\ fw'.ok = fw.ok
    BY <1>1, <1>8, PollAnswered
  <2>2. slave.freeze_req /\ ~fw.ok /\ Crossing /\ (FrozenBit(slave.readdata) => Holding)
    BY <1>8 DEF FreezeInv
  <2>3. slave'.freeze_req /\ Crossing'
    BY <1>2, <1>8, <2>2, CrossingBus
  <2>4. CASE FrozenBit(slave.readdata)
    <3>1. Holding' /\ fw'.at \in {"grab", "state"}
      BY <1>3, <1>8, <2>1, <2>2, <2>4
    <3> QED
      BY <3>1, <2>1 DEF FreezeInv, Done
  <2>5. CASE ~FrozenBit(slave.readdata)
    BY <2>1, <2>2, <2>3, <2>5 DEF FreezeInv, Done
  <2> QED
    BY <2>4, <2>5
<1>9. CASE fw.at = "state" /\ ~fw.again
  <2>1. Kept /\ fw'.again /\ fw'.at = "state" /\ fw'.ok = fw.ok
    BY <1>1, <1>9, FirstRead DEF Reads
  <2>2. slave'.readdata = CtrlWord(frozenIn.second, slave.freeze_req)
    BY <1>9, BusSlave DEF Reads, Selected
  <2>3. fw'.cmd = "F" /\ fw'.ok => Holding' /\ slave'.readdata = CtrlWord(TRUE, TRUE)
    BY <1>3, <1>9, <2>1, <2>2, FrozenWord DEF FreezeInv, Kept
  <2> QED
    BY <2>1, <2>3 DEF FreezeInv, Done
<1>10. CASE fw.at = "state" /\ fw.again
  <2>1. Kept /\ fw'.at = "idle" /\ fw'.ok = fw.ok
        /\ fw'.got = [fw.got EXCEPT ![0] = slave.readdata]
    BY <1>1, <1>10, StateAnswered
  <2>2. fw'.got[0] = slave.readdata
    <3>1. fw.got \in [Index \cup Halves -> Words]
      BY Registers, FwFields
    <3>2. 0 \in Index
      BY WordKinds
    <3> QED
      BY <2>1, <3>1, <3>2
  <2>3. fw'.cmd = "F" /\ fw'.ok => Holding' /\ fw'.got[0] = CtrlWord(TRUE, TRUE)
    BY <1>3, <1>10, <2>1, <2>2 DEF FreezeInv, Kept
  <2> QED
    BY <2>1, <2>3 DEF FreezeInv, Done
<1>11. CASE fw.at \in {"write", "check", "read", "bound"}
  <2>1. Kept /\ fw'.at \in {"write", "check", "read", "bound", "idle"}
    <3>1. CASE fw.at = "write"
      BY <3>1, <1>1, WriteAnswered
    <3>2. CASE Reads /\ ~fw.again
      BY <3>2, <1>1, <1>11, FirstRead
    <3>3. CASE fw.at \in {"check", "read", "bound"} /\ fw.again
      BY <3>3, <1>1, CheckAnswered, ReadAnswered, BoundAnswered
    <3> QED
      BY <3>1, <3>2, <3>3, <1>11, Registers, FwFields DEF Reads
  <2>2. fw.cmd \in {"T", "R", "B"}
    BY <1>11 DEF Types, Begun
  <2> QED
    BY <2>1, <2>2 DEF FreezeInv, Done, Kept
<1>12. fw.at \in Phases /\ fw.again \in BOOLEAN
  BY Registers, FwFields
<1> QED
  BY <1>1, <1>4, <1>5, <1>6, <1>7, <1>8, <1>9, <1>10, <1>11, <1>12 DEF Phases

LEMMA FreezePixel ==
    ASSUME Types, FreezeInv, PixelStep
    PROVE  FreezeInv'
<1>1. /\ fw'.at = fw.at /\ fw'.cmd = fw.cmd /\ fw'.again = fw.again
      /\ fw'.got = fw.got /\ fw'.ok = fw.ok
  BY NotedFields DEF PixelStep, WithinField, FieldEnds
<1>2. slave' = slave
  BY PixelFreeze
<1>3. Holding => Holding'
  BY HoldingPixel
<1>4. slave.freeze_req => (Crossing => Crossing') /\ (OnItsWay => OnItsWay')
  BY CrossingPixel, OnItsWayPixel
<1>5. /\ fw'.at \in {"freeze", "poll"} => ~fw'.ok
      /\ fw'.at = "poll" => slave'.freeze_req /\ (Crossing' \/ (~fw'.again /\ OnItsWay'))
  BY <1>1, <1>2, <1>4 DEF FreezeInv
<1>6. /\ fw'.at = "poll" /\ fw'.again => Crossing' /\ (FrozenBit(slave'.readdata) => Holding')
      /\ fw'.at = "grab" /\ fw'.ok => Holding'
  BY <1>1, <1>2, <1>3, <1>4 DEF FreezeInv
<1>7. /\ fw'.at = "state" /\ fw'.cmd = "F" /\ fw'.ok =>
            Holding' /\ (fw'.again => slave'.readdata = CtrlWord(TRUE, TRUE))
      /\ Done("F")' /\ fw'.ok => Holding' /\ fw'.got[0] = CtrlWord(TRUE, TRUE)
  BY <1>1, <1>2, <1>3 DEF FreezeInv, Done
<1> QED
  BY <1>5, <1>6, <1>7 DEF FreezeInv

LEMMA FreezeStays ==
    ASSUME FreezeInv, UNCHANGED <<slave, freezeIn, frozenIn, gate, gap, since, fw>>
    PROVE  FreezeInv'
BY DEF FreezeInv, Crossing, Holding, OnItsWay, Done

LEMMA FreezeStep ==
    ASSUME Types, FreezeInv, Gap >= 5, [Next]_vars
    PROVE  FreezeInv'
<1>1. CASE PixelEdge \/ VsEdge
  BY <1>1, FreezePixel DEF PixelEdge, VsEdge, PixelStep
<1>2. ASSUME NEW access \in BOOLEAN, Edge50(access) PROVE FreezeInv'
  BY <1>2, FreezeWaits, FreezeAnswers
<1>3. CASE VideoSwitch
  BY <1>3, FreezeStays DEF VideoSwitch, link, pixels
<1>4. CASE GiveUp
  <2>1. Kept /\ fw'.ok = fw.ok /\ fw.at = "poll" /\ fw'.at \in {"grab", "state"}
    BY <1>4, GiveUpFields
  <2> QED
    BY <2>1 DEF FreezeInv, Done
<1>5. ASSUME NEW cmd \in Commands, NEW want \in Templates, Command(cmd, want)
      PROVE  FreezeInv'
  <2>1. fw'.at \in Phases \ {"idle", "check", "grab", "poll"} /\ ~fw'.ok
    BY <1>5, CommandFields
  <2> QED
    BY <2>1 DEF FreezeInv, Done
<1>6. CASE UNCHANGED vars
  BY <1>6, FreezeStays DEF vars, link, pixels
<1> QED
  BY <1>1, <1>2, <1>3, <1>4, <1>5, <1>6 DEF Next, BusEdge, IdleEdge

(* A freeze the firmware took as confirmed holds until the firmware lifts   *)
(* it: no field is written while it reads the frame, and F is not answered  *)
(* with a status from before its request.  The processor's accesses are     *)
(* five edges of its clock or more apart, the time a request takes to cross *)
(* and the old status to leave.                                             *)
THEOREM FreezeKept ==
    ASSUME Gap >= 5
    PROVE  Spec => []FreezeHolds
<1>1. Init => FreezeInv
  BY DEF Init, FreezeInv, Stopped, Done
<1>2. Types /\ FreezeInv /\ [Next]_vars => FreezeInv'
  BY FreezeStep
<1>3. FreezeInv => FreezeHolds
  BY DEF FreezeInv, FreezeHolds, Holding
<1> QED
  BY <1>1, <1>2, <1>3, Typed, PTL DEF Spec
-----------------------------------------------------------------------------
(* Positions. *)

\* Counting fields modulo four.
LEMMA Stamped ==
    \A f \in 0..3 :
      /\ Later(f, 0) = f /\ Later(f, 1) \in 0..3 /\ Later(f, 2) \in 0..3 /\ Later(f, 3) \in 0..3
      /\ Later(Later(f, 1), 3) = f /\ Later(Later(f, 3), 3) = Later(f, 2)
      /\ Later(Later(f, 1), 1) = Later(f, 2) /\ Later(Later(f, 2), 3) = Later(f, 1)
      /\ Later(Later(f, 3), 1) = f /\ Later(Later(f, 2), 1) = Later(f, 3)
      /\ Later(f, 1) # f /\ Later(f, 2) # Later(f, 1)
<1> TAKE f \in 0..3
<1>1. f = 0 \/ f = 1 \/ f = 2 \/ f = 3
  OBVIOUS
<1> QED
  BY <1>1 DEF Later, Stamps

\* The order is kept when the result moves on to the field before the present.
LEMMA OrderKept ==
    ASSUME NEW f \in 0..3, NEW e, NEW from \in 0..3, NEW a, NEW b, NEW later,
           InOrder(f, e, from, a, b), later = b \/ later = Later(f, 3)
    PROVE  InOrder(f, e, from, a, later)
<1>1. Later(Later(from, 1), 3) = from /\ Later(Later(from, 2), 3) = Later(from, 1)
  BY Stamped
<1> QED
  BY <1>1 DEF InOrder

LEMMA OrderSame ==
    ASSUME NEW f \in 0..3, NEW e, NEW from \in 0..3, NEW b, NEW later,
           InOrder(f, e, from, b, b), later = b \/ later = Later(f, 3)
    PROVE  InOrder(f, e, from, later, later)
<1>1. Later(Later(from, 1), 3) = from /\ Later(Later(from, 2), 3) = Later(from, 1)
  BY Stamped
<1> QED
  BY <1>1 DEF InOrder

\* Nor does it change when the field ends in which the command began.
LEMMA OrderEnds ==
    ASSUME NEW from \in 0..3, NEW a, NEW b, InOrder(Later(from, 1), 0, from, a, b)
    PROVE  InOrder(Later(from, 2), 1, from, a, b)
<1>1. Later(from, 2) # Later(from, 1)
  BY Stamped
<1> QED
  BY <1>1 DEF InOrder

LEMMA OrderTold ==
    ASSUME NEW f, NEW e, NEW from, NEW a, NEW b, InOrder(f, e, from, a, b)
    PROVE  a \in {from, Later(from, 1)} /\ b \in {a, Later(from, 1)}
BY DEF InOrder

LEMMA BoundBits ==
    ASSUME Types
    PROVE  /\ boundIn.first \in BOOLEAN /\ boundIn.second \in BOOLEAN /\ boundIn.last \in BOOLEAN
           /\ boundToggle \in BOOLEAN
BY Registers DEF Crossings

LEMMA BusResult ==
    ASSUME Types, Result, NEW access \in BOOLEAN, Edge50(access)
    PROVE  /\ Result' /\ field' = field /\ boundary' = boundary /\ boundToggle' = boundToggle
           /\ bound' = bound \/ bound' = Later(field, 3)
           /\ Crossed => Crossed' /\ bound' = bound
<1>1. field' = field /\ boundary' = boundary /\ boundToggle' = boundToggle
  BY BusCrossings DEF pixels, stream
<1>2. /\ boundIn'.first = boundToggle /\ boundIn'.second = boundIn.first
      /\ boundIn'.last = boundIn.second
      /\ bound' = IF boundIn.second # boundIn.last THEN boundary ELSE bound
  BY BusCrossings DEF Shifted, Pulse
<1>3. boundary = Later(field, 3)
  BY DEF Result
<1>4. CASE boundIn.first = boundToggle /\ boundIn.second = boundToggle
             /\ boundIn.last = boundToggle /\ bound = boundary
  <2>1. bound' = bound
    BY <1>2, <1>4
  <2> QED
    BY <2>1, <1>1, <1>2, <1>3, <1>4 DEF Result, Crossed
<1>5. CASE bound = Later(boundary, 3) /\ boundIn.last # boundToggle
  <2>1. ~Crossed
    BY <1>5 DEF Crossed
  <2>2. CASE boundIn.first # boundToggle /\ boundIn.second = boundIn.first
               /\ boundIn.last = boundIn.first
    BY <2>1, <2>2, <1>1, <1>2, <1>3, <1>5, BoundBits DEF Result
  <2>3. CASE boundIn.first = boundToggle /\ boundIn.second # boundToggle
    <3>1. bound' = bound
      BY <2>3, <1>2, <1>5, BoundBits
    <3> QED
      BY <3>1, <2>1, <2>3, <1>1, <1>2, <1>3, <1>5, BoundBits DEF Result
  <2>4. CASE boundIn.first = boundToggle /\ boundIn.second = boundToggle
    <3>1. bound' = boundary
      BY <2>4, <1>2, <1>5
    <3> QED
      BY <3>1, <2>1, <2>4, <1>1, <1>2, <1>3, <1>5 DEF Result
  <2> QED
    BY <2>2, <2>3, <2>4, <1>5, BoundBits DEF Result
<1> QED
  BY <1>4, <1>5, BoundBits DEF Result

LEMMA FieldResult ==
    ASSUME Types, Result, FieldEnds, UNCHANGED link
    PROVE  Result'
<1>1. /\ boundary' = field /\ boundToggle' = ~boundToggle /\ field' = Later(field, 1)
      /\ boundIn' = boundIn /\ bound' = bound /\ Crossed
  BY DEF FieldEnds, link, MayEnd
<1>2. boundary = Later(field, 3) /\ boundary' = Later(field', 3)
  BY <1>1, Registers, Stamped DEF Result
<1>3. boundIn.first = boundToggle /\ boundIn.second = boundToggle
      /\ boundIn.last = boundToggle /\ bound = boundary
  BY <1>1, BoundBits DEF Result, Crossed
<1>4. bound' = Later(boundary', 3)
  BY <1>1, <1>2, <1>3
<1>5. boundIn'.first # boundToggle' /\ boundIn'.second = boundIn'.first
      /\ boundIn'.last = boundIn'.first
  BY <1>1, <1>3, BoundBits
<1> QED
  BY <1>2, <1>4, <1>5 DEF Result

\* What the command has so far, in its order.
Asking ==
    /\ fw.edges = 0 => field = Later(fw.from, 1) /\ Crossed
    /\ Ordered(bound, bound)
    /\ fw.again => Ordered(slave.readdata, bound)
    /\ fw.i = 1 => Ordered(fw.got[0], bound)
                   /\ (fw.again => Ordered(fw.got[0], slave.readdata))

LEMMA BoundParts == BoundInv <=> Result /\ (fw.at = "bound" => Asking) /\ BoundsOfOneMoment
BY DEF BoundInv, Asking

\* The order at a bus edge, of what was there before it.
LEMMA BusOrder ==
    ASSUME Types, Result, NEW access \in BOOLEAN, Edge50(access),
           fw'.from = fw.from, fw'.edges = fw.edges, NEW a
    PROVE  /\ Ordered(a, bound) => InOrder(field', fw'.edges, fw'.from, a, bound')
           /\ Ordered(bound, bound) => InOrder(field', fw'.edges, fw'.from, bound', bound')
<1>1. field \in 0..3 /\ fw.from \in 0..3
  BY Registers, FwFields
<1>2. field' = field /\ (bound' = bound \/ bound' = Later(field, 3))
  BY BusResult
<1>3. Ordered(a, bound) => InOrder(field, fw.edges, fw.from, a, bound')
  BY <1>1, <1>2, OrderKept DEF Ordered
<1>4. Ordered(bound, bound) => InOrder(field, fw.edges, fw.from, bound', bound')
  BY <1>1, <1>2, OrderSame DEF Ordered
<1> QED
  BY <1>2, <1>3, <1>4

LEMMA AskingWaits ==
    ASSUME Types, Result, Asking, fw.at = "bound", NEW access \in BOOLEAN, Edge50(access),
           ~access \/ Waits(access)
    PROVE  Asking'
<1>1. fw' = fw
  BY BusFirmware
<1>2. slave'.readdata = slave.readdata \/ slave'.readdata = bound
  BY BusSlave DEF Selected
<1>3. field' = field /\ (Crossed => Crossed')
  BY BusResult
<1>4. Ordered(bound, bound)'
  BY <1>1, BusOrder DEF Asking, Ordered
<1>5. fw.again => Ordered(slave.readdata, bound)'
  <2>1. fw.again => InOrder(field', fw'.edges, fw'.from, slave'.readdata, bound')
    BY <1>1, <1>2, BusOrder DEF Asking
  <2> QED
    BY <2>1 DEF Ordered
<1>6. fw.i = 1 => Ordered(fw.got[0], bound)'
  <2>1. fw.i = 1 => InOrder(field', fw'.edges, fw'.from, fw.got[0], bound')
    BY <1>1, BusOrder DEF Asking
  <2> QED
    BY <2>1, <1>1 DEF Ordered
<1>7. fw.i = 1 /\ fw.again => Ordered(fw.got[0], slave.readdata)'
  <2>1. fw.i = 1 /\ fw.again => Ordered(fw.got[0], slave'.readdata)
    BY <1>2 DEF Asking
  <2> QED
    BY <2>1, <1>1, <1>3 DEF Ordered
<1> QED
  BY <1>1, <1>3, <1>4, <1>5, <1>6, <1>7 DEF Asking

\* The first read of a coordinate is of the result as it stands.
LEMMA AskingReads ==
    ASSUME Types, Result, Asking, fw.at = "bound", ~fw.again,
           NEW access \in BOOLEAN, Edge50(access), access, ~Waits(access)
    PROVE  Asking' /\ fw'.at = "bound"
<1>1. /\ Kept /\ fw'.again /\ fw'.at = fw.at /\ fw'.i = fw.i /\ fw'.got = fw.got
  <2>1. fw' = Answered(slave.readdata) /\ Reads
    BY BusFirmware DEF Reads
  <2> QED
    BY <2>1, FirstRead
<1>2. fw'.from = fw.from /\ fw'.edges = fw.edges
  BY <1>1 DEF Kept
<1>3. slave'.readdata = bound
  BY BusSlave DEF Reads, Selected
<1>4. field' = field /\ (Crossed => Crossed')
  BY BusResult
<1>5. Ordered(bound, bound)'
  BY <1>2, BusOrder DEF Asking, Ordered
<1>6. Ordered(slave.readdata, bound)'
  <2>1. InOrder(field', fw'.edges, fw'.from, slave'.readdata, bound')
    BY <1>2, <1>3, BusOrder DEF Asking
  <2> QED
    BY <2>1 DEF Ordered
<1>7. fw.i = 1 => Ordered(fw.got[0], bound)'
  <2>1. fw.i = 1 => InOrder(field', fw'.edges, fw'.from, fw.got[0], bound')
    BY <1>2, BusOrder DEF Asking
  <2> QED
    BY <2>1, <1>1 DEF Ordered
<1>8. fw.i = 1 => Ordered(fw.got[0], slave.readdata)'
  <2>1. fw.i = 1 => Ordered(fw.got[0], slave'.readdata)
    BY <1>3 DEF Asking
  <2> QED
    BY <2>1, <1>1, <1>2, <1>4 DEF Ordered
<1> QED
  BY <1>1, <1>2, <1>4, <1>5, <1>6, <1>7, <1>8 DEF Asking

\* The second read of it is used: the first coordinate is kept, or both are
\* answered.
LEMMA AskingAnswered ==
    ASSUME Types, Result, Asking, fw.at = "bound", fw.again,
           NEW access \in BOOLEAN, Edge50(access), access, ~Waits(access)
    PROVE  /\ fw'.at = "bound" => Asking'
           /\ BoundsOfOneMoment'
<1>1. slave.readdata \in Words /\ fw.got \in [Index \cup Halves -> Words]
  BY SlaveFields, Registers, FwFields
<1>2. /\ Kept /\ ~fw'.again /\ fw'.got = [fw.got EXCEPT ![fw.i] = slave.readdata]
      /\ fw.i \in 0..1 /\ fw.cmd = "B"
      /\ fw.i = 1 => fw'.at = "idle" /\ fw'.i = 0
      /\ fw.i # 1 => fw'.at = "bound" /\ fw'.i = 1
  BY <1>1, BusFirmware, BoundAnswered
<1>3. fw'.from = fw.from /\ fw'.edges = fw.edges
  BY <1>2 DEF Kept
<1>4. field' = field /\ (Crossed => Crossed')
  BY BusResult
<1>5. 0 \in Index \cup Halves /\ 1 \in Index \cup Halves
  BY DEF Halves
<1>6. CASE fw.i = 0
  <2>1. fw'.got[0] = slave.readdata /\ fw'.i = 1 /\ fw'.at = "bound"
    BY <1>1, <1>2, <1>5, <1>6
  <2>2. InOrder(field', fw'.edges, fw'.from, slave.readdata, bound')
        /\ InOrder(field', fw'.edges, fw'.from, bound', bound')
    BY <1>3, BusOrder DEF Asking
  <2>3. Ordered(fw.got[0], bound)' /\ Ordered(bound, bound)'
    BY <2>1, <2>2 DEF Ordered
  <2>4. Asking'
    BY <2>1, <2>3, <1>2, <1>3, <1>4 DEF Asking
  <2> QED
    BY <2>1, <2>4 DEF BoundsOfOneMoment, Done
<1>7. CASE fw.i = 1
  <2>1. fw'.got[0] = fw.got[0] /\ fw'.got[1] = slave.readdata /\ fw'.at = "idle"
    BY <1>1, <1>2, <1>5, <1>7
  <2>2. Ordered(fw.got[0], slave.readdata)
    BY <1>7 DEF Asking
  <2>3. /\ fw.got[0] \in {fw.from, Later(fw.from, 1)}
        /\ slave.readdata \in {fw.got[0], Later(fw.from, 1)}
    BY <2>2, OrderTold DEF Ordered
  <2> QED
    BY <2>1, <2>3, <1>3 DEF BoundsOfOneMoment
<1> QED
  BY <1>2, <1>6, <1>7

LEMMA BoundBus ==
    ASSUME Types, BoundInv, NEW access \in BOOLEAN, Edge50(access)
    PROVE  BoundInv'
<1>1. Result /\ (fw.at = "bound" => Asking) /\ BoundsOfOneMoment
  BY BoundParts
<1>2. Result'
  BY <1>1, BusResult
<1>3. CASE fw.at = "bound" /\ access /\ ~Waits(access)
  <2>1. fw.again \in BOOLEAN
    BY Registers, FwFields
  <2>2. CASE fw.again
    BY <1>1, <1>2, <1>3, <2>2, AskingAnswered DEF BoundInv, Asking
  <2>3. CASE ~fw.again
    <3>1. Asking' /\ fw'.at = "bound"
      BY <1>1, <1>3, <2>3, AskingReads
    <3> QED
      BY <1>2, <3>1 DEF BoundInv, Asking, BoundsOfOneMoment, Done
  <2> QED
    BY <2>1, <2>2, <2>3
<1>4. CASE ~access \/ Waits(access)
  <2>1. fw' = fw
    BY <1>4, BusFirmware
  <2>2. fw.at = "bound" => Asking'
    BY <1>1, <1>4, AskingWaits
  <2> QED
    BY <1>1, <1>2, <2>1, <2>2 DEF BoundInv, Asking, BoundsOfOneMoment, Done
<1>5. CASE fw.at # "bound" /\ access /\ ~Waits(access)
  <2>1. fw'.at # "bound" /\ ~Done("B")'
    <3>1. fw.at # "idle" /\ fw' = Answered(slave.readdata) /\ slave.readdata \in Words
          /\ fw.at \in Phases /\ fw.again \in BOOLEAN
      BY <1>5, BusFirmware, SlaveFields, Registers, FwFields
    <3>2. CASE fw.at \in {"write", "grab", "freeze"}
      BY <3>1, <3>2, WriteAnswered, GrabAnswered, ControlAnswered DEF Done
    <3>3. CASE fw.at = "unfreeze"
      <4>1. Kept /\ fw'.at \in {"state", "idle"} /\ fw.cmd \in {"none", "S", "U"}
        BY <3>1, <3>3, ControlAnswered DEF Types, Begun
      <4> QED
        BY <4>1 DEF Done, Kept
    <3>4. CASE Reads /\ ~fw.again
      BY <3>1, <3>4, <1>5, FirstRead DEF Done
    <3>5. CASE fw.at \in {"check", "read"} /\ fw.again
      <4>1. Kept /\ fw'.at \in {"check", "read", "idle"} /\ fw.cmd \in {"T", "R"}
        BY <3>1, <3>5, CheckAnswered, ReadAnswered
      <4> QED
        BY <4>1 DEF Done, Kept
    <3>6. CASE fw.at = "state" /\ fw.again
      <4>1. Kept /\ fw'.at = "idle" /\ fw.cmd \in {"F", "U", "P"}
        BY <3>1, <3>6, StateAnswered DEF Types, Begun
      <4> QED
        BY <4>1 DEF Done, Kept
    <3>7. CASE fw.at = "poll" /\ fw.again
      <4>1. fw'.at \in {"poll", "grab", "state"}
        BY <3>1, <3>7, PollAnswered
      <4> QED
        BY <4>1 DEF Done
    <3> QED
      BY <1>5, <3>1, <3>2, <3>3, <3>4, <3>5, <3>6, <3>7 DEF Phases, Reads
  <2> QED
    BY <1>2, <2>1 DEF BoundInv, BoundsOfOneMoment
<1> QED
  BY <1>3, <1>4, <1>5

\* No field ends in a command in which one has ended: it moves the result on
\* while the command's two reads are of it or of the one before.
LEMMA BoundField ==
    ASSUME Types, BoundInv, Edge27, FieldEnds
    PROVE  BoundInv'
<1>1. Result /\ (fw.at = "bound" => Asking) /\ BoundsOfOneMoment
  BY BoundParts
<1>2. UNCHANGED link
  BY PixelRegisters
<1>3. Result'
  BY <1>1, <1>2, FieldResult
<1>4. /\ fw'.at = fw.at /\ fw'.cmd = fw.cmd /\ fw'.i = fw.i /\ fw'.again = fw.again
      /\ fw'.got = fw.got /\ fw'.from = fw.from
      /\ fw'.edges = IF fw.at = "bound" THEN 1 ELSE fw.edges
  BY NotedFields DEF FieldEnds
<1>5. slave' = slave /\ bound' = bound /\ field' = Later(field, 1)
  BY <1>2 DEF link, FieldEnds
<1>6. fw.at = "bound" => Asking'
  <2> SUFFICES ASSUME fw.at = "bound" PROVE Asking'
    OBVIOUS
  <2>1. fw.edges = 0
    BY Registers, FwFields DEF FieldEnds, MayEnd
  <2>2. field = Later(fw.from, 1) /\ fw.from \in 0..3
    BY <1>1, <2>1, Registers, FwFields DEF Asking
  <2>3. field' = Later(fw.from, 2)
    BY <1>5, <2>2, Stamped
  <2>4. \A a, b : Ordered(a, b) => InOrder(field', fw'.edges, fw'.from, a, b)
    BY <1>4, <2>1, <2>2, <2>3, OrderEnds DEF Ordered
  <2>5. Asking
    BY <1>1
  <2>6. Ordered(bound, bound)'
    BY <2>4, <2>5, <1>5 DEF Asking, Ordered
  <2>7. fw'.again => Ordered(slave.readdata, bound)'
    BY <2>4, <2>5, <1>4, <1>5 DEF Asking, Ordered
  <2>8. fw'.i = 1 => Ordered(fw.got[0], bound)'
    BY <2>4, <2>5, <1>4, <1>5 DEF Asking, Ordered
  <2>9. fw'.i = 1 /\ fw'.again => Ordered(fw.got[0], slave.readdata)'
    BY <2>4, <2>5, <1>4, <1>5 DEF Asking, Ordered
  <2> QED
    BY <2>6, <2>7, <2>8, <2>9, <1>4 DEF Asking
<1>7. BoundsOfOneMoment'
  BY <1>1, <1>4 DEF BoundsOfOneMoment, Done
<1> QED
  BY <1>3, <1>4, <1>6, <1>7 DEF BoundInv, Asking

LEMMA BoundStays ==
    ASSUME BoundInv, UNCHANGED <<slave, boundIn, bound, boundary, boundToggle, field, fw>>
    PROVE  BoundInv'
BY DEF BoundInv, Result, Crossed, Ordered, BoundsOfOneMoment, Done

LEMMA BoundCommand ==
    ASSUME Types, BoundInv, NEW cmd \in Commands, NEW want \in Templates, Command(cmd, want)
    PROVE  BoundInv'
<1>1. Result
  BY DEF BoundInv
<1>2. /\ UNCHANGED Outside /\ fw'.cmd = cmd /\ fw'.at = FirstPhase(cmd) /\ fw'.i = 0
      /\ ~fw'.again /\ fw'.at # "idle"
      /\ cmd = "B" => fw'.from = bound /\ fw'.edges = IF Crossed THEN 0 ELSE 1
  BY CommandFields
<1>3. /\ bound' = bound /\ field' = field /\ boundary' = boundary /\ boundIn' = boundIn
      /\ boundToggle' = boundToggle
  BY <1>2 DEF Outside, link, pixels, stream
<1>4. Result' /\ (Crossed <=> Crossed')
  BY <1>1, <1>3 DEF Result, Crossed
<1>5. fw'.at = "bound" => cmd = "B"
  BY <1>2, CommandAssumption DEF FirstPhase
<1>6. /\ field = Later(bound, 1) \/ field = Later(bound, 2)
      /\ Crossed => field = Later(bound, 1)
  <2>1. boundary = Later(field, 3) /\ (bound = boundary \/ bound = Later(boundary, 3))
        /\ (Crossed => bound = boundary)
    BY <1>1 DEF Result, Crossed
  <2> QED
    BY <2>1, Registers, Stamped
<1>7. fw'.at = "bound" => Ordered(bound, bound)'
  <2> SUFFICES ASSUME cmd = "B" PROVE InOrder(field, fw'.edges, bound, bound, bound)
    BY <1>2, <1>3, <1>5 DEF Ordered
  <2>1. CASE field = Later(bound, 1)
    BY <2>1 DEF InOrder
  <2>2. CASE field # Later(bound, 1)
    BY <1>2, <1>6, <2>2 DEF InOrder
  <2> QED
    BY <2>1, <2>2
<1>8. fw'.at = "bound" => Asking'
  BY <1>2, <1>3, <1>4, <1>5, <1>7, <1>6 DEF Asking
<1> QED
  BY <1>2, <1>4, <1>8 DEF BoundInv, Asking, BoundsOfOneMoment, Done

LEMMA BoundStep ==
    ASSUME Types, BoundInv, [Next]_vars
    PROVE  BoundInv'
<1>1. CASE VsEdge
  BY <1>1, BoundField DEF VsEdge
<1>2. CASE PixelEdge
  <2>1. UNCHANGED <<slave, boundIn, bound, boundary, boundToggle, field, fw>>
    BY <1>2, PixelRegisters DEF PixelEdge, WithinField, link
  <2> QED
    BY <2>1, BoundStays
<1>3. CASE BusEdge \/ IdleEdge
  BY <1>3, BoundBus DEF BusEdge, IdleEdge
<1>4. CASE VideoSwitch
  BY <1>4, BoundStays DEF VideoSwitch, link, pixels
<1>5. CASE GiveUp
  <2>1. UNCHANGED Outside /\ fw'.at \in {"grab", "state"}
    BY <1>5, GiveUpFields
  <2> QED
    BY <2>1 DEF BoundInv, Result, BoundsOfOneMoment, Done, Outside, link, pixels, stream
<1>6. ASSUME NEW cmd \in Commands, NEW want \in Templates, Command(cmd, want)
      PROVE  BoundInv'
  BY <1>6, BoundCommand
<1>7. CASE UNCHANGED vars
  BY <1>7, BoundStays DEF vars, link, pixels, stream
<1> QED
  BY <1>1, <1>2, <1>3, <1>4, <1>5, <1>6, <1>7 DEF Next

(* A boundary command reports the two coordinates of one result, or of two  *)
(* successive ones with the older first, and never one older than what had  *)
(* crossed when the command came, though a field may end between the reads  *)
(* and each result takes clocks to cross.                                   *)
THEOREM BoundsTold == Spec => []BoundsOfOneMoment
<1>1. Init => BoundInv
  <2> SUFFICES ASSUME Init PROVE BoundInv
    OBVIOUS
  <2>1. fw.at = "unfreeze" /\ boundary = 1 /\ field = 2 /\ bound = 1 /\ boundIn = Quiet
        /\ boundToggle = FALSE
    BY DEF Init, Stopped
  <2>2. Later(2, 3) = 1
    BY DEF Later, Stamps
  <2>3. Result
    BY <2>1, <2>2 DEF Result, Quiet
  <2> QED
    BY <2>1, <2>3 DEF BoundInv, BoundsOfOneMoment, Done
<1>2. Types /\ BoundInv /\ [Next]_vars => BoundInv'
  BY BoundStep
<1>3. BoundInv => BoundsOfOneMoment
  BY DEF BoundInv
<1> QED
  BY <1>1, <1>2, <1>3, Typed, PTL DEF Spec
=============================================================================
