--------------------------- MODULE HostLink_proofs ---------------------------
(***************************************************************************)
(* How stale a reply a host can take, for every protocol, any number of    *)
(* commands, timeouts and closed sessions, and any arguments.              *)
(*                                                                         *)
(* As long as no command has been cut off from its arguments the firmware  *)
(* is in step: what is on its way to it are whole commands in the order    *)
(* they were sent, and behind them on the way back are the magics of older *)
(* ones in the same order.  A magic on its way is then of one of the last  *)
(* commands sent, and only a transaction that was given up leaves one more *)
(* behind.                                                                 *)
(***************************************************************************)
EXTENDS HostLink, TLAPS, SequenceTheorems, FiniteSetTheorems

-----------------------------------------------------------------------------
(* The invariant *)

Commands == DOMAIN proto.args

DownTokens == [type : {"command"}, kind : Commands, req : Requests]
         \cup [type : {"argument"}, kind : Looks, req : Requests, part : Nat]
UpTokens == [type : {"magic"}, kind : Commands, req : Requests]
       \cup [type : {"payload"}, kind : Commands, req : Requests, of : Seq(Parts)]

FwTypes ==
    /\ fw \in [at : {"loop", "read", "magic", "payload"}, kind : Commands \cup {"none"},
               req : Requests, read : Seq(Parts)]
    /\ fw.at # "loop" => fw.kind \in Commands

HostTypes ==
    /\ host \in [at : {"idle", "send", "sync", "payload", "drain", "taken"},
                 op : proto.operations \cup {<< >>}, step : Nat, retried : BOOLEAN,
                 reply : [req : Requests, of : Seq(Parts)]]
    /\ IF host.at = "idle" THEN host = AtRest
       ELSE host.op \in proto.operations /\ host.step \in 1..Len(host.op)

Types ==
    /\ proto \in Protocols
    /\ down \in Seq(DownTokens) /\ up \in Seq(UpTokens)
    /\ FwTypes /\ HostTypes
    /\ store \in Seq(Parts) /\ result \in Seq(Parts)
    /\ sent \in Seq(Commands) /\ Len(sent) <= MaxSent /\ session \in 0..Len(sent)
    /\ abandoned \in 0..MaxAbandoned /\ cut \in BOOLEAN

\* The token is the magic of a command whose payload follows.
Announces(t) == t.type = "magic" /\ proto.payload[t.kind]
PayloadOf(t, kind, req) == t.type = "payload" /\ t.kind = kind /\ t.req = req

(* A payload comes right behind its magic.                                 *)
Pairs ==
    \A i \in 1..Len(up) : Announces(up[i]) =>
      IF i < Len(up) THEN PayloadOf(up[i + 1], up[i].kind, up[i].req)
      ELSE fw.at = "payload" /\ fw.kind = up[i].kind /\ fw.req = up[i].req
PayloadToCome ==
    host.at = "payload" =>
      IF up = << >> THEN fw.at = "payload" /\ fw.kind = Asked /\ fw.req = host.reply.req
      ELSE PayloadOf(up[1], Asked, host.reply.req)
Paired == Pairs /\ PayloadToCome

(* The commands an operation has sent are the last ones.                   *)
StepsSent == IF host.at \in {"sync", "payload", "taken"} THEN host.step
             ELSE IF host.at = "idle" THEN 0 ELSE host.step - 1
OwnCommands ==
    /\ StepsSent <= Len(sent)
    /\ \A j \in 1..StepsSent : sent[Len(sent) - StepsSent + j] = host.op[j]
    /\ host.at = "drain" => host.step = 1

(* What is on its way to a firmware in step.                               *)
Place(t) == IF t.type = "command" THEN 0 ELSE t.part
Ends(t) == Place(t) = proto.args[sent[t.req]]
Follows(t, u) ==
    IF Ends(t) THEN u.type = "command"
    ELSE u.type = "argument" /\ u.req = t.req /\ u.part = Place(t) + 1

Owned ==
    /\ \A i \in 1..Len(down) :
         /\ down[i].req \in 1..Len(sent)
         /\ down[i].type = "command" => down[i].kind = sent[down[i].req]
    /\ fw.at # "loop" => fw.req \in 1..Len(sent) /\ fw.kind = sent[fw.req]
    /\ \A i \in 1..Len(up) :
         /\ up[i].req \in 1..Len(sent)
         /\ up[i].type = "magic" => up[i].kind = sent[up[i].req]
Whole ==
    /\ \A i \in 1..Len(down) : i < Len(down) => Follows(down[i], down[i + 1])
    /\ down # << >> => Ends(down[Len(down)])
    /\ down # << >> =>
         IF fw.at = "read"
         THEN down[1].type = "argument" /\ down[1].req = fw.req /\ down[1].part = Len(fw.read) + 1
         ELSE down[1].type = "command"
Reading ==
    /\ fw.at = "read" => down # << >> /\ Len(fw.read) < proto.args[fw.kind]
    /\ fw.at \in {"read", "magic"} => fw.read = [i \in 1..Len(fw.read) |-> [req |-> fw.req, part |-> i]]
    /\ fw.at = "magic" => Len(fw.read) = proto.args[fw.kind]
InStep == Owned /\ Whole /\ Reading

(* Commands and replies are in the order of their numbers.                 *)
Queued(i) == down[i].type = "command"
Returned(i) == up[i].type = "magic"
Ordered ==
    /\ \A i, j \in 1..Len(down) : i < j /\ Queued(i) /\ Queued(j) => down[i].req < down[j].req
    /\ \A i, j \in 1..Len(up) : i < j /\ Returned(i) /\ Returned(j) => up[i].req < up[j].req
    /\ \A i \in 1..Len(up), j \in 1..Len(down) : Returned(i) /\ Queued(j) => up[i].req < down[j].req
    /\ fw.at # "loop" => \A j \in 1..Len(down) : Queued(j) => fw.req < down[j].req
    /\ fw.at \in {"read", "magic"} => \A i \in 1..Len(up) : Returned(i) => up[i].req < fw.req

(* A reply still to come is of one of the last commands: one more behind   *)
(* for each transaction given up, and the one that is going on.            *)
Recent(req) == Len(sent) < req + abandoned + (IF host.at = "sync" THEN 1 ELSE 0)
Lag ==
    /\ \A i \in 1..Len(up) : Returned(i) => Recent(up[i].req)
    /\ \A j \in 1..Len(down) : Queued(j) => Recent(down[j].req)
    /\ fw.at \in {"read", "magic"} => Recent(fw.req)

Replied ==
    host.at \in {"payload", "taken"} =>
      /\ host.reply.req \in 1..Len(sent) /\ sent[host.reply.req] = Asked
      /\ Len(sent) <= host.reply.req + abandoned

(* The three commands of a check, each still ahead of the firmware, with   *)
(* it, or carried out with nothing older to come.                          *)
Check == <<"upload", "run", "results">>
Strip(req) == [i \in 1..proto.args["upload"] |-> [req |-> req, part |-> i]]
Uploaded == Len(sent) - StepsSent + 1
Ahead(req) == \E j \in 1..Len(down) : Queued(j) /\ down[j].req = req
With(req) == fw.at \in {"read", "magic"} /\ fw.req = req
Behindhand(req) ==
    /\ \A j \in 1..Len(down) : Queued(j) => down[j].req > req
    /\ fw.at \in {"read", "magic"} => fw.req > req
Settled(req, strip) == Ahead(req) \/ With(req) \/ (strip = Strip(Uploaded) /\ Behindhand(req))
StripSent == StepsSent >= 1 => Settled(Uploaded, store)
StripRun == StepsSent >= 2 => Settled(Uploaded + 1, result)
StripBack ==
    StepsSent = 3 =>
      /\ \A i \in 1..Len(up) :
           PayloadOf(up[i], "results", Uploaded + 2) => up[i].of = Strip(Uploaded)
      /\ host.at = "taken" /\ host.reply.req = Uploaded + 2
           => host.reply.of = Strip(Uploaded)
CheckInv == host.op = Check => StripSent /\ StripRun /\ StripBack

InStepInv == InStep /\ Ordered /\ Lag /\ Replied /\ CheckInv
IInv == Types /\ Paired /\ OwnCommands /\ (~cut => InStepInv)

-----------------------------------------------------------------------------
(* Sequences *)

LEMMA FirstOf ==
  ASSUME NEW S, NEW s \in Seq(S)
  PROVE  /\ Len(s) \in Nat
         /\ s # << >> <=> Len(s) >= 1
         /\ \A i \in 1..Len(s) : s[i] \in S
         /\ s # << >> => Head(s) = s[1]
  OBVIOUS

LEMMA TailOf ==
  ASSUME NEW S, NEW s \in Seq(S), s # << >>
  PROVE  /\ Tail(s) \in Seq(S)
         /\ Len(Tail(s)) = Len(s) - 1
         /\ \A i \in 1..(Len(s) - 1) : Tail(s)[i] = s[i + 1]
  OBVIOUS

LEMMA AppendOf ==
  ASSUME NEW S, NEW s \in Seq(S), NEW e \in S
  PROVE  /\ Append(s, e) \in Seq(S)
         /\ Len(Append(s, e)) = Len(s) + 1
         /\ \A i \in 1..Len(s) : Append(s, e)[i] = s[i]
         /\ Append(s, e)[Len(s) + 1] = e
  OBVIOUS

LEMMA KeptOf ==
  ASSUME NEW S, NEW s \in Seq(S), NEW n \in 0..Len(s)
  PROVE  /\ SubSeq(s, 1, n) \in Seq(S)
         /\ Len(SubSeq(s, 1, n)) = n
         /\ \A i \in 1..n : SubSeq(s, 1, n)[i] = s[i]
<1>1. \A i \in 1..n : s[i] \in S
  OBVIOUS
<1>2. QED
  BY <1>1, SubSeqProperties

LEMMA RestOf ==
  ASSUME NEW S, NEW s \in Seq(S), NEW n \in 0..Len(s)
  PROVE  /\ SubSeq(s, n + 1, Len(s)) \in Seq(S)
         /\ Len(SubSeq(s, n + 1, Len(s))) = Len(s) - n
         /\ \A i \in 1..(Len(s) - n) : SubSeq(s, n + 1, Len(s))[i] = s[n + i]
<1> DEFINE k == Len(s)
           r == SubSeq(s, n + 1, k)
<1>1. \A i \in (n + 1)..k : s[i] \in S
  OBVIOUS
<1>2. n + 1 \in Int /\ k \in Int /\ n \in 0..k
  OBVIOUS
<1>3. /\ r \in Seq(S)
      /\ Len(r) = IF n + 1 <= k THEN k - (n + 1) + 1 ELSE 0
      /\ \A i \in 1..(k - (n + 1) + 1) : r[i] = s[n + 1 + i - 1]
  <2> HIDE DEF k
  <2> QED BY <1>1, <1>2, SubSeqProperties
<1> HIDE DEF k, r
<1>4. Len(r) = k - n
  BY <1>2, <1>3
<1>5. ASSUME NEW i \in 1..(k - n) PROVE r[i] = s[n + i]
  <2>1. i \in 1..(k - (n + 1) + 1) /\ n + 1 + i - 1 = n + i
    BY <1>2
  <2>2. r[i] = s[n + 1 + i - 1]
    BY <1>3, <2>1
  <2> QED BY <2>1, <2>2
<1>6. r \in Seq(S) /\ Len(r) = k - n /\ \A i \in 1..(k - n) : r[i] = s[n + i]
  BY <1>3, <1>4, <1>5
<1>7. QED
  BY <1>6 DEF k, r

LEMMA ConcatOf ==
  ASSUME NEW S, NEW s \in Seq(S), NEW t \in Seq(S)
  PROVE  /\ s \o t \in Seq(S)
         /\ Len(s \o t) = Len(s) + Len(t)
         /\ \A i \in 1..Len(s) : (s \o t)[i] = s[i]
         /\ \A i \in 1..Len(t) : (s \o t)[Len(s) + i] = t[i]
  OBVIOUS

-----------------------------------------------------------------------------
(* What a step does *)

(* A command and its arguments. *)
Request(looks, req) ==
    <<[type |-> "command", kind |-> Asked, req |-> req]>> \o Arguments(Asked, looks, req)

LEMMA RequestIs ==
  ASSUME NEW looks \in Looks, NEW req \in Requests, proto \in Protocols, Asked \in Commands
  PROVE  /\ Request(looks, req) \in Seq(DownTokens)
         /\ proto.args[Asked] \in Nat
         /\ Len(Request(looks, req)) = proto.args[Asked] + 1
         /\ Request(looks, req)[1] = [type |-> "command", kind |-> Asked, req |-> req]
         /\ \A i \in 2..(proto.args[Asked] + 1) :
              Request(looks, req)[i] = [type |-> "argument", kind |-> looks, req |-> req, part |-> i - 1]
<1> DEFINE n == proto.args[Asked]
           command == [type |-> "command", kind |-> Asked, req |-> req]
           args == Arguments(Asked, looks, req)
<1>1. n \in Nat
  BY ProtocolAssumption DEF Commands
<1>2. command \in DownTokens
  BY DEF DownTokens
<1>3. args = [i \in 1..n |-> [type |-> "argument", kind |-> looks, req |-> req, part |-> i]]
  BY DEF Arguments
<1>4. \A i \in 1..n : [type |-> "argument", kind |-> looks, req |-> req, part |-> i] \in DownTokens
  BY <1>1 DEF DownTokens
<1>5. args \in [1..n -> DownTokens]
  BY <1>3, <1>4
<1> HIDE DEF n, command
<1>6. args \in Seq(DownTokens) /\ Len(args) = n
  <2> HIDE DEF args
  <2> QED BY <1>1, <1>5
<1>7. \A i \in 1..n : args[i] = [type |-> "argument", kind |-> looks, req |-> req, part |-> i]
  BY <1>3
<1> HIDE DEF args
<1>8. <<command>> \in Seq(DownTokens) /\ Len(<<command>>) = 1 /\ <<command>>[1] = command
  BY <1>2
<1> DEFINE c == <<command>>
<1> HIDE DEF c
<1>9. /\ c \o args \in Seq(DownTokens) /\ Len(c \o args) = Len(c) + Len(args)
      /\ \A i \in 1..Len(c) : (c \o args)[i] = c[i]
      /\ \A i \in 1..Len(args) : (c \o args)[Len(c) + i] = args[i]
  BY <1>6, <1>8, ConcatOf DEF c
<1>10. Len(c) = 1 /\ c[1] = command
  BY <1>8 DEF c
<1>11. /\ c \o args \in Seq(DownTokens) /\ Len(c \o args) = n + 1
       /\ (c \o args)[1] = command
       /\ \A i \in 1..n : (c \o args)[1 + i] = args[i]
  BY <1>1, <1>6, <1>9, <1>10
<1>12. \A i \in 2..(n + 1) : i - 1 \in 1..n /\ 1 + (i - 1) = i
  BY <1>1
<1>13. ASSUME NEW i \in 2..(n + 1)
       PROVE  (c \o args)[i] = [type |-> "argument", kind |-> looks, req |-> req, part |-> i - 1]
  <2>1. i - 1 \in 1..n /\ 1 + (i - 1) = i
    BY <1>12
  <2>2. (c \o args)[1 + (i - 1)] = args[i - 1]
    BY <1>11, <2>1
  <2> QED BY <1>7, <2>1, <2>2
<1>14. Request(looks, req) = c \o args
  BY DEF Request, c, command, args
<1>15. QED
  BY <1>1, <1>11, <1>13, <1>14 DEF n, command

LEMMA ArgumentsAre ==
  ASSUME NEW looks \in Looks, NEW req \in Requests, proto \in Protocols, Asked \in Commands
  PROVE  Arguments(Asked, looks, req) \in Seq(DownTokens)
<1> DEFINE n == proto.args[Asked]
<1>1. n \in Nat
  BY ProtocolAssumption DEF Commands
<1>2. \A i \in 1..n : [type |-> "argument", kind |-> looks, req |-> req, part |-> i] \in DownTokens
  BY <1>1 DEF DownTokens
<1>3. Arguments(Asked, looks, req) \in [1..n -> DownTokens]
  BY <1>2 DEF Arguments
<1> HIDE DEF n
<1>4. QED
  BY <1>1, <1>3
LEMMA LeastOf ==
  ASSUME NEW n \in Nat, NEW S \in SUBSET (1..n), S # {}
  PROVE  Min(S) \in S /\ \A y \in S : Min(S) <= y
<1> DEFINE R == StrictSubsetOrdering(1..n)
           T == {1..x : x \in S}
<1>1. T \subseteq FiniteSubsetsOf(1..n) /\ T # {}
  <2>1. ASSUME NEW x \in S PROVE 1..x \in FiniteSubsetsOf(1..n)
    BY FS_Interval DEF FiniteSubsetsOf
  <2> QED BY <2>1
<1>2. \E t \in T : \A u \in T : ~(<<u, t>> \in R)
  <2> HIDE DEF R, T
  <2>1. IsWellFoundedOn(R, FiniteSubsetsOf(1..n))
    BY FS_StrictSubsetOrderingWellFounded DEF R
  <2> QED BY <1>1, <2>1, WFMin
<1>3. PICK m \in S : \A x \in S : ~(<<1..x, 1..m>> \in R)
  BY <1>2
<1>4. ASSUME NEW x \in S PROVE m <= x
  <2>1. SUFFICES ASSUME x < m PROVE FALSE
    OBVIOUS
  <2>2. 1..x \subseteq 1..m /\ m \in 1..m /\ m \notin 1..x /\ 1..m \subseteq 1..n
    BY <2>1
  <2>3. <<1..x, 1..m>> \in R
    BY <2>2 DEF StrictSubsetOrdering
  <2> QED BY <1>3, <2>3
<1>5. QED
  BY <1>4 DEF Min

(* What is on the wire after a step. *)
Drops(n) ==
    /\ n \in 0..Len(up) /\ Len(up') = Len(up) - n
    /\ \A i \in 1..Len(up') : up'[i] = up[n + i]
Grows(t) ==
    /\ Len(up') = Len(up) + 1 /\ up'[Len(up) + 1] = t
    /\ \A i \in 1..Len(up) : up'[i] = up[i]

LEMMA UpTyped ==
  ASSUME Types
  PROVE  up \in Seq(UpTokens) /\ Len(up) \in Nat /\ \A i \in 1..Len(up) : up[i] \in UpTokens
BY FirstOf DEF Types

LEMMA DownTyped ==
  ASSUME Types
  PROVE  down \in Seq(DownTokens) /\ Len(down) \in Nat /\ \A i \in 1..Len(down) : down[i] \in DownTokens
BY FirstOf DEF Types

LEMMA DownTaken ==
  ASSUME Types, FwCommand \/ FwRead
  PROVE  /\ Len(down) >= 1 /\ Head(down) = down[1] /\ down[1] \in DownTokens
         /\ down' \in Seq(DownTokens) /\ Len(down') = Len(down) - 1
         /\ \A i \in 1..Len(down') : down'[i] = down[i + 1]
<1>1. down # << >> /\ down' = Tail(down)
  BY DEF FwCommand, FwRead
<1>2. Len(down) >= 1 /\ Head(down) = down[1] /\ down[1] \in DownTokens
  BY <1>1, DownTyped, FirstOf
<1>3. /\ down' \in Seq(DownTokens) /\ Len(down') = Len(down) - 1
      /\ \A i \in 1..(Len(down) - 1) : down'[i] = down[i + 1]
  BY <1>1, DownTyped, TailOf
<1> QED
  BY <1>2, <1>3

LEMMA AppendGrows ==
  ASSUME Types, NEW t \in UpTokens, up' = Append(up, t)
  PROVE  Grows(t) /\ up' \in Seq(UpTokens)
BY UpTyped, AppendOf DEF Grows

LEMMA RestDrops ==
  ASSUME Types, NEW n \in 0..Len(up), up' = Rest(n)
  PROVE  Drops(n) /\ up' \in Seq(UpTokens)
<1>1. /\ up' \in Seq(UpTokens) /\ Len(up') = Len(up) - n
      /\ \A i \in 1..(Len(up) - n) : up'[i] = up[n + i]
  BY UpTyped, RestOf DEF Rest
<1> QED
  BY <1>1 DEF Drops

LEMMA EmptyDrops ==
  ASSUME Types, up' = << >>
  PROVE  Drops(Len(up)) /\ up' \in Seq(UpTokens)
BY UpTyped DEF Drops

LEMMA TailDrops ==
  ASSUME Types, up # << >>, up' = Tail(up)
  PROVE  Drops(1) /\ up' \in Seq(UpTokens) /\ Len(up) >= 1 /\ Head(up) = up[1] /\ up[1] \in UpTokens
<1>1. Len(up) >= 1 /\ Head(up) = up[1] /\ up[1] \in UpTokens
  BY UpTyped, FirstOf
<1>2. /\ up' \in Seq(UpTokens) /\ Len(up') = Len(up) - 1
      /\ \A i \in 1..(Len(up) - 1) : up'[i] = up[i + 1]
  BY UpTyped, TailOf
<1>3. \A i \in 1..Len(up') : up'[i] = up[1 + i]
  BY <1>1, <1>2, UpTyped
<1> QED
  BY <1>1, <1>2, <1>3, UpTyped DEF Drops

(* The magic _sync stops at. *)
LEMMA FirstAnswer ==
  ASSUME Types, Answer # {}
  PROVE  /\ Min(Answer) \in 1..Len(up)
         /\ up[Min(Answer)].type = "magic" /\ up[Min(Answer)].kind = Asked
         /\ up[Min(Answer)] \in UpTokens
         /\ \A i \in 1..Len(up) : up[i].type = "magic" /\ up[i].kind = Asked => Min(Answer) <= i
<1>1. DOMAIN up = 1..Len(up) /\ Len(up) \in Nat
  BY UpTyped
<1>2. Answer \in SUBSET (1..Len(up))
  BY <1>1 DEF Answer
<1>3. Min(Answer) \in Answer /\ \A i \in Answer : Min(Answer) <= i
  BY <1>1, <1>2, LeastOf
<1> QED
  BY <1>1, <1>2, <1>3, UpTyped DEF Answer

LEMMA SyncDrops ==
  ASSUME Types, Sync
  PROVE  Drops(Min(Answer)) /\ up' \in Seq(UpTokens)
BY FirstAnswer, UpTyped, RestDrops DEF Sync

LEMMA DownKept ==
  ASSUME Types, NEW kept \in 0..Len(down), down' = SubSeq(down, 1, kept)
  PROVE  /\ down' \in Seq(DownTokens) /\ Len(down') = kept
         /\ \A i \in 1..Len(down') : down'[i] = down[i]
BY DownTyped, KeptOf

LEMMA AskedIs ==
  ASSUME Types, host.at # "idle"
  PROVE  /\ host.op \in proto.operations /\ host.step \in 1..Len(host.op)
         /\ host.op \in Seq(Commands) /\ Len(host.op) \in Nat /\ Asked \in Commands
         /\ \A i \in 1..Len(host.op) : host.op[i] \in Commands
<1>1. host.op \in proto.operations /\ host.step \in 1..Len(host.op)
  BY DEF Types, HostTypes
<1>2. host.op \in Seq(Commands)
  BY <1>1, ProtocolAssumption DEF Types, Commands
<1> QED
  BY <1>1, <1>2, FirstOf DEF Asked

LEMMA SendPuts ==
  ASSUME Types, NEW looks \in Looks, Send(looks)
  PROVE  /\ sent' = Append(sent, Asked) /\ Len(sent) \in Nat /\ Len(sent') = Len(sent) + 1
         /\ Len(sent') \in Requests /\ Asked \in Commands
         /\ \A r \in 1..Len(sent) : sent'[r] = sent[r]
         /\ sent'[Len(sent')] = Asked /\ sent' \in Seq(Commands)
         /\ down' \in Seq(DownTokens) /\ proto.args[Asked] \in Nat
         /\ Len(down') = Len(down) + proto.args[Asked] + 1
         /\ \A i \in 1..Len(down) : down'[i] = down[i]
         /\ down'[Len(down) + 1] = [type |-> "command", kind |-> Asked, req |-> Len(sent')]
         /\ \A i \in 2..(proto.args[Asked] + 1) : down'[Len(down) + i] =
              [type |-> "argument", kind |-> looks, req |-> Len(sent'), part |-> i - 1]
<1> DEFINE req == Len(sent')
           request == Request(looks, req)
<1>1. sent \in Seq(Commands) /\ proto \in Protocols /\ Len(sent) \in Nat
  BY DEF Types
<1>2. sent' = Append(sent, Asked) /\ Len(sent) < MaxSent /\ host.at = "send"
  BY DEF Send
<1>3. Asked \in Commands
  BY <1>2, AskedIs
<1>4. /\ sent' \in Seq(Commands) /\ Len(sent') = Len(sent) + 1
      /\ \A r \in 1..Len(sent) : sent'[r] = sent[r]
      /\ sent'[Len(sent')] = Asked
  BY <1>1, <1>2, <1>3, AppendOf
<1>5. req \in Requests
  BY <1>1, <1>2, <1>4, BoundAssumption DEF Requests
<1>6. down' = down \o request
  <2>1. down' = (down \o <<[type |-> "command", kind |-> Asked, req |-> req]>>) \o Arguments(Asked, looks, req)
    BY DEF Send
  <2>2. <<[type |-> "command", kind |-> Asked, req |-> req]>> \in Seq(DownTokens)
    BY <1>3, <1>5 DEF DownTokens
  <2>3. Arguments(Asked, looks, req) \in Seq(DownTokens)
    BY <1>1, <1>3, <1>5, ArgumentsAre
  <2>4. (down \o <<[type |-> "command", kind |-> Asked, req |-> req]>>) \o Arguments(Asked, looks, req)
        = down \o (<<[type |-> "command", kind |-> Asked, req |-> req]>> \o Arguments(Asked, looks, req))
    BY <2>2, <2>3, DownTyped, ConcatAssociative
  <2> QED BY <2>1, <2>4 DEF Request
<1> HIDE DEF req
<1>7. /\ request \in Seq(DownTokens)
      /\ proto.args[Asked] \in Nat
      /\ Len(request) = proto.args[Asked] + 1
      /\ request[1] = [type |-> "command", kind |-> Asked, req |-> req]
      /\ \A i \in 2..(proto.args[Asked] + 1) :
           request[i] = [type |-> "argument", kind |-> looks, req |-> req, part |-> i - 1]
  BY <1>1, <1>3, <1>5, RequestIs
<1> HIDE DEF request
<1>8. /\ down' \in Seq(DownTokens) /\ Len(down') = Len(down) + Len(request)
      /\ \A i \in 1..Len(down) : down'[i] = down[i]
      /\ \A i \in 1..Len(request) : down'[Len(down) + i] = request[i]
  BY <1>6, <1>7, DownTyped, ConcatOf
<1>9. 1 \in 1..Len(request) /\ \A i \in 2..(proto.args[Asked] + 1) : i \in 1..Len(request)
  BY <1>7
<1>10. ASSUME NEW i \in 2..(proto.args[Asked] + 1)
       PROVE  down'[Len(down) + i] = [type |-> "argument", kind |-> looks, req |-> req, part |-> i - 1]
  <2>1. down'[Len(down) + i] = request[i]
    BY <1>8, <1>9
  <2> QED BY <1>7, <2>1
<1>11. Len(down') = Len(down) + proto.args[Asked] + 1
  BY <1>7, <1>8, DownTyped
<1>12. down'[Len(down) + 1] = [type |-> "command", kind |-> Asked, req |-> req]
  <2>1. down'[Len(down) + 1] = request[1]
    BY <1>8, <1>9
  <2> QED BY <1>7, <2>1
<1>13. QED
  BY <1>1, <1>2, <1>3, <1>4, <1>5, <1>7, <1>8, <1>10, <1>11, <1>12 DEF req

-----------------------------------------------------------------------------
(* Types and pairs *)

LEMMA InitIInv == Init => IInv
<1> SUFFICES ASSUME Init PROVE IInv
  OBVIOUS
<1> USE DEF Init
<1>1. Types
  <2>1. 0 \in Requests /\ << >> \in Seq(Parts)
    BY BoundAssumption DEF Requests
  <2>2. FwTypes
    BY <2>1 DEF FwTypes, AtLoop
  <2>3. HostTypes
    BY <2>1 DEF HostTypes, AtRest, Waiting
  <2>4. sent \in Seq(Commands) /\ Len(sent) <= MaxSent /\ session \in 0..Len(sent)
    BY BoundAssumption
  <2>5. abandoned = 0 /\ cut = FALSE /\ MaxAbandoned \in Nat
    BY BoundAssumption
  <2>6. proto \in Protocols /\ down \in Seq(DownTokens) /\ up \in Seq(UpTokens)
        /\ store \in Seq(Parts) /\ result \in Seq(Parts)
    OBVIOUS
  <2> HIDE DEF Init
  <2>7. abandoned \in 0..MaxAbandoned
    BY <2>5
  <2>8. cut \in BOOLEAN
    BY <2>5
  <2> QED BY <2>2, <2>3, <2>4, <2>6, <2>7, <2>8 DEF Types
<1>2. Paired
  BY DEF Paired, Pairs, PayloadToCome, AtRest
<1>3. OwnCommands
  BY DEF OwnCommands, StepsSent, AtRest
<1>4. InStep /\ Ordered
  BY DEF InStep, Owned, Whole, Reading, Ordered, AtLoop
<1>5. Lag /\ Replied
  BY DEF Lag, Replied, AtRest, AtLoop
<1>6. CheckInv
  BY DEF CheckInv, AtRest, Check
<1> QED
  BY <1>1, <1>2, <1>3, <1>4, <1>5, <1>6 DEF IInv, InStepInv

LEMMA ProtoStays ==
  ASSUME [Next]_vars
  PROVE  proto' = proto /\ Commands' = Commands
BY DEF Next, Firmware, Driver, FwCommand, FwRead, FwMagic, FwPayload, Begin, Send, Sync, Read,
       Taken, Drain, TimesOut, Close, vars, Commands

LEMMA AtLoopTyped ==
  ASSUME fw' = AtLoop
  PROVE  FwTypes'
<1>1. 0 \in Requests' /\ << >> \in Seq(Parts')
  BY BoundAssumption DEF Requests
<1> QED
  BY <1>1 DEF FwTypes, AtLoop

LEMMA TypesStep ==
  ASSUME Types, Paired, [Next]_vars
  PROVE  Types'
<1> DEFINE Wires == down' \in Seq(DownTokens) /\ up' \in Seq(UpTokens)
           Stores == store' \in Seq(Parts) /\ result' \in Seq(Parts)
           Counts == /\ sent' \in Seq(Commands) /\ Len(sent') <= MaxSent /\ session' \in 0..Len(sent')
                     /\ abandoned' \in 0..MaxAbandoned /\ cut' \in BOOLEAN
<1>1. proto' = proto /\ Commands' = Commands /\ proto' \in Protocols
      /\ DownTokens' = DownTokens /\ UpTokens' = UpTokens
  BY ProtoStays DEF Types, DownTokens, UpTokens, Requests, Parts
<1>2. Wires /\ FwTypes' /\ HostTypes' /\ Stores /\ Counts => Types'
  BY <1>1 DEF Types
<1> HIDE DEF Wires, Stores, Counts
<1>3. /\ down \in Seq(DownTokens) /\ up \in Seq(UpTokens) /\ store \in Seq(Parts) /\ result \in Seq(Parts)
      /\ sent \in Seq(Commands) /\ Len(sent) <= MaxSent /\ session \in 0..Len(sent)
      /\ abandoned \in 0..MaxAbandoned /\ cut \in BOOLEAN /\ Len(sent) \in Nat
      /\ MaxSent \in Nat /\ MaxAbandoned \in Nat
  BY BoundAssumption DEF Types
<1>4. FwTypes /\ HostTypes
  BY DEF Types
<1>5. ASSUME UNCHANGED fw PROVE FwTypes'
  BY <1>1, <1>4, <1>5 DEF FwTypes
<1>6. ASSUME UNCHANGED host PROVE HostTypes'
  BY <1>1, <1>4, <1>6 DEF HostTypes
<1>7. ASSUME host' = AtRest PROVE HostTypes'
  <2>1. 0 \in Requests /\ << >> \in Seq(Parts) /\ Requests' = Requests /\ Parts' = Parts
    BY <1>3 DEF Requests, Parts
  <2>2. AtRest \in [at : {"idle", "send", "sync", "payload", "drain", "taken"},
                    op : proto.operations \cup {<< >>}, step : Nat, retried : BOOLEAN,
                    reply : [req : Requests, of : Seq(Parts)]] /\ AtRest.at = "idle"
    BY <2>1 DEF AtRest, Waiting
  <2> QED BY <1>1, <1>7, <2>1, <2>2 DEF HostTypes
<1>8. CASE FwCommand
  <2>1. UNCHANGED <<proto, up, store, result, host, sent, history>>
    BY <1>8 DEF FwCommand
  <2>2. down' \in Seq(DownTokens) /\ Head(down) = down[1] /\ down[1] \in DownTokens
    BY <1>8, DownTaken
  <2>4. FwTypes'
    <3>1. CASE down[1].kind \in Commands
      <4>1. fw' = [at |-> IF proto.args[down[1].kind] > 0 THEN "read" ELSE "magic",
                   kind |-> down[1].kind, req |-> down[1].req, read |-> << >>]
        BY <1>8, <2>2, <3>1 DEF FwCommand, Commands
      <4>2. down[1].req \in Requests /\ << >> \in Seq(Parts)
        BY <2>2 DEF DownTokens
      <4> QED BY <1>1, <3>1, <4>1, <4>2 DEF FwTypes
    <3>2. CASE down[1].kind \notin Commands
      <4>1. fw' = AtLoop
        BY <1>8, <2>2, <3>2 DEF FwCommand, Commands
      <4> QED BY <4>1, AtLoopTyped
    <3> QED BY <3>1, <3>2
  <2>5. Wires /\ Stores /\ Counts
    BY <1>3, <2>1, <2>2 DEF history, Wires, Stores, Counts
  <2> QED BY <1>2, <1>6, <2>1, <2>4, <2>5
<1>9. CASE FwRead
  <2>1. UNCHANGED <<proto, up, store, result, host, sent, history>>
    BY <1>9 DEF FwRead
  <2>2. down' \in Seq(DownTokens) /\ Head(down) = down[1] /\ down[1] \in DownTokens
    BY <1>9, DownTaken
  <2>3. FwTypes'
    <3>1. PartOf(down[1]) \in Parts
      BY <2>2 DEF PartOf, Parts, DownTokens
    <3>2. Append(fw.read, PartOf(down[1])) \in Seq(Parts)
      BY <1>4, <3>1 DEF FwTypes
    <3>3. fw' = [fw EXCEPT !.read = Append(fw.read, PartOf(down[1])),
                           !.at = IF Len(fw.read) + 1 = proto.args[fw.kind] THEN "magic" ELSE "read"]
      BY <1>9, <2>2 DEF FwRead
    <3>4. fw.at = "read"
      BY <1>9 DEF FwRead
    <3> HIDE DEF PartOf
    <3> QED BY <1>1, <1>4, <3>2, <3>3, <3>4 DEF FwTypes
  <2>4. Wires /\ Stores /\ Counts
    BY <1>3, <2>1, <2>2 DEF history, Wires, Stores, Counts
  <2> QED BY <1>2, <1>6, <2>1, <2>3, <2>4
<1>10. CASE FwMagic
  <2>1. UNCHANGED <<proto, down, host, sent, history>> /\ fw.at = "magic"
    BY <1>10 DEF FwMagic
  <2>2. fw.kind \in Commands /\ fw.req \in Requests /\ fw.read \in Seq(Parts)
    BY <1>4, <2>1 DEF FwTypes
  <2>3. [type |-> "magic", kind |-> fw.kind, req |-> fw.req] \in UpTokens
    BY <2>2 DEF UpTokens
  <2>4. up' \in Seq(UpTokens)
    BY <1>10, <2>3, AppendGrows DEF FwMagic
  <2>5. FwTypes'
    <3>1. CASE proto.payload[fw.kind]
      <4>1. fw' = [fw EXCEPT !.at = "payload"]
        BY <1>10, <3>1 DEF FwMagic
      <4> QED BY <1>1, <1>4, <2>1, <4>1 DEF FwTypes
    <3>2. CASE ~proto.payload[fw.kind]
      <4>1. fw' = AtLoop
        BY <1>10, <3>2 DEF FwMagic
      <4> QED BY <4>1, AtLoopTyped
    <3> QED BY <3>1, <3>2
  <2>6. Stores
    BY <1>3, <1>10, <2>2 DEF FwMagic, Wires, Stores, Counts
  <2>7. Wires /\ Counts
    BY <1>3, <2>1, <2>4 DEF history, Wires, Stores, Counts
  <2> QED BY <1>2, <1>6, <2>1, <2>5, <2>6, <2>7
<1>11. CASE FwPayload
  <2>1. UNCHANGED <<proto, down, store, result, host, sent, history>> /\ fw.at = "payload"
    BY <1>11 DEF FwPayload
  <2>2. fw.kind \in Commands /\ fw.req \in Requests
    BY <1>4, <2>1 DEF FwTypes
  <2>3. [type |-> "payload", kind |-> fw.kind, req |-> fw.req,
         of |-> IF fw.kind = "results" THEN result ELSE store] \in UpTokens
    BY <1>3, <2>2 DEF UpTokens
  <2>4. up' \in Seq(UpTokens)
    BY <1>11, <2>3, AppendGrows DEF FwPayload
  <2>5. FwTypes'
    BY <1>11, AtLoopTyped DEF FwPayload
  <2>6. Wires /\ Stores /\ Counts
    BY <1>3, <2>1, <2>4 DEF history, Wires, Stores, Counts
  <2> QED BY <1>2, <1>6, <2>1, <2>5, <2>6
<1>12. ASSUME NEW op \in proto.operations, Begin(op) PROVE Types'
  <2>1. UNCHANGED <<proto, down, up, board, sent, history>>
    BY <1>12 DEF Begin
  <2>2. op \in Seq(Commands) /\ op # << >>
    BY <1>12, ProtocolAssumption DEF Types, Commands
  <2>3. 1 \in 1..Len(op) /\ 0 \in Requests
    BY <1>3, <2>2 DEF Requests
  <2>4. host' = [at |-> "send", op |-> op, step |-> 1, retried |-> FALSE,
                 reply |-> [req |-> 0, of |-> << >>]]
    BY <1>12 DEF Begin, AtRest, Waiting
  <2>5. HostTypes'
    BY <1>1, <2>3, <2>4 DEF HostTypes
  <2>6. Wires /\ Stores /\ Counts
    BY <1>3, <2>1 DEF history, board, Wires, Stores, Counts
  <2> QED BY <1>2, <1>5, <2>1, <2>5, <2>6 DEF board
<1>13. ASSUME NEW looks \in Looks, Send(looks) PROVE Types'
  <2>1. UNCHANGED <<proto, up, board, history>> /\ host' = [host EXCEPT !.at = "sync"] /\ host.at = "send"
        /\ Len(sent) < MaxSent
    BY <1>13 DEF Send
  <2>2. down' \in Seq(DownTokens) /\ sent' \in Seq(Commands) /\ Len(sent') = Len(sent) + 1
    BY <1>13, SendPuts
  <2>3. HostTypes'
    BY <1>1, <1>4, <2>1 DEF HostTypes
  <2>4. Wires /\ Stores /\ Counts
    BY <1>3, <2>1, <2>2 DEF history, board, Wires, Stores, Counts
  <2> QED BY <1>2, <1>5, <2>1, <2>3, <2>4 DEF board
<1>14. CASE Sync
  <2>1. UNCHANGED <<proto, down, board, sent, history>> /\ host.at = "sync" /\ Answer # {}
    BY <1>14 DEF Sync
  <2>2. up' \in Seq(UpTokens) /\ up[Min(Answer)] \in UpTokens
    BY <1>14, <2>1, SyncDrops, FirstAnswer
  <2> DEFINE req == up[Min(Answer)].req
  <2>3. req \in Requests
    BY <2>2 DEF UpTokens
  <2>4. host' = [host EXCEPT !.at = IF proto.payload[Asked] THEN "payload" ELSE "taken",
                             !.reply = [req |-> req, of |-> << >>]]
    <3>1. [Waiting EXCEPT !.req = req] = [req |-> req, of |-> << >>]
      BY DEF Waiting
    <3> QED BY <1>14, <3>1 DEF Sync
  <2> HIDE DEF req
  <2>5. HostTypes'
    <3>1. [req |-> req, of |-> << >>] \in [req : Requests, of : Seq(Parts)] /\ Requests' = Requests /\ Parts' = Parts
      BY <2>3 DEF Requests, Parts
    <3> DEFINE reply == [req |-> req, of |-> << >>]
               at == IF proto.payload[Asked] THEN "payload" ELSE "taken"
    <3>2. at \in {"payload", "taken"} /\ host' = [host EXCEPT !.at = at, !.reply = reply]
      BY <2>4
    <3> HIDE DEF reply, at
    <3>3. reply \in [req : Requests, of : Seq(Parts)]
      BY <3>1 DEF reply
    <3> QED BY <1>1, <1>4, <2>1, <3>1, <3>2, <3>3 DEF HostTypes
  <2>6. Wires /\ Stores /\ Counts
    BY <1>3, <2>1, <2>2 DEF history, board, Wires, Stores, Counts
  <2> QED BY <1>2, <1>5, <2>1, <2>5, <2>6 DEF board
<1>15. CASE Read
  <2>1. UNCHANGED <<proto, down, board, sent, history>> /\ host.at = "payload" /\ up # << >>
    BY <1>15 DEF Read
  <2>2. up' \in Seq(UpTokens) /\ Head(up) = up[1] /\ up[1] \in UpTokens
    BY <1>15, <2>1, TailDrops DEF Read
  <2>3. up[1].type = "payload"
    BY <2>1 DEF Paired, PayloadToCome, PayloadOf
  <2>4. up[1].of \in Seq(Parts)
    BY <2>2, <2>3 DEF UpTokens
  <2>5. HostTypes'
    BY <1>1, <1>4, <1>15, <2>1, <2>2, <2>4 DEF HostTypes, Read
  <2>6. Wires /\ Stores /\ Counts
    BY <1>3, <2>1, <2>2 DEF history, board, Wires, Stores, Counts
  <2> QED BY <1>2, <1>5, <2>1, <2>5, <2>6 DEF board
<1>16. CASE Taken
  <2>1. UNCHANGED <<proto, down, up, board, sent, history>>
    BY <1>16 DEF Taken
  <2>2. HostTypes'
    <3>1. CASE host.step < Len(host.op)
      <4>1. host' = [host EXCEPT !.at = "send", !.step = host.step + 1, !.retried = FALSE]
            /\ host.at = "taken"
        BY <1>16, <3>1 DEF Taken
      <4>2. host.step + 1 \in 1..Len(host.op) /\ host.step + 1 \in Nat
        BY <3>1, <4>1, AskedIs
      <4> QED BY <1>1, <1>4, <4>1, <4>2 DEF HostTypes
    <3>2. CASE ~(host.step < Len(host.op))
      BY <1>7, <1>16, <3>2 DEF Taken
    <3> QED BY <3>1, <3>2
  <2>3. Wires /\ Stores /\ Counts
    BY <1>3, <2>1 DEF history, board, Wires, Stores, Counts
  <2> QED BY <1>2, <1>5, <2>1, <2>2, <2>3 DEF board
<1>17. CASE TimesOut
  <2>1. UNCHANGED <<proto, down, board, sent, session, cut>> /\ abandoned < MaxAbandoned
        /\ abandoned' = abandoned + 1 /\ up' = << >> /\ host.at # "idle"
    BY <1>17 DEF TimesOut, Silent
  <2>2. HostTypes'
    <3>1. CASE Asked = "ping" /\ ~host.retried
      <4>1. host' = [host EXCEPT !.at = "drain", !.retried = TRUE]
        BY <1>17, <3>1 DEF TimesOut
      <4> QED BY <1>1, <1>4, <2>1, <4>1 DEF HostTypes
    <3>2. CASE ~(Asked = "ping" /\ ~host.retried)
      BY <1>7, <1>17, <3>2 DEF TimesOut
    <3> QED BY <3>1, <3>2
  <2>3. Wires /\ Stores /\ Counts
    BY <1>3, <2>1 DEF board, Wires, Stores, Counts
  <2> QED BY <1>2, <1>5, <2>1, <2>2, <2>3 DEF board
<1>18. CASE Drain
  <2>1. UNCHANGED <<proto, down, board, sent, history>> /\ up' = << >>
        /\ host' = [host EXCEPT !.at = "send"] /\ host.at = "drain"
    BY <1>18 DEF Drain
  <2>2. HostTypes'
    BY <1>1, <1>4, <2>1 DEF HostTypes
  <2>3. Wires /\ Stores /\ Counts
    BY <1>3, <2>1 DEF history, board, Wires, Stores, Counts
  <2> QED BY <1>2, <1>5, <2>1, <2>2, <2>3 DEF board
<1>19. ASSUME NEW kept \in 0..Len(down), NEW lost \in 0..Len(up), Close(kept, lost) PROVE Types'
  <2>1. UNCHANGED <<proto, board, sent>> /\ host' = AtRest /\ session' = Len(sent)
    BY <1>19 DEF Close
  <2>2. down' \in Seq(DownTokens) /\ up' \in Seq(UpTokens)
    BY <1>19, DownKept, RestDrops DEF Close
  <2>3. abandoned' \in 0..MaxAbandoned /\ cut' \in BOOLEAN
    BY <1>3, <1>19 DEF Close
  <2>4. Wires /\ Stores /\ Counts
    BY <1>3, <2>1, <2>2, <2>3 DEF board, Wires, Stores, Counts
  <2> QED BY <1>2, <1>5, <1>7, <2>1, <2>4 DEF board
<1>20. CASE UNCHANGED vars
  <2>1. Wires /\ Stores /\ Counts
    BY <1>3, <1>20 DEF vars, Wires, Stores, Counts
  <2> QED BY <1>2, <1>5, <1>6, <1>20, <2>1 DEF vars
<1> QED
  BY <1>8, <1>9, <1>10, <1>11, <1>12, <1>13, <1>14, <1>15, <1>16, <1>17, <1>18, <1>19, <1>20
     DEF Next, Firmware, Driver

LEMMA PairsKept ==
  ASSUME Types, Pairs, NEW n, Drops(n), UNCHANGED <<proto, fw>>
  PROVE  Pairs'
<1> SUFFICES ASSUME NEW i \in 1..Len(up'), Announces(up'[i])
             PROVE  IF i < Len(up') THEN PayloadOf(up'[i + 1], up'[i].kind, up'[i].req)
                    ELSE fw.at = "payload" /\ fw.kind = up'[i].kind /\ fw.req = up'[i].req
  BY DEF Pairs, Announces, PayloadOf
<1>1. Len(up) \in Nat /\ n \in 0..Len(up) /\ Len(up') = Len(up) - n
      /\ \A k \in 1..Len(up') : up'[k] = up[n + k]
  BY UpTyped DEF Drops
<1>2. n + i \in 1..Len(up) /\ up'[i] = up[n + i] /\ (i < Len(up') <=> n + i < Len(up))
  BY <1>1
<1>3. IF n + i < Len(up) THEN PayloadOf(up[n + i + 1], up[n + i].kind, up[n + i].req)
      ELSE fw.at = "payload" /\ fw.kind = up[n + i].kind /\ fw.req = up[n + i].req
  BY <1>2 DEF Pairs
<1>4. CASE i < Len(up')
  <2>1. i + 1 \in 1..Len(up') /\ n + (i + 1) = n + i + 1
    BY <1>1, <1>4
  <2>2. up'[i + 1] = up[n + i + 1]
    BY <1>1, <2>1
  <2> QED BY <1>2, <1>3, <1>4, <2>2
<1>5. CASE ~(i < Len(up'))
  BY <1>2, <1>3, <1>5
<1> QED
  BY <1>4, <1>5

LEMMA PairedStep ==
  ASSUME Types, Paired, [Next]_vars
  PROVE  Paired'
<1>1. Pairs /\ PayloadToCome /\ proto' = proto
  BY ProtoStays DEF Paired
<1>2. Len(up) \in Nat /\ \A i \in 1..Len(up) : up[i] \in UpTokens
  BY UpTyped
<1>3. ASSUME UNCHANGED <<up, fw>> PROVE Pairs'
  BY <1>1, <1>3 DEF Pairs, Announces, PayloadOf
<1>4. ASSUME host'.at # "payload" PROVE PayloadToCome'
  BY <1>4 DEF PayloadToCome
<1>5. CASE FwCommand \/ FwRead
  <2>1. UNCHANGED <<up, host>> /\ fw.at # "payload"
    BY <1>5 DEF FwCommand, FwRead
  <2>2. Pairs'
    BY <1>1, <2>1 DEF Pairs, Announces, PayloadOf
  <2>3. PayloadToCome'
    BY <1>1, <2>1 DEF PayloadToCome, PayloadOf, Asked
  <2> QED BY <2>2, <2>3 DEF Paired
<1>6. CASE FwMagic
  <2> DEFINE t == [type |-> "magic", kind |-> fw.kind, req |-> fw.req]
  <2>1. UNCHANGED host /\ fw.at = "magic" /\ up' = Append(up, t)
    BY <1>6 DEF FwMagic
  <2>2. t \in UpTokens
    BY <2>1 DEF UpTokens, Types, FwTypes
  <2>3. Grows(t)
    BY <2>1, <2>2, AppendGrows
  <2>4. Pairs'
    <3> SUFFICES ASSUME NEW i \in 1..Len(up'), Announces(up'[i])
                 PROVE  IF i < Len(up') THEN PayloadOf(up'[i + 1], up'[i].kind, up'[i].req)
                        ELSE fw'.at = "payload" /\ fw'.kind = up'[i].kind /\ fw'.req = up'[i].req
      BY <1>1 DEF Pairs, Announces, PayloadOf
    <3>1. CASE i = Len(up) + 1
      <4>1. up'[i] = t /\ ~(i < Len(up'))
        BY <1>2, <2>3, <3>1 DEF Grows
      <4>2. proto.payload[fw.kind]
        BY <4>1 DEF Announces
      <4>3. fw' = [fw EXCEPT !.at = "payload"]
        BY <1>6, <4>2 DEF FwMagic
      <4>4. fw'.at = "payload" /\ fw'.kind = fw.kind /\ fw'.req = fw.req
        BY <4>3 DEF Types, FwTypes
      <4> QED BY <4>1, <4>4
    <3>2. CASE i # Len(up) + 1
      <4>1. i \in 1..Len(up) /\ up'[i] = up[i] /\ i < Len(up')
        BY <1>2, <2>3, <3>2 DEF Grows
      <4>2. i < Len(up)
        BY <1>1, <1>2, <2>1, <4>1 DEF Pairs
      <4>3. i + 1 \in 1..Len(up)
        BY <1>2, <4>1, <4>2
      <4>4. up'[i + 1] = up[i + 1]
        BY <2>3, <4>3 DEF Grows
      <4>5. PayloadOf(up[i + 1], up[i].kind, up[i].req)
        BY <1>1, <4>1, <4>2 DEF Pairs
      <4> QED BY <4>1, <4>4, <4>5
    <3> QED BY <3>1, <3>2
  <2>5. PayloadToCome'
    <3> SUFFICES ASSUME host.at = "payload" PROVE up' # << >> /\ PayloadOf(up'[1], Asked, host.reply.req)
      BY <2>1 DEF PayloadToCome, PayloadOf, Asked
    <3>1. up # << >> /\ PayloadOf(up[1], Asked, host.reply.req)
      BY <1>1, <2>1 DEF PayloadToCome
    <3>2. 1 \in 1..Len(up)
      BY <3>1, UpTyped, FirstOf
    <3>3. up'[1] = up[1] /\ up' # << >>
      BY <1>2, <2>1, <2>3, <3>2 DEF Grows
    <3> QED BY <3>1, <3>3
  <2> QED BY <2>4, <2>5 DEF Paired
<1>7. CASE FwPayload
  <2> DEFINE of == IF fw.kind = "results" THEN result ELSE store
             t == [type |-> "payload", kind |-> fw.kind, req |-> fw.req, of |-> of]
  <2>1. UNCHANGED host /\ fw.at = "payload" /\ up' = Append(up, t)
    BY <1>7 DEF FwPayload
  <2>2. t \in UpTokens
    <3>1. of \in Seq(Parts)
      BY DEF Types
    <3>2. fw.kind \in Commands /\ fw.req \in Requests
      BY <2>1 DEF Types, FwTypes
    <3> HIDE DEF of
    <3> QED BY <3>1, <3>2 DEF UpTokens
  <2>3. Grows(t) /\ t.type = "payload" /\ t.kind = fw.kind /\ t.req = fw.req
    BY <2>1, <2>2, AppendGrows
  <2> HIDE DEF t
  <2>4. Pairs'
    <3> SUFFICES ASSUME NEW i \in 1..Len(up'), Announces(up'[i])
                 PROVE  i < Len(up') /\ PayloadOf(up'[i + 1], up'[i].kind, up'[i].req)
      BY <1>1 DEF Pairs, Announces, PayloadOf
    <3>1. i # Len(up) + 1
      BY <2>3 DEF Announces, Grows
    <3>2. i \in 1..Len(up) /\ up'[i] = up[i] /\ i < Len(up')
      BY <1>2, <2>3, <3>1 DEF Grows
    <3>3. CASE i = Len(up)
      <4>1. fw.kind = up[i].kind /\ fw.req = up[i].req
        BY <1>1, <1>2, <3>2, <3>3 DEF Pairs
      <4>2. up'[i + 1] = t
        BY <2>3, <3>3 DEF Grows
      <4> QED BY <2>3, <3>2, <4>1, <4>2 DEF PayloadOf
    <3>4. CASE i # Len(up)
      <4>1. i < Len(up) /\ i + 1 \in 1..Len(up)
        BY <1>2, <3>2, <3>4
      <4>2. up'[i + 1] = up[i + 1]
        BY <2>3, <4>1 DEF Grows
      <4>3. PayloadOf(up[i + 1], up[i].kind, up[i].req)
        BY <1>1, <3>2, <4>1 DEF Pairs
      <4> QED BY <3>2, <4>2, <4>3
    <3> QED BY <3>3, <3>4
  <2>5. PayloadToCome'
    <3> SUFFICES ASSUME host.at = "payload" PROVE up' # << >> /\ PayloadOf(up'[1], Asked, host.reply.req)
      BY <2>1 DEF PayloadToCome, PayloadOf, Asked
    <3>1. up' # << >>
      BY <1>2, <2>1
    <3>2. CASE up = << >>
      <4>1. up'[1] = t
        BY <2>3, <3>2 DEF Grows
      <4>2. fw.kind = Asked /\ fw.req = host.reply.req
        BY <1>1, <3>2 DEF PayloadToCome
      <4> QED BY <2>3, <3>1, <4>1, <4>2 DEF PayloadOf
    <3>3. CASE up # << >>
      <4>1. PayloadOf(up[1], Asked, host.reply.req)
        BY <1>1, <3>3 DEF PayloadToCome
      <4>2. 1 \in 1..Len(up)
        BY <3>3, UpTyped, FirstOf
      <4>3. up'[1] = up[1]
        BY <2>3, <4>2 DEF Grows
      <4> QED BY <3>1, <4>1, <4>3
    <3> QED BY <3>2, <3>3
  <2> QED BY <2>4, <2>5 DEF Paired
<1>8. ASSUME NEW op \in proto.operations, Begin(op) PROVE Paired'
  BY <1>3, <1>4, <1>8 DEF Begin, board, AtRest, Paired
<1>9. ASSUME NEW looks \in Looks, Send(looks) PROVE Paired'
  <2>1. UNCHANGED <<up, fw>> /\ host'.at = "sync"
    BY <1>9 DEF Send, board, Types, HostTypes
  <2> QED BY <1>3, <1>4, <2>1 DEF Paired
<1>10. CASE Sync
  <2> DEFINE n == Min(Answer)
  <2>1. Drops(n) /\ UNCHANGED <<proto, fw>>
    BY <1>10, SyncDrops DEF Sync, board
  <2>2. n \in 1..Len(up) /\ up[n].type = "magic" /\ up[n].kind = Asked
    BY <1>10, FirstAnswer DEF Sync
  <2>3. /\ host'.at = IF proto.payload[Asked] THEN "payload" ELSE "taken"
        /\ host'.reply.req = up[n].req /\ host'.op = host.op /\ host'.step = host.step
    BY <1>10 DEF Sync, Types, HostTypes, Waiting
  <2> HIDE DEF n
  <2>4. PayloadToCome'
    <3> SUFFICES ASSUME proto.payload[Asked]
                 PROVE  IF up' = << >> THEN fw.at = "payload" /\ fw.kind = Asked /\ fw.req = up[n].req
                        ELSE PayloadOf(up'[1], Asked, up[n].req)
      BY <2>1, <2>3 DEF PayloadToCome, PayloadOf, Asked
    <3>1. Announces(up[n])
      BY <2>2 DEF Announces
    <3>2. CASE n = Len(up)
      <4>1. up' = << >>
        BY <2>1, <3>2, SyncDrops, <1>10, EmptySeq DEF Drops
      <4> QED BY <1>1, <1>2, <2>2, <3>1, <3>2, <4>1 DEF Pairs
    <3>3. CASE n # Len(up)
      <4>1. n < Len(up) /\ Len(up') >= 1 /\ up'[1] = up[n + 1]
        BY <1>2, <2>1, <2>2, <3>3 DEF Drops
      <4>2. PayloadOf(up[n + 1], Asked, up[n].req)
        BY <1>1, <2>2, <3>1, <4>1 DEF Pairs
      <4>3. up' # << >>
        BY <4>1
      <4> QED BY <4>1, <4>2, <4>3
    <3> QED BY <3>2, <3>3
  <2> QED BY <1>1, <2>1, <2>4, PairsKept DEF Paired
<1>11. CASE Read
  <2>1. Drops(1) /\ UNCHANGED <<proto, fw>> /\ host'.at = "taken"
    BY <1>11, TailDrops DEF Read, board, Types, HostTypes
  <2> QED BY <1>1, <1>4, <2>1, PairsKept DEF Paired
<1>12. CASE Taken
  <2>1. UNCHANGED <<up, fw>> /\ host'.at # "payload"
    BY <1>12 DEF Taken, board, AtRest, Types, HostTypes
  <2> QED BY <1>3, <1>4, <2>1 DEF Paired
<1>13. CASE TimesOut \/ Drain
  <2>1. Drops(Len(up)) /\ UNCHANGED <<proto, fw>>
    BY <1>13, EmptyDrops DEF TimesOut, Drain, board
  <2>2. host'.at # "payload"
    <3>1. CASE host' = AtRest
      BY <3>1 DEF AtRest
    <3>2. CASE host' = [host EXCEPT !.at = "drain", !.retried = TRUE]
      BY <3>2 DEF Types, HostTypes
    <3>3. CASE host' = [host EXCEPT !.at = "send"]
      BY <3>3 DEF Types, HostTypes
    <3> QED BY <1>13, <3>1, <3>2, <3>3 DEF TimesOut, Drain
  <2> QED BY <1>1, <1>4, <2>1, <2>2, PairsKept DEF Paired
<1>14. ASSUME NEW kept \in 0..Len(down), NEW lost \in 0..Len(up), Close(kept, lost) PROVE Paired'
  <2>1. Drops(lost) /\ UNCHANGED <<proto, fw>> /\ host'.at # "payload"
    BY <1>14, RestDrops DEF Close, board, AtRest
  <2> QED BY <1>1, <1>4, <2>1, PairsKept DEF Paired
<1>15. CASE UNCHANGED vars
  BY <1>1, <1>3, <1>15 DEF vars, Paired, PayloadToCome, PayloadOf, Asked
<1> QED
  BY <1>5, <1>6, <1>7, <1>8, <1>9, <1>10, <1>11, <1>12, <1>13, <1>14, <1>15
     DEF Next, Firmware, Driver

LEMMA OwnCommandsStep ==
  ASSUME Types, OwnCommands, [Next]_vars
  PROVE  OwnCommands'
<1> DEFINE n == StepsSent
<1>1. n \in Nat /\ n <= Len(sent) /\ Len(sent) \in Nat
  BY AskedIs DEF OwnCommands, StepsSent, Types
<1>2. \A j \in 1..n : sent[Len(sent) - n + j] = host.op[j]
  BY DEF OwnCommands
<1>3. ASSUME UNCHANGED sent, StepsSent' = 0, host'.at = "drain" => host'.step = 1
      PROVE  OwnCommands'
  BY <1>1, <1>3 DEF OwnCommands
<1>4. ASSUME UNCHANGED sent, StepsSent' = n, host'.op = host.op, host'.at # "drain"
      PROVE  OwnCommands'
  BY <1>1, <1>2, <1>4 DEF OwnCommands
<1>5. CASE Firmware \/ UNCHANGED vars
  BY <1>5 DEF Firmware, FwCommand, FwRead, FwMagic, FwPayload, vars, OwnCommands, StepsSent
<1>6. ASSUME NEW op \in proto.operations, Begin(op) PROVE OwnCommands'
  <2>1. UNCHANGED sent /\ host'.at = "send" /\ host'.step = 1
    BY <1>6 DEF Begin, AtRest
  <2> QED BY <1>3, <2>1 DEF StepsSent
<1>7. ASSUME NEW looks \in Looks, Send(looks) PROVE OwnCommands'
  <2>1. /\ sent' = Append(sent, Asked) /\ Len(sent') = Len(sent) + 1
        /\ \A r \in 1..Len(sent) : sent'[r] = sent[r]
        /\ sent'[Len(sent')] = Asked
    BY <1>7, SendPuts
  <2>2. host.at = "send" /\ host'.at = "sync" /\ host'.op = host.op /\ host'.step = host.step
    BY <1>7 DEF Send, Types, HostTypes
  <2>3. n = host.step - 1 /\ StepsSent' = host.step /\ host.step \in Nat /\ Asked = host.op[host.step]
    BY <2>2, AskedIs DEF StepsSent, Asked
  <2> HIDE DEF n
  <2>4. ASSUME NEW j \in 1..host.step PROVE sent'[Len(sent') - host.step + j] = host.op[j]
    <3>1. CASE j = host.step
      <4>1. Len(sent') - host.step + j = Len(sent')
        BY <1>1, <2>1, <2>3, <3>1
      <4> QED BY <2>1, <2>3, <3>1, <4>1
    <3>2. CASE j # host.step
      <4>1. j \in 1..n /\ Len(sent') - host.step + j = Len(sent) - n + j
            /\ Len(sent) - n + j \in 1..Len(sent)
        BY <1>1, <2>1, <2>3, <3>2
      <4> QED BY <1>2, <2>1, <4>1
    <3> QED BY <3>1, <3>2
  <2>5. host.step <= Len(sent')
    BY <1>1, <2>1, <2>3
  <2> QED BY <2>2, <2>3, <2>4, <2>5 DEF OwnCommands
<1>8. CASE Sync \/ Read
  <2>1. UNCHANGED sent /\ host.at \in {"sync", "payload"} /\ host'.op = host.op
        /\ host'.step = host.step /\ host'.at \in {"payload", "taken"}
    BY <1>8 DEF Sync, Read, Types, HostTypes
  <2> QED BY <1>4, <2>1 DEF StepsSent
<1>9. CASE Taken
  <2>1. UNCHANGED sent /\ host.at = "taken"
    BY <1>9 DEF Taken
  <2>2. CASE host.step < Len(host.op)
    <3>1. host'.at = "send" /\ host'.op = host.op /\ host'.step = host.step + 1
      BY <1>9, <2>2 DEF Taken, Types, HostTypes
    <3>2. StepsSent' = n
      BY <2>1, <3>1, AskedIs DEF StepsSent
    <3> QED BY <1>4, <2>1, <3>1, <3>2
  <2>3. CASE ~(host.step < Len(host.op))
    BY <1>3, <1>9, <2>1, <2>3 DEF Taken, AtRest, StepsSent
  <2> QED BY <2>2, <2>3
<1>10. CASE TimesOut
  <2>1. UNCHANGED sent /\ host.at # "idle"
    BY <1>10 DEF TimesOut, Silent
  <2>2. CASE Asked = "ping" /\ ~host.retried
    <3>1. host'.at = "drain" /\ host'.op = host.op /\ host'.step = host.step
      BY <1>10, <2>2 DEF TimesOut, Types, HostTypes
    <3>2. host.step \in DOMAIN host.op /\ host.op[host.step] = "ping"
      BY <2>1, <2>2, AskedIs DEF Asked
    <3>3. host.step = 1
      BY <2>1, <3>2, AskedIs, OperationAssumption DEF Types
    <3> QED BY <1>3, <2>1, <3>1, <3>3 DEF StepsSent
  <2>3. CASE ~(Asked = "ping" /\ ~host.retried)
    BY <1>3, <1>10, <2>1, <2>3 DEF TimesOut, AtRest, StepsSent
  <2> QED BY <2>2, <2>3
<1>11. CASE Drain
  <2>1. UNCHANGED sent /\ host.at = "drain" /\ host'.at = "send" /\ host'.step = host.step
    BY <1>11 DEF Drain, Types, HostTypes
  <2>2. host.step = 1
    BY <2>1 DEF OwnCommands
  <2> QED BY <1>3, <2>1, <2>2 DEF StepsSent
<1>12. ASSUME NEW kept \in 0..Len(down), NEW lost \in 0..Len(up), Close(kept, lost) PROVE OwnCommands'
  BY <1>3, <1>12 DEF Close, AtRest, StepsSent
<1> QED
  BY <1>5, <1>6, <1>7, <1>8, <1>9, <1>10, <1>11, <1>12 DEF Next, Driver

-----------------------------------------------------------------------------
(* In step *)

(* What a close that cuts no command off leaves on the wire. *)
LEMMA CloseKeeps ==
  ASSUME Types, NEW kept \in 0..Len(down), NEW lost \in 0..Len(up), Close(kept, lost), ~cut'
  PROVE  /\ ~cut /\ UNCHANGED <<proto, board, sent>> /\ host' = AtRest /\ Drops(lost)
         /\ Len(down') = kept /\ \A i \in 1..Len(down') : down'[i] = down[i]
         /\ kept < Len(down) => down[kept + 1].type = "command"
<1>1. ~cut /\ ~(kept < Len(down) /\ down[kept + 1].type = "argument")
  BY DEF Close
<1>2. UNCHANGED <<proto, board, sent>> /\ host' = AtRest /\ Drops(lost)
  BY RestDrops DEF Close
<1>3. Len(down') = kept /\ \A i \in 1..Len(down') : down'[i] = down[i]
  BY DownKept DEF Close
<1>4. ASSUME kept < Len(down) PROVE down[kept + 1].type = "command"
  <2>1. kept + 1 \in 1..Len(down)
    BY <1>4, DownTyped
  <2>2. down[kept + 1] \in DownTokens
    BY <2>1, DownTyped
  <2>3. down[kept + 1].type \in {"command", "argument"}
    BY <2>2 DEF DownTokens
  <2> QED BY <1>1, <1>4, <2>3
<1> QED
  BY <1>1, <1>2, <1>3, <1>4

LEMMA OwnedStep ==
  ASSUME Types, InStep, [Next]_vars, ~cut'
  PROVE  Owned'
<1>1. Owned /\ Len(sent) \in Nat /\ Len(up) \in Nat /\ Len(down) \in Nat /\ proto' = proto
  BY UpTyped, DownTyped, ProtoStays DEF InStep, Types
<1> DEFINE DownOwned ==
             \A i \in 1..Len(down) :
               /\ down[i].req \in 1..Len(sent)
               /\ down[i].type = "command" => down[i].kind = sent[down[i].req]
           FwOwned == fw.at # "loop" => fw.req \in 1..Len(sent) /\ fw.kind = sent[fw.req]
           UpOwned ==
             \A i \in 1..Len(up) :
               /\ up[i].req \in 1..Len(sent)
               /\ up[i].type = "magic" => up[i].kind = sent[up[i].req]
<1>2. DownOwned /\ FwOwned /\ UpOwned
  BY <1>1 DEF Owned
<1>3. DownOwned' /\ FwOwned' /\ UpOwned' => Owned'
  BY DEF Owned
<1>4. ASSUME UNCHANGED <<down, sent>> PROVE DownOwned'
  BY <1>2, <1>4
<1>5. ASSUME UNCHANGED <<fw, sent>> PROVE FwOwned'
  BY <1>2, <1>5
<1>6. ASSUME UNCHANGED <<up, sent>> PROVE UpOwned'
  BY <1>2, <1>6
<1>7. ASSUME NEW n, Drops(n), UNCHANGED sent PROVE UpOwned'
  <2> SUFFICES ASSUME NEW i \in 1..Len(up')
               PROVE  /\ up'[i].req \in 1..Len(sent)
                      /\ up'[i].type = "magic" => up'[i].kind = sent[up'[i].req]
    BY <1>7
  <2>1. n + i \in 1..Len(up) /\ up'[i] = up[n + i]
    BY <1>1, <1>7 DEF Drops
  <2> HIDE DEF DownOwned, FwOwned
  <2> QED BY <1>2, <2>1
<1> HIDE DEF DownOwned, FwOwned, UpOwned
<1>8. CASE FwCommand \/ FwRead
  <2>1. UNCHANGED <<up, sent>> /\ down' \in Seq(DownTokens) /\ Len(down) >= 1
        /\ Len(down') = Len(down) - 1 /\ \A i \in 1..Len(down') : down'[i] = down[i + 1]
    BY <1>8, DownTaken DEF FwCommand, FwRead
  <2>2. DownOwned'
    <3> SUFFICES ASSUME NEW i \in 1..Len(down')
                 PROVE  /\ down'[i].req \in 1..Len(sent)
                        /\ down'[i].type = "command" => down'[i].kind = sent[down'[i].req]
      BY <2>1 DEF DownOwned
    <3>1. i + 1 \in 1..Len(down) /\ down'[i] = down[i + 1]
      BY <1>1, <2>1
    <3> QED BY <1>2, <3>1 DEF DownOwned
  <2>3. FwOwned'
    <3>1. CASE FwCommand
      <4>1. Head(down) = down[1] /\ fw.at = "loop" /\ down # << >> /\ 1 \in 1..Len(down)
        BY <1>1, <2>1, <3>1, DownTaken DEF FwCommand
      <4>2. down[1].type = "command"
        BY <4>1 DEF InStep, Whole
      <4>3. down[1].req \in 1..Len(sent) /\ down[1].kind = sent[down[1].req]
        BY <1>2, <4>1, <4>2 DEF DownOwned
      <4>4. fw'.at # "loop" => fw'.kind = down[1].kind /\ fw'.req = down[1].req
        BY <3>1, <4>1 DEF FwCommand, AtLoop
      <4> QED BY <2>1, <4>3, <4>4 DEF FwOwned
    <3>2. CASE FwRead
      <4>1. fw.at = "read" /\ fw'.kind = fw.kind /\ fw'.req = fw.req
        BY <3>2 DEF FwRead, Types, FwTypes
      <4> QED BY <1>2, <2>1, <4>1 DEF FwOwned
    <3> QED BY <1>8, <3>1, <3>2
  <2> QED BY <1>3, <1>6, <2>1, <2>2, <2>3
<1>9. CASE FwMagic \/ FwPayload
  <2>1. UNCHANGED <<down, sent>> /\ fw.at # "loop"
    BY <1>9 DEF FwMagic, FwPayload
  <2>2. fw.req \in 1..Len(sent) /\ fw.kind = sent[fw.req] /\ fw.kind \in Commands /\ fw.req \in Requests
    BY <1>2, <2>1 DEF FwOwned, Types, FwTypes
  <2>3. FwOwned'
    <3>1. CASE fw' = AtLoop
      BY <3>1 DEF AtLoop, FwOwned
    <3>2. CASE fw' = [fw EXCEPT !.at = "payload"]
      <4>1. fw'.kind = fw.kind /\ fw'.req = fw.req
        BY <3>2 DEF Types, FwTypes
      <4> QED BY <2>1, <2>2, <4>1 DEF FwOwned
    <3> QED BY <1>9, <3>1, <3>2 DEF FwMagic, FwPayload
  <2>4. PICK t \in UpTokens : Grows(t) /\ t.req = fw.req /\ (t.type = "magic" => t.kind = fw.kind)
    <3>1. CASE FwMagic
      <4> DEFINE t == [type |-> "magic", kind |-> fw.kind, req |-> fw.req]
      <4>1. t \in UpTokens /\ up' = Append(up, t)
        BY <2>2, <3>1 DEF UpTokens, FwMagic
      <4> QED BY <4>1, AppendGrows
    <3>2. CASE FwPayload
      <4> DEFINE of == IF fw.kind = "results" THEN result ELSE store
                 t == [type |-> "payload", kind |-> fw.kind, req |-> fw.req, of |-> of]
      <4>1. of \in Seq(Parts) /\ up' = Append(up, t)
        BY <3>2 DEF Types, FwPayload
      <4> HIDE DEF of
      <4>2. t \in UpTokens
        BY <2>2, <4>1 DEF UpTokens
      <4> QED BY <4>1, <4>2, AppendGrows
    <3> QED BY <1>9, <3>1, <3>2
  <2>5. UpOwned'
    <3> SUFFICES ASSUME NEW i \in 1..Len(up')
                 PROVE  /\ up'[i].req \in 1..Len(sent)
                        /\ up'[i].type = "magic" => up'[i].kind = sent[up'[i].req]
      BY <2>1 DEF UpOwned
    <3>1. CASE i = Len(up) + 1
      BY <2>2, <2>4, <3>1 DEF Grows
    <3>2. CASE i # Len(up) + 1
      <4>1. i \in 1..Len(up) /\ up'[i] = up[i]
        BY <1>1, <2>4, <3>2 DEF Grows
      <4> QED BY <1>2, <4>1 DEF UpOwned
    <3> QED BY <3>1, <3>2
  <2> QED BY <1>3, <1>4, <2>1, <2>3, <2>5
<1>10. ASSUME NEW op \in proto.operations, Begin(op) PROVE Owned'
  BY <1>3, <1>4, <1>5, <1>6, <1>10 DEF Begin, board
<1>11. ASSUME NEW looks \in Looks, Send(looks) PROVE Owned'
  <2>1. /\ UNCHANGED <<up, fw>> /\ Len(sent') = Len(sent) + 1
        /\ \A r \in 1..Len(sent) : sent'[r] = sent[r]
        /\ sent'[Len(sent')] = Asked /\ proto.args[Asked] \in Nat
        /\ Len(down') = Len(down) + proto.args[Asked] + 1
        /\ \A i \in 1..Len(down) : down'[i] = down[i]
        /\ down'[Len(down) + 1] = [type |-> "command", kind |-> Asked, req |-> Len(sent')]
        /\ \A i \in 2..(proto.args[Asked] + 1) : down'[Len(down) + i] =
              [type |-> "argument", kind |-> looks, req |-> Len(sent'), part |-> i - 1]
    BY <1>11, SendPuts DEF Send, board
  <2>2. \A r \in 1..Len(sent) : r \in 1..Len(sent')
    BY <1>1, <2>1
  <2>3. FwOwned'
    BY <1>2, <2>1, <2>2 DEF FwOwned
  <2>4. UpOwned'
    BY <1>2, <2>1, <2>2 DEF UpOwned
  <2>5. DownOwned'
    <3> SUFFICES ASSUME NEW i \in 1..Len(down')
                 PROVE  /\ down'[i].req \in 1..Len(sent')
                        /\ down'[i].type = "command" => down'[i].kind = sent'[down'[i].req]
      BY DEF DownOwned
    <3>1. Len(sent') \in 1..Len(sent')
      BY <1>1, <2>1
    <3>2. CASE i \in 1..Len(down)
      <4>1. down[i].req \in 1..Len(sent) /\ down'[i] = down[i]
            /\ (down[i].type = "command" => down[i].kind = sent[down[i].req])
        BY <1>2, <2>1, <3>2 DEF DownOwned
      <4> QED BY <2>1, <2>2, <4>1
    <3>3. CASE i = Len(down) + 1
      BY <2>1, <3>1, <3>3
    <3>4. CASE i > Len(down) + 1
      <4>1. i - Len(down) \in 2..(proto.args[Asked] + 1) /\ Len(down) + (i - Len(down)) = i
        <5>1. PICK a \in Nat, d \in Nat : a = proto.args[Asked] /\ d = Len(down) /\ Len(down') = d + a + 1
          BY <1>1, <2>1
        <5>2. i \in 1..(d + a + 1) /\ i > d + 1
          BY <3>4, <5>1
        <5>3. i - d \in 2..(a + 1) /\ d + (i - d) = i
          BY <5>2
        <5> QED BY <5>1, <5>3
      <4>2. down'[i] = [type |-> "argument", kind |-> looks, req |-> Len(sent'), part |-> i - Len(down) - 1]
        BY <2>1, <4>1
      <4> QED BY <3>1, <4>2
    <3> QED BY <1>1, <3>2, <3>3, <3>4
  <2> QED BY <1>3, <2>3, <2>4, <2>5
<1>12. CASE Sync
  <2>1. UNCHANGED <<down, fw, sent>>
    BY <1>12 DEF Sync, board
  <2>2. UpOwned'
    BY <1>7, <1>12, <2>1, SyncDrops
  <2> QED BY <1>3, <1>4, <1>5, <2>1, <2>2
<1>13. CASE Read
  <2>1. UNCHANGED <<down, fw, sent>> /\ up # << >> /\ up' = Tail(up)
    BY <1>13 DEF Read, board
  <2>2. UpOwned'
    BY <1>7, <2>1, TailDrops
  <2> QED BY <1>3, <1>4, <1>5, <2>1, <2>2
<1>14. CASE Taken
  BY <1>3, <1>4, <1>5, <1>6, <1>14 DEF Taken, board
<1>15. CASE TimesOut \/ Drain
  <2>1. UNCHANGED <<down, fw, sent>> /\ up' = << >>
    BY <1>15 DEF TimesOut, Drain, board
  <2>2. UpOwned'
    BY <1>7, <2>1, EmptyDrops
  <2> QED BY <1>3, <1>4, <1>5, <2>1, <2>2
<1>16. ASSUME NEW kept \in 0..Len(down), NEW lost \in 0..Len(up), Close(kept, lost) PROVE Owned'
  <2>1. /\ UNCHANGED <<fw, sent>> /\ Drops(lost)
        /\ Len(down') = kept /\ \A i \in 1..Len(down') : down'[i] = down[i]
    BY <1>16, CloseKeeps DEF board
  <2>2. UpOwned'
    BY <1>7, <2>1
  <2>3. DownOwned'
    <3>1. \A i \in 1..Len(down') : i \in 1..Len(down)
      BY <1>1, <2>1
    <3> QED BY <1>2, <2>1, <3>1 DEF DownOwned
  <2> QED BY <1>3, <1>5, <2>1, <2>2, <2>3
<1>17. CASE UNCHANGED vars
  BY <1>3, <1>4, <1>5, <1>6, <1>17 DEF vars
<1> QED
  BY <1>8, <1>9, <1>10, <1>11, <1>12, <1>13, <1>14, <1>15, <1>16, <1>17
     DEF Next, Firmware, Driver

LEMMA TakenWhole ==
  ASSUME Types, InStep, FwCommand \/ FwRead
  PROVE  /\ Len(down) >= 1
         /\ \A i \in 1..Len(down') : i < Len(down') => Follows(down'[i], down'[i + 1])
         /\ down' # << >> => Ends(down'[Len(down')])
         /\ IF Ends(down[1]) THEN down' # << >> => down'[1].type = "command"
            ELSE /\ down' # << >> /\ down'[1].type = "argument"
                 /\ down'[1].req = down[1].req /\ down'[1].part = Place(down[1]) + 1
<1>1. /\ Len(down) \in Nat /\ Len(down) >= 1 /\ down' \in Seq(DownTokens) /\ Len(down') = Len(down) - 1
      /\ \A i \in 1..Len(down') : down'[i] = down[i + 1]
  BY DownTyped, DownTaken
<1>2. /\ \A i \in 1..Len(down) : i < Len(down) => Follows(down[i], down[i + 1])
      /\ Ends(down[Len(down)])
  BY <1>1 DEF InStep, Whole
<1>3. down' # << >> => Len(down') >= 1
  BY <1>1, FirstOf
<1>4. ASSUME NEW i \in 1..Len(down'), i < Len(down') PROVE Follows(down'[i], down'[i + 1])
  <2>1. i + 1 \in 1..Len(down) /\ i + 1 < Len(down) /\ i + 1 \in 1..Len(down')
    BY <1>1, <1>4
  <2>2. down'[i] = down[i + 1] /\ down'[i + 1] = down[(i + 1) + 1]
    BY <1>1, <2>1
  <2>3. Follows(down[i + 1], down[(i + 1) + 1])
    BY <1>2, <2>1
  <2> QED BY <2>2, <2>3
<1>5. ASSUME down' # << >> PROVE Ends(down'[Len(down')])
  <2>1. Len(down') \in 1..Len(down') /\ Len(down') + 1 = Len(down)
    BY <1>1, <1>3, <1>5
  <2>2. down'[Len(down')] = down[Len(down)]
    BY <1>1, <2>1
  <2> QED BY <1>2, <2>2
<1>6. ASSUME down' # << >> PROVE Follows(down[1], down'[1])
  <2>1. 1 \in 1..Len(down) /\ 1 < Len(down) /\ 1 \in 1..Len(down')
    BY <1>1, <1>3, <1>6
  <2>2. down'[1] = down[1 + 1] /\ Follows(down[1], down[1 + 1])
    BY <1>1, <1>2, <2>1
  <2> QED BY <2>2
<1>7. ASSUME ~Ends(down[1]) PROVE down' # << >>
  <2>1. Len(down) # 1
    BY <1>2, <1>7
  <2> QED BY <1>1, <2>1
<1> QED
  BY <1>1, <1>4, <1>5, <1>6, <1>7 DEF Follows

LEMMA WholeStep ==
  ASSUME Types, InStep, [Next]_vars, ~cut'
  PROVE  Whole' /\ Reading'
<1>1. Owned /\ Whole /\ Reading /\ Len(sent) \in Nat /\ Len(down) \in Nat /\ proto' = proto
  BY DownTyped, ProtoStays DEF InStep, Types
<1>2. ASSUME UNCHANGED <<down, fw, sent>> PROVE Whole' /\ Reading'
  BY <1>1, <1>2 DEF Whole, Reading, Follows, Ends, Place
<1>3. CASE FwCommand
  <2>1. sent' = sent /\ Head(down) = down[1] /\ down[1] \in DownTokens /\ fw.at = "loop" /\ down # << >>
    BY <1>3, DownTaken DEF FwCommand
  <2>2. 1 \in 1..Len(down)
    BY <1>1, <2>1, DownTyped, FirstOf
  <2>3. down[1].type = "command"
    BY <1>1, <2>1 DEF Whole
  <2>4. down[1].kind = sent[down[1].req]
    BY <1>1, <2>2, <2>3 DEF Owned
  <2>5. down[1].kind \in Commands
    BY <2>1, <2>3 DEF DownTokens
  <2>6. proto.args[down[1].kind] \in Nat
    BY <2>5, ProtocolAssumption DEF Types, Commands
  <2> DEFINE at == IF proto.args[down[1].kind] > 0 THEN "read" ELSE "magic"
  <2>7. fw' = [at |-> at, kind |-> down[1].kind, req |-> down[1].req, read |-> << >>]
    BY <1>3, <2>1, <2>5 DEF FwCommand, Commands
  <2>8. Place(down[1]) = 0 /\ (Ends(down[1]) <=> proto.args[down[1].kind] = 0)
    BY <2>3, <2>4 DEF Place, Ends
  <2>9. fw'.at = (IF Ends(down[1]) THEN "magic" ELSE "read")
    BY <2>6, <2>7, <2>8
  <2>10. fw'.kind = down[1].kind /\ fw'.req = down[1].req /\ fw'.read = << >> /\ Len(fw'.read) = 0
    BY <2>7
  <2> HIDE DEF at
  <2>11. /\ \A i \in 1..Len(down') : i < Len(down') => Follows(down'[i], down'[i + 1])
         /\ down' # << >> => Ends(down'[Len(down')])
         /\ IF Ends(down[1]) THEN down' # << >> => down'[1].type = "command"
            ELSE /\ down' # << >> /\ down'[1].type = "argument"
                 /\ down'[1].req = down[1].req /\ down'[1].part = Place(down[1]) + 1
    BY <1>1, <1>3, TakenWhole
  <2>12. down' # << >> =>
           IF fw'.at = "read"
           THEN down'[1].type = "argument" /\ down'[1].req = fw'.req /\ down'[1].part = Len(fw'.read) + 1
           ELSE down'[1].type = "command"
    BY <2>8, <2>9, <2>10, <2>11
  <2>13. Whole'
    BY <1>1, <2>1, <2>11, <2>12 DEF Whole, Follows, Ends, Place
  <2>14. Reading'
    <3>1. fw'.read = [i \in 1..Len(fw'.read) |-> [req |-> fw'.req, part |-> i]]
      BY <2>10
    <3>2. fw'.at = "read" => down' # << >> /\ Len(fw'.read) < proto.args[fw'.kind]
      BY <2>6, <2>8, <2>9, <2>10, <2>11
    <3>3. fw'.at = "magic" => Len(fw'.read) = proto.args[fw'.kind]
      BY <2>8, <2>9, <2>10
    <3> QED BY <1>1, <3>1, <3>2, <3>3 DEF Reading
  <2> QED BY <2>13, <2>14
<1>4. CASE FwRead
  <2> DEFINE n == Len(fw.read)
             a == proto.args[fw.kind]
             part == PartOf(down[1])
  <2>1. sent' = sent /\ Head(down) = down[1] /\ down[1] \in DownTokens /\ fw.at = "read" /\ down # << >>
    BY <1>4, DownTaken DEF FwRead
  <2>2. down[1].type = "argument" /\ down[1].req = fw.req /\ down[1].part = n + 1
    BY <1>1, <2>1 DEF Whole
  <2>3. fw.kind = sent[fw.req] /\ fw.kind \in Commands /\ fw.read \in Seq(Parts) /\ n \in Nat
    BY <1>1, <2>1 DEF Owned, Types, FwTypes
  <2>4. a \in Nat /\ n < a
    BY <1>1, <2>1, <2>3, ProtocolAssumption DEF Types, Commands, Reading
  <2>5. part = [req |-> fw.req, part |-> n + 1]
    BY <2>2 DEF PartOf
  <2>6. fw' = [fw EXCEPT !.read = Append(fw.read, part), !.at = IF n + 1 = a THEN "magic" ELSE "read"]
    BY <1>4, <2>1 DEF FwRead
  <2>7. Place(down[1]) = n + 1 /\ (Ends(down[1]) <=> n + 1 = a)
    BY <2>2, <2>3 DEF Place, Ends
  <2>8. part \in Parts
    BY <2>1, <2>2, <2>3, <2>5 DEF Parts, DownTokens
  <2> HIDE DEF n, a, part
  <2>9. /\ fw'.at = (IF Ends(down[1]) THEN "magic" ELSE "read")
        /\ fw'.kind = fw.kind /\ fw'.req = fw.req /\ fw'.read = Append(fw.read, part)
    BY <2>6, <2>7 DEF Types, FwTypes
  <2>10. /\ Len(fw'.read) = n + 1 /\ fw'.read[n + 1] = part /\ fw'.read \in Seq(Parts)
         /\ \A i \in 1..n : fw'.read[i] = fw.read[i]
    <3>1. Len(fw.read) = n
      BY DEF n
    <3> QED BY <2>3, <2>8, <2>9, <3>1, AppendOf
  <2>11. /\ \A i \in 1..Len(down') : i < Len(down') => Follows(down'[i], down'[i + 1])
         /\ down' # << >> => Ends(down'[Len(down')])
         /\ IF Ends(down[1]) THEN down' # << >> => down'[1].type = "command"
            ELSE /\ down' # << >> /\ down'[1].type = "argument"
                 /\ down'[1].req = down[1].req /\ down'[1].part = Place(down[1]) + 1
    BY <1>1, <1>4, TakenWhole
  <2>12. down' # << >> =>
           IF fw'.at = "read"
           THEN down'[1].type = "argument" /\ down'[1].req = fw'.req /\ down'[1].part = Len(fw'.read) + 1
           ELSE down'[1].type = "command"
    BY <2>2, <2>7, <2>9, <2>10, <2>11
  <2>13. Whole'
    BY <1>1, <2>1, <2>11, <2>12 DEF Whole, Follows, Ends, Place
  <2>14. Reading'
    <3>1. fw'.read = [i \in 1..Len(fw'.read) |-> [req |-> fw'.req, part |-> i]]
      <4>1. ASSUME NEW i \in 1..(n + 1) PROVE fw'.read[i] = [req |-> fw.req, part |-> i]
        <5>1. CASE i = n + 1
          BY <2>5, <2>10, <5>1
        <5>2. CASE i # n + 1
          <6>1. i \in 1..n
            BY <2>3, <5>2
          <6>2. fw.read = [k \in 1..n |-> [req |-> fw.req, part |-> k]]
            BY <1>1, <2>1 DEF Reading, n
          <6>3. fw.read[i] = [req |-> fw.req, part |-> i]
            BY <6>1, <6>2
          <6> QED BY <2>10, <6>1, <6>3
        <5> QED BY <5>1, <5>2
      <4>2. DOMAIN fw'.read = 1..(n + 1) /\ fw'.read = [i \in DOMAIN fw'.read |-> fw'.read[i]]
        BY <2>10
      <4>3. fw'.read = [i \in 1..(n + 1) |-> [req |-> fw.req, part |-> i]]
        BY <4>1, <4>2
      <4> QED BY <2>9, <2>10, <4>3
    <3>2. fw'.at = "read" => down' # << >> /\ Len(fw'.read) < proto.args[fw'.kind]
      <4> SUFFICES ASSUME ~Ends(down[1]) PROVE down' # << >> /\ n + 1 < a
        BY <2>9, <2>10 DEF a
      <4> QED BY <2>3, <2>4, <2>7, <2>11
    <3>3. fw'.at = "magic" => Len(fw'.read) = proto.args[fw'.kind]
      BY <2>7, <2>9, <2>10 DEF a
    <3> QED BY <1>1, <3>1, <3>2, <3>3 DEF Reading
  <2> QED BY <2>13, <2>14
<1>5. CASE FwMagic \/ FwPayload
  <2>1. UNCHANGED <<down, sent>> /\ fw.at \in {"magic", "payload"}
    BY <1>5 DEF FwMagic, FwPayload
  <2>2. fw'.at \in {"loop", "payload"}
    <3>1. CASE fw' = AtLoop
      BY <3>1 DEF AtLoop
    <3>2. CASE fw' = [fw EXCEPT !.at = "payload"]
      BY <3>2 DEF Types, FwTypes
    <3> QED BY <1>5, <3>1, <3>2 DEF FwMagic, FwPayload
  <2>3. down # << >> => down[1].type = "command"
    BY <1>1, <2>1 DEF Whole
  <2>4. Whole'
    BY <1>1, <2>1, <2>2, <2>3 DEF Whole, Follows, Ends, Place
  <2> QED BY <2>2, <2>4 DEF Reading
<1>6. ASSUME NEW op \in proto.operations, Begin(op) PROVE Whole' /\ Reading'
  BY <1>2, <1>6 DEF Begin, board
<1>7. ASSUME NEW looks \in Looks, Send(looks) PROVE Whole' /\ Reading'
  <2> DEFINE d == Len(down)
             a == proto.args[Asked]
             req == Len(sent')
             EndsThen(u) == Place(u) = proto.args[sent'[u.req]]
  <2>1. /\ UNCHANGED fw /\ Len(sent') = Len(sent) + 1
        /\ \A r \in 1..Len(sent) : sent'[r] = sent[r]
        /\ sent'[req] = Asked /\ a \in Nat
        /\ Len(down') = d + a + 1
        /\ \A i \in 1..d : down'[i] = down[i]
        /\ down'[d + 1] = [type |-> "command", kind |-> Asked, req |-> req]
        /\ \A i \in 2..(a + 1) : down'[d + i] =
              [type |-> "argument", kind |-> looks, req |-> req, part |-> i - 1]
    BY <1>7, SendPuts DEF Send, board
  <2>2. d \in Nat /\ down' # << >>
    BY <1>1, <2>1
  <2> HIDE DEF d, a, req, EndsThen
  <2>3. ASSUME NEW i \in 1..d PROVE EndsThen(down'[i]) <=> Ends(down[i])
    <3>1. down[i].req \in 1..Len(sent) /\ down'[i] = down[i]
      BY <1>1, <2>1 DEF Owned, d
    <3>2. sent'[down[i].req] = sent[down[i].req]
      BY <2>1, <3>1
    <3> QED BY <1>1, <3>1, <3>2 DEF Ends, EndsThen
  <2>4. ASSUME NEW k \in 1..(a + 1)
        PROVE  /\ down'[d + k].req = req /\ Place(down'[d + k]) = k - 1
               /\ k > 1 => down'[d + k].type = "argument" /\ down'[d + k].part = k - 1
               /\ EndsThen(down'[d + k]) <=> k = a + 1
    <3>1. CASE k = 1
      <4>1. down'[d + k] = [type |-> "command", kind |-> Asked, req |-> req]
        BY <2>1, <3>1
      <4>2. Place(down'[d + k]) = 0 /\ down'[d + k].req = req
        BY <4>1 DEF Place
      <4>3. EndsThen(down'[d + k]) <=> 0 = a
        BY <1>1, <2>1, <4>1 DEF EndsThen, Place, a
      <4> QED BY <2>1, <3>1, <4>2, <4>3
    <3>2. CASE k # 1
      <4>1. k \in 2..(a + 1)
        BY <2>1, <3>2
      <4>2. down'[d + k] = [type |-> "argument", kind |-> looks, req |-> req, part |-> k - 1]
        BY <2>1, <4>1
      <4>3. /\ Place(down'[d + k]) = k - 1 /\ down'[d + k].req = req
            /\ down'[d + k].type = "argument" /\ down'[d + k].part = k - 1
        BY <4>2 DEF Place
      <4>4. EndsThen(down'[d + k]) <=> k - 1 = a
        BY <1>1, <2>1, <4>2 DEF EndsThen, Place, a
      <4> QED BY <2>1, <4>3, <4>4
    <3> QED BY <3>1, <3>2
  <2>5. ASSUME NEW i \in 1..Len(down'), i < Len(down') PROVE Follows(down[i], down[i + 1])'
    <3>1. CASE i < d
      <4>1. i \in 1..d /\ i + 1 \in 1..d
        BY <2>2, <3>1
      <4>2. down'[i] = down[i] /\ down'[i + 1] = down[i + 1]
        BY <2>1, <4>1
      <4>3. Follows(down[i], down[i + 1])
        BY <1>1, <3>1, <4>1 DEF Whole, d
      <4>4. EndsThen(down'[i]) <=> Ends(down[i])
        BY <2>3, <4>1
      <4> QED BY <1>1, <4>2, <4>3, <4>4 DEF Follows, Ends, EndsThen, Place
    <3>2. CASE i = d
      <4>1. i \in 1..d /\ down # << >>
        BY <2>2, <3>2 DEF d
      <4>2. Ends(down[d])
        BY <1>1, <4>1 DEF Whole, d
      <4>3. EndsThen(down'[i])
        BY <2>3, <3>2, <4>1, <4>2
      <4>4. down'[i + 1].type = "command"
        BY <2>1, <3>2
      <4> QED BY <1>1, <4>3, <4>4 DEF Follows, Ends, EndsThen, Place
    <3>3. CASE i > d
      <4> DEFINE k == i - d
      <4>1. k \in 1..(a + 1) /\ k + 1 \in 1..(a + 1) /\ k + 1 > 1 /\ k # a + 1
        BY <2>1, <2>2, <2>5, <3>3
      <4>2. d + k = i /\ d + (k + 1) = i + 1 /\ (k + 1) - 1 = (k - 1) + 1
        BY <2>2
      <4> HIDE DEF k
      <4>3. down'[i].req = req /\ Place(down'[i]) = k - 1 /\ ~EndsThen(down'[i])
        BY <2>4, <4>1, <4>2
      <4>4. down'[i + 1].req = req /\ down'[i + 1].type = "argument" /\ down'[i + 1].part = (k + 1) - 1
        BY <2>4, <4>1, <4>2
      <4> QED BY <1>1, <4>2, <4>3, <4>4 DEF Follows, Ends, EndsThen, Place
    <3> QED BY <2>2, <3>1, <3>2, <3>3
  <2>6. Ends(down[Len(down)])'
    <3>1. a + 1 \in 1..(a + 1) /\ d + (a + 1) = Len(down')
      BY <2>1, <2>2
    <3>2. EndsThen(down'[d + (a + 1)])
      BY <2>4, <3>1
    <3> QED BY <1>1, <3>1, <3>2 DEF Ends, EndsThen, Place
  <2>7. down = << >> => fw.at # "read"
    BY <1>1 DEF Reading
  <2>8. IF fw.at = "read"
        THEN down'[1].type = "argument" /\ down'[1].req = fw.req /\ down'[1].part = Len(fw.read) + 1
        ELSE down'[1].type = "command"
    <3>1. CASE down = << >>
      <4>1. d + 1 = 1
        BY <3>1 DEF d
      <4> QED BY <2>1, <2>7, <3>1, <4>1
    <3>2. CASE down # << >>
      <4>1. 1 \in 1..d
        BY <3>2, DownTyped, FirstOf DEF d
      <4>2. down'[1] = down[1]
        BY <2>1, <4>1
      <4> QED BY <1>1, <3>2, <4>2 DEF Whole
    <3> QED BY <3>1, <3>2
  <2>9. Whole'
    BY <2>1, <2>5, <2>6, <2>8 DEF Whole
  <2>10. Reading'
    BY <1>1, <2>1, <2>2 DEF Reading
  <2> QED BY <2>9, <2>10
<1>8. CASE Sync \/ Read \/ Taken \/ Drain
  BY <1>2, <1>8 DEF Sync, Read, Taken, Drain, board
<1>9. CASE TimesOut
  BY <1>2, <1>9 DEF TimesOut, board
<1>10. ASSUME NEW kept \in 0..Len(down), NEW lost \in 0..Len(up), Close(kept, lost)
       PROVE  Whole' /\ Reading'
  <2>1. /\ UNCHANGED <<fw, sent>> /\ Len(down') = kept
        /\ \A i \in 1..Len(down') : down'[i] = down[i]
        /\ kept < Len(down) => down[kept + 1].type = "command"
    BY <1>10, CloseKeeps DEF board
  <2>2. down' # << >> => kept >= 1
    <3>1. down' \in Seq(DownTokens)
      BY <1>10, DownKept DEF Close
    <3> QED BY <2>1, <3>1, FirstOf
  <2>3. ASSUME NEW i \in 1..kept, i < kept PROVE Follows(down'[i], down'[i + 1])
    <3>1. i \in 1..Len(down) /\ i < Len(down) /\ i + 1 \in 1..kept
      BY <1>1, <2>3
    <3>2. down'[i] = down[i] /\ down'[i + 1] = down[i + 1]
      BY <2>1, <3>1
    <3>3. Follows(down[i], down[i + 1])
      BY <1>1, <3>1 DEF Whole
    <3> QED BY <3>2, <3>3
  <2>4. ASSUME down' # << >> PROVE Ends(down'[kept])
    <3>1. kept \in 1..kept /\ kept \in 1..Len(down) /\ down # << >>
      BY <1>1, <2>2, <2>4
    <3>2. down'[kept] = down[kept]
      BY <2>1, <3>1
    <3>3. CASE kept = Len(down)
      BY <1>1, <3>1, <3>2, <3>3 DEF Whole
    <3>4. CASE kept # Len(down)
      <4>1. kept < Len(down)
        BY <1>1, <3>4
      <4>2. Follows(down[kept], down[kept + 1]) /\ down[kept + 1].type = "command"
        BY <1>1, <2>1, <3>1, <4>1 DEF Whole
      <4> QED BY <3>2, <4>2 DEF Follows
    <3> QED BY <3>3, <3>4
  <2>5. ASSUME down' # << >>
        PROVE  IF fw.at = "read"
               THEN down'[1].type = "argument" /\ down'[1].req = fw.req /\ down'[1].part = Len(fw.read) + 1
               ELSE down'[1].type = "command"
    <3>1. 1 \in 1..kept /\ down # << >>
      BY <1>1, <2>2, <2>5
    <3>2. down'[1] = down[1]
      BY <2>1, <3>1
    <3> QED BY <1>1, <3>1, <3>2 DEF Whole
  <2>6. fw.at = "read" => down' # << >>
    <3> SUFFICES ASSUME fw.at = "read", kept = 0 PROVE FALSE
      BY <2>1
    <3>1. down # << >> /\ down[1].type = "argument"
      BY <1>1 DEF Whole, Reading
    <3>2. kept < Len(down) /\ kept + 1 = 1
      BY <3>1, DownTyped, FirstOf
    <3> QED BY <2>1, <3>1, <3>2
  <2>7. Whole'
    BY <1>1, <2>1, <2>3, <2>4, <2>5 DEF Whole, Follows, Ends, Place
  <2>8. Reading'
    BY <1>1, <2>1, <2>6 DEF Reading
  <2> QED BY <2>7, <2>8
<1>11. CASE UNCHANGED vars
  BY <1>2, <1>11 DEF vars
<1> QED
  BY <1>3, <1>4, <1>5, <1>6, <1>7, <1>8, <1>9, <1>10, <1>11
     DEF Next, Firmware, Driver

-----------------------------------------------------------------------------
(* In order, and not long ago *)

LEMMA OrderedStep ==
  ASSUME Types, InStep, Ordered, [Next]_vars, ~cut'
  PROVE  Ordered'
<1> DEFINE DD == \A i, j \in 1..Len(down) : i < j /\ Queued(i) /\ Queued(j) => down[i].req < down[j].req
           UU == \A i, j \in 1..Len(up) : i < j /\ Returned(i) /\ Returned(j) => up[i].req < up[j].req
           UD == \A i \in 1..Len(up), j \in 1..Len(down) : Returned(i) /\ Queued(j) => up[i].req < down[j].req
           FD == fw.at # "loop" => \A j \in 1..Len(down) : Queued(j) => fw.req < down[j].req
           UF == fw.at \in {"read", "magic"} => \A i \in 1..Len(up) : Returned(i) => up[i].req < fw.req
<1>1. DD /\ UU /\ UD /\ FD /\ UF
  BY DEF Ordered
<1>2. DD' /\ UU' /\ UD' /\ FD' /\ UF' => Ordered'
  BY DEF Ordered
<1>3. Owned /\ Whole /\ Len(sent) \in Nat /\ Len(up) \in Nat /\ Len(down) \in Nat
  BY UpTyped, DownTyped DEF InStep, Types
<1>4. ASSUME NEW n, Drops(n), NEW k \in 0..Len(down), Len(down') = k,
             \A i \in 1..k : down'[i] = down[i], UNCHANGED fw
      PROVE  Ordered'
  <2>1. ASSUME NEW i \in 1..Len(up')
        PROVE  n + i \in 1..Len(up) /\ up'[i] = up[n + i]
    BY <1>3, <1>4 DEF Drops
  <2>2. \A i \in 1..k : i \in 1..Len(down)
    BY <1>3, <1>4
  <2>3. DD'
    BY <1>1, <1>4, <2>2 DEF Queued
  <2>4. UU'
    <3> SUFFICES ASSUME NEW i \in 1..Len(up'), NEW j \in 1..Len(up'), i < j,
                        up'[i].type = "magic", up'[j].type = "magic"
                 PROVE  up'[i].req < up'[j].req
      BY DEF Returned
    <3>1. n + i < n + j
      BY <1>4 DEF Drops
    <3> QED BY <1>1, <2>1, <3>1 DEF Returned
  <2>5. UD'
    <3> SUFFICES ASSUME NEW i \in 1..Len(up'), NEW j \in 1..Len(down'),
                        up'[i].type = "magic", down'[j].type = "command"
                 PROVE  up'[i].req < down'[j].req
      BY DEF Returned, Queued
    <3> QED BY <1>1, <1>4, <2>1, <2>2 DEF Returned, Queued
  <2>6. FD'
    BY <1>1, <1>4, <2>2 DEF Queued
  <2>7. UF'
    BY <1>1, <1>4, <2>1 DEF Returned
  <2> QED BY <1>2, <2>3, <2>4, <2>5, <2>6, <2>7
<1>5. ASSUME NEW n, Drops(n), UNCHANGED <<down, fw>> PROVE Ordered'
  BY <1>3, <1>4, <1>5
<1>6. ASSUME UNCHANGED <<up, down, fw>> PROVE Ordered'
  BY <1>1, <1>2, <1>6 DEF Queued, Returned
<1>7. CASE FwCommand \/ FwRead
  <2>1. UNCHANGED up /\ down' \in Seq(DownTokens) /\ Len(down) >= 1 /\ Head(down) = down[1]
        /\ Len(down') = Len(down) - 1 /\ \A i \in 1..Len(down') : down'[i] = down[i + 1]
    BY <1>7, DownTaken DEF FwCommand, FwRead
  <2>2. ASSUME NEW i \in 1..Len(down')
        PROVE  i + 1 \in 1..Len(down) /\ down'[i] = down[i + 1] /\ 1 < i + 1
    BY <1>3, <2>1
  <2>3. DD'
    <3> SUFFICES ASSUME NEW i \in 1..Len(down'), NEW j \in 1..Len(down'), i < j,
                        down'[i].type = "command", down'[j].type = "command"
                 PROVE  down'[i].req < down'[j].req
      BY DEF Queued
    <3>1. i + 1 < j + 1
      OBVIOUS
    <3> QED BY <1>1, <2>2, <3>1 DEF Queued
  <2>4. UU'
    BY <1>1, <2>1 DEF Returned
  <2>5. UD'
    <3> SUFFICES ASSUME NEW i \in 1..Len(up), NEW j \in 1..Len(down'),
                        up[i].type = "magic", down'[j].type = "command"
                 PROVE  up[i].req < down'[j].req
      BY <2>1 DEF Returned, Queued
    <3> QED BY <1>1, <2>2 DEF Returned, Queued
  <2>6. FD' /\ UF'
    <3>1. CASE FwRead
      <4>1. fw.at = "read" /\ fw'.req = fw.req
        BY <3>1 DEF FwRead, Types, FwTypes
      <4>2. FD'
        <5> SUFFICES ASSUME NEW j \in 1..Len(down'), down'[j].type = "command"
                     PROVE  fw.req < down'[j].req
          BY <4>1 DEF Queued
        <5> QED BY <1>1, <2>2, <4>1 DEF Queued
      <4>3. UF'
        BY <1>1, <2>1, <4>1 DEF Returned
      <4> QED BY <4>2, <4>3
    <3>2. CASE FwCommand
      <4>1. fw'.at # "loop" => fw'.req = down[1].req
        BY <2>1, <3>2 DEF FwCommand, AtLoop
      <4>2. down[1].type = "command" /\ 1 \in 1..Len(down)
        BY <1>3, <2>1, <3>2 DEF FwCommand, Whole
      <4>3. FD'
        <5> SUFFICES ASSUME NEW j \in 1..Len(down'), down'[j].type = "command"
                     PROVE  down[1].req < down'[j].req
          BY <4>1 DEF Queued
        <5> QED BY <1>1, <2>2, <4>2 DEF Queued
      <4>4. UF'
        <5> SUFFICES ASSUME NEW i \in 1..Len(up), up[i].type = "magic", fw'.at # "loop"
                     PROVE  up[i].req < fw'.req
          BY <2>1 DEF Returned
        <5> QED BY <1>1, <4>1, <4>2 DEF Returned, Queued
      <4> QED BY <4>3, <4>4
    <3> QED BY <1>7, <3>1, <3>2
  <2> QED BY <1>2, <2>3, <2>4, <2>5, <2>6
<1>8. CASE FwMagic
  <2> DEFINE t == [type |-> "magic", kind |-> fw.kind, req |-> fw.req]
  <2>1. UNCHANGED down /\ fw.at = "magic" /\ up' = Append(up, t)
    BY <1>8 DEF FwMagic
  <2>2. t \in UpTokens
    BY <2>1 DEF UpTokens, Types, FwTypes
  <2>3. Grows(t) /\ t.type = "magic" /\ t.req = fw.req
    BY <2>1, <2>2, AppendGrows
  <2> HIDE DEF t
  <2>4. ASSUME NEW i \in 1..Len(up')
        PROVE  \/ i = Len(up) + 1 /\ up'[i].req = fw.req
               \/ i \in 1..Len(up) /\ up'[i] = up[i]
    BY <1>3, <2>3 DEF Grows
  <2>5. fw'.at \in {"loop", "payload"} /\ (fw'.at # "loop" => fw'.req = fw.req)
    <3>1. CASE fw' = AtLoop
      BY <3>1 DEF AtLoop
    <3>2. CASE fw' = [fw EXCEPT !.at = "payload"]
      BY <3>2 DEF Types, FwTypes
    <3> QED BY <1>8, <3>1, <3>2 DEF FwMagic
  <2>6. DD'
    BY <1>1, <2>1 DEF Queued
  <2>7. UU'
    <3> SUFFICES ASSUME NEW i \in 1..Len(up'), NEW j \in 1..Len(up'), i < j,
                        up'[i].type = "magic", up'[j].type = "magic"
                 PROVE  up'[i].req < up'[j].req
      BY DEF Returned
    <3>1. i \in 1..Len(up) /\ up'[i] = up[i]
      <4>1. j <= Len(up) + 1
        BY <2>3 DEF Grows
      <4> QED BY <1>3, <2>4, <4>1
    <3>2. CASE j = Len(up) + 1
      <4>1. up'[j].req = fw.req
        BY <1>3, <2>4, <3>2
      <4> QED BY <1>1, <2>1, <3>1, <4>1 DEF Returned
    <3>3. CASE j # Len(up) + 1
      BY <1>1, <2>4, <3>1, <3>3 DEF Returned
    <3> QED BY <3>2, <3>3
  <2>8. UD'
    <3> SUFFICES ASSUME NEW i \in 1..Len(up'), NEW j \in 1..Len(down),
                        up'[i].type = "magic", down[j].type = "command"
                 PROVE  up'[i].req < down[j].req
      BY <2>1 DEF Returned, Queued
    <3> QED BY <1>1, <2>1, <2>4 DEF Returned, Queued
  <2>9. FD'
    BY <1>1, <2>1, <2>5 DEF Queued
  <2>10. UF'
    BY <2>5
  <2> QED BY <1>2, <2>6, <2>7, <2>8, <2>9, <2>10
<1>9. CASE FwPayload
  <2> DEFINE of == IF fw.kind = "results" THEN result ELSE store
             t == [type |-> "payload", kind |-> fw.kind, req |-> fw.req, of |-> of]
  <2>1. UNCHANGED down /\ fw.at = "payload" /\ up' = Append(up, t) /\ fw'.at = "loop"
    BY <1>9 DEF FwPayload, AtLoop
  <2>2. t \in UpTokens
    <3>1. of \in Seq(Parts)
      BY DEF Types
    <3>2. fw.kind \in Commands /\ fw.req \in Requests
      BY <2>1 DEF Types, FwTypes
    <3> HIDE DEF of
    <3> QED BY <3>1, <3>2 DEF UpTokens
  <2>3. Grows(t) /\ t.type = "payload"
    BY <2>1, <2>2, AppendGrows
  <2> HIDE DEF t
  <2>4. ASSUME NEW i \in 1..Len(up'), up'[i].type = "magic"
        PROVE  i \in 1..Len(up) /\ up'[i] = up[i]
    <3>1. i # Len(up) + 1
      BY <2>3, <2>4 DEF Grows
    <3> QED BY <1>3, <2>3, <3>1 DEF Grows
  <2>5. DD'
    BY <1>1, <2>1 DEF Queued
  <2>6. UU'
    BY <1>1, <2>4 DEF Returned
  <2>7. UD'
    BY <1>1, <2>1, <2>4 DEF Returned, Queued
  <2>8. FD' /\ UF'
    BY <2>1
  <2> QED BY <1>2, <2>5, <2>6, <2>7, <2>8
<1>10. ASSUME NEW looks \in Looks, Send(looks) PROVE Ordered'
  <2> DEFINE d == Len(down)
             a == proto.args[Asked]
             req == Len(sent')
  <2>1. /\ UNCHANGED <<up, fw>> /\ req = Len(sent) + 1 /\ a \in Nat
        /\ Len(down') = d + a + 1
        /\ \A i \in 1..d : down'[i] = down[i]
        /\ down'[d + 1] = [type |-> "command", kind |-> Asked, req |-> req]
        /\ \A i \in 2..(a + 1) : down'[d + i] =
              [type |-> "argument", kind |-> looks, req |-> req, part |-> i - 1]
    BY <1>10, SendPuts DEF Send, board
  <2>2. d \in Nat
    BY <1>3
  <2> HIDE DEF d, a, req
  <2>3. ASSUME NEW j \in 1..Len(down'), down'[j].type = "command"
        PROVE  \/ j = d + 1 /\ down'[j].req = req
               \/ j \in 1..d /\ down'[j] = down[j]
    <3>1. CASE j > d + 1
      <4>1. PICK k \in 2..(a + 1) : d + k = j
        <5>1. j - d \in 2..(a + 1) /\ d + (j - d) = j
          BY <2>1, <2>2, <3>1
        <5> QED BY <5>1
      <4>2. down'[d + k].type = "argument"
        <5>1. down'[d + k] = [type |-> "argument", kind |-> looks, req |-> req, part |-> k - 1]
          BY <2>1
        <5> QED BY <5>1
      <4> QED BY <2>3, <4>1, <4>2
    <3>2. CASE j = d + 1
      BY <2>1, <3>2
    <3>3. CASE j < d + 1
      BY <2>1, <2>2, <3>3
    <3> QED BY <2>2, <3>1, <3>2, <3>3
  <2>4. /\ \A i \in 1..d : down[i].req < req
        /\ \A i \in 1..Len(up) : up[i].req < req
        /\ fw.at # "loop" => fw.req < req
    BY <1>3, <2>1 DEF Owned, d
  <2>5. DD'
    <3> SUFFICES ASSUME NEW i \in 1..Len(down'), NEW j \in 1..Len(down'), i < j,
                        down'[i].type = "command", down'[j].type = "command"
                 PROVE  down'[i].req < down'[j].req
      BY DEF Queued
    <3>1. i \in 1..d /\ down'[i] = down[i]
      <4>1. j <= d + 1
        BY <2>2, <2>3
      <4> QED BY <2>2, <2>3, <4>1
    <3>2. CASE j = d + 1
      <4>1. down'[j].req = req
        BY <2>2, <2>3, <3>2
      <4> QED BY <2>4, <3>1, <4>1
    <3>3. CASE j # d + 1
      BY <1>1, <2>3, <3>1, <3>3 DEF Queued, d
    <3> QED BY <3>2, <3>3
  <2>6. UU'
    BY <1>1, <2>1 DEF Returned
  <2>7. UD'
    <3> SUFFICES ASSUME NEW i \in 1..Len(up), NEW j \in 1..Len(down'),
                        up[i].type = "magic", down'[j].type = "command"
                 PROVE  up[i].req < down'[j].req
      BY <2>1 DEF Returned, Queued
    <3> QED BY <1>1, <2>3, <2>4 DEF Returned, Queued, d
  <2>8. FD'
    <3> SUFFICES ASSUME fw.at # "loop", NEW j \in 1..Len(down'), down'[j].type = "command"
                 PROVE  fw.req < down'[j].req
      BY <2>1 DEF Queued
    <3> QED BY <1>1, <2>3, <2>4 DEF Queued, d
  <2>9. UF'
    BY <1>1, <2>1 DEF Returned
  <2> QED BY <1>2, <2>5, <2>6, <2>7, <2>8, <2>9
<1> HIDE DEF DD, UU, UD, FD, UF
<1>11. ASSUME NEW op \in proto.operations, Begin(op) PROVE Ordered'
  BY <1>6, <1>11 DEF Begin, board
<1>12. CASE Sync
  BY <1>5, <1>12, SyncDrops DEF Sync, board
<1>13. CASE Read
  BY <1>5, <1>13, TailDrops DEF Read, board
<1>14. CASE Taken
  BY <1>6, <1>14 DEF Taken, board
<1>15. CASE TimesOut \/ Drain
  BY <1>5, <1>15, EmptyDrops DEF TimesOut, Drain, board
<1>16. ASSUME NEW kept \in 0..Len(down), NEW lost \in 0..Len(up), Close(kept, lost) PROVE Ordered'
  BY <1>4, <1>16, CloseKeeps DEF board
<1>17. CASE UNCHANGED vars
  BY <1>6, <1>17 DEF vars
<1> QED
  BY <1>7, <1>8, <1>9, <1>10, <1>11, <1>12, <1>13, <1>14, <1>15, <1>16, <1>17
     DEF Next, Firmware, Driver

LEMMA LagStep ==
  ASSUME Types, InStep, Ordered, Lag, [Next]_vars, ~cut', Types', Owned'
  PROVE  Lag'
<1> DEFINE Slack == IF host.at = "sync" THEN 1 ELSE 0
           Bound == Len(sent) - abandoned - Slack
           LU == \A i \in 1..Len(up) : Returned(i) => up[i].req > Bound
           LD == \A j \in 1..Len(down) : Queued(j) => down[j].req > Bound
           LF == fw.at \in {"read", "magic"} => fw.req > Bound
<1>1. /\ Owned /\ Whole /\ Len(sent) \in Nat /\ Len(up) \in Nat /\ Len(down) \in Nat /\ abandoned \in Nat
      /\ Slack \in {0, 1} /\ Bound = Len(sent) - abandoned - Slack
  BY UpTyped, DownTyped, BoundAssumption DEF InStep, Types
<1>2. /\ Owned' /\ Len(sent') \in Nat /\ abandoned' \in Nat
      /\ Slack' \in {0, 1} /\ Bound' = Len(sent') - abandoned' - Slack'
  BY BoundAssumption DEF Types
<1>3. LU /\ LD /\ LF
  <2>1. ASSUME NEW r \in Nat PROVE Recent(r) => r > Bound
    BY <1>1, <2>1 DEF Recent
  <2>2. /\ \A i \in 1..Len(up) : up[i].req \in Nat
        /\ \A j \in 1..Len(down) : down[j].req \in Nat
        /\ fw.at # "loop" => fw.req \in Nat
    BY <1>1 DEF Owned
  <2> HIDE DEF Bound
  <2> QED BY <2>1, <2>2 DEF Lag
<1>4. LU' /\ LD' /\ LF' => Lag'
  <2>1. ASSUME NEW r \in Nat, r > Bound' PROVE Recent(r)'
    BY <1>2, <2>1 DEF Recent
  <2>2. /\ \A i \in 1..Len(up') : up'[i].req \in Nat
        /\ \A j \in 1..Len(down') : down'[j].req \in Nat
        /\ fw'.at # "loop" => fw'.req \in Nat
    BY <1>2 DEF Owned
  <2> HIDE DEF Bound
  <2> SUFFICES ASSUME LU', LD', LF' PROVE Lag'
    OBVIOUS
  <2>3. ASSUME NEW i \in 1..Len(up'), Returned(i)' PROVE Recent(up[i].req)'
    <3>1. up'[i].req \in Nat /\ up'[i].req > Bound'
      BY <2>2, <2>3
    <3> QED BY <2>1, <3>1 DEF Recent
  <2>4. ASSUME NEW j \in 1..Len(down'), Queued(j)' PROVE Recent(down[j].req)'
    <3>1. down'[j].req \in Nat /\ down'[j].req > Bound'
      BY <2>2, <2>4
    <3> QED BY <2>1, <3>1 DEF Recent
  <2>5. ASSUME fw'.at \in {"read", "magic"} PROVE Recent(fw.req)'
    <3>1. fw'.req \in Nat /\ fw'.req > Bound'
      BY <2>2, <2>5
    <3> QED BY <2>1, <3>1 DEF Recent
  <2> QED BY <2>3, <2>4, <2>5 DEF Lag
<1>5. Bound \in Int /\ Bound' \in Int
  BY <1>1, <1>2
<1> HIDE DEF Slack, Bound
<1>6. ASSUME UNCHANGED <<host, sent, abandoned>> PROVE Bound' = Bound
  BY <1>6 DEF Bound, Slack
<1>7. ASSUME NEW n, Drops(n), NEW k \in 0..Len(down), Len(down') = k,
             \A i \in 1..k : down'[i] = down[i], UNCHANGED fw, Bound' <= Bound
      PROVE  Lag'
  <2>1. ASSUME NEW i \in 1..Len(up')
        PROVE  n + i \in 1..Len(up) /\ up'[i] = up[n + i]
    BY <1>1, <1>7 DEF Drops
  <2>2. \A j \in 1..k : j \in 1..Len(down)
    BY <1>1, <1>7
  <2>3. /\ \A i \in 1..Len(up) : up[i].req \in Nat
        /\ \A j \in 1..Len(down) : down[j].req \in Nat
        /\ fw.at # "loop" => fw.req \in Nat
    BY <1>1 DEF Owned
  <2>4. \A r \in Nat : r > Bound => r > Bound'
    BY <1>5, <1>7
  <2>5. LU'
    BY <1>3, <2>1, <2>3, <2>4 DEF Returned
  <2>6. LD'
    BY <1>3, <1>7, <2>2, <2>3, <2>4 DEF Queued
  <2>7. LF'
    BY <1>3, <1>7, <2>3, <2>4
  <2> QED BY <1>4, <2>5, <2>6, <2>7
<1>8. ASSUME NEW n, Drops(n), UNCHANGED <<down, fw>>, Bound' <= Bound PROVE Lag'
  BY <1>1, <1>7, <1>8
<1>9. ASSUME UNCHANGED <<up, down, fw>>, Bound' = Bound PROVE Lag'
  BY <1>3, <1>4, <1>9 DEF Queued, Returned
<1>10. CASE FwCommand \/ FwRead
  <2>1. UNCHANGED up /\ Len(down) >= 1 /\ Head(down) = down[1]
        /\ Len(down') = Len(down) - 1 /\ (\A i \in 1..Len(down') : down'[i] = down[i + 1])
        /\ Bound' = Bound
    BY <1>6, <1>10, DownTaken DEF FwCommand, FwRead, history
  <2>2. ASSUME NEW i \in 1..Len(down')
        PROVE  i + 1 \in 1..Len(down) /\ down'[i] = down[i + 1]
    BY <1>1, <2>1
  <2>3. LU'
    BY <1>3, <2>1 DEF Returned
  <2>4. LD'
    BY <1>3, <2>1, <2>2 DEF Queued
  <2>5. LF'
    <3>1. CASE FwRead
      <4>1. fw.at = "read" /\ fw'.req = fw.req
        BY <3>1 DEF FwRead, Types, FwTypes
      <4> QED BY <1>3, <2>1, <4>1
    <3>2. CASE FwCommand
      <4>1. fw'.at # "loop" => fw'.req = down[1].req
        BY <2>1, <3>2 DEF FwCommand, AtLoop
      <4>2. down[1].type = "command" /\ 1 \in 1..Len(down)
        BY <1>1, <2>1, <3>2 DEF FwCommand, Whole
      <4> QED BY <1>3, <2>1, <4>1, <4>2 DEF Queued
    <3> QED BY <1>10, <3>1, <3>2
  <2> QED BY <1>4, <2>3, <2>4, <2>5
<1>11. CASE FwMagic
  <2> DEFINE t == [type |-> "magic", kind |-> fw.kind, req |-> fw.req]
  <2>1. UNCHANGED down /\ fw.at = "magic" /\ up' = Append(up, t) /\ Bound' = Bound
    BY <1>6, <1>11 DEF FwMagic, history
  <2>2. t \in UpTokens
    BY <2>1 DEF UpTokens, Types, FwTypes
  <2>3. Grows(t) /\ t.req = fw.req
    BY <2>1, <2>2, AppendGrows
  <2> HIDE DEF t
  <2>4. ASSUME NEW i \in 1..Len(up')
        PROVE  \/ up'[i].req = fw.req
               \/ i \in 1..Len(up) /\ up'[i] = up[i]
    BY <1>1, <2>3 DEF Grows
  <2>5. fw'.at \in {"loop", "payload"}
    <3>1. CASE fw' = AtLoop
      BY <3>1 DEF AtLoop
    <3>2. CASE fw' = [fw EXCEPT !.at = "payload"]
      BY <3>2 DEF Types, FwTypes
    <3> QED BY <1>11, <3>1, <3>2 DEF FwMagic
  <2>6. LU'
    BY <1>3, <2>1, <2>4 DEF Returned
  <2>7. LD' /\ LF'
    BY <1>3, <2>1, <2>5 DEF Queued
  <2> QED BY <1>4, <2>6, <2>7
<1>12. CASE FwPayload
  <2> DEFINE of == IF fw.kind = "results" THEN result ELSE store
             t == [type |-> "payload", kind |-> fw.kind, req |-> fw.req, of |-> of]
  <2>1. UNCHANGED down /\ fw.at = "payload" /\ up' = Append(up, t) /\ fw'.at = "loop" /\ Bound' = Bound
    BY <1>6, <1>12 DEF FwPayload, AtLoop, history
  <2>2. t \in UpTokens
    <3>1. of \in Seq(Parts)
      BY DEF Types
    <3>2. fw.kind \in Commands /\ fw.req \in Requests
      BY <2>1 DEF Types, FwTypes
    <3> HIDE DEF of
    <3> QED BY <3>1, <3>2 DEF UpTokens
  <2>3. Grows(t) /\ t.type = "payload"
    BY <2>1, <2>2, AppendGrows
  <2> HIDE DEF t
  <2>4. ASSUME NEW i \in 1..Len(up'), up'[i].type = "magic"
        PROVE  i \in 1..Len(up) /\ up'[i] = up[i]
    <3>1. i # Len(up) + 1
      BY <2>3, <2>4 DEF Grows
    <3> QED BY <1>1, <2>3, <3>1 DEF Grows
  <2>5. LU'
    BY <1>3, <2>1, <2>4 DEF Returned
  <2>6. LD' /\ LF'
    BY <1>3, <2>1 DEF Queued
  <2> QED BY <1>4, <2>5, <2>6
<1>13. ASSUME NEW op \in proto.operations, Begin(op) PROVE Lag'
  <2>1. UNCHANGED <<up, down, fw, sent, abandoned>> /\ host.at = "idle" /\ host'.at = "send"
    BY <1>13 DEF Begin, board, history, AtRest
  <2> QED BY <1>9, <2>1 DEF Bound, Slack
<1>14. ASSUME NEW looks \in Looks, Send(looks) PROVE Lag'
  <2> DEFINE d == Len(down)
             a == proto.args[Asked]
             req == Len(sent')
  <2>1. /\ UNCHANGED <<up, fw>> /\ req = Len(sent) + 1 /\ a \in Nat
        /\ Len(down') = d + a + 1
        /\ \A i \in 1..d : down'[i] = down[i]
        /\ down'[d + 1] = [type |-> "command", kind |-> Asked, req |-> req]
        /\ \A i \in 2..(a + 1) : down'[d + i] =
              [type |-> "argument", kind |-> looks, req |-> req, part |-> i - 1]
    BY <1>14, SendPuts DEF Send, board
  <2>2. d \in Nat
    BY <1>1
  <2>3. Bound' = Bound /\ req > Bound
    <3>1. host.at = "send" /\ host'.at = "sync" /\ abandoned' = abandoned
      BY <1>14 DEF Send, history, Types, HostTypes
    <3>2. Slack = 0 /\ Slack' = 1
      BY <3>1 DEF Slack
    <3>3. Bound = Len(sent) - abandoned - 0 /\ Bound' = req - abandoned - 1
      BY <3>1, <3>2 DEF Bound
    <3> QED BY <1>1, <2>1, <3>3
  <2> HIDE DEF d, a, req
  <2>4. ASSUME NEW j \in 1..Len(down')
        PROVE  down'[j].req = req \/ (j \in 1..d /\ down'[j] = down[j])
    <3>1. CASE j > d + 1
      <4>1. PICK k \in 2..(a + 1) : d + k = j
        <5>1. j - d \in 2..(a + 1) /\ d + (j - d) = j
          BY <2>1, <2>2, <3>1
        <5> QED BY <5>1
      <4>2. down'[d + k] = [type |-> "argument", kind |-> looks, req |-> req, part |-> k - 1]
        BY <2>1
      <4>3. down'[d + k].req = req
        BY <4>2
      <4> QED BY <4>1, <4>3
    <3>2. CASE j = d + 1
      BY <2>1, <3>2
    <3>3. CASE j < d + 1
      BY <2>1, <2>2, <3>3
    <3> QED BY <2>2, <3>1, <3>2, <3>3
  <2>5. LU'
    BY <1>3, <2>1, <2>3 DEF Returned
  <2>6. LD'
    BY <1>3, <2>3, <2>4 DEF Queued, d
  <2>7. LF'
    BY <1>3, <2>1, <2>3
  <2> QED BY <1>4, <2>5, <2>6, <2>7
<1>15. CASE Sync
  <2> DEFINE n == Min(Answer)
             r == up[n].req
  <2>1. Drops(n) /\ n \in 1..Len(up) /\ up[n].type = "magic"
    BY <1>15, SyncDrops, FirstAnswer DEF Sync
  <2>2. UNCHANGED <<down, fw, sent, abandoned>> /\ host.at = "sync" /\ host'.at # "sync"
    BY <1>15 DEF Sync, board, history, Types, HostTypes
  <2> HIDE DEF n
  <2>3. r > Bound /\ r \in Nat
    BY <1>1, <1>3, <2>1 DEF Returned, Owned
  <2> HIDE DEF r
  <2>4. Bound' = Bound + 1
    <3>1. Slack = 1 /\ Slack' = 0
      BY <2>2 DEF Slack
    <3>2. Bound = Len(sent) - abandoned - 1 /\ Bound' = Len(sent) - abandoned - 0
      BY <2>2, <3>1 DEF Bound
    <3> QED BY <1>1, <3>2
  <2>5. \A q \in Nat : q > r => q > Bound'
    BY <1>5, <2>3, <2>4
  <2>6. /\ \A i \in 1..Len(up) : up[i].req \in Nat
        /\ \A j \in 1..Len(down) : down[j].req \in Nat
        /\ fw.at # "loop" => fw.req \in Nat
    BY <1>1 DEF Owned
  <2>7. LU'
    <3> SUFFICES ASSUME NEW i \in 1..Len(up'), up'[i].type = "magic" PROVE up'[i].req > Bound'
      BY DEF Returned
    <3>1. n + i \in 1..Len(up) /\ up'[i] = up[n + i] /\ n < n + i
      BY <1>1, <2>1 DEF Drops
    <3>2. r < up[n + i].req
      BY <2>1, <3>1 DEF Ordered, Returned, r
    <3>3. up[n + i].req > r
      BY <2>3, <2>6, <3>1, <3>2
    <3> QED BY <2>5, <2>6, <3>1, <3>3
  <2>8. LD'
    <3> SUFFICES ASSUME NEW j \in 1..Len(down), down[j].type = "command" PROVE down[j].req > Bound'
      BY <2>2 DEF Queued
    <3>1. r < down[j].req
      BY <2>1 DEF Ordered, Returned, Queued, r
    <3>2. down[j].req > r
      BY <2>3, <2>6, <3>1
    <3> QED BY <2>5, <2>6, <3>2
  <2>9. LF'
    <3> SUFFICES ASSUME fw.at \in {"read", "magic"} PROVE fw.req > Bound'
      BY <2>2
    <3>1. r < fw.req
      BY <2>1 DEF Ordered, Returned, r
    <3>2. fw.req > r
      BY <2>3, <2>6, <3>1
    <3> QED BY <2>5, <2>6, <3>2
  <2> QED BY <1>4, <2>7, <2>8, <2>9
<1>16. CASE Read
  <2>1. UNCHANGED <<down, fw, sent, abandoned>> /\ host.at = "payload" /\ host'.at = "taken" /\ Drops(1)
    BY <1>16, TailDrops DEF Read, board, history, Types, HostTypes
  <2>2. Bound' = Bound
    BY <2>1 DEF Bound, Slack
  <2> QED BY <1>5, <1>8, <2>1, <2>2
<1>17. CASE Taken
  <2>1. UNCHANGED <<up, down, fw, sent, abandoned>> /\ host.at = "taken" /\ host'.at # "sync"
    BY <1>17 DEF Taken, board, history, AtRest, Types, HostTypes
  <2> QED BY <1>9, <2>1 DEF Bound, Slack
<1>18. CASE Drain
  <2>1. UNCHANGED <<down, fw, sent, abandoned>> /\ host.at = "drain" /\ host'.at = "send" /\ Drops(Len(up))
    BY <1>18, EmptyDrops DEF Drain, board, history, Types, HostTypes
  <2>2. Bound' = Bound
    BY <2>1 DEF Bound, Slack
  <2> QED BY <1>5, <1>8, <2>1, <2>2
<1>19. CASE TimesOut
  <2>1. UNCHANGED <<down, fw, sent>> /\ abandoned' = abandoned + 1 /\ Drops(Len(up))
    BY <1>19, EmptyDrops DEF TimesOut, board
  <2>2. Slack' = 0
    <3>1. CASE host' = AtRest
      BY <3>1 DEF AtRest, Slack
    <3>2. CASE host' = [host EXCEPT !.at = "drain", !.retried = TRUE]
      BY <3>2 DEF Types, HostTypes, Slack
    <3> QED BY <1>19, <3>1, <3>2 DEF TimesOut
  <2>3. Bound' = Len(sent) - (abandoned + 1) - 0
    BY <1>2, <2>1, <2>2
  <2>4. Bound' <= Bound
    BY <1>1, <2>3
  <2> QED BY <1>8, <2>1, <2>4
<1>20. ASSUME NEW kept \in 0..Len(down), NEW lost \in 0..Len(up), Close(kept, lost) PROVE Lag'
  <2>1. /\ UNCHANGED <<fw, sent>> /\ Drops(lost) /\ host' = AtRest
        /\ Len(down') = kept /\ \A i \in 1..kept : down'[i] = down[i]
    BY <1>20, CloseKeeps DEF board
  <2>2. abandoned' = IF host.at \in {"sync", "payload"} THEN abandoned + 1 ELSE abandoned
    BY <1>20 DEF Close, Outstanding
  <2>3. Slack' = 0 /\ (Slack = 1 => abandoned' = abandoned + 1) /\ abandoned' >= abandoned
    BY <1>1, <2>1, <2>2 DEF Slack, AtRest
  <2>4. Bound' = Len(sent) - abandoned' - 0
    BY <1>2, <2>1, <2>3
  <2>5. Bound' <= Bound
    BY <1>1, <1>2, <2>3, <2>4
  <2> QED BY <1>7, <2>1, <2>5
<1>21. CASE UNCHANGED vars
  BY <1>6, <1>9, <1>21 DEF vars
<1> QED
  BY <1>10, <1>11, <1>12, <1>13, <1>14, <1>15, <1>16, <1>17, <1>18, <1>19, <1>20, <1>21
     DEF Next, Firmware, Driver

LEMMA RepliedStep ==
  ASSUME Types, InStep, Lag, Replied, [Next]_vars, ~cut'
  PROVE  Replied'
<1>1. Len(sent) \in Nat /\ abandoned \in Nat /\ Owned
  BY BoundAssumption DEF Types, InStep
<1>2. ASSUME host'.at \notin {"payload", "taken"} PROVE Replied'
  BY <1>2 DEF Replied
<1>3. ASSUME UNCHANGED <<sent, abandoned, host>> PROVE Replied'
  BY <1>3 DEF Replied, Asked
<1>4. CASE Firmware \/ UNCHANGED vars
  BY <1>3, <1>4 DEF Firmware, FwCommand, FwRead, FwMagic, FwPayload, vars, history
<1>5. ASSUME NEW op \in proto.operations, Begin(op) PROVE Replied'
  BY <1>2, <1>5 DEF Begin, AtRest
<1>6. ASSUME NEW looks \in Looks, Send(looks) PROVE Replied'
  <2>1. host'.at = "sync"
    BY <1>6 DEF Send, Types, HostTypes
  <2> QED BY <1>2, <2>1
<1>7. CASE Sync
  <2> DEFINE n == Min(Answer)
             r == up[n].req
  <2>1. n \in 1..Len(up) /\ up[n].type = "magic" /\ up[n].kind = Asked
    BY <1>7, FirstAnswer DEF Sync
  <2>2. UNCHANGED <<sent, abandoned>> /\ host.at = "sync" /\ host'.reply.req = r
        /\ host'.op = host.op /\ host'.step = host.step
    BY <1>7 DEF Sync, history, Types, HostTypes, Waiting
  <2> HIDE DEF n
  <2>3. r \in 1..Len(sent) /\ sent[r] = Asked
    BY <1>1, <2>1 DEF Owned
  <2>4. Len(sent) < r + abandoned + 1
    BY <2>1, <2>2 DEF Lag, Returned, Recent
  <2> HIDE DEF r
  <2>5. Len(sent) <= r + abandoned
    BY <1>1, <2>3, <2>4
  <2> QED BY <2>2, <2>3, <2>5 DEF Replied, Asked
<1>8. CASE Read
  <2>1. UNCHANGED <<sent, abandoned>> /\ host.at = "payload" /\ host'.reply.req = host.reply.req
        /\ host'.op = host.op /\ host'.step = host.step
    BY <1>8 DEF Read, history, Types, HostTypes
  <2> QED BY <2>1 DEF Replied, Asked
<1>9. CASE Taken
  <2>1. host'.at \in {"send", "idle"}
    BY <1>9 DEF Taken, AtRest, Types, HostTypes
  <2> QED BY <1>2, <2>1
<1>10. CASE Drain
  <2>1. host'.at = "send"
    BY <1>10 DEF Drain, Types, HostTypes
  <2> QED BY <1>2, <2>1
<1>11. CASE TimesOut
  <2>1. CASE host' = AtRest
    BY <1>2, <2>1 DEF AtRest
  <2>2. CASE host' = [host EXCEPT !.at = "drain", !.retried = TRUE]
    <3>1. host'.at = "drain"
      BY <2>2 DEF Types, HostTypes
    <3> QED BY <1>2, <3>1
  <2> QED BY <1>11, <2>1, <2>2 DEF TimesOut
<1>12. ASSUME NEW kept \in 0..Len(down), NEW lost \in 0..Len(up), Close(kept, lost) PROVE Replied'
  BY <1>2, <1>12 DEF Close, AtRest
<1> QED
  BY <1>4, <1>5, <1>6, <1>7, <1>8, <1>9, <1>10, <1>11, <1>12 DEF Next, Driver

-----------------------------------------------------------------------------
(* The strip of a check *)

LEMMA CheckCommands ==
  ASSUME Types, OwnCommands, host.op = Check
  PROVE  /\ Len(sent) \in Nat /\ StepsSent \in 0..3 /\ StepsSent <= Len(sent)
         /\ Uploaded \in Nat /\ Len(sent) = Uploaded + StepsSent - 1
         /\ StepsSent >= 1 => Uploaded \in 1..Len(sent) /\ sent[Uploaded] = "upload"
         /\ StepsSent >= 2 => sent[Uploaded + 1] = "run"
         /\ StepsSent = 3 => sent[Uploaded + 2] = "results"
<1> DEFINE k == StepsSent
<1>1. Len(Check) = 3 /\ Check[1] = "upload" /\ Check[2] = "run" /\ Check[3] = "results"
  BY DEF Check
<1>2. host.at # "idle"
  <2>1. AtRest.op = << >>
    BY DEF AtRest
  <2>2. Check # << >>
    BY DEF Check
  <2> QED BY <2>1, <2>2 DEF Types, HostTypes
<1>3. host.step \in 1..3
  BY <1>1, <1>2, AskedIs
<1>4. k \in 0..3 /\ Len(sent) \in Nat
  BY <1>2, <1>3 DEF StepsSent, Types
<1>5. k <= Len(sent) /\ \A j \in 1..k : sent[Len(sent) - k + j] = Check[j]
  BY DEF OwnCommands
<1>6. Uploaded = Len(sent) - k + 1
  BY DEF Uploaded
<1> HIDE DEF k
<1>7. Uploaded \in Nat /\ Len(sent) = Uploaded + k - 1
  BY <1>4, <1>5, <1>6
<1>8. k >= 1 => Uploaded \in 1..Len(sent) /\ sent[Uploaded] = "upload"
  BY <1>1, <1>4, <1>5, <1>6
<1>9. ASSUME k >= 2 PROVE sent[Uploaded + 1] = "run"
  <2>1. Len(sent) - k + 2 = Uploaded + 1 /\ 2 \in 1..k
    BY <1>4, <1>6, <1>9
  <2> QED BY <1>1, <1>5, <2>1
<1>10. ASSUME k = 3 PROVE sent[Uploaded + 2] = "results"
  <2>1. Len(sent) - k + 3 = Uploaded + 2 /\ 3 \in 1..k
    BY <1>4, <1>6, <1>10
  <2> QED BY <1>1, <1>5, <2>1
<1> QED
  BY <1>4, <1>5, <1>7, <1>8, <1>9, <1>10 DEF k

(* A request is ahead of the firmware, with it, or behind it. *)
LEMMA FirmwareMoves ==
  ASSUME Types, InStep, Ordered, Firmware, NEW req
  PROVE  /\ Ahead(req) => Ahead(req)' \/ With(req)'
         /\ With(req) => With(req)' \/ (FwMagic /\ Behindhand(req)')
         /\ Behindhand(req) => Behindhand(req)'
<1>1. Owned /\ Whole /\ Len(sent) \in Nat /\ Len(up) \in Nat /\ Len(down) \in Nat
  BY UpTyped, DownTyped DEF InStep, Types
<1>2. CASE FwCommand \/ FwRead
  <2>1. Len(down) >= 1 /\ Head(down) = down[1] /\ Len(down') = Len(down) - 1
        /\ \A i \in 1..Len(down') : down'[i] = down[i + 1]
    BY <1>2, DownTaken
  <2>2. ASSUME NEW i \in 1..Len(down')
        PROVE  i + 1 \in 1..Len(down) /\ down'[i] = down[i + 1]
    BY <1>1, <2>1
  <2>3. ASSUME NEW j \in 1..Len(down), j # 1 PROVE \E i \in 1..Len(down') : down'[i] = down[j]
    <3>1. j - 1 \in 1..Len(down') /\ (j - 1) + 1 = j
      BY <1>1, <2>1, <2>3
    <3> QED BY <2>1, <3>1
  <2>4. CASE FwRead
    <3>1. fw.at = "read" /\ fw'.req = fw.req /\ fw'.at \in {"read", "magic"}
      BY <2>4 DEF FwRead, Types, FwTypes
    <3>2. down[1].type # "command"
      BY <2>4, <3>1, <1>1 DEF FwRead, Whole
    <3>3. Ahead(req) => Ahead(req)'
      <4> SUFFICES ASSUME NEW j \in 1..Len(down), Queued(j), down[j].req = req PROVE Ahead(req)'
        BY DEF Ahead
      <4>1. j # 1
        BY <3>2 DEF Queued
      <4>2. PICK i \in 1..Len(down') : down'[i] = down[j]
        BY <2>3, <4>1
      <4> QED BY <4>2 DEF Ahead, Queued
    <3>4. With(req) => With(req)'
      BY <3>1 DEF With
    <3>5. Behindhand(req) => Behindhand(req)'
      BY <2>2, <3>1 DEF Behindhand, Queued
    <3> QED BY <3>3, <3>4, <3>5
  <2>5. CASE FwCommand
    <3>1. fw.at = "loop" /\ down # << >> /\ 1 \in 1..Len(down)
      BY <1>1, <2>1, <2>5 DEF FwCommand
    <3>2. down[1].type = "command"
      BY <1>1, <3>1 DEF Whole
    <3>3. down[1].kind \in Commands
      BY <3>1, <3>2, DownTyped DEF DownTokens
    <3>4. fw'.req = down[1].req /\ fw'.at \in {"read", "magic"}
      BY <2>1, <2>5, <3>3 DEF FwCommand, Commands
    <3>5. Ahead(req) => Ahead(req)' \/ With(req)'
      <4> SUFFICES ASSUME NEW j \in 1..Len(down), Queued(j), down[j].req = req
                   PROVE Ahead(req)' \/ With(req)'
        BY DEF Ahead
      <4>1. CASE j = 1
        BY <3>4, <4>1 DEF With
      <4>2. CASE j # 1
        <5>1. PICK i \in 1..Len(down') : down'[i] = down[j]
          BY <2>3, <4>2
        <5> QED BY <5>1 DEF Ahead, Queued
      <4> QED BY <4>1, <4>2
    <3>6. ~With(req)
      BY <3>1 DEF With
    <3>7. Behindhand(req) => Behindhand(req)'
      BY <2>2, <3>1, <3>2, <3>4 DEF Behindhand, Queued
    <3> QED BY <3>5, <3>6, <3>7
  <2> QED BY <1>2, <2>4, <2>5
<1>3. CASE FwMagic \/ FwPayload
  <2>1. UNCHANGED down /\ fw.at \in {"magic", "payload"} /\ (fw.at = "magic" => FwMagic)
    BY <1>3 DEF FwMagic, FwPayload
  <2>2. fw'.at \in {"loop", "payload"}
    <3>1. CASE fw' = AtLoop
      BY <3>1 DEF AtLoop
    <3>2. CASE fw' = [fw EXCEPT !.at = "payload"]
      BY <3>2 DEF Types, FwTypes
    <3> QED BY <1>3, <3>1, <3>2 DEF FwMagic, FwPayload
  <2>3. Ahead(req) => Ahead(req)'
    BY <2>1 DEF Ahead, Queued
  <2>4. Behindhand(req) => Behindhand(req)'
    BY <2>1, <2>2 DEF Behindhand, Queued
  <2>5. ASSUME With(req) PROVE FwMagic /\ Behindhand(req)'
    <3>1. fw.at = "magic" /\ fw.req = req
      BY <2>1, <2>5 DEF With
    <3>2. \A j \in 1..Len(down) : Queued(j) => req < down[j].req
      BY <3>1 DEF Ordered
    <3>3. \A j \in 1..Len(down) : down[j].req \in Nat
      BY <1>1 DEF Owned
    <3>4. req \in Nat
      BY <1>1, <3>1 DEF Owned
    <3>5. \A j \in 1..Len(down) : Queued(j) => down[j].req > req
      BY <3>2, <3>3, <3>4
    <3> QED BY <2>1, <2>2, <3>1, <3>5 DEF Behindhand, Queued
  <2> QED BY <2>3, <2>4, <2>5
<1> QED
  BY <1>2, <1>3 DEF Firmware

(* Behind a command that the firmware is answering, the older ones are done. *)
LEMMA OlderAreDone ==
  ASSUME Types, InStep, Ordered, fw.at \in {"magic", "payload"}, NEW req \in Nat, req < fw.req
  PROVE  ~Ahead(req) /\ ~With(req)
<1>1. fw.req \in Nat /\ \A j \in 1..Len(down) : down[j].req \in Nat
  BY DEF InStep, Owned, Types
<1>2. \A j \in 1..Len(down) : Queued(j) => fw.req < down[j].req
  BY DEF Ordered
<1>3. \A j \in 1..Len(down) : Queued(j) => down[j].req # req
  BY <1>1, <1>2
<1> QED
  BY <1>1, <1>3 DEF Ahead, With

LEMMA CheckStep ==
  ASSUME Types, Paired, OwnCommands, InStep, Ordered, CheckInv, [Next]_vars, ~cut',
         Types', OwnCommands'
  PROVE  CheckInv'
<1> SUFFICES ASSUME host'.op = Check PROVE StripSent' /\ StripRun' /\ StripBack'
  BY DEF CheckInv, Check
<1>0. PICK k, U : k = StepsSent /\ U = Uploaded
  OBVIOUS
<1>1. Owned /\ Whole /\ Reading /\ Len(sent) \in Nat /\ Len(up) \in Nat /\ Len(down) \in Nat
      /\ proto' = proto /\ \A r : Strip(r)' = Strip(r)
  BY UpTyped, DownTyped, ProtoStays DEF InStep, Types, Strip
<1>2. ASSUME host.op = Check
      PROVE  /\ k \in 0..3 /\ U \in Nat /\ Len(sent) = U + k - 1
             /\ k >= 1 => U \in 1..Len(sent) /\ sent[U] = "upload"
             /\ k >= 2 => sent[U + 1] = "run"
             /\ k = 3 => sent[U + 2] = "results"
             /\ StripSent /\ StripRun /\ StripBack
  BY <1>0, <1>2, CheckCommands DEF CheckInv
<1>3. ASSUME StepsSent' = 0 PROVE StripSent' /\ StripRun' /\ StripBack'
  BY <1>3 DEF StripSent, StripRun, StripBack
<1>4. Check # AtRest.op
  BY DEF Check, AtRest
<1>5. ASSUME UNCHANGED <<host, sent>> PROVE StepsSent' = k /\ Uploaded' = U
  BY <1>0, <1>5 DEF StepsSent, Uploaded
<1>6. ASSUME UNCHANGED <<down, fw>>, NEW r PROVE Ahead(r)' = Ahead(r) /\ With(r)' = With(r) /\ Behindhand(r)' = Behindhand(r)
  BY <1>6 DEF Ahead, With, Behindhand, Queued
<1>7. ASSUME UNCHANGED <<down, fw, store, result>>, StepsSent' = k, Uploaded' = U, StripSent, StripRun
      PROVE  StripSent' /\ StripRun'
  BY <1>0, <1>1, <1>6, <1>7 DEF StripSent, StripRun, Settled
<1>8. CASE Firmware
  <2>1. UNCHANGED <<host, sent>>
    BY <1>8 DEF Firmware, FwCommand, FwRead, FwMagic, FwPayload
  <2>2. /\ k \in 0..3 /\ U \in Nat /\ Len(sent) = U + k - 1
        /\ k >= 1 => U \in 1..Len(sent) /\ sent[U] = "upload"
        /\ k >= 2 => sent[U + 1] = "run"
        /\ k = 3 => sent[U + 2] = "results"
        /\ StripSent /\ StripRun /\ StripBack
    BY <1>2, <2>1
  <2>3. StepsSent' = k /\ Uploaded' = U
    BY <1>5, <2>1
  <2>4. /\ k >= 1 => Settled(U, store)
        /\ k >= 2 => Settled(U + 1, result)
    BY <1>0, <2>2 DEF StripSent, StripRun
  <2>5. ASSUME NEW r PROVE
          /\ Ahead(r) => Ahead(r)' \/ With(r)'
          /\ With(r) => With(r)' \/ (FwMagic /\ Behindhand(r)')
          /\ Behindhand(r) => Behindhand(r)'
    BY <1>8, FirmwareMoves
  <2>6. ASSUME fw.at # "loop" PROVE fw.req \in 1..Len(sent) /\ fw.kind = sent[fw.req] /\ fw.req \in Nat
    BY <1>1, <2>6 DEF Owned
  <2>7. StripSent'
    <3> SUFFICES ASSUME k >= 1 PROVE Ahead(U)' \/ With(U)' \/ (store' = Strip(U) /\ Behindhand(U)')
      BY <1>1, <2>3 DEF StripSent, Settled
    <3>1. CASE Ahead(U)
      BY <2>5, <3>1
    <3>2. CASE With(U)
      <4>1. CASE With(U)'
        BY <4>1
      <4>2. CASE FwMagic /\ Behindhand(U)'
        <5>1. fw.at = "magic" /\ fw.req = U
          BY <3>2, <4>2 DEF FwMagic, With
        <5>2. fw.kind = "upload"
          BY <2>2, <2>6, <5>1
        <5>3. fw.read = [i \in 1..proto.args["upload"] |-> [req |-> U, part |-> i]]
          BY <1>1, <5>1, <5>2 DEF Reading
        <5>4. store' = fw.read
          BY <4>2, <5>2 DEF FwMagic
        <5> QED BY <4>2, <5>3, <5>4 DEF Strip
      <4> QED BY <2>5, <3>2, <4>1, <4>2
    <3>3. CASE store = Strip(U) /\ Behindhand(U)
      <4>1. Behindhand(U)'
        BY <2>5, <3>3
      <4>2. store' = store
        <5>1. CASE FwMagic
          <6>1. fw.at = "magic"
            BY <5>1 DEF FwMagic
          <6>2. fw.req > U
            BY <3>3, <6>1 DEF Behindhand
          <6>3. (fw.req = U + 1 /\ k >= 2) \/ (fw.req = U + 2 /\ k = 3)
            BY <2>2, <2>6, <6>1, <6>2
          <6>4. fw.kind \in {"run", "results"}
            BY <2>2, <2>6, <6>1, <6>3
          <6> QED BY <5>1, <6>4 DEF FwMagic
        <5>2. CASE FwCommand \/ FwRead \/ FwPayload
          BY <5>2 DEF FwCommand, FwRead, FwPayload
        <5> QED BY <1>8, <5>1, <5>2 DEF Firmware
      <4> QED BY <3>3, <4>1, <4>2
    <3> QED BY <1>0, <2>4, <3>1, <3>2, <3>3 DEF Settled
  <2>8. StripRun'
    <3> SUFFICES ASSUME k >= 2 PROVE Ahead(U + 1)' \/ With(U + 1)' \/ (result' = Strip(U) /\ Behindhand(U + 1)')
      BY <1>1, <2>3 DEF StripRun, Settled
    <3>1. CASE Ahead(U + 1)
      BY <2>5, <3>1
    <3>2. CASE With(U + 1)
      <4>1. CASE With(U + 1)'
        BY <4>1
      <4>2. CASE FwMagic /\ Behindhand(U + 1)'
        <5>1. fw.at = "magic" /\ fw.req = U + 1
          BY <3>2, <4>2 DEF FwMagic, With
        <5>2. fw.kind = "run"
          BY <2>2, <2>6, <5>1
        <5>3. U < fw.req /\ k >= 1
          BY <2>2, <5>1
        <5>4. ~Ahead(U) /\ ~With(U)
          BY <2>2, <5>1, <5>3, OlderAreDone
        <5>5. store = Strip(U)
          BY <1>0, <2>4, <5>3, <5>4 DEF Settled
        <5>6. result' = store
          BY <4>2, <5>2 DEF FwMagic
        <5> QED BY <4>2, <5>5, <5>6
      <4> QED BY <2>5, <3>2, <4>1, <4>2
    <3>3. CASE result = Strip(U) /\ Behindhand(U + 1)
      <4>1. Behindhand(U + 1)'
        BY <2>5, <3>3
      <4>2. result' = result
        <5>1. CASE FwMagic
          <6>1. fw.at = "magic"
            BY <5>1 DEF FwMagic
          <6>2. fw.req > U + 1
            BY <3>3, <6>1 DEF Behindhand
          <6>3. fw.req = U + 2 /\ k = 3
            BY <2>2, <2>6, <6>1, <6>2
          <6>4. fw.kind = "results"
            BY <2>2, <2>6, <6>1, <6>3
          <6> QED BY <5>1, <6>4 DEF FwMagic
        <5>2. CASE FwCommand \/ FwRead \/ FwPayload
          BY <5>2 DEF FwCommand, FwRead, FwPayload
        <5> QED BY <1>8, <5>1, <5>2 DEF Firmware
      <4> QED BY <3>3, <4>1, <4>2
    <3> QED BY <1>0, <2>4, <3>1, <3>2, <3>3 DEF Settled
  <2>9. StripBack'
    <3>1. k = 3 => /\ \A i \in 1..Len(up) : PayloadOf(up[i], "results", U + 2) => up[i].of = Strip(U)
                   /\ host.at = "taken" /\ host.reply.req = U + 2 => host.reply.of = Strip(U)
      BY <1>0, <2>2 DEF StripBack
    <3> SUFFICES ASSUME k = 3, NEW i \in 1..Len(up'), PayloadOf(up'[i], "results", U + 2)
                 PROVE  up'[i].of = Strip(U)
      BY <1>1, <2>1, <2>3, <3>1 DEF StripBack, PayloadOf
    <3>2. CASE FwCommand \/ FwRead
      BY <3>1, <3>2 DEF FwCommand, FwRead
    <3>3. CASE FwMagic
      <4> DEFINE t == [type |-> "magic", kind |-> fw.kind, req |-> fw.req]
      <4>1. fw.at = "magic" /\ up' = Append(up, t)
        BY <3>3 DEF FwMagic
      <4>2. t \in UpTokens
        BY <4>1 DEF UpTokens, Types, FwTypes
      <4>3. Grows(t) /\ t.type = "magic"
        BY <4>1, <4>2, AppendGrows
      <4> HIDE DEF t
      <4>4. i # Len(up) + 1
        BY <4>3 DEF Grows, PayloadOf
      <4>5. i \in 1..Len(up) /\ up'[i] = up[i]
        BY <1>1, <4>3, <4>4 DEF Grows
      <4> QED BY <3>1, <4>5
    <3>4. CASE FwPayload
      <4> DEFINE of == IF fw.kind = "results" THEN result ELSE store
                 t == [type |-> "payload", kind |-> fw.kind, req |-> fw.req, of |-> of]
      <4>1. fw.at = "payload" /\ up' = Append(up, t)
        BY <3>4 DEF FwPayload
      <4>2. t \in UpTokens
        <5>1. of \in Seq(Parts)
          BY DEF Types
        <5>2. fw.kind \in Commands /\ fw.req \in Requests
          BY <4>1 DEF Types, FwTypes
        <5> HIDE DEF of
        <5> QED BY <5>1, <5>2 DEF UpTokens
      <4>3. Grows(t) /\ t.kind = fw.kind /\ t.req = fw.req /\ t.of = of
        BY <4>1, <4>2, AppendGrows
      <4>4. of = IF fw.kind = "results" THEN result ELSE store
        OBVIOUS
      <4> HIDE DEF t, of
      <4>5. CASE i = Len(up) + 1
        <5>1. fw.kind = "results" /\ fw.req = U + 2 /\ up'[i].of = of
          BY <4>3, <4>5 DEF Grows, PayloadOf
        <5>2. U + 1 \in Nat /\ U + 1 < fw.req /\ k >= 2
          BY <2>2, <5>1
        <5>3. ~Ahead(U + 1) /\ ~With(U + 1)
          BY <4>1, <5>2, OlderAreDone
        <5>4. result = Strip(U)
          BY <1>0, <2>4, <5>2, <5>3 DEF Settled
        <5> QED BY <4>4, <5>1, <5>4
      <4>6. CASE i # Len(up) + 1
        <5>1. i \in 1..Len(up) /\ up'[i] = up[i]
          BY <1>1, <4>3, <4>6 DEF Grows
        <5> QED BY <3>1, <5>1
      <4> QED BY <4>5, <4>6
    <3> QED BY <1>8, <3>2, <3>3, <3>4 DEF Firmware
  <2> QED BY <2>7, <2>8, <2>9
<1>9. ASSUME NEW op \in proto.operations, Begin(op) PROVE StripSent' /\ StripRun' /\ StripBack'
  <2>1. host'.at = "send" /\ host'.step = 1
    BY <1>9 DEF Begin, AtRest
  <2> QED BY <1>0, <1>3, <2>1 DEF StepsSent
<1>10. ASSUME NEW looks \in Looks, Send(looks) PROVE StripSent' /\ StripRun' /\ StripBack'
  <2> DEFINE d == Len(down)
             a == proto.args[Asked]
  <2>0. PICK req : req = Len(sent')
    OBVIOUS
  <2>1. /\ UNCHANGED <<up, fw, store, result>> /\ req = Len(sent) + 1 /\ a \in Nat
        /\ Len(down') = d + a + 1
        /\ \A i \in 1..d : down'[i] = down[i]
        /\ down'[d + 1] = [type |-> "command", kind |-> Asked, req |-> req]
        /\ \A i \in 2..(a + 1) : down'[d + i] =
              [type |-> "argument", kind |-> looks, req |-> req, part |-> i - 1]
    BY <1>10, <2>0, SendPuts DEF Send, board
  <2>2. host.at = "send" /\ host'.at = "sync" /\ host'.op = host.op /\ host'.step = host.step
    BY <1>10 DEF Send, Types, HostTypes
  <2>3. /\ k \in 0..3 /\ U \in Nat /\ Len(sent) = U + k - 1 /\ d \in Nat
        /\ StripSent /\ StripRun /\ StripBack
    BY <1>1, <1>2, <2>2
  <2>4. host.step \in Nat /\ k = host.step - 1 /\ StepsSent' = host.step
    BY <1>0, <2>2, AskedIs DEF StepsSent
  <2>5. Uploaded' = U
    <3>1. Uploaded' = req - host.step + 1
      BY <2>0, <2>4 DEF Uploaded
    <3>2. PICK s \in Nat : s = host.step
      BY <2>4
    <3>3. req = Len(sent) + 1 /\ k = s - 1 /\ Len(sent) = U + k - 1 /\ U \in Nat
      BY <2>1, <2>3, <2>4, <3>2
    <3>4. k \in Int /\ Len(sent) \in Int /\ s = k + 1 /\ req = (U + k - 1) + 1
      BY <3>2, <3>3
    <3>5. req = U + k /\ req - (k + 1) + 1 = U
      BY <3>3, <3>4
    <3> QED BY <3>1, <3>2, <3>4, <3>5
  <2>6. StepsSent' = k + 1 /\ req = U + k
    BY <1>1, <2>0, <2>1, <2>3, <2>4
  <2>7. k >= 1 => Settled(U, store)
    BY <1>0, <2>3 DEF StripSent
  <2>8. k >= 2 => Settled(U + 1, result)
    BY <1>0, <2>3 DEF StripRun
  <2> HIDE DEF d, a
  <2>9. ASSUME NEW j \in 1..Len(down'), down'[j].type = "command"
        PROVE  \/ j = d + 1 /\ down'[j].req = req
               \/ j \in 1..d /\ down'[j] = down[j]
    <3>1. CASE j > d + 1
      <4>1. PICK n \in 2..(a + 1) : d + n = j
        <5>1. j - d \in 2..(a + 1) /\ d + (j - d) = j
          BY <2>1, <2>3, <3>1
        <5> QED BY <5>1
      <4>2. down'[d + n] = [type |-> "argument", kind |-> looks, req |-> req, part |-> n - 1]
        BY <2>1
      <4>3. down'[d + n].type = "argument"
        BY <4>2
      <4> QED BY <2>9, <4>1, <4>3
    <3>2. CASE j = d + 1
      BY <2>1, <3>2
    <3>3. CASE j < d + 1
      BY <2>1, <2>3, <3>3
    <3> QED BY <2>3, <3>1, <3>2, <3>3
  <2>10. Ahead(req)'
    <3>1. d + 1 \in 1..Len(down') /\ down'[d + 1].type = "command" /\ down'[d + 1].req = req
      BY <2>1, <2>3
    <3> QED BY <3>1 DEF Ahead, Queued
  <2>11. ASSUME NEW r, Ahead(r) PROVE Ahead(r)'
    <3>1. PICK j \in 1..d : down[j].type = "command" /\ down[j].req = r
      BY <2>11 DEF Ahead, Queued, d
    <3>2. j \in 1..Len(down') /\ down'[j] = down[j]
      BY <2>1, <2>3
    <3> QED BY <3>1, <3>2 DEF Ahead, Queued
  <2>12. ASSUME NEW r PROVE With(r)' = With(r)
    BY <2>1 DEF With
  <2>13. ASSUME NEW r \in Nat, r < req, Behindhand(r) PROVE Behindhand(r)'
    <3>1. req > r
      BY <2>1, <1>1, <2>13
    <3> QED BY <2>1, <2>9, <2>13, <3>1 DEF Behindhand, Queued, d
  <2>14. ASSUME NEW r \in Nat, NEW strip, r = req \/ (r < req /\ Settled(r, strip))
         PROVE  Ahead(r)' \/ With(r)' \/ (strip = Strip(U) /\ Behindhand(r)')
    BY <1>0, <2>10, <2>11, <2>12, <2>13, <2>14 DEF Settled
  <2>15. StripSent'
    <3>1. U = req \/ (U < req /\ k >= 1)
      BY <2>3, <2>6
    <3>2. Ahead(U)' \/ With(U)' \/ (store = Strip(U) /\ Behindhand(U)')
      <4>1. CASE U = req
        BY <2>3, <2>14, <4>1
      <4>2. CASE U < req /\ k >= 1
        BY <2>3, <2>7, <2>14, <4>2
      <4> QED BY <3>1, <4>1, <4>2
    <3> QED BY <1>1, <2>1, <2>5, <3>2 DEF StripSent, Settled
  <2>16. StripRun'
    <3> SUFFICES ASSUME k + 1 >= 2 PROVE Ahead(U + 1)' \/ With(U + 1)' \/ (result = Strip(U) /\ Behindhand(U + 1)')
      BY <1>1, <2>1, <2>5, <2>6 DEF StripRun, Settled
    <3>1. U + 1 \in Nat /\ (U + 1 = req \/ (U + 1 < req /\ k >= 2))
      BY <2>3, <2>6
    <3> QED BY <2>8, <2>14, <3>1
  <2>17. StripBack'
    <3>1. ASSUME k + 1 = 3, NEW i \in 1..Len(up) PROVE ~PayloadOf(up[i], "results", U + 2)
      <4>1. up[i].req \in 1..Len(sent) /\ Len(sent) < U + 2 /\ U + 2 \in Nat
        BY <1>1, <2>3, <3>1 DEF Owned
      <4>2. up[i].req # U + 2
        BY <1>1, <4>1
      <4> QED BY <4>2 DEF PayloadOf
    <3> QED BY <2>1, <2>2, <2>5, <2>6, <3>1 DEF StripBack, PayloadOf
  <2> QED BY <2>15, <2>16, <2>17
<1>11. CASE Sync
  <2>1. UNCHANGED <<down, fw, store, result, sent>> /\ host.at = "sync" /\ Drops(Min(Answer))
        /\ host'.op = host.op /\ host'.step = host.step
        /\ host'.at = (IF proto.payload[Asked] THEN "payload" ELSE "taken")
    BY <1>11, SyncDrops DEF Sync, board, Types, HostTypes
  <2>2. host.op = Check /\ k = host.step /\ StepsSent' = k /\ Uploaded' = U
    BY <1>0, <2>1 DEF StepsSent, Uploaded
  <2>3. k \in 0..3 /\ StripSent /\ StripRun /\ StripBack
    BY <1>2, <2>2
  <2>4. StripSent' /\ StripRun'
    BY <1>7, <2>1, <2>2, <2>3
  <2>5. StripBack'
    <3> DEFINE n == Min(Answer)
    <3> HIDE DEF n
    <3> SUFFICES ASSUME k = 3
                 PROVE  /\ \A i \in 1..Len(up') : PayloadOf(up'[i], "results", U + 2) => up'[i].of = Strip(U)
                        /\ host'.at # "taken"
      BY <1>1, <2>2 DEF StripBack, PayloadOf
    <3>1. \A i \in 1..Len(up) : PayloadOf(up[i], "results", U + 2) => up[i].of = Strip(U)
      BY <1>0, <2>3 DEF StripBack
    <3>2. ASSUME NEW i \in 1..Len(up')
          PROVE  n + i \in 1..Len(up) /\ up'[i] = up[n + i]
      BY <1>1, <2>1 DEF Drops, n
    <3>3. Asked = "results"
      BY <2>2 DEF Asked, Check
    <3>4. proto.payload["results"]
      <4>1. Asked \in Commands
        BY <2>1, AskedIs
      <4> QED BY <3>3, <4>1, OperationAssumption DEF Types, Commands
    <3> QED BY <2>1, <3>1, <3>2, <3>3, <3>4
  <2> QED BY <2>4, <2>5
<1>12. CASE Read
  <2>1. UNCHANGED <<down, fw, store, result, sent>> /\ host.at = "payload" /\ up # << >> /\ up' = Tail(up)
        /\ host'.op = host.op /\ host'.step = host.step /\ host'.at = "taken"
        /\ host'.reply.req = host.reply.req /\ host'.reply.of = Head(up).of
    BY <1>12 DEF Read, board, Types, HostTypes
  <2>2. host.op = Check /\ k = host.step /\ StepsSent' = k /\ Uploaded' = U
    BY <1>0, <2>1 DEF StepsSent, Uploaded
  <2>3. k \in 0..3 /\ StripSent /\ StripRun /\ StripBack
    BY <1>2, <2>2
  <2>4. StripSent' /\ StripRun'
    BY <1>7, <2>1, <2>2, <2>3
  <2>5. Drops(1) /\ Head(up) = up[1] /\ Len(up) >= 1
    BY <2>1, TailDrops
  <2>6. StripBack'
    <3> SUFFICES ASSUME k = 3
                 PROVE  /\ \A i \in 1..Len(up') : PayloadOf(up'[i], "results", U + 2) => up'[i].of = Strip(U)
                        /\ host'.reply.req = U + 2 => host'.reply.of = Strip(U)
      BY <1>1, <2>2 DEF StripBack, PayloadOf
    <3>1. \A i \in 1..Len(up) : PayloadOf(up[i], "results", U + 2) => up[i].of = Strip(U)
      BY <1>0, <2>3 DEF StripBack
    <3>2. ASSUME NEW i \in 1..Len(up')
          PROVE  1 + i \in 1..Len(up) /\ up'[i] = up[1 + i]
      BY <1>1, <2>5 DEF Drops
    <3>3. Asked = "results"
      BY <2>2 DEF Asked, Check
    <3>4. PayloadOf(up[1], "results", host.reply.req)
      BY <2>1, <3>3 DEF Paired, PayloadToCome
    <3>5. 1 \in 1..Len(up)
      BY <1>1, <2>5
    <3>6. host'.reply.req = U + 2 => host'.reply.of = Strip(U)
      BY <2>1, <2>5, <3>1, <3>4, <3>5
    <3> QED BY <3>1, <3>2, <3>6
  <2> QED BY <2>4, <2>6
<1>13. CASE Taken
  <2>1. host'.op = host.op /\ host'.at = "send" /\ host'.step = host.step + 1
        /\ UNCHANGED <<down, fw, store, result, sent>> /\ host.at = "taken" /\ host.step < Len(host.op)
    BY <1>4, <1>13 DEF Taken, board, Types, HostTypes
  <2>2. host.step \in Nat /\ host.step + 1 <= 3
    <3>1. Len(Check) = 3
      BY DEF Check
    <3> QED BY <2>1, <3>1, AskedIs
  <2>3. k = host.step /\ StepsSent' = k /\ Uploaded' = U
    BY <1>0, <2>1, <2>2 DEF StepsSent, Uploaded
  <2>4. StripSent /\ StripRun
    BY <1>2, <2>1
  <2>5. k # 3
    BY <2>2, <2>3
  <2>6. StripBack'
    BY <2>3, <2>5 DEF StripBack
  <2> QED BY <1>7, <2>1, <2>3, <2>4, <2>6
<1>14. CASE TimesOut
  <2>1. host' = [host EXCEPT !.at = "drain", !.retried = TRUE]
    BY <1>4, <1>14 DEF TimesOut
  <2>2. host'.at = "drain"
    BY <2>1 DEF Types, HostTypes
  <2>3. host'.step = 1
    BY <2>2 DEF OwnCommands
  <2> QED BY <1>0, <1>3, <2>2, <2>3 DEF StepsSent
<1>15. CASE Drain
  <2>1. host.at = "drain" /\ host'.at = "send" /\ host'.step = host.step
    BY <1>15 DEF Drain, Types, HostTypes
  <2>2. host.step = 1
    BY <2>1 DEF OwnCommands
  <2> QED BY <1>0, <1>3, <2>1, <2>2 DEF StepsSent
<1>16. ASSUME NEW kept \in 0..Len(down), NEW lost \in 0..Len(up), Close(kept, lost)
       PROVE  StripSent' /\ StripRun' /\ StripBack'
  BY <1>4, <1>16 DEF Close
<1>17. CASE UNCHANGED vars
  <2>1. UNCHANGED <<down, up, fw, store, result, host, sent>>
    BY <1>17 DEF vars
  <2>2. StepsSent' = k /\ Uploaded' = U /\ StripSent /\ StripRun /\ StripBack
    BY <1>2, <1>5, <2>1
  <2>3. StripSent' /\ StripRun'
    BY <1>7, <2>1, <2>2
  <2>4. StripBack'
    BY <1>0, <1>1, <2>1, <2>2 DEF StripBack, PayloadOf
  <2> QED BY <2>3, <2>4
<1> QED
  BY <1>8, <1>9, <1>10, <1>11, <1>12, <1>13, <1>14, <1>15, <1>16, <1>17 DEF Next, Driver

-----------------------------------------------------------------------------
(* The invariant is inductive, and what follows from it. *)

LEMMA IInvStep == IInv /\ [Next]_vars => IInv'
<1> SUFFICES ASSUME IInv, [Next]_vars PROVE IInv'
  OBVIOUS
<1>1. Types /\ Paired /\ OwnCommands /\ (~cut => InStepInv)
  BY DEF IInv
<1>2. Types' /\ Paired' /\ OwnCommands'
  BY <1>1, TypesStep, PairedStep, OwnCommandsStep
<1>3. ASSUME ~cut' PROVE InStepInv'
  <2>1. ~cut
    BY <1>3 DEF Next, Firmware, Driver, FwCommand, FwRead, FwMagic, FwPayload, Begin, Send, Sync,
                Read, Taken, Drain, TimesOut, Close, vars, history
  <2>2. InStep /\ Ordered /\ Lag /\ Replied /\ CheckInv
    BY <1>1, <2>1 DEF InStepInv
  <2>3. Owned'
    BY <1>1, <1>3, <2>2, OwnedStep
  <2>4. InStep'
    BY <1>1, <1>3, <2>2, <2>3, WholeStep DEF InStep
  <2>5. Ordered'
    BY <1>1, <1>3, <2>2, OrderedStep
  <2>6. Lag' /\ Replied'
    BY <1>1, <1>2, <1>3, <2>2, <2>3, LagStep, RepliedStep
  <2>7. CheckInv'
    BY <1>1, <1>2, <1>3, <2>2, CheckStep
  <2> QED BY <2>4, <2>5, <2>6, <2>7 DEF InStepInv
<1> QED
  BY <1>2, <1>3 DEF IInv

LEMMA Invariant == Spec => []IInv
BY InitIInv, IInvStep, PTL DEF Spec

(* The wires hold tokens of the protocol, the firmware and the host are    *)
(* where their loops and transactions can be, whatever is read as what.    *)
THEOREM LinkTypeCorrect == Spec => []TypeOK
<1>1. ASSUME Types PROVE TypeOK
  <2>1. Commands \subseteq Kinds /\ Requests \subseteq Nat
    BY <1>1 DEF Types, Commands, Kinds, Requests
  <2>2. DownTokens \subseteq Tokens /\ UpTokens \subseteq Tokens
    BY <2>1 DEF DownTokens, UpTokens, Tokens
  <2>3. down \in Seq(Tokens) /\ up \in Seq(Tokens)
    <3>1. down \in Seq(DownTokens) /\ up \in Seq(UpTokens)
      BY <1>1 DEF Types
    <3> HIDE DEF DownTokens
    <3> QED BY <2>2, <3>1
  <2>4. fw.at \in {"loop", "read", "magic", "payload"} /\ fw.req \in Requests /\ fw.read \in Seq(Parts)
    BY <1>1 DEF Types, FwTypes
  <2>5. /\ host.at \in {"idle", "send", "sync", "payload", "drain", "taken"}
        /\ host.op \in proto.operations \cup {<< >>} /\ host.reply.of \in Seq(Parts)
    BY <1>1 DEF Types, HostTypes
  <2>6. host.step \in 0..Len(host.op)
    <3>1. CASE host.at = "idle"
      BY <1>1, <3>1 DEF Types, HostTypes, AtRest
    <3>2. CASE host.at # "idle"
      BY <1>1, <3>2, AskedIs
    <3> QED BY <3>1, <3>2
  <2>7. /\ proto \in Protocols /\ store \in Seq(Parts) /\ result \in Seq(Parts)
        /\ sent \in Seq(DOMAIN proto.args) /\ session \in 0..Len(sent)
        /\ abandoned \in 0..MaxAbandoned /\ cut \in BOOLEAN
    BY <1>1 DEF Types, Commands
  <2> QED BY <2>3, <2>4, <2>5, <2>6, <2>7 DEF TypeOK
<1>2. IInv => TypeOK
  BY <1>1 DEF IInv
<1> QED
  BY Invariant, <1>2, PTL

LEMMA BehindIs ==
  ASSUME Types
  PROVE  /\ IsFiniteSet({r \in (host.reply.req + 1)..Len(sent) : sent[r] = Asked})
         /\ Behind \in Nat
         /\ Behind = 0 => \A r \in (host.reply.req + 1)..Len(sent) : sent[r] # Asked
<1> DEFINE B == {r \in (host.reply.req + 1)..Len(sent) : sent[r] = Asked}
<1>1. host.reply.req \in Nat /\ Len(sent) \in Nat
  BY DEF Types, HostTypes, Requests
<1>2. IsFiniteSet((host.reply.req + 1)..Len(sent))
  <2>1. host.reply.req + 1 \in Int /\ Len(sent) \in Int
    BY <1>1
  <2> QED BY <2>1, FS_Interval
<1>3. B \in SUBSET ((host.reply.req + 1)..Len(sent))
  OBVIOUS
<1>4. IsFiniteSet(B)
  <2> HIDE DEF B
  <2> QED BY <1>2, <1>3, FS_Subset
<1>5. Cardinality(B) \in Nat /\ (Cardinality(B) = 0 <=> B = {})
  <2> HIDE DEF B
  <2> QED BY <1>4, FS_CardinalityType, FS_EmptySet
<1> QED
  BY <1>4, <1>5 DEF Behind

LEMMA Filters ==
  ASSUME IInv
  PROVE  EachStepFilters
<1> SUFFICES ASSUME host.at = "taken", ~cut, Behind # 0 PROVE Behind + host.step <= abandoned + 1
  BY DEF EachStepFilters
<1>0. PICK n, q, k, a : n = Len(sent) /\ q = host.reply.req /\ k = host.step /\ a = abandoned
  OBVIOUS
<1>1. Types /\ OwnCommands /\ Replied
  BY DEF IInv, InStepInv
<1>2. /\ q \in 1..n /\ sent[q] = Asked /\ n <= q + a
      /\ n \in Nat /\ a \in Nat /\ q \in Nat /\ k \in Nat /\ k >= 1
  BY <1>0, <1>1, AskedIs, BoundAssumption DEF Replied, Types
<1>3. k <= n /\ \A j \in 1..k : sent[n - k + j] = host.op[j]
  BY <1>0, <1>1 DEF OwnCommands, StepsSent
<1>4. \A j \in 1..k : host.op[j] = Asked => j = k
  <2>1. /\ host.op \in proto.operations /\ k \in 1..Len(host.op) /\ Asked = host.op[k]
        /\ DOMAIN host.op = 1..Len(host.op) /\ Len(host.op) \in Nat
    BY <1>0, <1>1, AskedIs DEF Asked
  <2>2. \A j \in 1..k : j \in DOMAIN host.op
    BY <2>1
  <2> QED BY <1>1, <2>1, <2>2, OperationAssumption DEF Types
<1>5. ASSUME NEW r \in (n - k + 1)..n, sent[r] = Asked PROVE r = n
  <2>1. r - (n - k) \in 1..k /\ n - k + (r - (n - k)) = r
    BY <1>2, <1>3
  <2>2. host.op[r - (n - k)] = Asked
    BY <1>3, <1>5, <2>1
  <2>3. r - (n - k) = k
    BY <1>4, <2>1, <2>2
  <2> QED BY <1>2, <2>3
<1> DEFINE B == {r \in (q + 1)..n : sent[r] = Asked}
           O == (n - k + 1)..(n - 1)
<1>6. IsFiniteSet(B) /\ Behind = Cardinality(B) /\ Behind \in Nat
  BY <1>0, <1>1, BehindIs DEF Behind
<1>7. B # {}
  <2> HIDE DEF B
  <2> QED BY <1>6, FS_EmptySet
<1>8. q <= n - k
  <2>1. SUFFICES ASSUME q > n - k PROVE FALSE
    BY <1>2, <1>3
  <2>2. q \in (n - k + 1)..n
    BY <1>2, <1>3, <2>1
  <2>3. q = n
    BY <1>2, <1>5, <2>2
  <2> QED BY <1>2, <1>7, <2>3
<1>9. B \cap O = {}
  <2> SUFFICES ASSUME NEW r \in O, sent[r] = Asked PROVE FALSE
    OBVIOUS
  <2>1. r \in (n - k + 1)..n /\ r # n
    BY <1>2, <1>3
  <2> QED BY <1>5, <2>1
<1>10. B \cup O \subseteq (q + 1)..n
  BY <1>2, <1>3, <1>8
<1>11. IsFiniteSet(O) /\ Cardinality(O) = k - 1
  <2>1. n - k + 1 \in Int /\ n - 1 \in Int
    BY <1>2
  <2>2. IsFiniteSet(O) /\ Cardinality(O) = IF n - k + 1 > n - 1 THEN 0 ELSE (n - 1) - (n - k + 1) + 1
    BY <2>1, FS_Interval
  <2>3. (IF n - k + 1 > n - 1 THEN 0 ELSE (n - 1) - (n - k + 1) + 1) = k - 1
    BY <1>2
  <2> QED BY <2>2, <2>3
<1>12. IsFiniteSet((q + 1)..n) /\ Cardinality((q + 1)..n) = n - q
  <2>1. q + 1 \in Int /\ n \in Int
    BY <1>2
  <2>2. IsFiniteSet((q + 1)..n) /\ Cardinality((q + 1)..n) = IF q + 1 > n THEN 0 ELSE n - (q + 1) + 1
    BY <2>1, FS_Interval
  <2>3. (IF q + 1 > n THEN 0 ELSE n - (q + 1) + 1) = n - q
    BY <1>2
  <2> QED BY <2>2, <2>3
<1> HIDE DEF B, O
<1>13. Cardinality(B \cup O) = Cardinality(B) + Cardinality(O)
  <2>1. Cardinality(B \cup O) = Cardinality(B) + Cardinality(O) - Cardinality(B \cap O)
    BY <1>6, <1>11, FS_Union
  <2>2. Cardinality(B \cap O) = 0
    BY <1>9, FS_EmptySet
  <2> QED BY <1>2, <1>6, <1>11, <2>1, <2>2
<1>14. Cardinality(B \cup O) <= n - q
  <2> DEFINE I == (q + 1)..n
  <2>1. IsFiniteSet(I) /\ Cardinality(I) = n - q /\ B \cup O \in SUBSET I
    BY <1>10, <1>12
  <2> HIDE DEF I
  <2>2. Cardinality(B \cup O) <= Cardinality(I)
    BY <2>1, FS_Subset
  <2> QED BY <2>1, <2>2
<1>15. Behind + (k - 1) <= n - q
  BY <1>6, <1>11, <1>13, <1>14
<1>16. Behind + k <= a + 1
  BY <1>2, <1>6, <1>15
<1> QED
  BY <1>0, <1>16

(* The reply taken in the k-th step of an operation is behind by at most   *)
(* the transactions given up so far, less k-1: every step sends a command  *)
(* of another kind and so filters one stale reply.                         *)
THEOREM RepliesFiltered == Spec => []EachStepFilters
BY Invariant, Filters, PTL

LEMMA Strips ==
  ASSUME IInv
  PROVE  OwnStrip
<1> SUFFICES ASSUME host.at = "taken", host.op = Check, host.step = 3, Behind = 0, ~cut
             PROVE  host.reply.of = Strip(Len(sent) - 2)
  BY DEF OwnStrip, Check, Strip
<1>1. Types /\ OwnCommands /\ Replied /\ CheckInv
  BY DEF IInv, InStepInv
<1>2. StepsSent = 3
  BY DEF StepsSent
<1>3. /\ Len(sent) \in Nat /\ Uploaded \in Nat /\ Len(sent) = Uploaded + 2
      /\ sent[Uploaded + 2] = "results"
  BY <1>1, <1>2, CheckCommands
<1>4. Asked = "results"
  BY DEF Asked, Check
<1>5. host.reply.req \in 1..Len(sent)
  BY <1>1 DEF Replied
<1>6. \A r \in (host.reply.req + 1)..Len(sent) : sent[r] # Asked
  BY <1>1, BehindIs
<1>7. Len(sent) \notin (host.reply.req + 1)..Len(sent)
  BY <1>3, <1>4, <1>6
<1>8. host.reply.req = Uploaded + 2 /\ Len(sent) - 2 = Uploaded
  BY <1>3, <1>5, <1>7
<1>9. StripBack
  BY <1>1 DEF CheckInv
<1> QED
  BY <1>2, <1>8, <1>9 DEF StripBack

(* A check's results are of the strip it sent, unless their reply is stale *)
(* or a close left the firmware in the middle of a command.                *)
THEOREM ChecksOwnStrip == Spec => []OwnStrip
BY Invariant, Strips, PTL
=============================================================================
