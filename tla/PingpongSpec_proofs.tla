------------------------ MODULE PingpongSpec_proofs ------------------------
(***************************************************************************)
(* The two-bank buffer is a queue whatever its two sides do.  The argument *)
(* is the shape of the banks (Alternation), which is inductive with the    *)
(* types; each of its three cases fixes what the four pulses can do.       *)
(***************************************************************************)
EXTENDS PingpongSpec, TLAPS, SequenceTheorems

(* A clock edge never disturbs the types of the registers. *)
LEMMA TypeStep ==
  ASSUME TypeOK, Alternation, NEW p \in Pulses, buf' = BufferNext(buf, p)
  PROVE  TypeOK'
<1> USE DEF TypeOK, Pulses, Buffers, Banks, BankStates, Opens, Commits, Acquires, Releases, Toggled
<1>1. \A k \in Banks : BankNext(buf, p, k) \in BankStates
  BY DEF BankNext
<1>2. \A k \in Banks : buf'.st[k] = BankNext(buf, p, k)
  BY DEF BufferNext
<1>3. buf' \in Buffers
  BY <1>1 DEF BufferNext
<1>4. \A k \in Banks : buf'.st[k] # "free" => buf'.tag[k] \in Tiles
  BY <1>2 DEF BufferNext, BankNext
<1>5. QED
  BY <1>3, <1>4

(* The pointers and the states of the banks stay in step. *)
LEMMA AlternationStep ==
  ASSUME TypeOK, Alternation, NEW p \in Pulses, buf' = BufferNext(buf, p)
  PROVE  Alternation'
<1> USE DEF TypeOK, Pulses, Buffers, Banks, BankStates, Opens, Commits, Acquires, Releases, Toggled
<1>1. \A k \in Banks : buf'.st[k] = BankNext(buf, p, k)
  BY DEF BufferNext
<1>2. /\ buf'.wp = IF Commits(buf, p) THEN 1 - buf.wp ELSE buf.wp
      /\ buf'.rp = IF Releases(buf, p) THEN 1 - buf.rp ELSE buf.rp
  BY DEF BufferNext
<1>3. QED
  BY <1>1, <1>2 DEF BankNext, Alternation

(* Every register keeps its type, and a used bank has a tile. *)
THEOREM PingpongTypeCorrect == Spec => []TypeOK
<1>1. Init => TypeOK /\ Alternation
  BY DEF Init, EmptyBuffer, TypeOK, Alternation, Buffers, Banks, BankStates
<1>2. TypeOK /\ Alternation /\ [Next]_buf => TypeOK' /\ Alternation'
  BY TypeStep, AlternationStep DEF Next, TypeOK, Alternation
<1>3. QED
  BY <1>1, <1>2, PTL DEF Spec

(* The banks alternate: the pointers of the two sides and the states agree *)
(* for any pulses (fmap_pingpong.sv:103-121).                              *)
THEOREM BanksAlternate == Spec => []Alternation
<1>1. Init => TypeOK /\ Alternation
  BY DEF Init, EmptyBuffer, TypeOK, Alternation, Buffers, Banks, BankStates
<1>2. TypeOK /\ Alternation /\ [Next]_buf => TypeOK' /\ Alternation'
  BY TypeStep, AlternationStep DEF Next, TypeOK, Alternation
<1>3. QED
  BY <1>1, <1>2, PTL DEF Spec

-----------------------------------------------------------------------------
(* The refinement: what each side's pulse does to the queue. *)

(* What a clock does to the banks, register by register. *)
LEMMA BankChanges ==
  ASSUME TypeOK, Alternation, NEW p \in Pulses, buf' = BufferNext(buf, p)
  PROVE  /\ \A k \in Banks : buf'.st[k] = BankNext(buf, p, k)
         /\ \A k \in Banks : buf'.tag[k] = IF k = buf.wp /\ Opens(buf, p) THEN p.tag ELSE buf.tag[k]
         /\ buf'.wp = IF Commits(buf, p) THEN 1 - buf.wp ELSE buf.wp
         /\ buf'.rp = IF Releases(buf, p) THEN 1 - buf.rp ELSE buf.rp
         /\ buf.wp \in Banks /\ buf.rp \in Banks
  BY DEF BufferNext, Toggled, TypeOK, Buffers

(* The producer's side: its tile is opened, committed or left alone. *)
LEMMA ProducerSide ==
  ASSUME TypeOK, Alternation, NEW p \in Pulses, buf' = BufferNext(buf, p)
  PROVE  /\ Opens(buf, p) => Filling = NoTile /\ Filling' = p.tag
         /\ Commits(buf, p) => Filling = buf.tag[buf.wp] /\ Filling \in Tiles /\ Filling' = NoTile
         /\ ~Opens(buf, p) /\ ~Commits(buf, p) => Filling' = Filling
<1> USE BankChanges DEF TypeOK, Pulses, Buffers, Banks, BankNext, Opens, Commits, Acquires, Releases, Filling
<1>1. ASSUME Opens(buf, p) PROVE Filling = NoTile /\ Filling' = p.tag
  BY <1>1
<1>2. ASSUME Commits(buf, p) PROVE Filling = buf.tag[buf.wp] /\ Filling \in Tiles /\ Filling' = NoTile
  BY <1>2 DEF Alternation
<1>3. ASSUME ~Opens(buf, p), ~Commits(buf, p) PROVE Filling' = Filling
  BY <1>3
<1>4. QED
  BY <1>1, <1>2, <1>3

(* The consumer's side: the oldest full bank is acquired, or released. *)
LEMMA ConsumerSide ==
  ASSUME TypeOK, Alternation, NEW p \in Pulses, buf' = BufferNext(buf, p)
  PROVE  /\ Acquires(buf, p) => Draining = NoTile /\ Draining' = buf.tag[buf.rp] /\ buf.tag[buf.rp] \in Tiles
         /\ Releases(buf, p) => Draining = buf.tag[buf.rp] /\ Draining \in Tiles /\ Draining' = NoTile
         /\ ~Acquires(buf, p) /\ ~Releases(buf, p) => Draining' = Draining
<1> USE BankChanges DEF TypeOK, Pulses, Buffers, Banks, BankNext, Opens, Commits, Acquires, Releases, Draining
<1>1. ASSUME Acquires(buf, p)
      PROVE  Draining = NoTile /\ Draining' = buf.tag[buf.rp] /\ buf.tag[buf.rp] \in Tiles
  BY <1>1
<1>2. ASSUME Releases(buf, p) PROVE Draining = buf.tag[buf.rp] /\ Draining \in Tiles /\ Draining' = NoTile
  BY <1>2 DEF Alternation
<1>3. ASSUME ~Acquires(buf, p), ~Releases(buf, p) PROVE Draining' = Draining
  BY <1>3
<1>4. QED
  BY <1>1, <1>2, <1>3

(* Concatenations of at most two tiles. *)
LEMMA ShortSequences ==
  ASSUME NEW a \in Tiles, NEW b \in Tiles
  PROVE  /\ <<>> \o <<>> = <<>>
         /\ <<a>> \o <<>> = <<a>> /\ <<>> \o <<a>> = <<a>>
         /\ <<a>> \o <<b>> = <<a, b>>
         /\ Head(<<a>>) = a /\ Head(<<a, b>>) = a
         /\ Tail(<<a>>) = <<>> /\ Tail(<<a, b>>) = <<b>>
         /\ Len(<<>>) = 0 /\ Len(<<a>>) = 1 /\ Len(<<a, b>>) = 2
         /\ <<a>> # <<>> /\ <<a, b>> # <<>>
<1>1. <<a>> \in Seq(Tiles) /\ <<b>> \in Seq(Tiles) /\ <<a, b>> \in Seq(Tiles)
  OBVIOUS
<1>2. Len(<<>>) = 0 /\ Len(<<a>>) = 1 /\ Len(<<b>>) = 1 /\ Len(<<a, b>>) = 2
  OBVIOUS
<1>3. <<a>> \o <<b>> = <<a, b>>
  <2>1. /\ <<a>> \o <<b>> \in Seq(Tiles)
        /\ Len(<<a>> \o <<b>>) = 2
        /\ \A i \in 1 .. 2 : (<<a>> \o <<b>>)[i] = IF i <= 1 THEN <<a>>[i] ELSE <<b>>[i - 1]
    BY <1>1, <1>2, ConcatProperties
  <2>2. \A i \in 1 .. 2 : (<<a>> \o <<b>>)[i] = <<a, b>>[i]
    BY <2>1
  <2>3. QED
    BY <1>1, <1>2, <2>1, <2>2, SeqEqual
<1>4. <<>> \o <<>> = <<>> /\ <<a>> \o <<>> = <<a>> /\ <<>> \o <<a>> = <<a>>
  OBVIOUS
<1>5. Head(<<a>>) = a /\ Head(<<a, b>>) = a /\ Tail(<<a>>) = <<>> /\ Tail(<<a, b>>) = <<b>>
  OBVIOUS
<1>6. <<a>> # <<>> /\ <<a, b>> # <<>>
  OBVIOUS
<1>7. QED
  BY <1>2, <1>3, <1>4, <1>5, <1>6

(* The queue as a function of the banks. *)
LEMMA ContentsShape ==
  ASSUME NEW b \in Buffers, NEW k \in Banks, b.rp = k,
         \A j \in Banks : b.st[j] # "free" => b.tag[j] \in Tiles
  PROVE  /\ b.st[k] # "full" /\ b.st[1 - k] # "full" => Contents(b) = <<>>
         /\ b.st[k] = "full" /\ b.st[1 - k] = "full" => Contents(b) = <<b.tag[k], b.tag[1 - k]>>
         /\ b.st[k] = "full" /\ b.st[1 - k] # "full" => Contents(b) = <<b.tag[k]>>
         /\ b.st[k] # "full" /\ b.st[1 - k] = "full" => Contents(b) = <<b.tag[1 - k]>>
<1>1. 1 - k \in Banks /\ (b.st[k] = "full" => b.tag[k] \in Tiles)
      /\ (b.st[1 - k] = "full" => b.tag[1 - k] \in Tiles)
  BY DEF Banks
<1>2. Contents(b) = Full(b, k) \o Full(b, 1 - k)
  BY DEF Contents
<1>3. ASSUME b.st[k] # "full", b.st[1 - k] # "full" PROVE Contents(b) = <<>>
  <2>1. Full(b, k) = <<>> /\ Full(b, 1 - k) = <<>>
    BY <1>3 DEF Full
  <2>2. QED
    BY <1>2, <2>1
<1>4. ASSUME b.st[k] = "full", b.st[1 - k] = "full" PROVE Contents(b) = <<b.tag[k], b.tag[1 - k]>>
  <2>1. Full(b, k) = <<b.tag[k]>> /\ Full(b, 1 - k) = <<b.tag[1 - k]>>
    BY <1>4 DEF Full
  <2>2. <<b.tag[k]>> \o <<b.tag[1 - k]>> = <<b.tag[k], b.tag[1 - k]>>
    BY <1>1, <1>4, ShortSequences
  <2>3. QED
    BY <1>2, <2>1, <2>2
<1>5. ASSUME b.st[k] = "full", b.st[1 - k] # "full" PROVE Contents(b) = <<b.tag[k]>>
  <2>1. Full(b, k) = <<b.tag[k]>> /\ Full(b, 1 - k) = <<>>
    BY <1>5 DEF Full
  <2>2. <<b.tag[k]>> \o <<>> = <<b.tag[k]>>
    BY <1>1, <1>5, ShortSequences
  <2>3. QED
    BY <1>2, <2>1, <2>2
<1>6. ASSUME b.st[k] # "full", b.st[1 - k] = "full" PROVE Contents(b) = <<b.tag[1 - k]>>
  <2>1. Full(b, k) = <<>> /\ Full(b, 1 - k) = <<b.tag[1 - k]>>
    BY <1>6 DEF Full
  <2>2. <<>> \o <<b.tag[1 - k]>> = <<b.tag[1 - k]>>
    BY <1>1, <1>6, ShortSequences
  <2>3. QED
    BY <1>2, <2>1, <2>2
<1>7. QED
  BY <1>3, <1>4, <1>5, <1>6

(* The queue after a clock: what was kept of it, then what was committed.  *)
LEMMA ContentsStep ==
  ASSUME TypeOK, Alternation, NEW p \in Pulses, buf' = BufferNext(buf, p)
  PROVE  Contents(buf') = (IF Acquires(buf, p) THEN Tail(Contents(buf)) ELSE Contents(buf))
                       \o (IF Commits(buf, p) THEN <<buf.tag[buf.wp]>> ELSE <<>>)
<1> DEFINE t == buf.tag[buf.rp]
           u == buf.tag[1 - buf.rp]
<1>1. /\ buf.rp \in Banks /\ 1 - buf.rp \in Banks /\ buf.wp \in {buf.rp, 1 - buf.rp}
      /\ buf.st[buf.rp] \in BankStates /\ buf.st[1 - buf.rp] \in BankStates
      /\ buf.st[buf.rp] # "free" => t \in Tiles
      /\ buf.st[1 - buf.rp] # "free" => u \in Tiles
  BY DEF TypeOK, Buffers, Banks
<1>2. /\ buf \in Buffers /\ \A k \in Banks : buf.st[k] # "free" => buf.tag[k] \in Tiles
      /\ buf' \in Buffers /\ \A k \in Banks : buf'.st[k] # "free" => buf'.tag[k] \in Tiles
  BY TypeStep DEF TypeOK
<1>3. /\ buf.st[buf.rp] # "full" /\ buf.st[1 - buf.rp] # "full" => Contents(buf) = <<>>
      /\ buf.st[buf.rp] = "full" /\ buf.st[1 - buf.rp] = "full" => Contents(buf) = <<t, u>>
      /\ buf.st[buf.rp] = "full" /\ buf.st[1 - buf.rp] # "full" => Contents(buf) = <<t>>
      /\ buf.st[buf.rp] # "full" /\ buf.st[1 - buf.rp] = "full" => Contents(buf) = <<u>>
  BY <1>1, <1>2, ContentsShape
<1>4. CASE buf.st[buf.rp] \in {"free", "writing"}
  <2>1. buf.wp = buf.rp /\ buf.st[1 - buf.rp] = "free" /\ ~Acquires(buf, p) /\ ~Releases(buf, p)
    BY <1>1, <1>4 DEF Alternation, Acquires, Releases
  <2>2. Contents(buf) = <<>>
    BY <1>4, <1>3, <2>1
  <2>3. CASE Commits(buf, p)
    <3>1. /\ buf'.rp = buf.rp /\ buf'.st[buf.rp] = "full" /\ buf'.st[1 - buf.rp] = "free"
          /\ buf'.tag[buf.rp] = t /\ t \in Tiles
      BY <1>1, <2>1, <2>3, BankChanges DEF BankNext, Opens, Commits, Banks
    <3>2. Contents(buf') = <<t>>
      BY <1>2, <3>1, ContentsShape DEF Contents, Full
    <3>3. QED
      BY <2>1, <2>2, <2>3, <3>1, <3>2, ShortSequences
  <2>4. CASE ~Commits(buf, p)
    <3>1. /\ buf'.rp = buf.rp /\ buf'.st[buf.rp] # "full" /\ buf'.st[1 - buf.rp] = "free"
      BY <1>1, <1>4, <2>1, <2>4, BankChanges DEF BankNext, Opens, Commits, Banks
    <3>2. Contents(buf') = <<>>
      BY <3>1 DEF Contents, Full
    <3>3. QED
      BY <2>1, <2>2, <2>4, <3>2
  <2>5. QED
    BY <2>3, <2>4
<1>5. CASE buf.st[buf.rp] \in {"full", "reading"} /\ buf.st[1 - buf.rp] = "full"
  <2>1. buf.wp = buf.rp /\ ~Commits(buf, p) /\ ~Opens(buf, p)
    BY <1>1, <1>5 DEF Alternation, Commits, Opens
  <2>2. /\ \A k \in Banks : buf'.tag[k] = buf.tag[k]
        /\ buf'.st[1 - buf.rp] = "full"
    BY <1>1, <1>5, <2>1, BankChanges DEF BankNext, Acquires, Releases, Banks
  <2>3. CASE Acquires(buf, p)
    <3>1. buf.st[buf.rp] = "full"
      BY <2>3 DEF Acquires
    <3>2. Contents(buf) = <<t, u>>
      BY <1>5, <1>3, <3>1
    <3>3. buf'.rp = buf.rp /\ buf'.st[buf.rp] = "reading"
      BY <1>1, <1>5, <2>1, <2>3, BankChanges DEF BankNext, Acquires, Releases, Banks
    <3>4. Contents(buf') = <<u>>
      BY <1>1, <1>2, <2>2, <3>3, ContentsShape
    <3>5. QED
      BY <1>1, <1>5, <2>1, <2>3, <3>1, <3>2, <3>4, ShortSequences
  <2>4. CASE Releases(buf, p)
    <3>1. buf.st[buf.rp] = "reading"
      BY <2>4 DEF Releases
    <3>2. Contents(buf) = <<u>>
      BY <1>5, <1>3, <3>1
    <3>3. /\ buf'.rp = 1 - buf.rp /\ buf'.st[buf.rp] = "free"
          /\ 1 - buf'.rp = buf.rp /\ ~Acquires(buf, p)
      BY <1>1, <1>5, <2>1, <2>4, BankChanges DEF BankNext, Acquires, Releases, Banks
    <3>4. Contents(buf') = <<u>>
      BY <1>1, <1>2, <2>2, <3>3, ContentsShape
    <3>5. QED
      BY <1>1, <1>5, <2>1, <2>4, <3>3, <3>2, <3>4, ShortSequences
  <2>5. CASE ~Acquires(buf, p) /\ ~Releases(buf, p)
    <3>1. buf'.rp = buf.rp /\ \A k \in Banks : buf'.st[k] = buf.st[k]
      BY <1>1, <2>1, <2>5, BankChanges DEF BankNext
    <3>2. Contents(buf') = Contents(buf)
      BY <1>1, <2>2, <3>1 DEF Contents, Full
    <3>3. (Contents(buf) = <<t, u>> /\ t \in Tiles) \/ Contents(buf) = <<u>>
      BY <1>1, <1>5, <1>3
    <3>4. Contents(buf) \in Seq(Tiles)
      <4>1. u \in Tiles
        BY <1>1, <1>5
      <4>2. <<u>> \in Seq(Tiles) /\ (t \in Tiles => <<t, u>> \in Seq(Tiles))
        BY <4>1
      <4>3. QED
        BY <3>3, <4>2
    <3>5. QED
      BY <2>1, <2>5, <3>2, <3>4
  <2>6. QED
    BY <2>3, <2>4, <2>5
<1>6. CASE buf.st[buf.rp] \in {"full", "reading"} /\ buf.st[1 - buf.rp] \in {"free", "writing"}
  <2>1. buf.wp = 1 - buf.rp /\ 1 - buf.wp = buf.rp
    BY <1>1, <1>6 DEF Alternation, Banks
  <2>2. /\ buf'.st[1 - buf.rp] = "full" <=> Commits(buf, p)
        /\ Commits(buf, p) => buf'.tag[1 - buf.rp] = u /\ u \in Tiles
        /\ buf'.tag[buf.rp] = t
        /\ t \in Tiles
    BY <1>1, <1>6, <2>1, BankChanges DEF BankNext, Opens, Commits, Acquires, Releases, Banks
  <2>3. CASE Acquires(buf, p)
    <3>1. buf.st[buf.rp] = "full"
      BY <2>3 DEF Acquires
    <3>2. Contents(buf) = <<t>>
      BY <1>6, <1>3, <3>1
    <3>3. buf'.rp = buf.rp /\ buf'.st[buf.rp] = "reading"
      BY <1>1, <1>6, <2>1, <2>3, BankChanges DEF BankNext, Acquires, Releases, Banks
    <3>4. Contents(buf') = IF Commits(buf, p) THEN <<u>> ELSE <<>>
      BY <1>1, <1>2, <2>2, <3>3, ContentsShape
    <3>5. QED
      <4>1. Tail(Contents(buf)) = <<>>
        BY <2>2, <3>2, ShortSequences
      <4>2. CASE Commits(buf, p)
        BY <2>1, <2>2, <2>3, <3>4, <4>1, <4>2, ShortSequences
      <4>3. CASE ~Commits(buf, p)
        BY <2>3, <3>4, <4>1, <4>3
      <4>4. QED
        BY <4>2, <4>3
  <2>4. CASE Releases(buf, p)
    <3>1. buf.st[buf.rp] = "reading"
      BY <2>4 DEF Releases
    <3>2. Contents(buf) = <<>>
      BY <1>6, <1>3, <3>1
    <3>3. /\ buf'.rp = 1 - buf.rp /\ buf'.st[buf.rp] = "free"
          /\ 1 - buf'.rp = buf.rp /\ ~Acquires(buf, p)
      BY <1>1, <1>6, <2>1, <2>4, BankChanges DEF BankNext, Acquires, Releases, Banks
    <3>4. buf'.st[buf'.rp] \in BankStates
      BY <1>1, <1>2, <3>3 DEF TypeOK, Buffers
    <3>5. Contents(buf') = IF Commits(buf, p) THEN <<u>> ELSE <<>>
      BY <1>1, <1>2, <2>2, <3>3, <3>4, ContentsShape
    <3>6. QED
      BY <2>1, <2>2, <2>4, <3>3, <3>2, <3>5, ShortSequences
  <2>5. CASE ~Acquires(buf, p) /\ ~Releases(buf, p)
    <3>1. buf'.rp = buf.rp /\ buf'.st[buf.rp] = buf.st[buf.rp]
      BY <1>1, <2>1, <2>5, BankChanges DEF BankNext, Banks
    <3>2. CASE buf.st[buf.rp] = "full"
      <4>1. Contents(buf) = <<t>>
        BY <1>6, <3>2, <1>3
      <4>2. Contents(buf') = IF Commits(buf, p) THEN <<t, u>> ELSE <<t>>
        BY <1>1, <1>2, <2>2, <3>1, <3>2, ContentsShape
      <4>3. QED
        BY <2>1, <2>2, <2>5, <4>1, <4>2, ShortSequences
    <3>3. CASE buf.st[buf.rp] = "reading"
      <4>1. Contents(buf) = <<>>
        BY <1>6, <3>3, <1>3
      <4>2. Contents(buf') = IF Commits(buf, p) THEN <<u>> ELSE <<>>
        BY <1>1, <1>2, <2>2, <3>1, <3>3, ContentsShape
      <4>3. QED
        BY <2>1, <2>2, <2>5, <4>1, <4>2, ShortSequences
    <3>4. QED
      BY <1>6, <3>2, <3>3
  <2>6. QED
    BY <2>3, <2>4, <2>5
<1>7. QED
  BY <1>1, <1>4, <1>5, <1>6 DEF Alternation, BankStates

(* A bank is free exactly when fewer than two tiles are held. *)
LEMMA RoomWhenFree ==
  ASSUME TypeOK, Alternation, buf.st[buf.wp] = "free"
  PROVE  Queue!Occupied < 2
<1> DEFINE t == buf.tag[buf.rp]
<1>1. /\ buf \in Buffers /\ buf.rp \in Banks /\ NoTile \notin Tiles
      /\ buf.st[buf.rp] # "free" => t \in Tiles
  BY TileAssumption DEF TypeOK, Buffers
<1>2. Filling = NoTile
  BY DEF Filling
<1>3. buf.st[1 - buf.rp] # "full"
  BY <1>1 DEF TypeOK, Buffers, Alternation, Banks
<1>4. CASE buf.st[buf.rp] = "full"
  <2>1. Contents(buf) = <<t>> /\ Draining = NoTile
    BY <1>1, <1>3, <1>4, ContentsShape DEF TypeOK, Draining
  <2>2. Len(Contents(buf)) = 1
    BY <1>1, <1>4, <2>1, ShortSequences
  <2>3. QED
    BY <1>2, <2>1, <2>2 DEF Queue!Occupied, Queue!Held
<1>5. CASE buf.st[buf.rp] # "full"
  <2>1. Contents(buf) = <<>>
    BY <1>1, <1>3, <1>5, ContentsShape DEF TypeOK
  <2>2. Len(Contents(buf)) = 0
    BY <2>1
  <2>3. QED
    BY <1>2, <2>2 DEF Queue!Occupied, Queue!Held
<1>6. QED
  BY <1>4, <1>5

(* The acquired tile is the oldest committed one. *)
LEMMA AcquiresOldest ==
  ASSUME TypeOK, Alternation, buf.st[buf.rp] = "full"
  PROVE  Contents(buf) # <<>> /\ Head(Contents(buf)) = buf.tag[buf.rp]
<1> DEFINE t == buf.tag[buf.rp]
           u == buf.tag[1 - buf.rp]
<1>1. /\ buf \in Buffers /\ buf.rp \in Banks /\ t \in Tiles
      /\ buf.st[1 - buf.rp] = "full" => u \in Tiles
  BY DEF TypeOK, Buffers, Banks
<1>2. CASE buf.st[1 - buf.rp] = "full"
  <2>1. Contents(buf) = <<t, u>>
    BY <1>1, <1>2, ContentsShape DEF TypeOK
  <2>2. QED
    BY <1>1, <1>2, <2>1, ShortSequences
<1>3. CASE buf.st[1 - buf.rp] # "full"
  <2>1. Contents(buf) = <<t>>
    BY <1>1, <1>3, ContentsShape DEF TypeOK
  <2>2. QED
    BY <1>1, <2>1, ShortSequences
<1>4. QED
  BY <1>2, <1>3

(* One clock of the buffer is one step of the queue. *)
LEMMA QueueStep ==
  ASSUME TypeOK, Alternation, NEW p \in Pulses, buf' = BufferNext(buf, p)
  PROVE  Queue!Next
<1>1. p.tag \in Tiles /\ NoTile \notin Tiles
  BY TileAssumption DEF Pulses
<1>2. Queue!Open \/ Queue!Commit \/ Filling' = Filling
  <2>1. CASE Opens(buf, p)
    BY <1>1, <2>1, ProducerSide, RoomWhenFree DEF Opens, Queue!Open
  <2>2. CASE Commits(buf, p)
    BY <1>1, <2>2, ProducerSide DEF Queue!Commit
  <2>3. QED
    BY <2>1, <2>2, ProducerSide
<1>3. Queue!Acquire \/ Queue!Release \/ Draining' = Draining
  <2>1. CASE Acquires(buf, p)
    BY <1>1, <2>1, ConsumerSide, AcquiresOldest DEF Acquires, Queue!Acquire
  <2>2. CASE Releases(buf, p)
    BY <1>1, <2>2, ConsumerSide DEF Queue!Release
  <2>3. QED
    BY <2>1, <2>2, ConsumerSide
<1>4. Queue!Kept = IF Acquires(buf, p) THEN Tail(Contents(buf)) ELSE Contents(buf)
  BY <1>1, ConsumerSide DEF Queue!Kept
<1>5. Queue!Added = IF Commits(buf, p) THEN <<buf.tag[buf.wp]>> ELSE <<>>
  BY <1>1, ProducerSide DEF Queue!Added
<1>6. Contents(buf') = Queue!Kept \o Queue!Added
  BY <1>4, <1>5, ContentsStep
<1>7. QED
  BY <1>2, <1>3, <1>6 DEF Queue!Next

(* Whatever pulses its two sides raise, a buffer is a queue of at most two *)
(* tiles (fmap_pingpong.sv:103-121).                                       *)
THEOREM BufferIsQueue == Spec => QueueSpec
<1>1. Init => TypeOK /\ Alternation /\ Queue!Init
  BY DEF Init, EmptyBuffer, TypeOK, Alternation, Buffers, Banks, BankStates,
         Queue!Init, Filling, Draining, Contents, Full
<1>2. TypeOK /\ Alternation /\ [Next]_buf
        => TypeOK' /\ Alternation' /\ [Queue!Next]_(Queue!vars)
  <2>1. ASSUME TypeOK, Alternation, Next
        PROVE  TypeOK' /\ Alternation' /\ Queue!Next
    BY <2>1, TypeStep, AlternationStep, QueueStep DEF Next
  <2>2. ASSUME TypeOK, Alternation, UNCHANGED buf
        PROVE  TypeOK' /\ Alternation' /\ UNCHANGED Queue!vars
    BY <2>2 DEF TypeOK, Alternation, Queue!vars, Filling, Draining, Contents, Full
  <2>3. QED
    BY <2>1, <2>2
<1>3. QED
  BY <1>1, <1>2, PTL DEF Spec, QueueSpec, Queue!Spec
=============================================================================
