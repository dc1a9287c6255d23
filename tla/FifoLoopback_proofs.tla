-------------------------- MODULE FifoLoopback_proofs --------------------------
(***************************************************************************)
(* The FIFO behind the register block, for every design with its three     *)
(* registers, every depth and every order of the handshakes: no entry is   *)
(* lost, duplicated or reordered, and software that trusts the level it    *)
(* read never pops an empty FIFO.                                          *)
(***************************************************************************)
EXTENDS FifoLoopback, Axi4LiteRegblock_proofs, SequenceTheorems

allVars == <<vars, fifoVars>>

-----------------------------------------------------------------------------
(* Sequences.                                                              *)
LEMMA OneEntry ==
  ASSUME NEW S, NEW x \in S
  PROVE  <<x>> \in Seq(S) /\ Len(<<x>>) = 1 /\ <<x>>[1] = x
  OBVIOUS

LEMMA TailOfPrefixed ==
  ASSUME NEW S, NEW x \in S, NEW s \in Seq(S)
  PROVE  <<x>> \o s # <<>> /\ Tail(<<x>> \o s) = s
  <1> DEFINE t == <<x>> \o s
  <1>1. <<x>> \in Seq(S) /\ Len(<<x>>) = 1
    BY OneEntry
  <1>2. Len(s) \in Nat
    BY LenProperties
  <1>3. /\ t \in Seq(S) /\ Len(t) = 1 + Len(s)
        /\ \A i \in 1 .. 1 + Len(s) : t[i] = IF i <= 1 THEN <<x>>[i] ELSE s[i - 1]
    BY <1>1, ConcatProperties
  <1>4. t # <<>>
    BY <1>2, <1>3, EmptySeq
  <1> HIDE DEF t
  <1>5. /\ Tail(t) \in Seq(S) /\ Len(Tail(t)) = Len(t) - 1
        /\ \A i \in 1 .. Len(Tail(t)) : Tail(t)[i] = t[i + 1]
    BY <1>3, <1>4, HeadTailProperties
  <1>6. Len(Tail(t)) = Len(s)
    BY <1>2, <1>3, <1>5
  <1>7. \A i \in 1 .. Len(Tail(t)) : Tail(t)[i] = s[i]
    <2> TAKE i \in 1 .. Len(Tail(t))
    <2>1. i + 1 \in 1 .. 1 + Len(s) /\ ~(i + 1 <= 1) /\ i + 1 - 1 = i
      BY <1>2, <1>6
    <2> QED
      BY <2>1, <1>3, <1>5
  <1>8. Tail(t) = s
    BY <1>5, <1>6, <1>7, SeqEqual
  <1> QED
    BY <1>4, <1>8 DEF t

LEMMA HeadAndTail ==
  ASSUME NEW S, NEW s \in Seq(S), s # <<>>
  PROVE  <<Head(s)>> \o Tail(s) = s /\ Head(s) \in S /\ Tail(s) \in Seq(S)
  <1> DEFINE t == <<Head(s)>> \o Tail(s)
  <1>1. /\ Head(s) \in S /\ Tail(s) \in Seq(S) /\ Len(Tail(s)) = Len(s) - 1
        /\ \A i \in 1 .. Len(Tail(s)) : Tail(s)[i] = s[i + 1]
    BY HeadTailProperties
  <1>2. Len(s) \in Nat \ {0}
    BY EmptySeq
  <1>3. <<Head(s)>> \in Seq(S) /\ Len(<<Head(s)>>) = 1 /\ <<Head(s)>>[1] = Head(s)
    BY <1>1, OneEntry
  <1>4. /\ t \in Seq(S) /\ Len(t) = 1 + Len(Tail(s))
        /\ \A i \in 1 .. 1 + Len(Tail(s)) :
             t[i] = IF i <= 1 THEN <<Head(s)>>[i] ELSE Tail(s)[i - 1]
    BY <1>1, <1>3, ConcatProperties
  <1> HIDE DEF t
  <1>5. Len(t) = Len(s)
    BY <1>1, <1>2, <1>4
  <1>6. \A i \in 1 .. Len(s) : t[i] = s[i]
    <2> TAKE i \in 1 .. Len(s)
    <2>1. CASE i = 1
      <3>1. Head(s) = s[1]
        OBVIOUS
      <3> QED
        BY <1>1, <1>2, <1>3, <1>4, <2>1, <3>1
    <2>2. CASE i # 1
      <3>1. i - 1 \in 1 .. Len(Tail(s)) /\ ~(i <= 1) /\ (i - 1) + 1 = i
        BY <1>1, <1>2, <2>2
      <3> QED
        BY <1>1, <1>2, <1>4, <3>1
    <2> QED
      BY <2>1, <2>2
  <1>7. t = s
    BY <1>4, <1>5, <1>6, SeqEqual
  <1> QED
    BY <1>1, <1>7 DEF t

LEMMA HeadOfConcat ==
  ASSUME NEW S, NEW s \in Seq(S), NEW t \in Seq(S), s # <<>>
  PROVE  Head(s \o t) = Head(s) /\ s \o t # <<>>
  <1>1. Len(s) \in Nat \ {0} /\ Len(t) \in Nat
    BY EmptySeq, LenProperties
  <1>2. /\ s \o t \in Seq(S) /\ Len(s \o t) = Len(s) + Len(t)
        /\ (s \o t)[1] = s[1]
    BY <1>1, ConcatProperties
  <1>3. s \o t # <<>>
    BY <1>1, <1>2, EmptySeq
  <1>4. Head(s) = s[1] /\ Head(s \o t) = (s \o t)[1]
    BY <1>2, <1>3
  <1> QED
    BY <1>2, <1>3, <1>4

-----------------------------------------------------------------------------
(* The registers around the FIFO.                                          *)
LevelCell == <<LevelField, 0>>
HeadCell  == <<HeadField, 0>>
PushCell  == <<PushField, 0>>

LEMMA ScalarCell ==
  ASSUME NEW f \in Field, ~IsArray(Fields[f].reg)
  PROVE  /\ <<f, 0>> \in Cell /\ FieldOf(<<f, 0>>) = Fields[f] /\ ~TwoBlocks(<<f, 0>>)
         /\ CellAddress(<<f, 0>>) = Address(Fields[f].reg)
  BY DEF Cell, Elements, FieldOf, TwoBlocks, CellAddress, ElementAddress, Address

LEMMA FifoCells ==
  /\ LevelCell \in Cell /\ HeadCell \in Cell /\ PushCell \in Cell
  /\ LevelCell \in HwCell /\ HeadCell \in HwCell /\ PushCell \notin HwCell
  /\ FieldOf(LevelCell) = Fields[LevelField] /\ FieldOf(HeadCell) = Fields[HeadField]
  /\ FieldOf(PushCell) = Fields[PushField]
  /\ ~TwoBlocks(LevelCell) /\ ~TwoBlocks(HeadCell) /\ ~TwoBlocks(PushCell)
  /\ CellAddress(LevelCell) = Address(LevelReg) /\ CellAddress(HeadCell) = Address(PopReg)
  /\ CellAddress(PushCell) = Address(PushReg)
  /\ LevelField # HeadField
  <1>1. ~IsArray(LevelReg) /\ ~IsArray(PopReg) /\ ~IsArray(PushReg)
    BY FifoAssumption, DesignAssumption DEF ValidPulses
  <1>2. PushField \notin {LevelField, HeadField} /\ LevelField # HeadField
    BY FifoAssumption
  <1>3. PushCell \notin HwCell /\ LevelCell \in HwCell /\ HeadCell \in HwCell
    BY <1>2, FifoAssumption DEF PushCell, LevelCell, HeadCell
  <1> QED
    BY <1>1, <1>2, <1>3, FifoAssumption, ScalarCell DEF PushCell, LevelCell, HeadCell

(* The three registers have three addresses.                               *)
LEMMA FifoAddresses ==
  /\ Address(PushReg) # Address(LevelReg) /\ Address(PushReg) # Address(PopReg)
  /\ Address(LevelReg) # Address(PopReg)
  /\ Address(PopReg) # None /\ Address(LevelReg) # None
  <1>1. \A c, d \in Cell : CellAddress(c) = CellAddress(d) => FieldOf(c).reg = FieldOf(d).reg
    BY DesignAssumption DEF WellPlaced
  <1>2. \A r \in Reg : Address(r) \in Nat
    BY DesignAssumption DEF RegModel, Address
  <1> QED
    BY <1>1, <1>2, FifoCells, FifoAssumption, BusAssumption

(* What FIFO and port hold is of the right type.                           *)
LEMMA PortType ==
  ASSUME NEW q \in Seq(Entry)
  PROVE  /\ Port(q) \in HwifIn
         /\ Port(q)[LevelCell] = Binary(Len(q))
         /\ q # <<>> => Port(q)[HeadCell] = Head(q)
  <1>1. /\ Port(q)[LevelCell] = Binary(Len(q))
        /\ Port(q)[HeadCell] = IF q = <<>> THEN {} ELSE Head(q)
    BY FifoCells DEF Port, LevelCell, HeadCell
  <1>2. HwCell = {LevelCell, HeadCell}
    BY FifoAssumption DEF LevelCell, HeadCell
  <1>3. Bits(LevelCell) = Ones(LevelField) /\ Bits(HeadCell) = Ones(HeadField)
    BY DEF Bits, LevelCell, HeadCell
  <1>4. Binary(Len(q)) \subseteq Bits(LevelCell)
    BY <1>3 DEF Binary
  <1>5. q # <<>> => Head(q) \subseteq Bits(HeadCell)
    BY <1>3, HeadAndTail DEF Entry
  <1>6. \A c \in HwCell : Port(q)[c] \subseteq Bits(c)
    BY <1>1, <1>2, <1>4, <1>5
  <1>7. \A c \in HwCell : Bits(c) \subseteq 0 .. DataWidth - 1
    BY CellField, OnesInWord DEF HwCell
  <1>8. \A c \in HwCell : Port(q)[c] \in Word
    BY <1>6, <1>7 DEF Word
  <1>9. Port(q) \in [HwCell -> Word]
    <2>1. Port(q) = [c \in HwCell |-> Port(q)[c]]
      BY DEF Port
    <2> QED
      BY <1>8, <2>1
  <1> QED
    BY <1>1, <1>6, <1>9 DEF HwifIn

-----------------------------------------------------------------------------
(* What an edge does to the three registers: the level and the head are    *)
(* copied, and a write to the third stores its slice of the word.          *)
LEMMA EdgeCells ==
  ASSUME IInv, NEW b_ready \in BOOLEAN, NEW r_ready \in BOOLEAN, ClockEdge(b_ready, r_ready)
  PROVE  /\ cells'[LevelCell] = hwif_in[LevelCell]
         /\ cells'[HeadCell] = hwif_in[HeadCell]
         /\ write_pulse(PushReg) => cells'[PushCell] = WdataSlice(PushField, wtxn.data)
  <1>1. PICK hw_last : cells' = SeqNext(cells, hwif_in, FiringWrite, FiringRead, hw_last)
    BY DEF ClockEdge, StorageSeq
  <1>2. \A c \in Cell : ~TwoBlocks(c) =>
          cells'[c] = IF ReadSideHits(c, FiringRead) THEN FieldReadSide(c[1])
                      ELSE IF WriteHits(c, FiringWrite) THEN FieldWrite(c[1], cells[c], FiringWrite.data)
                      ELSE IF FieldOf(c).hw_writable THEN FieldHwifIn(c[1], cells[c], hwif_in[c])
                      ELSE cells[c]
    BY <1>1 DEF SeqNext, CellNext
  <1>3. ASSUME NEW f \in {LevelField, HeadField}, NEW c, c = <<f, 0>>
        PROVE  cells'[c] = hwif_in[c]
    <2>1. c \in Cell /\ c \in HwCell /\ ~TwoBlocks(c) /\ FieldOf(c) = Fields[f] /\ c[1] = f
      BY <1>3, FifoCells DEF LevelCell, HeadCell
    <2>2. ~ReadSideHits(c, FiringRead) /\ ~WriteHits(c, FiringWrite)
      BY <2>1, FifoAssumption DEF ReadSideHits, WriteHits
    <2>3. FieldOf(c).hw_writable /\ ~IsSticky(c[1])
      BY <2>1, FifoAssumption DEF HwCell
    <2> QED
      BY <1>2, <2>1, <2>2, <2>3 DEF FieldHwifIn
  <1>4. ASSUME write_pulse(PushReg)
        PROVE  cells'[PushCell] = WdataSlice(PushField, wtxn.data)
    <2>1. wr_fire /\ wtxn.addr = Address(PushReg) /\ FiringWrite = wtxn
      BY <1>4 DEF write_pulse, Address, FiringWrite
    <2>2. wtxn # None
      BY <2>1 DEF wr_fire, aw_valid, IInv, BeatsConsistent
    <2>3. WriteHits(PushCell, FiringWrite)
      BY <2>1, <2>2, FifoCells, FifoAssumption DEF WriteHits
    <2>4. FiringRead \in {None, Address(LevelReg), Address(PopReg)}
      BY FifoAssumption DEF FiringRead, IInv, TypeOK
    <2>5. ~ReadSideHits(PushCell, FiringRead)
      BY <2>4, FifoCells, FifoAddresses DEF ReadSideHits
    <2>6. cells'[PushCell] = FieldWrite(PushField, cells[PushCell], wtxn.data)
      BY <1>2, <2>1, <2>3, <2>5, FifoCells DEF PushCell
    <2>7. Fields[PushField].onwrite = None
      BY FifoAssumption
    <2> QED
      BY <2>6, <2>7, DesignAssumption DEF FieldWrite, OnWrite
  <1> QED
    BY <1>3, <1>4 DEF LevelCell, HeadCell

(* The bus side of an edge, as far as software and the FIFO see it.        *)
LEMMA EdgeBus ==
  ASSUME IInv, NEW b_ready \in BOOLEAN, NEW r_ready \in BOOLEAN, ClockEdge(b_ready, r_ready)
  PROVE  /\ write_pulse(PushReg) <=> WriteBeatsOver /\ wtxn.addr = Address(PushReg)
         /\ read_pulse(PopReg) <=> rd_fire /\ rtxn = Address(PopReg)
         /\ rd_fire <=> rtxn # None /\ ~rresp_valid_r
         /\ rresp_valid_r' <=> rd_fire \/ (rresp_valid_r /\ ~r_ready)
         /\ rd_fire => rdata_r' = ReadMux(cells, rtxn) /\ rtxn' = None
         /\ ~rd_fire => rdata_r' = rdata_r /\ rtxn' = rtxn
         /\ WriteBeatsOver => wtxn # None /\ wtxn' = None
         /\ ~WriteBeatsOver => wtxn' = wtxn
  <1>1. wr_fire <=> WriteBeatsOver
    BY FifoAssumption DEF IInv, BeatsConsistent, wr_fire, WriteBeatsOver, Beat,
       aw_valid, w_valid, aw_ready, w_ready
  <1>2. /\ write_pulse(PushReg) <=> WriteBeatsOver /\ wtxn.addr = Address(PushReg)
        /\ read_pulse(PopReg) <=> rd_fire /\ rtxn = Address(PopReg)
    BY <1>1, FifoAssumption DEF write_pulse, read_pulse, Address
  <1>3. /\ rd_fire <=> rtxn # None /\ ~rresp_valid_r
        /\ rresp_valid_r' <=> rd_fire \/ (rresp_valid_r /\ ~r_ready)
        /\ rd_fire => rdata_r' = ReadMux(cells, rtxn)
        /\ ~rd_fire => rdata_r' = rdata_r
    BY FifoAssumption DEF rd_fire, ar_valid, ClockEdge, HandshakeSeq, ReadbackLatch
  <1>4. rtxn' = IF rd_fire THEN None ELSE rtxn
    BY DEF ClockEdge, InitiatorRead, rd_fire, ar_valid, ar_ready
  <1>5. /\ wtxn' = IF WriteBeatsOver THEN None ELSE wtxn
        /\ WriteBeatsOver => wtxn # None
    BY DEF ClockEdge, InitiatorWrite, WriteBeatsOver
  <1> QED
    BY <1>2, <1>3, <1>4, <1>5

-----------------------------------------------------------------------------
LEMMA AddZero ==
  ASSUME NEW n \in Nat
  PROVE  n + 0 = n
  OBVIOUS

LEMMA WantedIs ==
  ASSUME FifoInv
  PROVE  /\ Wanted = IF rtxn = Address(PopReg) THEN credit + 1 ELSE credit
         /\ Wanted \in Nat /\ credit \in Nat /\ Len(fifo) \in Nat /\ Wanted <= Len(fifo)
  <1>1. credit \in Nat /\ fifo \in Seq(Entry)
    BY DEF FifoInv, FifoTypeOK
  <1>2. Len(fifo) \in Nat
    BY <1>1, LenProperties
  <1>3. Wanted <= Len(fifo)
    BY DEF FifoInv, NoUnderflow, Wanted
  <1> QED
    BY <1>1, <1>2, <1>3 DEF Wanted, Count

(* A pop takes the head of the FIFO, which is there and which is the copy  *)
(* that the read of the register returns.                                  *)
LEMMA PopTakesHead ==
  ASSUME FifoInv
  PROVE  /\ read_pulse(PopReg) =>
              /\ fifo # <<>> /\ Popped(fifo) = Tail(fifo)
              /\ asked = "pop" /\ ~r_valid /\ rd_fire /\ rtxn = Address(PopReg)
              /\ cells[HeadCell] = Head(fifo)
         /\ ~read_pulse(PopReg) => Popped(fifo) = fifo
  <1>1. ASSUME read_pulse(PopReg)
        PROVE  /\ fifo # <<>> /\ asked = "pop" /\ ~r_valid /\ rd_fire /\ rtxn = Address(PopReg)
               /\ cells[HeadCell] = Head(fifo)
    <2>1. rd_fire /\ rtxn = Address(PopReg) /\ ~r_valid
      BY <1>1 DEF read_pulse, Address, rd_fire, r_valid
    <2>2. Wanted > 0 /\ Len(fifo) > 0
      BY <2>1, WantedIs
    <2>3. fifo # <<>>
      BY <2>2, EmptySeq
    <2> QED
      BY <2>1, <2>2, <2>3 DEF FifoInv, AskedFor, CopiesCurrent, HeadCell
  <1> QED
    BY <1>1 DEF Popped

(* The entry a write strobes into the FIFO one edge later is the one the   *)
(* write has stored.                                                       *)
LEMMA EdgePushes ==
  ASSUME FifoInv, NEW b_ready \in BOOLEAN, NEW r_ready \in BOOLEAN, Edge(b_ready, r_ready)
  PROVE  Pushed' = Written /\ Written \in Seq(Entry) /\ Pushed \in Seq(Entry)
  <1>1. ClockEdge(b_ready, r_ready) /\ IInv /\ strobe' = write_pulse(PushReg)
    BY DEF Edge, FifoInv
  <1>2. write_pulse(PushReg) <=> WriteBeatsOver /\ wtxn.addr = Address(PushReg)
    BY <1>1, EdgeBus
  <1>3. Ones(PushField) = Ones(HeadField)
    BY FifoAssumption DEF Ones
  <1>4. /\ Pushed' = IF strobe' THEN <<cells'[PushCell]>> ELSE <<>>
        /\ Pushed = IF strobe THEN <<cells[PushCell]>> ELSE <<>>
    BY DEF Pushed, hwif_out, PushCell
  <1>5. write_pulse(PushReg) => cells'[PushCell] = WdataSlice(PushField, wtxn.data)
    BY <1>1, EdgeCells
  <1>6. Pushed' = Written
    BY <1>1, <1>2, <1>4, <1>5 DEF Written
  <1>7. Written \in Seq(Entry)
    <2>1. WdataSlice(PushField, wtxn.data) \in Entry
      BY <1>3 DEF WdataSlice, Entry
    <2> QED
      BY <2>1, OneEntry, EmptySeq DEF Written
  <1>8. Pushed \in Seq(Entry)
    <2>1. cells[PushCell] \subseteq Bits(PushCell)
      BY <1>1, FifoCells DEF IInv, TypeOK, Cells
    <2>2. cells[PushCell] \in Entry
      BY <1>3, <2>1 DEF Entry, Bits, PushCell
    <2> QED
      BY <1>4, <2>2, OneEntry, EmptySeq
  <1> QED
    BY <1>6, <1>7, <1>8

LEMMA InFlightType ==
  ASSUME FifoInv
  PROVE  InFlight \in Seq(Entry)
  <1>1. WdataSlice(HeadField, r_data) \in Entry
    BY DEF WdataSlice, Entry
  <1> QED
    BY <1>1, OneEntry, EmptySeq DEF InFlight

(* What an edge leaves of the entries software is still to get: a response *)
(* that is taken goes, a pop turns the head into the next one.             *)
LEMMA EdgeConserves ==
  ASSUME FifoInv, NEW b_ready \in BOOLEAN, NEW r_ready \in BOOLEAN, Edge(b_ready, r_ready)
  PROVE  /\ Popped(fifo) \o Pushed \in Seq(Entry)
         /\ (IF r_ready /\ Received /\ sent # <<>> THEN Tail(sent) ELSE sent)
              = InFlight' \o (Popped(fifo) \o Pushed)
  <1> DEFINE Kept == IF r_ready /\ Received /\ sent # <<>> THEN Tail(sent) ELSE sent
             rest == fifo \o Pushed
  <1>1. /\ ClockEdge(b_ready, r_ready) /\ IInv
        /\ fifo \in Seq(Entry) /\ asked' = asked /\ asked \in {"level", "pop"}
        /\ Pushed \in Seq(Entry) /\ InFlight \in Seq(Entry)
    BY EdgePushes, InFlightType DEF Edge, FifoInv, FifoTypeOK
  <1>2. rest \in Seq(Entry)
    BY <1>1, ConcatProperties
  <1>3. sent = InFlight \o rest
    BY <1>1, ConcatAssociative DEF FifoInv, EntriesConserved
  <1>4. /\ Received <=> rresp_valid_r /\ asked = "pop"
        /\ Received' <=> rresp_valid_r' /\ asked = "pop"
        /\ InFlight = IF Received THEN <<WdataSlice(HeadField, rdata_r)>> ELSE <<>>
        /\ InFlight' = IF Received' THEN <<WdataSlice(HeadField, rdata_r')>> ELSE <<>>
    BY <1>1 DEF Received, InFlight, r_valid, r_data
  <1>5. /\ rd_fire <=> rtxn # None /\ ~rresp_valid_r
        /\ rresp_valid_r' <=> rd_fire \/ (rresp_valid_r /\ ~r_ready)
        /\ rd_fire => rdata_r' = ReadMux(cells, rtxn)
        /\ ~rd_fire => rdata_r' = rdata_r
        /\ read_pulse(PopReg) <=> rd_fire /\ rtxn = Address(PopReg)
    BY <1>1, EdgeBus
  <1>6. CASE read_pulse(PopReg)
    <2>1. /\ fifo # <<>> /\ Popped(fifo) = Tail(fifo) /\ asked = "pop" /\ ~rresp_valid_r
          /\ cells[HeadCell] = Head(fifo)
      BY <1>6, PopTakesHead DEF r_valid
    <2>2. <<Head(fifo)>> \o Tail(fifo) = fifo /\ Tail(fifo) \in Seq(Entry) /\ Head(fifo) \in Entry
      BY <1>1, <2>1, HeadAndTail
    <2>3. WdataSlice(HeadField, rdata_r') = Head(fifo)
      <3>1. rdata_r' = ReadMux(cells, CellAddress(HeadCell))
        BY <1>5, <1>6, FifoCells
      <3>2. cells \in Cells /\ FieldOf(HeadCell).sw_readable /\ HeadCell \in Cell
        BY <1>1, FifoCells, FifoAssumption DEF IInv, TypeOK
      <3>3. WdataSlice(HeadCell[1], rdata_r') = cells[HeadCell]
        BY <3>1, <3>2, ReadMuxField
      <3> QED
        BY <2>1, <3>3 DEF HeadCell
    <2>4. Kept = rest /\ InFlight' = <<Head(fifo)>>
      <3>1. ~Received /\ Received' /\ InFlight = <<>>
        BY <1>4, <1>5, <1>6, <2>1
      <3> QED
        BY <1>2, <1>3, <1>4, <2>3, <3>1, ConcatEmptySeq
    <2>5. <<Head(fifo)>> \in Seq(Entry)
      BY <2>2, OneEntry
    <2>6. <<Head(fifo)>> \o (Tail(fifo) \o Pushed) = rest
      BY <1>1, <2>2, <2>5, ConcatAssociative
    <2>7. Tail(fifo) \o Pushed \in Seq(Entry)
      BY <1>1, <2>2, ConcatProperties
    <2> QED
      BY <2>1, <2>4, <2>6, <2>7
  <1>7. CASE ~read_pulse(PopReg)
    <2>1. Popped(fifo) = fifo
      BY <1>7, PopTakesHead
    <2>2. CASE Received
      <3>1. rdata_r' = rdata_r /\ (Received' <=> ~r_ready)
        BY <1>4, <1>5, <2>2
      <3>2. WdataSlice(HeadField, rdata_r) \in Entry
        BY DEF WdataSlice, Entry
      <3>3. sent # <<>> /\ Tail(sent) = rest
        BY <1>2, <1>3, <1>4, <2>2, <3>2, TailOfPrefixed
      <3>4. CASE r_ready
        BY <1>2, <1>4, <2>1, <2>2, <3>1, <3>3, <3>4, ConcatEmptySeq
      <3>5. CASE ~r_ready
        BY <1>2, <1>3, <1>4, <2>1, <2>2, <3>1, <3>5
      <3> QED
        BY <3>4, <3>5
    <2>3. CASE ~Received
      <3>1. asked = "pop" => ~rresp_valid_r
        BY <1>4, <2>3
      <3>2. rd_fire => asked = "level"
        <4>1. rtxn \in {Address(LevelReg), Address(PopReg), None}
          BY <1>1, FifoAssumption DEF IInv, TypeOK
        <4> QED
          BY <1>5, <1>7, <4>1 DEF FifoInv, AskedFor
      <3>3. ~Received'
        BY <1>4, <1>5, <3>1, <3>2
      <3>4. InFlight = <<>> /\ InFlight' = <<>> /\ Kept = sent
        BY <1>4, <2>3, <3>3
      <3> QED
        BY <1>2, <1>3, <2>1, <3>4, ConcatEmptySeq
    <2> QED
      BY <2>2, <2>3
  <1> QED
    BY <1>6, <1>7

LEMMA EdgeEntries ==
  ASSUME FifoInv, NEW b_ready \in BOOLEAN, NEW r_ready \in BOOLEAN, Edge(b_ready, r_ready)
  PROVE  /\ EntriesConserved' /\ RoomForWrite'
         /\ fifo' \in Seq(Entry) /\ sent' \in Seq(Entry)
         /\ Len(fifo') <= FifoDepth
  <1> DEFINE Kept == IF r_ready /\ Received /\ sent # <<>> THEN Tail(sent) ELSE sent
             later == InFlight' \o fifo'
  <1>1. /\ fifo' = Popped(fifo) \o Pushed /\ sent' = Kept \o Written
        /\ ClockEdge(b_ready, r_ready) /\ IInv /\ sent \in Seq(Entry)
    BY DEF Edge, FifoInv, FifoTypeOK
  <1>2. Pushed' = Written /\ Written \in Seq(Entry)
    BY EdgePushes
  <1>3. fifo' \in Seq(Entry) /\ Kept = later
    BY <1>1, EdgeConserves
  <1>4. InFlight' \in Seq(Entry)
    <2>1. WdataSlice(HeadField, r_data)' \in Entry
      BY DEF WdataSlice, Entry
    <2> QED
      BY <2>1, OneEntry, EmptySeq DEF InFlight
  <1>5. later \in Seq(Entry)
    BY <1>3, <1>4, ConcatProperties
  <1>6. sent' = later \o Pushed'
    BY <1>1, <1>2, <1>3
  <1>7. EntriesConserved'
    BY <1>6 DEF EntriesConserved
  <1>8. sent' \in Seq(Entry)
    BY <1>2, <1>5, <1>6, ConcatProperties
  <1>9. /\ Len(sent') = Len(Kept) + Len(Written)
        /\ Len(Kept) = Len(InFlight') + Len(fifo')
    <2>1. Len(later) = Len(InFlight') + Len(fifo')
      BY <1>3, <1>4, ConcatProperties
    <2>2. Kept \in Seq(Entry) /\ sent' = Kept \o Written
      BY <1>1, <1>3, <1>5
    <2> HIDE DEF Kept, later
    <2>3. Len(sent') = Len(Kept) + Len(Written)
      BY <1>2, <2>2, ConcatProperties
    <2> QED
      BY <1>3, <2>1, <2>3
  <1>10. /\ Len(InFlight') \in Nat /\ Len(fifo') \in Nat /\ Len(Written) \in Nat
         /\ Len(sent) \in Nat /\ Len(Kept) \in Nat /\ FifoDepth \in Nat
    BY <1>1, <1>2, <1>3, <1>4, <1>5, LenProperties, FifoAssumption
  <1>11. Len(Kept) <= Len(sent)
    <2>1. CASE r_ready /\ Received /\ sent # <<>>
      <3>1. Len(Tail(sent)) = Len(sent) - 1
        BY <1>1, <2>1, HeadTailProperties
      <3> QED
        BY <1>10, <2>1, <3>1
    <2>2. CASE ~(r_ready /\ Received /\ sent # <<>>)
      BY <1>10, <2>2
    <2> QED
      BY <2>1, <2>2
  <1> DEFINE push  == wtxn # None /\ wtxn.addr = Address(PushReg)
             later_push == wtxn' # None /\ wtxn'.addr = Address(PushReg)
  <1>12. /\ Len(sent) + Count(push) <= FifoDepth
         /\ RoomForWrite' <=> Len(sent') + Count(later_push) <= FifoDepth
    BY DEF FifoInv, RoomForWrite
  <1>13. /\ push \in BOOLEAN /\ later_push \in BOOLEAN
         /\ WriteBeatsOver => wtxn # None /\ wtxn' = None
         /\ ~WriteBeatsOver => wtxn' = wtxn
    BY <1>1, EdgeBus
  <1>14. Len(Written) = IF WriteBeatsOver /\ push THEN 1 ELSE 0
    <2>1. WdataSlice(PushField, wtxn.data) \in SUBSET Ones(PushField)
      BY DEF WdataSlice
    <2>2. Len(<<WdataSlice(PushField, wtxn.data)>>) = 1 /\ Len(<<>>) = 0
      BY <2>1, OneEntry, EmptySeq
    <2> QED
      BY <1>13, <2>2 DEF Written
  <1> HIDE DEF Kept, later, push, later_push
  <1>15. Count(later_push) + Len(Written) <= Count(push)
    <2>1. CASE WriteBeatsOver
      <3>1. ~later_push
        BY <1>13, <2>1 DEF later_push
      <3> QED
        BY <1>13, <1>14, <2>1, <3>1 DEF Count
    <2>2. CASE ~WriteBeatsOver
      <3>1. later_push = push
        BY <1>13, <2>2 DEF push, later_push
      <3> QED
        BY <1>13, <1>14, <2>2, <3>1 DEF Count
    <2> QED
      BY <2>1, <2>2
  <1>16. Count(later_push) \in Nat /\ Count(push) \in Nat
    BY DEF Count
  <1>17. RoomForWrite' /\ Len(fifo') <= FifoDepth
    BY <1>9, <1>10, <1>11, <1>12, <1>15, <1>16
  <1> QED
    BY <1>3, <1>7, <1>8, <1>17

(* The length of the FIFO across an edge: it shrinks only by a pop.        *)
LEMMA EdgeLength ==
  ASSUME FifoInv, NEW b_ready \in BOOLEAN, NEW r_ready \in BOOLEAN, Edge(b_ready, r_ready)
  PROVE  /\ Len(fifo') \in Nat /\ Len(fifo) \in Nat
         /\ ~read_pulse(PopReg) => /\ Len(fifo') >= Len(fifo)
                                   /\ fifo # <<>> => Head(fifo') = Head(fifo)
         /\ read_pulse(PopReg) => Len(fifo') >= Len(fifo) - 1
  <1>1. /\ fifo' = Popped(fifo) \o Pushed /\ fifo \in Seq(Entry) /\ fifo' \in Seq(Entry)
        /\ Pushed \in Seq(Entry)
    BY EdgePushes, EdgeEntries DEF Edge, FifoInv, FifoTypeOK
  <1>2. Len(fifo') \in Nat /\ Len(fifo) \in Nat /\ Len(Pushed) \in Nat
    BY <1>1, LenProperties
  <1>3. ASSUME ~read_pulse(PopReg)
        PROVE  Len(fifo') >= Len(fifo) /\ (fifo # <<>> => Head(fifo') = Head(fifo))
    <2>1. fifo' = fifo \o Pushed
      BY <1>1, <1>3, PopTakesHead
    <2>2. Len(fifo') = Len(fifo) + Len(Pushed)
      BY <1>1, <2>1, ConcatProperties
    <2> QED
      BY <1>1, <1>2, <2>1, <2>2, HeadOfConcat
  <1>4. ASSUME read_pulse(PopReg) PROVE Len(fifo') >= Len(fifo) - 1
    <2>1. fifo' = Tail(fifo) \o Pushed /\ fifo # <<>>
      BY <1>1, <1>4, PopTakesHead
    <2>2. Tail(fifo) \in Seq(Entry) /\ Len(Tail(fifo)) = Len(fifo) - 1
      BY <1>1, <2>1, HeadTailProperties
    <2>3. Len(fifo') = Len(Tail(fifo)) + Len(Pushed)
      BY <1>1, <2>1, <2>2, ConcatProperties
    <2> QED
      BY <1>2, <2>2, <2>3
  <1> QED
    BY <1>2, <1>3, <1>4

-----------------------------------------------------------------------------
(* The level software receives is one the FIFO still has.                  *)
LEMMA LevelIsCredit ==
  ASSUME FifoInv, LevelReceived
  PROVE  LET n == CHOOSE n \in 0 .. FifoDepth : Binary(n) = WdataSlice(LevelField, r_data)
         IN  n \in 0 .. FifoDepth /\ n <= Len(fifo)
  <1>1. PICK n \in 0 .. FifoDepth : WdataSlice(LevelField, r_data) = Binary(n) /\ n <= Len(fifo)
    BY DEF FifoInv, CopiesCurrent, LevelAtMostFifo
  <1> DEFINE m == CHOOSE k \in 0 .. FifoDepth : Binary(k) = WdataSlice(LevelField, r_data)
  <1>2. m \in 0 .. FifoDepth /\ Binary(m) = WdataSlice(LevelField, r_data)
    BY <1>1
  <1>3. m = n
    BY <1>1, <1>2, FifoAssumption
  <1> QED
    BY <1>1, <1>3

(* What software may still ask for, across an edge: never more than the    *)
(* FIFO held before the edge when no entry is popped at it.                *)
LEMMA EdgeWanted ==
  ASSUME FifoInv, NEW b_ready \in BOOLEAN, NEW r_ready \in BOOLEAN, Edge(b_ready, r_ready)
  PROVE  /\ credit' \in Nat /\ Wanted' \in Nat /\ Wanted' <= Len(fifo')
         /\ ~read_pulse(PopReg) => Wanted' <= Len(fifo)
         /\ AskedFor'
  <1>1. /\ ClockEdge(b_ready, r_ready) /\ IInv /\ asked' = asked
        /\ credit' = IF r_ready /\ LevelReceived
                     THEN CHOOSE n \in 0 .. FifoDepth : Binary(n) = WdataSlice(LevelField, r_data)
                     ELSE credit
    BY DEF Edge, FifoInv
  <1>2. /\ rd_fire <=> rtxn # None /\ ~rresp_valid_r
        /\ rresp_valid_r' <=> rd_fire \/ (rresp_valid_r /\ ~r_ready)
        /\ rd_fire => rtxn' = None
        /\ ~rd_fire => rtxn' = rtxn
        /\ read_pulse(PopReg) <=> rd_fire /\ rtxn = Address(PopReg)
    BY <1>1, EdgeBus
  <1>3. /\ rtxn = Address(PopReg) => asked = "pop"
        /\ rtxn = Address(LevelReg) => asked = "level" /\ ~rresp_valid_r
        /\ asked = "level" /\ (rtxn # None \/ rresp_valid_r) => credit = 0
        /\ rtxn \in {Address(LevelReg), Address(PopReg), None}
    BY FifoAssumption DEF FifoInv, AskedFor, ar_valid, r_valid, IInv, TypeOK
  <1>4. /\ Wanted = IF rtxn = Address(PopReg) THEN credit + 1 ELSE credit
        /\ Wanted \in Nat /\ credit \in Nat /\ Len(fifo) \in Nat /\ Wanted <= Len(fifo)
    BY WantedIs
  <1>5. ASSUME credit' \in Nat
        PROVE  Wanted' = IF rtxn' = Address(PopReg) THEN credit' + 1 ELSE credit'
    <2>1. Wanted' = IF rtxn' = Address(PopReg) THEN credit' + 1 ELSE credit' + 0
      BY DEF Wanted, Count
    <2> QED
      BY <1>5, <2>1, AddZero, Zenon
  <1>6. LevelReceived <=> rresp_valid_r /\ asked = "level"
    BY DEF LevelReceived, r_valid
  <1>7. /\ Len(fifo') \in Nat
        /\ ~read_pulse(PopReg) => Len(fifo') >= Len(fifo)
        /\ read_pulse(PopReg) => Len(fifo') >= Len(fifo) - 1
    BY EdgeLength
  <1>8. Address(PopReg) # None /\ Address(LevelReg) # None /\ Address(PopReg) # Address(LevelReg)
    BY FifoAddresses
  <1>9. AskedFor' <=> /\ rtxn' = Address(PopReg) => asked' = "pop"
                      /\ rtxn' = Address(LevelReg) => asked' = "level" /\ ~rresp_valid_r'
                      /\ asked' = "level" /\ (rtxn' # None \/ rresp_valid_r') => credit' = 0
    BY DEF AskedFor, ar_valid, r_valid
  <1>10. CASE r_ready /\ LevelReceived
    <2>1. credit' \in 0 .. FifoDepth /\ credit' <= Len(fifo)
      BY <1>1, <1>10, LevelIsCredit
    <2>2. credit' \in Nat
      BY <2>1, FifoAssumption
    <2>3. ~rd_fire /\ ~read_pulse(PopReg) /\ rtxn = None /\ rtxn' = None /\ ~rresp_valid_r'
      BY <1>2, <1>3, <1>6, <1>10
    <2>4. Wanted' = credit'
      <3>1. rtxn' # Address(PopReg)
        BY <1>8, <2>3
      <3> QED
        BY <1>5, <2>2, <3>1
    <2> QED
      BY <1>4, <1>7, <1>8, <1>9, <2>1, <2>2, <2>3, <2>4
  <1>11. CASE ~(r_ready /\ LevelReceived)
    <2>1. credit' = credit
      BY <1>1, <1>11
    <2>2. AskedFor'
      BY <1>1, <1>2, <1>3, <1>8, <1>9, <2>1
    <2>3. CASE read_pulse(PopReg)
      BY <1>2, <1>4, <1>5, <1>7, <1>8, <2>1, <2>2, <2>3
    <2>4. CASE ~read_pulse(PopReg)
      <3>1. rtxn' = Address(PopReg) <=> rtxn = Address(PopReg)
        BY <1>2, <1>8, <2>4
      <3> QED
        BY <1>4, <1>5, <1>7, <2>1, <2>2, <2>4, <3>1
    <2> QED
      BY <2>3, <2>4
  <1> QED
    BY <1>10, <1>11

(* The copies are of use again after every edge that starts no response.   *)
LEMMA EdgeCopies ==
  ASSUME FifoInv, NEW b_ready \in BOOLEAN, NEW r_ready \in BOOLEAN, Edge(b_ready, r_ready)
  PROVE  CopiesCurrent'
  <1>1. /\ ClockEdge(b_ready, r_ready) /\ IInv /\ asked' = asked
        /\ fifo \in Seq(Entry) /\ Len(fifo) <= FifoDepth /\ hwif_in = Port(fifo)
    BY DEF Edge, FifoInv, FifoTypeOK
  <1>2. /\ rd_fire <=> rtxn # None /\ ~rresp_valid_r
        /\ rresp_valid_r' <=> rd_fire \/ (rresp_valid_r /\ ~r_ready)
        /\ rd_fire => rdata_r' = ReadMux(cells, rtxn)
        /\ ~rd_fire => rdata_r' = rdata_r
        /\ read_pulse(PopReg) <=> rd_fire /\ rtxn = Address(PopReg)
    BY <1>1, EdgeBus
  <1>3. /\ cells'[LevelCell] = Binary(Len(fifo))
        /\ fifo # <<>> => cells'[HeadCell] = Head(fifo)
    BY <1>1, EdgeCells, PortType
  <1>4. /\ Len(fifo') \in Nat /\ Len(fifo) \in Nat
        /\ ~read_pulse(PopReg) => /\ Len(fifo') >= Len(fifo)
                                  /\ fifo # <<>> => Head(fifo') = Head(fifo)
    BY EdgeLength
  <1>5. ASSUME ~rresp_valid_r'
        PROVE  \E n \in 0 .. FifoDepth : cells'[LevelCell] = Binary(n) /\ n <= Len(fifo')
    <2>1. ~read_pulse(PopReg)
      BY <1>2, <1>5
    <2>2. Len(fifo) \in 0 .. FifoDepth /\ Len(fifo) <= Len(fifo')
      BY <1>1, <1>4, <2>1, FifoAssumption
    <2> QED
      BY <1>3, <2>2
  <1>6. ASSUME ~rresp_valid_r', Wanted' > 0
        PROVE  cells'[HeadCell] = Head(fifo')
    <2>1. ~read_pulse(PopReg)
      BY <1>2, <1>6
    <2>2. Len(fifo) > 0
      BY <1>4, <1>6, <2>1, EdgeWanted
    <2>3. fifo # <<>>
      BY <2>2, EmptySeq
    <2> QED
      BY <1>3, <1>4, <2>1, <2>3
  <1>7. ASSUME rresp_valid_r', asked' = "level"
        PROVE  \E n \in 0 .. FifoDepth :
                  WdataSlice(LevelField, rdata_r') = Binary(n) /\ n <= Len(fifo')
    <2>1. rd_fire => rtxn = Address(LevelReg)
      BY <1>1, <1>2, <1>7, FifoAssumption DEF FifoInv, AskedFor, IInv, TypeOK
    <2>2. ~read_pulse(PopReg)
      BY <1>2, <2>1, FifoAddresses
    <2>3. \E n \in 0 .. FifoDepth :
             WdataSlice(LevelField, rdata_r') = Binary(n) /\ n <= Len(fifo)
      <3>1. CASE rd_fire
        <4>1. rdata_r' = ReadMux(cells, CellAddress(LevelCell))
          BY <1>2, <2>1, <3>1, FifoCells
        <4>2. cells \in Cells /\ FieldOf(LevelCell).sw_readable /\ LevelCell \in Cell
          BY <1>1, FifoCells, FifoAssumption DEF IInv, TypeOK
        <4>3. WdataSlice(LevelCell[1], rdata_r') = cells[LevelCell]
          BY <4>1, <4>2, ReadMuxField
        <4>4. WdataSlice(LevelField, rdata_r') = cells[LevelCell]
          BY <4>3 DEF LevelCell
        <4> QED
          BY <1>2, <3>1, <4>4 DEF FifoInv, CopiesCurrent, LevelAtMostFifo, LevelCell, r_valid
      <3>2. CASE ~rd_fire
        BY <1>1, <1>2, <1>7, <3>2
           DEF FifoInv, CopiesCurrent, LevelAtMostFifo, LevelReceived, r_valid, r_data
      <3> QED
        BY <3>1, <3>2
    <2>4. PICK n \in 0 .. FifoDepth : WdataSlice(LevelField, rdata_r') = Binary(n) /\ n <= Len(fifo)
      BY <2>3
    <2>5. n <= Len(fifo')
      BY <1>4, <2>2, <2>4, FifoAssumption
    <2> QED
      BY <2>4, <2>5
  <1> QED
    BY <1>5, <1>6, <1>7
       DEF CopiesCurrent, LevelAtMostFifo, LevelReceived, LevelCell, HeadCell, r_valid, r_data

-----------------------------------------------------------------------------
LEMMA InitFifoInv == FifoInit => FifoInv
  <1> SUFFICES ASSUME FifoInit PROVE FifoInv
    OBVIOUS
  <1>1. /\ Init /\ fifo = <<>> /\ strobe = FALSE /\ hwif_in = Port(fifo)
        /\ asked = "level" /\ credit = 0 /\ sent = <<>>
        /\ rtxn = None /\ wtxn = None /\ ~rresp_valid_r /\ cells = ResetCells
    BY DEF FifoInit, Init
  <1>2. IInv
    BY <1>1, InitIInv
  <1>3. Len(fifo) = 0 /\ fifo \in Seq(Entry) /\ sent \in Seq(Entry) /\ FifoDepth \in Nat
    BY <1>1, EmptySeq, FifoAssumption
  <1>4. FifoTypeOK
    <2>1. /\ strobe \in BOOLEAN /\ asked \in {"level", "pop"} /\ credit \in Nat
          /\ hwif_in = Port(fifo)
      BY <1>1
    <2>2. Len(fifo) <= FifoDepth
      BY <1>3
    <2> QED
      BY <1>3, <2>1, <2>2 DEF FifoTypeOK
  <1>5. rtxn # Address(PopReg) /\ rtxn # Address(LevelReg)
    BY <1>1, FifoAddresses
  <1>6. AskedFor
    BY <1>1, <1>5 DEF AskedFor
  <1>7. Wanted = 0
    BY <1>1, <1>5 DEF Wanted, Count
  <1>8. NoUnderflow
    BY <1>3, <1>7 DEF NoUnderflow, Wanted
  <1>9. CopiesCurrent
    <2>1. cells[LevelCell] = Binary(0)
      BY <1>1, FifoCells, FifoAssumption DEF ResetCells
    <2> QED
      BY <1>1, <1>3, <1>7, <2>1
         DEF CopiesCurrent, LevelAtMostFifo, LevelReceived, LevelCell, r_valid
  <1>10. RoomForWrite
    BY <1>1, <1>3 DEF RoomForWrite, Count
  <1>11. EntriesConserved
    <2>1. <<>> \o <<>> = <<>>
      BY <1>1, <1>3, ConcatEmptySeq
    <2> QED
      BY <1>1, <2>1 DEF EntriesConserved, InFlight, Received, Pushed, r_valid
  <1> QED
    BY <1>2, <1>4, <1>6, <1>8, <1>9, <1>10, <1>11 DEF FifoInv

LEMMA EdgeFifoInv ==
  ASSUME FifoInv, NEW b_ready \in BOOLEAN, NEW r_ready \in BOOLEAN, Edge(b_ready, r_ready)
  PROVE  FifoInv'
  <1>1. ClockEdge(b_ready, r_ready) /\ IInv /\ hwif_in' = Port(fifo')
    BY DEF Edge, FifoInv
  <1>2. fifo' \in Seq(Entry) /\ sent' \in Seq(Entry) /\ Len(fifo') <= FifoDepth
    BY EdgeEntries
  <1>3. IInv'
    <2>1. Port(fifo') \in HwifIn
      BY <1>2, PortType
    <2> QED
      BY <1>1, <2>1, EdgeIInv
  <1>4. strobe' \in BOOLEAN /\ asked' \in {"level", "pop"} /\ credit' \in Nat
    <2>1. strobe' = write_pulse(PushReg) /\ asked' = asked
      BY DEF Edge
    <2> QED
      BY <2>1, EdgeWanted DEF write_pulse, FifoInv, FifoTypeOK
  <1>5. FifoTypeOK'
    <2>1. hwif_in' = Port(fifo)'
      BY <1>1 DEF Port
    <2> QED
      BY <1>2, <1>4, <2>1 DEF FifoTypeOK
  <1>6. NoUnderflow'
    BY EdgeWanted DEF NoUnderflow, Wanted
  <1> QED
    BY <1>3, <1>5, <1>6, EdgeEntries, EdgeWanted, EdgeCopies DEF FifoInv

(* Between two edges software starts a write or a read.                    *)
LEMMA SoftwareFifoInv ==
  ASSUME FifoInv,
         \/ \E req \in Writes : Write(req)
         \/ ReadLevel \/ ReadEntry
  PROVE  FifoInv'
  <1>1. /\ IInv /\ FifoTypeOK /\ CopiesCurrent /\ EntriesConserved /\ NoUnderflow
        /\ credit \in Nat /\ FifoDepth \in Nat
    BY FifoAssumption DEF FifoInv, FifoTypeOK
  <1>2. [Next]_vars
    BY FifoAssumption DEF Write, ReadLevel, ReadEntry, Next
  <1>3. IInv'
    BY <1>1, <1>2, NextIInv
  <1>4. /\ fifo' = fifo /\ strobe' = strobe /\ sent' = sent
        /\ cells' = cells /\ hwif_in' = hwif_in
        /\ bresp_valid_r' = bresp_valid_r /\ rresp_valid_r' = rresp_valid_r /\ rdata_r' = rdata_r
    BY DEF Write, ReadLevel, ReadEntry, StartWrite, StartRead, fifoVars, cpuif
  <1>5. Pushed' = Pushed /\ Port(fifo)' = Port(fifo)
    BY <1>4 DEF Pushed, hwif_out, Port
  <1>6. ASSUME NEW req \in Writes, Write(req) PROVE FifoInv'
    <2>1. /\ asked' = asked /\ credit' = credit /\ rtxn' = rtxn /\ wtxn' = req /\ wtxn = None
          /\ req.addr = Address(PushReg) => Len(sent) < FifoDepth
      BY <1>6 DEF Write, StartWrite, fifoVars
    <2>2. Len(sent) \in Nat /\ Len(sent) <= FifoDepth
      <3>1. Len(sent) \in Nat
        BY <1>1, LenProperties DEF FifoTypeOK
      <3> QED
        BY <2>1, <3>1 DEF FifoInv, RoomForWrite, Count
    <2>3. RoomForWrite'
      <3>1. Len(sent') + Count(wtxn' # None /\ wtxn'.addr = Address(PushReg)) <= FifoDepth
        BY <1>1, <1>4, <2>1, <2>2 DEF Count
      <3> QED
        BY <3>1 DEF RoomForWrite
    <2>4. Wanted' = Wanted
      BY <2>1 DEF Wanted
    <2>5. InFlight' = InFlight
      BY <1>4, <2>1 DEF InFlight, Received, r_valid, r_data
    <2>6. FifoTypeOK' /\ AskedFor'
      BY <1>1, <1>4, <1>5, <2>1 DEF FifoInv, FifoTypeOK, AskedFor, ar_valid, r_valid
    <2>7. CopiesCurrent'
      BY <1>1, <1>4, <2>1, <2>4 DEF CopiesCurrent, LevelAtMostFifo, LevelReceived, r_valid, r_data
    <2>8. EntriesConserved' /\ NoUnderflow'
      BY <1>1, <1>4, <1>5, <2>4, <2>5 DEF EntriesConserved, NoUnderflow, Wanted
    <2> QED
      BY <1>3, <2>3, <2>6, <2>7, <2>8 DEF FifoInv
  <1>7. CASE ReadLevel
    <2>1. /\ asked' = "level" /\ credit' = credit /\ credit = 0 /\ r_owed = 0
          /\ rtxn' = Address(LevelReg) /\ rtxn = None /\ wtxn' = wtxn
      BY <1>7 DEF ReadLevel, StartRead
    <2>2. ~rresp_valid_r
      BY <1>1, <2>1 DEF IInv, ReadResponseOwed, Count
    <2>3. Wanted = 0 /\ Wanted' = 0
      BY <2>1, FifoAddresses DEF Wanted, Count
    <2>4. InFlight' = InFlight
      BY <1>4, <2>2 DEF InFlight, Received, r_valid
    <2>5. FifoTypeOK' /\ AskedFor' /\ RoomForWrite'
      BY <1>1, <1>4, <1>5, <2>1, <2>2, FifoAddresses
         DEF FifoInv, FifoTypeOK, AskedFor, RoomForWrite, ar_valid, r_valid
    <2>6. CopiesCurrent'
      BY <1>1, <1>4, <2>1, <2>2, <2>3 DEF CopiesCurrent, LevelAtMostFifo, LevelReceived, r_valid
    <2>7. EntriesConserved' /\ NoUnderflow'
      BY <1>1, <1>4, <1>5, <2>3, <2>4 DEF EntriesConserved, NoUnderflow, Wanted
    <2> QED
      BY <1>3, <2>5, <2>6, <2>7 DEF FifoInv
  <1>8. CASE ReadEntry
    <2>1. /\ asked' = "pop" /\ credit' = credit - 1 /\ credit > 0
          /\ rtxn' = Address(PopReg) /\ rtxn = None /\ wtxn' = wtxn
      BY <1>8 DEF ReadEntry, StartRead
    <2>2. Wanted = credit /\ Wanted' = credit
      BY <1>1, <2>1, FifoAddresses DEF Wanted, Count
    <2>3. ~(rresp_valid_r /\ asked = "level")
      BY <1>1, <2>1 DEF FifoInv, AskedFor, r_valid
    <2>4. InFlight' = InFlight
      <3>1. rresp_valid_r => asked = "pop"
        BY <1>1, <2>3 DEF FifoTypeOK
      <3> QED
        BY <1>4, <2>1, <3>1 DEF InFlight, Received, r_valid, r_data
    <2>5. FifoTypeOK' /\ AskedFor' /\ RoomForWrite'
      BY <1>1, <1>4, <1>5, <2>1, FifoAddresses
         DEF FifoInv, FifoTypeOK, AskedFor, RoomForWrite, ar_valid, r_valid
    <2>6. CopiesCurrent'
      BY <1>1, <1>4, <2>1, <2>2 DEF CopiesCurrent, LevelAtMostFifo, LevelReceived, r_valid
    <2>7. EntriesConserved' /\ NoUnderflow'
      BY <1>1, <1>4, <1>5, <2>2, <2>4 DEF EntriesConserved, NoUnderflow, Wanted
    <2> QED
      BY <1>3, <2>5, <2>6, <2>7 DEF FifoInv
  <1> QED
    BY <1>6, <1>7, <1>8

LEMMA NextFifoInv == FifoInv /\ [FifoNext]_allVars => FifoInv'
  <1> SUFFICES ASSUME FifoInv, [FifoNext]_allVars PROVE FifoInv'
    OBVIOUS
  <1>1. CASE UNCHANGED allVars
    BY <1>1 DEF allVars, vars, fifoVars, cpuif, initiator, FifoInv, IInv, TypeOK, BeatsConsistent,
       NoSpuriousResponse, WriteResponseOwed, ReadResponseOwed, Count, FifoTypeOK, AskedFor,
       CopiesCurrent, LevelAtMostFifo, LevelReceived, Wanted, RoomForWrite, EntriesConserved,
       NoUnderflow, InFlight, Received, Pushed, hwif_out, Port, r_valid, r_data, ar_valid
  <1> QED
    BY <1>1, EdgeFifoInv, SoftwareFifoInv DEF FifoNext

LEMMA FifoInductive == FifoSpec => []FifoInv
  BY InitFifoInv, NextFifoInv, PTL DEF FifoSpec, allVars

(* Every entry software writes comes back to it once and in order: it is   *)
(* in a response, in the FIFO or strobed into it, whatever the order of    *)
(* the handshakes, the depth and the widths.                               *)
THEOREM NoEntryLost == FifoSpec => []EntriesConserved
  <1>1. FifoInv => EntriesConserved
    BY DEF FifoInv
  <1> QED
    BY <1>1, FifoInductive, PTL

(* Software that asks for as many entries as the level it read said there  *)
(* were never pops an empty FIFO, however old that level is.               *)
THEOREM NeverUnderflows == FifoSpec => []NoUnderflow
  <1>1. FifoInv => NoUnderflow
    BY DEF FifoInv
  <1> QED
    BY <1>1, FifoInductive, PTL
=============================================================================
