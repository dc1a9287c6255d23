----------------------- MODULE Axi4LiteRegblock_proofs -----------------------
(***************************************************************************)
(* Safety of the AXI4-Lite register block for every design, every set of   *)
(* requests and every initiator: IInv is inductive, the invariants the     *)
(* runs check on small designs follow from it, and the block refines the   *)
(* register contract.                                                      *)
(***************************************************************************)
EXTENDS Axi4LiteRegblock, FieldLogic_proofs

LEMMA InitIInv == Init => IInv
  <1> SUFFICES ASSUME Init PROVE IInv
    OBVIOUS
  <1> USE DEF Init
  <1>1. TypeOK
    <2>1. cells \in Cells
      BY ResetCellsType
    <2>2. rdata_r \in Word
      BY DEF Word
    <2> QED
      BY <2>1, <2>2 DEF TypeOK, BeatState
  <1>2. BeatsConsistent
    BY DEF BeatsConsistent
  <1>3. NoSpuriousResponse /\ WriteResponseOwed /\ ReadResponseOwed
    BY DEF NoSpuriousResponse, WriteResponseOwed, ReadResponseOwed, Count
  <1> QED
    BY <1>1, <1>2, <1>3 DEF IInv

LEMMA CountIs ==
  ASSUME NEW b \in BOOLEAN
  PROVE  (Count(b) = 0 /\ ~b) \/ (Count(b) = 1 /\ b)
  BY DEF Count

(* What the clock edge does to the response latches and to the counts of   *)
(* the responses the initiator waits for.                                  *)
LEMMA EdgeCounts ==
  ASSUME IInv, NEW b_ready \in BOOLEAN, NEW r_ready \in BOOLEAN, ClockEdge(b_ready, r_ready)
  PROVE  /\ b_owed' \in Nat /\ r_owed' \in Nat
         /\ NoSpuriousResponse' /\ WriteResponseOwed' /\ ReadResponseOwed'
  <1> USE DEF IInv, TypeOK
  <1>1. /\ bresp_valid_r' = (wr_fire \/ (bresp_valid_r /\ ~b_ready))
        /\ rresp_valid_r' = (rd_fire \/ (rresp_valid_r /\ ~r_ready))
        /\ b_owed' = b_owed + Count(WriteBeatsOver) - Count(bresp_valid_r /\ b_ready)
        /\ r_owed' = r_owed + Count(rd_fire) - Count(rresp_valid_r /\ r_ready)
    BY DEF ClockEdge, HandshakeSeq, InitiatorWrite, InitiatorRead, b_valid, r_valid,
           rd_fire, ar_valid, ar_ready
  <1>2. wr_fire => WriteBeatsOver /\ ~bresp_valid_r
    BY DEF wr_fire, WriteBeatsOver, BeatsConsistent, Beat, aw_valid, w_valid, aw_ready, w_ready
  <1>3. JointWrites /\ WriteBeatsOver => wr_fire
    BY DEF wr_fire, WriteBeatsOver, BeatsConsistent, Beat, aw_valid, w_valid, aw_ready, w_ready
  <1>4. rd_fire => ~rresp_valid_r
    BY DEF rd_fire
  <1> DEFINE over  == Count(WriteBeatsOver)
             took  == Count(bresp_valid_r /\ b_ready)
             rtook == Count(rresp_valid_r /\ r_ready)
  <1>5. /\ WriteBeatsOver \in BOOLEAN /\ wr_fire \in BOOLEAN /\ rd_fire \in BOOLEAN
        /\ bresp_valid_r' \in BOOLEAN /\ rresp_valid_r' \in BOOLEAN
    BY <1>1 DEF WriteBeatsOver, wr_fire, rd_fire
  <1>6. /\ (over = 0 /\ ~WriteBeatsOver) \/ (over = 1 /\ WriteBeatsOver)
        /\ (took = 0 /\ ~(bresp_valid_r /\ b_ready)) \/ (took = 1 /\ bresp_valid_r /\ b_ready)
        /\ (rtook = 0 /\ ~(rresp_valid_r /\ r_ready)) \/ (rtook = 1 /\ rresp_valid_r /\ r_ready)
    BY <1>5, CountIs
  <1>7. /\ b_owed' = b_owed + over - took
        /\ bresp_valid_r' <=> (wr_fire \/ (bresp_valid_r /\ ~b_ready))
        /\ rresp_valid_r' <=> (rd_fire \/ (rresp_valid_r /\ ~r_ready))
    BY <1>1
  <1> HIDE DEF over, took
  <1>8. b_owed' \in Nat /\ NoSpuriousResponse'
    <2>1. bresp_valid_r => b_owed >= 1
      BY DEF NoSpuriousResponse
    <2>2. b_owed \in Nat
      OBVIOUS
    <2>3. b_owed' \in Nat
      BY <1>6, <1>7, <2>1, <2>2
    <2>4. bresp_valid_r' => b_owed' >= 1
      BY <1>2, <1>5, <1>6, <1>7, <2>1, <2>2
    <2> QED
      BY <2>3, <2>4 DEF NoSpuriousResponse
  <1>9. WriteResponseOwed'
    <2> SUFFICES ASSUME JointWrites PROVE b_owed' = Count(bresp_valid_r')
      BY DEF WriteResponseOwed, Count
    <2>1. (b_owed = 0 /\ ~bresp_valid_r) \/ (b_owed = 1 /\ bresp_valid_r)
      BY CountIs DEF WriteResponseOwed
    <2>2. CASE bresp_valid_r'
      <3>1. b_owed' = 1
        BY <1>2, <1>3, <1>5, <1>6, <1>7, <2>1, <2>2
      <3> QED
        BY <3>1, <2>2, <1>5, CountIs
    <2>3. CASE ~bresp_valid_r'
      <3>1. b_owed' = 0
        BY <1>2, <1>3, <1>5, <1>6, <1>7, <2>1, <2>3
      <3> QED
        BY <3>1, <2>3, <1>5, CountIs
    <2> QED
      BY <2>2, <2>3
  <1>10. r_owed' \in Nat /\ ReadResponseOwed'
    <2> DEFINE asked == Count(rd_fire)
    <2>1. (r_owed = 0 /\ ~rresp_valid_r) \/ (r_owed = 1 /\ rresp_valid_r)
      BY CountIs DEF ReadResponseOwed
    <2>2. (asked = 0 /\ ~rd_fire) \/ (asked = 1 /\ rd_fire)
      BY <1>5, CountIs
    <2>3. r_owed' = r_owed + asked - rtook
      BY <1>1
    <2> HIDE DEF asked, rtook
    <2>4. (r_owed' = 0 /\ ~rresp_valid_r') \/ (r_owed' = 1 /\ rresp_valid_r')
      BY <1>4, <1>5, <1>6, <1>7, <2>1, <2>2, <2>3
    <2>5. r_owed' = Count(rresp_valid_r')
      BY <2>4, <1>5, CountIs
    <2> QED
      BY <2>4, <2>5 DEF ReadResponseOwed, Count
  <1> QED
    BY <1>8, <1>9, <1>10

(* The edge keeps the invariant, whatever hardware drives after it.        *)
LEMMA EdgeIInv ==
  ASSUME IInv, NEW b_ready \in BOOLEAN, NEW r_ready \in BOOLEAN, ClockEdge(b_ready, r_ready),
         hwif_in' \in HwifIn
  PROVE  IInv'
  <1> USE DEF IInv, ClockEdge
  <1>1. cells' \in Cells
    <2>1. PICK hw_last : cells' = SeqNext(cells, hwif_in, FiringWrite, FiringRead, hw_last)
      BY DEF StorageSeq
    <2>2. cells \in Cells /\ hwif_in \in HwifIn
      BY DEF TypeOK
    <2> QED
      BY <2>1, <2>2, SeqNextType
  <1>2. rdata_r' \in Word
    BY ReadMuxType DEF ReadbackLatch, TypeOK
  <1>3. bresp_valid_r' \in BOOLEAN /\ rresp_valid_r' \in BOOLEAN
    BY DEF HandshakeSeq
  <1>4. /\ wtxn' \in Writes \cup {None}
        /\ aw' \in BeatState /\ w' \in BeatState
        /\ BeatsConsistent'
    BY DEF InitiatorWrite, WriteBeatsOver, Beat, BeatState, BeatsConsistent, TypeOK,
           aw_ready, w_ready
  <1>5. rtxn' \in Reads \cup {None}
    BY DEF InitiatorRead, TypeOK
  <1> QED
    BY <1>1, <1>2, <1>3, <1>4, <1>5, EdgeCounts DEF TypeOK

(* Every step keeps the inductive invariant.                               *)
LEMMA NextIInv == IInv /\ [Next]_vars => IInv'
  <1> SUFFICES ASSUME IInv, [Next]_vars PROVE IInv'
    OBVIOUS
  <1> USE DEF IInv, TypeOK, BeatsConsistent, NoSpuriousResponse, WriteResponseOwed,
              ReadResponseOwed, cpuif, initiator
  <1>1. ASSUME NEW req \in Writes, StartWrite(req) PROVE IInv'
    <2>1. req # None
      BY AxiAssumption
    <2> QED
      BY <1>1, <2>1 DEF StartWrite, BeatState, Count
  <1>2. CASE RaiseAw
    BY <1>2 DEF RaiseAw, BeatState, Count
  <1>3. CASE RaiseW
    BY <1>3 DEF RaiseW, BeatState, Count
  <1>4. ASSUME NEW a \in Reads, StartRead(a) PROVE IInv'
    BY <1>4 DEF StartRead, Count
  <1>5. ASSUME NEW hw \in HwifIn, DriveHwif(hw) PROVE IInv'
    BY <1>5 DEF DriveHwif, Count
  <1>6. ASSUME NEW b_ready \in BOOLEAN, NEW r_ready \in BOOLEAN, Tick(b_ready, r_ready)
        PROVE  IInv'
    <2>1. hwif_in' \in HwifIn
      BY <1>6 DEF Tick
    <2> QED
      BY <1>6, <2>1, EdgeIInv DEF Tick
  <1>7. CASE Reset
    <2>1. ResetCells \in Cells /\ {} \in Word
      BY ResetCellsType DEF Word
    <2> QED
      BY <1>7, <2>1 DEF Reset, BeatState, Count
  <1>8. CASE UNCHANGED vars
    BY <1>8 DEF vars, Count
  <1> QED
    BY <1>1, <1>2, <1>3, <1>4, <1>5, <1>6, <1>7, <1>8 DEF Next

THEOREM Inductive == Spec => []IInv
  BY InitIInv, NextIInv, PTL DEF Spec

(* Every variable keeps its type, in every execution of every design.      *)
THEOREM TypeCorrect == Spec => []TypeOK
  <1>1. IInv => TypeOK
    BY DEF IInv
  <1> QED
    BY <1>1, Inductive, PTL

(* No response is ever offered that the initiator does not wait for, be    *)
(* its AW and W beats joint or split.                                      *)
THEOREM ResponsesExpected == Spec => []NoSpuriousResponse
  <1>1. IInv => NoSpuriousResponse
    BY DEF IInv
  <1> QED
    BY <1>1, Inductive, PTL

(* Reads: the initiator waits exactly while the block holds a response.    *)
THEOREM ReadsAccounted == Spec => []ReadResponseOwed
  <1>1. IInv => ReadResponseOwed
    BY DEF IInv
  <1> QED
    BY <1>1, Inductive, PTL

(* Writes: the same, for initiators that raise AW and W together.          *)
THEOREM WritesAccounted == Spec => []WriteResponseOwed
  <1>1. IInv => WriteResponseOwed
    BY DEF IInv
  <1> QED
    BY <1>1, Inductive, PTL

(* A write that fires is over for the initiator at the same edge, so that  *)
(* no later edge can apply it again, be its beats joint or split.          *)
THEOREM NeverAppliedTwice == Spec => []AppliedOnce
  <1>1. IInv => AppliedOnce
    BY DEF IInv, TypeOK, BeatsConsistent, AppliedOnce, wr_fire, WriteBeatsOver, Beat,
           aw_valid, w_valid, aw_ready, w_ready
  <1> QED
    BY <1>1, Inductive, PTL

-----------------------------------------------------------------------------
(* An access that hits a cell at the edge is one the initiator sees        *)
(* complete at this edge, its address and data those on the bus.           *)
LEMMA HitsComplete ==
  ASSUME IInv, NEW b_ready \in BOOLEAN, NEW r_ready \in BOOLEAN, Tick(b_ready, r_ready),
         NEW c
  PROVE  /\ ReadSideHits(c, FiringRead) => ReadCompletes(c)
         /\ WriteHits(c, FiringWrite) => WriteCompletes(c) /\ FiringWrite = wtxn
  <1>1. ReadSideHits(c, FiringRead) => ReadCompletes(c)
    BY DEF ReadSideHits, FiringRead, ReadCompletes, Tick, ClockEdge, InitiatorRead,
           rd_fire, ar_valid, ar_ready
  <1>2. WriteHits(c, FiringWrite) => WriteCompletes(c) /\ FiringWrite = wtxn
    BY DEF WriteHits, FiringWrite, WriteCompletes, Tick, ClockEdge, InitiatorWrite,
           WriteBeatsOver, Beat, wr_fire, aw_valid, w_valid, aw_ready, w_ready
  <1> QED
    BY <1>1, <1>2

(* At the clock edge a sticky cell loses a bit only to an access that      *)
(* acknowledges it.                                                        *)
LEMMA TickStickyHeld ==
  ASSUME IInv, NEW b_ready \in BOOLEAN, NEW r_ready \in BOOLEAN, Tick(b_ready, r_ready),
         NEW c \in StickyCell, NEW b \in cells[c] \ cells'[c]
  PROVE  Acknowledges(c, b)
  <1>1. PICK hw_last : cells' = SeqNext(cells, hwif_in, FiringWrite, FiringRead, hw_last)
    BY DEF Tick, ClockEdge, StorageSeq
  <1>2. \/ ReadSideHits(c, FiringRead) /\ FieldOf(c).onread = "rclr"
        \/ /\ WriteHits(c, FiringWrite)
           /\ FieldOf(c).onwrite = "woclr" => b + FieldOf(c).lsb \in FiringWrite.data
    BY <1>1, StickyEdge DEF IInv, TypeOK
  <1> QED
    BY <1>2, HitsComplete DEF Acknowledges

(* A latched interrupt bit is lost only to reset or to a completed access  *)
(* that acknowledges it, in every design and under every initiator.        *)
THEOREM StickyHeld == Spec => StickyBitsHeld
  <1> DEFINE Held == \A c \in StickyCell : \A b \in cells[c] \ cells'[c] :
                       Reset \/ Acknowledges(c, b)
  <1>1. IInv /\ [Next]_vars => [Held]_vars
    <2> SUFFICES ASSUME IInv, Next, NEW c \in StickyCell, NEW b \in cells[c] \ cells'[c]
                 PROVE  Reset \/ Acknowledges(c, b)
      OBVIOUS
    <2>1. CASE cells' = cells
      BY <2>1
    <2>2. ASSUME NEW b_ready \in BOOLEAN, NEW r_ready \in BOOLEAN, Tick(b_ready, r_ready)
          PROVE  Acknowledges(c, b)
      BY <2>2, TickStickyHeld
    <2>3. Reset \/ cells' = cells \/ \E b_ready, r_ready \in BOOLEAN : Tick(b_ready, r_ready)
      BY DEF Next, StartWrite, RaiseAw, RaiseW, StartRead, DriveHwif
    <2> QED
      BY <2>1, <2>2, <2>3
  <1> QED
    BY <1>1, Inductive, PTL DEF Spec, StickyBitsHeld

(* At the clock edge a pulse on a sticky source is latched, unless an      *)
(* access that completes assigns the field.                                *)
LEMMA TickPulseLatched ==
  ASSUME IInv, NEW b_ready \in BOOLEAN, NEW r_ready \in BOOLEAN, Tick(b_ready, r_ready),
         NEW c \in StickyCell
  PROVE  hwif_in[c] \subseteq cells'[c] \/ Assigned(c)
  <1>1. PICK hw_last : cells' = SeqNext(cells, hwif_in, FiringWrite, FiringRead, hw_last)
    BY DEF Tick, ClockEdge, StorageSeq
  <1> QED
    BY <1>1, PulseEdge, HitsComplete DEF Assigned, ReadSideHits, WriteHits

(* A one-cycle pulse on a sticky source is in the register after the edge, *)
(* unless a CPU access that completes at the same edge assigns the field.  *)
THEOREM PulsesLatched == Spec => PulseLatched
  <1> DEFINE Latched == (\E b, r \in BOOLEAN : Tick(b, r)) =>
                          \A c \in StickyCell : hwif_in[c] \subseteq cells'[c] \/ Assigned(c)
  <1>1. IInv /\ [Next]_vars => [Latched]_vars
    BY TickPulseLatched
  <1> QED
    BY <1>1, Inductive, PTL DEF Spec, PulseLatched

-----------------------------------------------------------------------------
(* At the clock edge the interrupt output falls only as IntrHeld allows.   *)
LEMMA TickIntrHeld ==
  ASSUME IInv, NEW b_ready \in BOOLEAN, NEW r_ready \in BOOLEAN, Tick(b_ready, r_ready),
         NEW r \in Reg, RegIntr(cells, r), ~RegIntr(cells', r)
  PROVE  \E c \in IntrCell(r) : WriteCompletes(c) \/ ReadCompletes(c) \/ HwMayDrop(c)
  <1> SUFFICES ASSUME \A c \in IntrCell(r) :
                        ~WriteCompletes(c) /\ ~ReadCompletes(c) /\ ~HwMayDrop(c)
               PROVE  RegIntr(cells', r)
    OBVIOUS
  <1>1. PICK hw_last : cells' = SeqNext(cells, hwif_in, FiringWrite, FiringRead, hw_last)
    BY DEF Tick, ClockEdge, StorageSeq
  <1>2. ASSUME NEW c \in IntrCell(r)
        PROVE  cells[c] \subseteq cells'[c] /\ (c \notin HwCell => cells'[c] = cells[c])
    <2>1. c \in Cell
      BY DEF IntrCell
    <2> QED
      BY <1>1, <2>1, KeptEdge, HitsComplete
  <1> QED
    BY <1>2, IntrStays

(* The interrupt output falls only by reset, by a completed access to the  *)
(* register or a companion, or where hardware may itself take it back.     *)
THEOREM IntrOutputHeld == Spec => IntrHeld
  <1> DEFINE Held == \A r \in Reg :
               (RegIntr(cells, r) /\ ~RegIntr(cells', r)) =>
                  \/ Reset
                  \/ \E c \in IntrCell(r) : WriteCompletes(c) \/ ReadCompletes(c) \/ HwMayDrop(c)
  <1>1. IInv /\ [Next]_vars => [Held]_vars
    <2> SUFFICES ASSUME IInv, Next, NEW r \in Reg, RegIntr(cells, r), ~RegIntr(cells', r), ~Reset
                 PROVE  \E c \in IntrCell(r) :
                           WriteCompletes(c) \/ ReadCompletes(c) \/ HwMayDrop(c)
      OBVIOUS
    <2>1. cells' # cells
      OBVIOUS
    <2>2. PICK b_ready \in BOOLEAN, r_ready \in BOOLEAN : Tick(b_ready, r_ready)
      BY <2>1 DEF Next, StartWrite, RaiseAw, RaiseW, StartRead, DriveHwif
    <2> QED
      BY <2>2, TickIntrHeld
  <1> QED
    BY <1>1, Inductive, PTL DEF Spec, IntrHeld

-----------------------------------------------------------------------------
(* The block implements RegisterContract when the initiator raises AW and  *)
(* W together and the readback is latched: each initial state maps to an   *)
(* initial state, and each step to a step of the contract or to a stutter. *)

(* The contract speaks of the same design: its copies of the operators of  *)
(* RegDesign and FieldLogic are those of this module.                      *)
LEMMA SameCells ==
  /\ Contract!Cell = Cell
  /\ Contract!HwifIn = HwifIn
  /\ Contract!ResetCells = ResetCells
  <1>1. Contract!Cell = Cell
    BY DEF Contract!Cell, Cell, Contract!Field, Field, Contract!Elements, Elements,
           Contract!IsArray, IsArray
  <1>2. \A c : Contract!FieldOf(c) = FieldOf(c) /\ Contract!Bits(c) = Bits(c)
    BY DEF Contract!FieldOf, FieldOf, Contract!Bits, Bits, Contract!Ones, Ones
  <1>3. Contract!HwCell = HwCell
    BY <1>1, <1>2 DEF Contract!HwCell, HwCell
  <1>4. Contract!HwifIn = HwifIn
    BY <1>2, <1>3 DEF Contract!HwifIn, HwifIn, Contract!Word, Word
  <1>5. Contract!ResetCells = ResetCells
    BY <1>1, <1>2 DEF Contract!ResetCells, ResetCells
  <1> QED
    BY <1>1, <1>4, <1>5

LEMMA SameAccess ==
  ASSUME NEW c, NEW req
  PROVE  /\ Contract!CellAddress(c) = CellAddress(c)
         /\ Contract!FieldOf(c) = FieldOf(c)
         /\ Contract!TwoBlocks(c) = TwoBlocks(c)
         /\ Contract!WriteHits(c, req) = WriteHits(c, req)
         /\ Contract!ReadSideHits(c, req) = ReadSideHits(c, req)
  <1>1. Contract!FieldOf(c) = FieldOf(c)
    BY DEF Contract!FieldOf, FieldOf
  <1>2. Contract!CellAddress(c) = CellAddress(c)
    BY <1>1 DEF Contract!CellAddress, CellAddress, Contract!ElementAddress, ElementAddress,
                Contract!IsArray, IsArray
  <1>3. Contract!TwoBlocks(c) = TwoBlocks(c)
    BY <1>1 DEF Contract!TwoBlocks, TwoBlocks, Contract!IsArray, IsArray
  <1>4. Contract!WriteHits(c, req) = WriteHits(c, req)
    BY <1>1, <1>2 DEF Contract!WriteHits, WriteHits
  <1>5. Contract!ReadSideHits(c, req) = ReadSideHits(c, req)
    BY <1>1, <1>2 DEF Contract!ReadSideHits, ReadSideHits
  <1> QED
    BY <1>1, <1>2, <1>3, <1>4, <1>5

LEMMA SameEffect ==
  ASSUME NEW f, NEW v, NEW d
  PROVE  /\ Contract!FieldWrite(f, v, d) = FieldWrite(f, v, d)
         /\ Contract!FieldReadSide(f) = FieldReadSide(f)
         /\ Contract!FieldHwifIn(f, v, d) = FieldHwifIn(f, v, d)
  BY DEF Contract!FieldWrite, FieldWrite, Contract!WdataSlice, WdataSlice, Contract!Ones, Ones,
         Contract!SymDiff, SymDiff, Contract!FieldReadSide, FieldReadSide,
         Contract!FieldHwifIn, FieldHwifIn, Contract!IsSticky, IsSticky

LEMMA SameReadMux ==
  ASSUME NEW st, NEW a
  PROVE  Contract!ReadMux(st, a) = ReadMux(st, a)
  <1>1. \A c : /\ Contract!CellAddress(c) = CellAddress(c)
               /\ Contract!FieldOf(c) = FieldOf(c)
    BY SameAccess
  <1> QED
    BY <1>1, SameCells DEF Contract!ReadMux, ReadMux

LEMMA RefinesInit == Init => Contract!Init
  <1> SUFFICES ASSUME Init PROVE Contract!Init
    OBVIOUS
  <1>1. cells = Contract!ResetCells /\ hwif_in \in Contract!HwifIn
    BY SameCells DEF Init
  <1>2. ~(b_owed > 0) /\ ~(r_owed > 0)
    BY DEF Init
  <1>3. wtxn = None /\ rtxn = None /\ r_data = {}
    BY DEF Init, r_data
  <1> QED
    BY <1>1, <1>2, <1>3 DEF Contract!Init

(* A cell's value after an edge is one the contract allows it.             *)
LEMMA OutcomeAllowed ==
  ASSUME NEW c \in Cell, NEW wr, NEW rd, NEW hw_last \in BOOLEAN
  PROVE  CellNext(c, cells[c], hwif_in, wr, rd, hw_last) \in Contract!Outcomes(c, wr, rd)
  <1> DEFINE f == c[1]
             v == cells[c]
             byWrite == IF WriteHits(c, wr) THEN {FieldWrite(f, v, wr.data)} ELSE {}
             byRead  == IF ReadSideHits(c, rd) THEN {FieldReadSide(f)} ELSE {}
             byHw    == IF FieldOf(c).hw_writable THEN {FieldHwifIn(f, v, hwif_in[c])} ELSE {}
             bySw    == byWrite \cup byRead
  <1>1. Contract!Outcomes(c, wr, rd) =
          CASE bySw = {} /\ byHw = {}     -> {v}
            [] bySw # {} /\ ~TwoBlocks(c) -> bySw
            [] OTHER                      -> bySw \cup byHw
    BY SameAccess, SameEffect DEF Contract!Outcomes
  <1>2. CASE bySw = {}
    <2>1. ~WriteHits(c, wr) /\ ~ReadSideHits(c, rd)
      BY <1>2
    <2> QED
      BY <1>1, <1>2, <2>1 DEF CellNext
  <1>3. CASE bySw # {} /\ ~TwoBlocks(c)
    BY <1>1, <1>3 DEF CellNext
  <1>4. CASE bySw # {} /\ TwoBlocks(c)
    BY <1>1, <1>4 DEF CellNext, TwoBlocks
  <1> QED
    BY <1>2, <1>3, <1>4

(* The steps of the initiator and of hardware between two edges.           *)
LEMMA RefinesBetween ==
  ASSUME IInv,
         \/ \E req \in Writes : StartWrite(req)
         \/ RaiseAw \/ RaiseW
         \/ \E a \in Reads : StartRead(a)
         \/ \E hw \in HwifIn : DriveHwif(hw)
  PROVE  Contract!AskWrite \/ Contract!AskRead \/ Contract!DriveHw \/ UNCHANGED Contract!vars
  <1> USE DEF cpuif, initiator, r_data
  <1>1. ASSUME NEW req \in Writes, StartWrite(req) PROVE Contract!AskWrite
    BY <1>1 DEF StartWrite, Contract!AskWrite
  <1>2. ASSUME RaiseAw \/ RaiseW PROVE UNCHANGED Contract!vars
    BY <1>2 DEF RaiseAw, RaiseW, Contract!vars
  <1>3. ASSUME NEW a \in Reads, StartRead(a) PROVE Contract!AskRead
    BY <1>3 DEF StartRead, Contract!AskRead
  <1>4. ASSUME NEW hw \in HwifIn, DriveHwif(hw) PROVE Contract!DriveHw
    BY <1>4, SameCells DEF DriveHwif, Contract!DriveHw
  <1> QED
    BY <1>1, <1>2, <1>3, <1>4

LEMMA RefinesReset == Reset => Contract!Reset
  <1> SUFFICES ASSUME Reset PROVE Contract!Reset
    OBVIOUS
  <1>1. cells' = Contract!ResetCells
    BY SameCells DEF Reset
  <1>2. ~(b_owed' > 0) /\ ~(r_owed' > 0)
    BY DEF Reset
  <1> QED
    BY <1>1, <1>2 DEF Reset, Contract!Reset, r_data

(* The clock edge performs the requests that fire.                         *)
LEMMA RefinesTick ==
  ASSUME JointWrites, ~CombinationalReadback, IInv, IInv',
         NEW b_ready \in BOOLEAN, NEW r_ready \in BOOLEAN, Tick(b_ready, r_ready)
  PROVE  Contract!Edge(FiringWrite, FiringRead)
  <1> DEFINE wr == FiringWrite
             rd == FiringRead
  <1>1. /\ \A c \in Contract!Cell : cells'[c] \in Contract!Outcomes(c, wr, rd)
        /\ DOMAIN cells' = Contract!Cell
    <2>1. PICK hw_last : cells' = SeqNext(cells, hwif_in, wr, rd, hw_last)
      BY DEF Tick, ClockEdge, StorageSeq
    <2>2. DOMAIN cells' = Cell
      BY <2>1 DEF SeqNext
    <2>3. ASSUME NEW c \in Cell PROVE cells'[c] \in Contract!Outcomes(c, wr, rd)
      <3>1. cells'[c] = CellNext(c, cells[c], hwif_in, wr, rd, <<FieldOf(c).reg, c[2]>> \in hw_last)
        BY <2>1 DEF SeqNext
      <3>2. (<<FieldOf(c).reg, c[2]>> \in hw_last) \in BOOLEAN
        OBVIOUS
      <3> QED
        BY <3>1, <3>2, OutcomeAllowed
    <2> QED
      BY <2>2, <2>3, SameCells
  <1>2. /\ wr # None <=> wr_fire
        /\ rd # None <=> rd_fire
        /\ wr_fire => wr = wtxn
        /\ rd_fire => rd = rtxn
    BY DEF FiringWrite, FiringRead, wr_fire, rd_fire, ar_valid, aw_valid, IInv, BeatsConsistent
  <1>3. wr_fire <=> WriteBeatsOver
    BY DEF wr_fire, WriteBeatsOver, IInv, BeatsConsistent, Beat, aw_valid, w_valid,
           aw_ready, w_ready
  <1>4. /\ wtxn' = IF wr = None THEN wtxn ELSE None
        /\ rtxn' = IF rd = None THEN rtxn ELSE None
    BY <1>2, <1>3 DEF Tick, ClockEdge, InitiatorWrite, InitiatorRead, rd_fire, ar_valid, ar_ready
  <1>5. /\ (b_owed > 0) <=> bresp_valid_r
        /\ (r_owed > 0) <=> rresp_valid_r
        /\ (b_owed' > 0) <=> bresp_valid_r'
        /\ (r_owed' > 0) <=> rresp_valid_r'
    BY CountIs DEF IInv, TypeOK, WriteResponseOwed, ReadResponseOwed, Count
  <1>6. /\ bresp_valid_r' <=> (wr_fire \/ (bresp_valid_r /\ ~b_ready))
        /\ rresp_valid_r' <=> (rd_fire \/ (rresp_valid_r /\ ~r_ready))
    BY DEF Tick, ClockEdge, HandshakeSeq, IInv, TypeOK, wr_fire, rd_fire
  <1>7. /\ (b_owed' > 0) \in BOOLEAN /\ (r_owed' > 0) \in BOOLEAN
        /\ wr # None => ~(b_owed > 0)
        /\ rd # None => ~(r_owed > 0)
        /\ wr = None => ((b_owed' > 0) => (b_owed > 0))
        /\ rd = None => ((r_owed' > 0) => (r_owed > 0))
    BY <1>2, <1>5, <1>6 DEF wr_fire, rd_fire
  <1>8. /\ rd # None => r_data' = Contract!ReadMux(cells, rd)
        /\ rd = None => r_data' = r_data
    BY <1>2, SameReadMux DEF Tick, ClockEdge, ReadbackLatch, r_data
  <1>9. hwif_in' = hwif_in
    BY DEF Tick, ClockEdge
  <1> QED
    BY <1>1, <1>4, <1>7, <1>8, <1>9 DEF Contract!Edge

LEMMA RefinesNext ==
  ASSUME JointWrites, ~CombinationalReadback
  PROVE  IInv /\ IInv' /\ [Next]_vars => [Contract!Next]_(Contract!vars)
  <1> SUFFICES ASSUME IInv, IInv', [Next]_vars PROVE [Contract!Next]_(Contract!vars)
    OBVIOUS
  <1>1. CASE UNCHANGED vars
    BY <1>1 DEF vars, cpuif, initiator, Contract!vars, r_data
  <1>2. CASE Reset
    BY <1>2, RefinesReset DEF Contract!Next
  <1>3. ASSUME NEW b_ready \in BOOLEAN, NEW r_ready \in BOOLEAN, Tick(b_ready, r_ready)
        PROVE  Contract!Serve
    <2>1. Contract!Edge(FiringWrite, FiringRead)
      BY <1>3, RefinesTick
    <2>2. FiringWrite \in {wtxn, None} /\ FiringRead \in {rtxn, None}
      BY DEF FiringWrite, FiringRead
    <2> QED
      BY <2>1, <2>2 DEF Contract!Serve
  <1>4. \/ UNCHANGED vars \/ Reset
        \/ \E b_ready, r_ready \in BOOLEAN : Tick(b_ready, r_ready)
        \/ \E req \in Writes : StartWrite(req)
        \/ RaiseAw \/ RaiseW
        \/ \E a \in Reads : StartRead(a)
        \/ \E hw \in HwifIn : DriveHwif(hw)
    BY DEF Next
  <1> QED
    BY <1>1, <1>2, <1>3, <1>4, RefinesBetween DEF Contract!Next

(* The AXI4-Lite block keeps the register contract in every design: exact  *)
(* single accesses, for an initiator that raises AW and W together and     *)
(* with the latched readback.                                              *)
THEOREM ImplementsContract ==
  ASSUME JointWrites, ~CombinationalReadback
  PROVE  Spec => RefinesContract
  <1>1. Init => Contract!Init
    BY RefinesInit
  <1>2. IInv /\ IInv' /\ [Next]_vars => [Contract!Next]_(Contract!vars)
    BY RefinesNext
  <1> QED
    BY <1>1, <1>2, Inductive, PTL DEF Spec, RefinesContract, Contract!Spec
=============================================================================
