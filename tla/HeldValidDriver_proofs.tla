------------------------ MODULE HeldValidDriver_proofs ------------------------
(***************************************************************************)
(* The cocotb driver on the AXI4-Lite block, for every design, every set   *)
(* of requests and every timeout: no call times out, and every call is one *)
(* access of the register contract.                                        *)
(***************************************************************************)
EXTENDS HeldValidDriver, FieldLogic_proofs

(* The block and the contract speak of the same design: their copies of    *)
(* the operators of RegDesign and FieldLogic are those of this module.     *)
LEMMA SameDesign ==
  /\ Contract!Cell = Cell /\ Block!Cell = Cell
  /\ Contract!HwifIn = HwifIn
  /\ Contract!ResetCells = ResetCells
  <1>1. Contract!Cell = Cell /\ Block!Cell = Cell
    BY DEF Contract!Cell, Block!Cell, Cell, Contract!Field, Block!Field, Field,
           Contract!Elements, Block!Elements, Elements, Contract!IsArray, Block!IsArray, IsArray
  <1>2. \A c : Contract!FieldOf(c) = FieldOf(c) /\ Contract!Bits(c) = Bits(c)
    BY DEF Contract!FieldOf, FieldOf, Contract!Bits, Bits, Contract!Ones, Ones
  <1>3. Contract!HwCell = HwCell
    BY <1>1, <1>2 DEF Contract!HwCell, HwCell
  <1>4. Contract!HwifIn = HwifIn
    BY <1>2, <1>3 DEF Contract!HwifIn, HwifIn, Contract!Word, Word
  <1>5. Contract!ResetCells = ResetCells
    BY <1>1, <1>2 DEF Contract!ResetCells, ResetCells
  <1> QED
    BY <1>1, <1>4, <1>5

LEMMA SameAccess ==
  ASSUME NEW c, NEW req
  PROVE  /\ Contract!FieldOf(c) = FieldOf(c)           /\ Block!FieldOf(c) = FieldOf(c)
         /\ Contract!CellAddress(c) = CellAddress(c)   /\ Block!CellAddress(c) = CellAddress(c)
         /\ Contract!TwoBlocks(c) = TwoBlocks(c)       /\ Block!TwoBlocks(c) = TwoBlocks(c)
         /\ Contract!WriteHits(c, req) = WriteHits(c, req)
         /\ Block!WriteHits(c, req) = WriteHits(c, req)
         /\ Contract!ReadSideHits(c, req) = ReadSideHits(c, req)
         /\ Block!ReadSideHits(c, req) = ReadSideHits(c, req)
  <1>1. Contract!FieldOf(c) = FieldOf(c) /\ Block!FieldOf(c) = FieldOf(c)
    BY DEF Contract!FieldOf, Block!FieldOf, FieldOf
  <1>2. Contract!CellAddress(c) = CellAddress(c) /\ Block!CellAddress(c) = CellAddress(c)
    BY <1>1 DEF Contract!CellAddress, Block!CellAddress, CellAddress,
                Contract!ElementAddress, Block!ElementAddress, ElementAddress,
                Contract!IsArray, Block!IsArray, IsArray
  <1>3. Contract!TwoBlocks(c) = TwoBlocks(c) /\ Block!TwoBlocks(c) = TwoBlocks(c)
    BY <1>1 DEF Contract!TwoBlocks, Block!TwoBlocks, TwoBlocks,
                Contract!IsArray, Block!IsArray, IsArray
  <1>4. /\ Contract!WriteHits(c, req) = WriteHits(c, req)
        /\ Block!WriteHits(c, req) = WriteHits(c, req)
    BY <1>1, <1>2 DEF Contract!WriteHits, Block!WriteHits, WriteHits
  <1>5. /\ Contract!ReadSideHits(c, req) = ReadSideHits(c, req)
        /\ Block!ReadSideHits(c, req) = ReadSideHits(c, req)
    BY <1>1, <1>2 DEF Contract!ReadSideHits, Block!ReadSideHits, ReadSideHits
  <1> QED
    BY <1>1, <1>2, <1>3, <1>4, <1>5

LEMMA SameEffect ==
  ASSUME NEW f, NEW v, NEW d
  PROVE  /\ Contract!FieldWrite(f, v, d) = FieldWrite(f, v, d)
         /\ Block!FieldWrite(f, v, d) = FieldWrite(f, v, d)
         /\ Contract!FieldReadSide(f) = FieldReadSide(f)
         /\ Block!FieldReadSide(f) = FieldReadSide(f)
         /\ Contract!FieldHwifIn(f, v, d) = FieldHwifIn(f, v, d)
         /\ Block!FieldHwifIn(f, v, d) = FieldHwifIn(f, v, d)
  <1>1. /\ Contract!Ones(f) = Ones(f) /\ Block!Ones(f) = Ones(f)
        /\ Contract!WdataSlice(f, d) = WdataSlice(f, d)
        /\ Block!WdataSlice(f, d) = WdataSlice(f, d)
    BY DEF Contract!WdataSlice, Block!WdataSlice, WdataSlice, Contract!Ones, Block!Ones, Ones
  <1>2. \A a, b : Contract!SymDiff(a, b) = SymDiff(a, b) /\ Block!SymDiff(a, b) = SymDiff(a, b)
    BY DEF Contract!SymDiff, Block!SymDiff, SymDiff
  <1>3. /\ Contract!FieldWrite(f, v, d) = FieldWrite(f, v, d)
        /\ Block!FieldWrite(f, v, d) = FieldWrite(f, v, d)
    BY <1>1, <1>2 DEF Contract!FieldWrite, Block!FieldWrite, FieldWrite
  <1>4. /\ Contract!FieldReadSide(f) = FieldReadSide(f)
        /\ Block!FieldReadSide(f) = FieldReadSide(f)
    BY <1>1 DEF Contract!FieldReadSide, Block!FieldReadSide, FieldReadSide
  <1>5. /\ Contract!FieldHwifIn(f, v, d) = FieldHwifIn(f, v, d)
        /\ Block!FieldHwifIn(f, v, d) = FieldHwifIn(f, v, d)
    BY DEF Contract!FieldHwifIn, Block!FieldHwifIn, FieldHwifIn,
           Contract!IsSticky, Block!IsSticky, IsSticky
  <1> QED
    BY <1>3, <1>4, <1>5

LEMMA SameStorage ==
  ASSUME NEW st, NEW hw, NEW wr, NEW rd, NEW hw_last, NEW a
  PROVE  /\ Block!SeqNext(st, hw, wr, rd, hw_last) = SeqNext(st, hw, wr, rd, hw_last)
         /\ Block!ReadMux(st, a) = ReadMux(st, a)
         /\ Contract!ReadMux(st, a) = ReadMux(st, a)
  <1>1. ASSUME NEW c, NEW v, NEW last
        PROVE  Block!CellNext(c, v, hw, wr, rd, last) = CellNext(c, v, hw, wr, rd, last)
    BY SameAccess, SameEffect DEF Block!CellNext, CellNext
  <1>2. Block!SeqNext(st, hw, wr, rd, hw_last) = SeqNext(st, hw, wr, rd, hw_last)
    BY <1>1, SameDesign, SameAccess DEF Block!SeqNext, SeqNext
  <1>3. /\ Block!ReadMux(st, a) = ReadMux(st, a)
        /\ Contract!ReadMux(st, a) = ReadMux(st, a)
    BY SameDesign, SameAccess DEF Block!ReadMux, Contract!ReadMux, ReadMux
  <1> QED
    BY <1>2, <1>3

-----------------------------------------------------------------------------
LEMMA TimeoutRange == Timeout \in Nat /\ 0 \in 0 .. Timeout /\ 1 \in 0 .. Timeout
  BY DriverAssumption

(* The access that fires at an edge is that of a call which waits: the     *)
(* request a call has left up finds the response slot taken.               *)
Wreq == IF wphase = "waiting" THEN wtxn ELSE None
Rreq == IF rphase = "waiting" THEN rtxn ELSE None

LEMMA Firing ==
  ASSUME DriverInv
  PROVE  /\ Block!FiringWrite = Wreq /\ (Block!wr_fire <=> wphase = "waiting")
         /\ Block!FiringRead = Rreq  /\ (Block!rd_fire <=> rphase = "waiting")
  <1>1. Block!wr_fire <=> wphase = "waiting"
    BY DEF Block!wr_fire, Block!aw_valid, Block!w_valid, Valid, DriverInv, CallAt
  <1>2. Block!rd_fire <=> rphase = "waiting"
    BY DEF Block!rd_fire, Block!ar_valid, DriverInv, CallAt
  <1> QED
    BY <1>1, <1>2 DEF Block!FiringWrite, Block!FiringRead, Wreq, Rreq

(* What an edge does to the block and to the calls.                        *)
LEMMA TickIs ==
  ASSUME DriverInv, Tick
  PROVE  /\ \E hw_last : cells' = SeqNext(cells, hwif_in, Wreq, Rreq, hw_last)
         /\ bresp_valid_r' <=> wphase = "waiting"
         /\ rresp_valid_r' <=> rphase = "waiting"
         /\ bresp_valid_r' \in BOOLEAN /\ rresp_valid_r' \in BOOLEAN
         /\ rdata_r' = IF rphase = "waiting" THEN ReadMux(cells, rtxn) ELSE rdata_r
  <1>1. \E hw_last : cells' = SeqNext(cells, hwif_in, Wreq, Rreq, hw_last)
    BY Firing, SameStorage DEF Tick, Block!StorageSeq
  <1>2. /\ bresp_valid_r' = (Block!wr_fire \/ (bresp_valid_r /\ ~TRUE))
        /\ rresp_valid_r' = (Block!rd_fire \/ (rresp_valid_r /\ ~TRUE))
    BY DEF Tick, Block!HandshakeSeq
  <1>3. rdata_r' = IF Block!rd_fire THEN ReadMux(cells, rtxn) ELSE rdata_r
    BY SameStorage DEF Tick, Block!ReadbackLatch
  <1> QED
    BY <1>1, <1>2, <1>3, Firing

LEMMA InitDriverInv == Init => DriverInv
  <1> SUFFICES ASSUME Init PROVE DriverInv
    OBVIOUS
  <1>1. cells \in Cells /\ rdata_r \in Word
    BY ResetCellsType DEF Init, Word
  <1> QED
    BY <1>1, TimeoutRange DEF Init, DriverInv, TypeOK, CallAt, Phase

(* Where a call resumes: an edge answers the call that waits, and the next *)
(* one ends it.                                                            *)
LEMMA ResumeIs ==
  ASSUME NEW phase, NEW txn, NEW waited, NEW resp, NEW responded,
         CallAt(phase, txn, waited, resp),
         responded <=> phase = "waiting"
  PROVE  Resume(phase, waited, responded) =
           IF phase = "waiting" THEN "consuming" ELSE "idle"
  <1>1. CASE phase = "waiting"
    BY <1>1 DEF Resume
  <1>2. CASE phase = "consuming"
    BY <1>2 DEF Resume
  <1>3. CASE phase = "idle"
    BY <1>3 DEF Resume
  <1> QED
    BY <1>1, <1>2, <1>3 DEF CallAt

LEMMA TickDriverInv ==
  ASSUME DriverInv, Tick
  PROVE  DriverInv'
  <1>1. cells' \in Cells
    <2>1. PICK hw_last : cells' = SeqNext(cells, hwif_in, Wreq, Rreq, hw_last)
      BY TickIs
    <2> QED
      BY <2>1, SeqNextType DEF DriverInv, TypeOK
  <1>2. rdata_r' \in Word
    BY TickIs, ReadMuxType DEF DriverInv, TypeOK
  <1>3. /\ CallAt(wphase, wtxn, wwaited, bresp_valid_r)'
        /\ wtxn' \in Writes \cup {None} /\ wphase' \in Phase /\ wwaited' \in 0 .. Timeout
    <2>1. CallAt(wphase, wtxn, wwaited, bresp_valid_r) /\ (bresp_valid_r' <=> wphase = "waiting")
      BY TickIs DEF DriverInv
    <2>2. /\ wphase' = IF wphase = "waiting" THEN "consuming" ELSE "idle"
          /\ wtxn' = IF wphase = "consuming" THEN None ELSE wtxn
          /\ wwaited' = IF wphase = "waiting" THEN wwaited + 1 ELSE 0
      BY <2>1, ResumeIs DEF Tick
    <2>3. wwaited' \in 0 .. Timeout
      BY <2>1, <2>2, TimeoutRange DEF CallAt
    <2> QED
      BY <2>1, <2>2, <2>3 DEF CallAt, DriverInv, TypeOK, Phase
  <1>4. /\ CallAt(rphase, rtxn, rwaited, rresp_valid_r)'
        /\ rtxn' \in Reads \cup {None} /\ rphase' \in Phase /\ rwaited' \in 0 .. Timeout
    <2>1. CallAt(rphase, rtxn, rwaited, rresp_valid_r) /\ (rresp_valid_r' <=> rphase = "waiting")
      BY TickIs DEF DriverInv
    <2>2. /\ rphase' = IF rphase = "waiting" THEN "consuming" ELSE "idle"
          /\ rtxn' = IF rphase = "consuming" THEN None ELSE rtxn
          /\ rwaited' = IF rphase = "waiting" THEN rwaited + 1 ELSE 0
      BY <2>1, ResumeIs DEF Tick
    <2>3. rwaited' \in 0 .. Timeout
      BY <2>1, <2>2, TimeoutRange DEF CallAt
    <2> QED
      BY <2>1, <2>2, <2>3 DEF CallAt, DriverInv, TypeOK, Phase
  <1> QED
    BY <1>1, <1>2, <1>3, <1>4, TickIs DEF Tick, DriverInv, TypeOK

LEMMA NextDriverInv == DriverInv /\ [Next]_vars => DriverInv'
  <1> SUFFICES ASSUME DriverInv, [Next]_vars PROVE DriverInv'
    OBVIOUS
  <1> USE DEF DriverInv, TypeOK, CallAt, block, writeCall, readCall
  <1>1. ASSUME NEW req \in Writes, Write(req) PROVE DriverInv'
    <2>1. req # None
      BY DriverAssumption
    <2> QED
      BY <1>1, <2>1, TimeoutRange DEF Write, Phase
  <1>2. ASSUME NEW a \in Reads, Read(a) PROVE DriverInv'
    <2>1. a # None
      BY DriverAssumption, BusAssumption
    <2> QED
      BY <1>2, <2>1, TimeoutRange DEF Read, Phase
  <1>3. ASSUME NEW hw \in HwifIn, DriveHwif(hw) PROVE DriverInv'
    BY <1>3 DEF DriveHwif
  <1>4. CASE Tick
    BY <1>4, TickDriverInv
  <1>5. CASE UNCHANGED vars
    BY <1>5 DEF vars
  <1> QED
    BY <1>1, <1>2, <1>3, <1>4, <1>5 DEF Next

LEMMA DriverInductive == Spec => []DriverInv
  BY InitDriverInv, NextDriverInv, PTL DEF Spec

(* Every variable of the block and of the two calls keeps its type.        *)
THEOREM TypeCorrect == Spec => []TypeOK
  <1>1. DriverInv => TypeOK
    BY DEF DriverInv
  <1> QED
    BY <1>1, DriverInductive, PTL

(* The response is there at the first edge after valid was raised, so that *)
(* no timeout, however short, ever ends a call.                            *)
THEOREM NoCallTimesOut == Spec => []NoTimeout
  <1>1. DriverInv => NoTimeout
    BY DEF DriverInv, CallAt, NoTimeout
  <1> QED
    BY <1>1, DriverInductive, PTL

-----------------------------------------------------------------------------
LEMMA RefinesInit == Init => Contract!Init
  BY SameDesign DEF Init, Contract!Init

(* A cell's value after an edge is one the contract allows it.             *)
LEMMA OutcomeAllowed ==
  ASSUME NEW c \in Cell, NEW wr, NEW rd, NEW hw_last \in BOOLEAN
  PROVE  CellNext(c, cells[c], hwif_in, wr, rd, hw_last) \in Contract!Outcomes(c, wr, rd)
  <1> DEFINE f == c[1]
             v == cells[c]
             byWrite == IF WriteHits(c, wr) THEN {FieldWrite(f, v, wr.data)} ELSE {}
             byRead  == IF ReadSideHits(c, rd) THEN {FieldReadSide(f)} ELSE {}
             byHw    == IF FieldOf(c).hw_writable THEN {FieldHwifIn(f, v, hwif_in[c])} ELSE {}
             bySw    == byWrite \cup byRead
  <1>1. Contract!Outcomes(c, wr, rd) =
          CASE bySw = {} /\ byHw = {}     -> {v}
            [] bySw # {} /\ ~TwoBlocks(c) -> bySw
            [] OTHER                      -> bySw \cup byHw
    BY SameAccess, SameEffect DEF Contract!Outcomes
  <1>2. CASE bySw = {}
    <2>1. ~WriteHits(c, wr) /\ ~ReadSideHits(c, rd)
      BY <1>2
    <2> QED
      BY <1>1, <1>2, <2>1 DEF CellNext
  <1>3. CASE bySw # {} /\ ~TwoBlocks(c)
    BY <1>1, <1>3 DEF CellNext
  <1>4. CASE bySw # {} /\ TwoBlocks(c)
    BY <1>1, <1>4 DEF CellNext, TwoBlocks
  <1> QED
    BY <1>2, <1>3, <1>4

(* An edge of the block is one of the contract that performs the requests  *)
(* of the calls which wait.                                                *)
LEMMA RefinesTick ==
  ASSUME DriverInv, Tick
  PROVE  Contract!Serve
  <1>1. /\ \A c \in Contract!Cell : cells'[c] \in Contract!Outcomes(c, Wreq, Rreq)
        /\ DOMAIN cells' = Contract!Cell
    <2>1. PICK hw_last : cells' = SeqNext(cells, hwif_in, Wreq, Rreq, hw_last)
      BY TickIs
    <2>2. DOMAIN cells' = Cell
      BY <2>1 DEF SeqNext
    <2>3. ASSUME NEW c \in Cell PROVE cells'[c] \in Contract!Outcomes(c, Wreq, Rreq)
      <3>1. cells'[c] = CellNext(c, cells[c], hwif_in, Wreq, Rreq,
                                 <<FieldOf(c).reg, c[2]>> \in hw_last)
        BY <2>1 DEF SeqNext
      <3>2. (<<FieldOf(c).reg, c[2]>> \in hw_last) \in BOOLEAN
        OBVIOUS
      <3> QED
        BY <3>1, <3>2, OutcomeAllowed
    <2> QED
      BY <2>2, <2>3, SameDesign
  <1>2. /\ Wreq # None <=> wphase = "waiting"
        /\ Rreq # None <=> rphase = "waiting"
    BY DEF Wreq, Rreq, DriverInv, CallAt
  <1>3. Wreq' = None /\ Rreq' = None
    <2>1. wphase' # "waiting" /\ rphase' # "waiting"
      BY TickIs, ResumeIs DEF Tick, DriverInv
    <2> QED
      BY <2>1 DEF Wreq, Rreq
  <1>4. /\ bresp_valid_r' \in BOOLEAN /\ rresp_valid_r' \in BOOLEAN
        /\ Wreq # None => ~bresp_valid_r
        /\ Rreq # None => ~rresp_valid_r
        /\ Wreq = None => ~bresp_valid_r'
        /\ Rreq = None => ~rresp_valid_r'
    BY <1>2, TickIs DEF DriverInv, CallAt
  <1>5. /\ Rreq # None => rdata_r' = Contract!ReadMux(cells, Rreq)
        /\ Rreq = None => rdata_r' = rdata_r
    BY <1>2, TickIs, SameStorage DEF Rreq
  <1>6. hwif_in' = hwif_in
    BY DEF Tick
  <1>7. Contract!Edge(Wreq, Rreq)
    BY <1>1, <1>3, <1>4, <1>5, <1>6 DEF Contract!Edge, Wreq, Rreq
  <1> QED
    BY <1>7 DEF Contract!Serve, Wreq, Rreq

LEMMA RefinesNext == DriverInv /\ [Next]_vars => [Contract!Next]_(Contract!vars)
  <1> SUFFICES ASSUME DriverInv, [Next]_vars PROVE [Contract!Next]_(Contract!vars)
    OBVIOUS
  <1> USE DEF block, writeCall, readCall
  <1>1. ASSUME NEW req \in Writes, Write(req) PROVE Contract!AskWrite
    BY <1>1 DEF Write, Contract!AskWrite
  <1>2. ASSUME NEW a \in Reads, Read(a) PROVE Contract!AskRead
    BY <1>2 DEF Read, Contract!AskRead
  <1>3. ASSUME NEW hw \in HwifIn, DriveHwif(hw) PROVE Contract!DriveHw
    BY <1>3, SameDesign DEF DriveHwif, Contract!DriveHw
  <1>4. CASE Tick
    BY <1>4, RefinesTick DEF Contract!Next
  <1>5. CASE UNCHANGED vars
    BY <1>5 DEF vars, Contract!vars
  <1> QED
    BY <1>1, <1>2, <1>3, <1>4, <1>5 DEF Next, Contract!Next

(* Each call of the driver is one access of the register contract, though  *)
(* its request stays on the bus for an edge after it was performed.        *)
THEOREM CallsKeepContract == Spec => RefinesContract
  <1>1. Init => Contract!Init
    BY RefinesInit
  <1>2. DriverInv /\ [Next]_vars => [Contract!Next]_(Contract!vars)
    BY RefinesNext
  <1> QED
    BY <1>1, <1>2, DriverInductive, PTL DEF Spec, RefinesContract, Contract!Spec
=============================================================================
