------------------------- MODULE Apb4Regblock_proofs -------------------------
(***************************************************************************)
(* The APB4 register block keeps its types, carries on its bus the         *)
(* transfer its phase announces, drops no latched interrupt unasked, and   *)
(* implements RegisterContract, for every design and set of requests.      *)
(***************************************************************************)
EXTENDS Apb4Regblock, FieldLogic_proofs

LEMMA InitIInv == Init => IInv
  BY ResetCellsType DEF Init, IInv, TypeOK, TransferOnBus, psel, Word

LEMMA TickIInv == IInv /\ Tick => IInv'
  <1> SUFFICES ASSUME IInv, Tick PROVE IInv'
    OBVIOUS
  <1> USE DEF IInv, TypeOK, Tick, InitiatorSeq
  <1>1. cells' \in Cells
    <2>1. PICK hw_last : cells' = SeqNext(cells, hwif_in, FiringWrite, FiringRead, hw_last)
      BY DEF StorageSeq
    <2> QED
      BY <2>1, SeqNextType
  <1>2. result' \in Word
    BY ReadMuxType DEF prdata
  <1>3. /\ phase = "setup" => phase' = "access"
        /\ phase = "access" => phase' = "idle"
        /\ phase = "idle" => phase' = "idle"
    BY DEF pready, psel
  <1>4. /\ wtxn' = IF phase = "access" THEN None ELSE wtxn
        /\ rtxn' = IF phase = "access" THEN None ELSE rtxn
        /\ pwrite' = pwrite
    BY DEF access, psel, penable, pready
  <1>5. TransferOnBus'
    BY <1>3, <1>4 DEF TransferOnBus, psel
  <1> QED
    BY <1>1, <1>2, <1>3, <1>4, <1>5

(* Every step keeps the inductive invariant.                               *)
LEMMA NextIInv == IInv /\ [Next]_vars => IInv'
  <1> SUFFICES ASSUME IInv, [Next]_vars PROVE IInv'
    OBVIOUS
  <1> USE DEF IInv, TypeOK, TransferOnBus, psel
  <1>1. ASSUME NEW req \in Writes, StartWrite(req) PROVE IInv'
    BY <1>1, ApbAssumption DEF StartWrite
  <1>2. ASSUME NEW a \in Reads, StartRead(a) PROVE IInv'
    BY <1>2, ApbAssumption, BusAssumption DEF StartRead
  <1>3. ASSUME NEW hw \in HwifIn, DriveHwif(hw) PROVE IInv'
    BY <1>3 DEF DriveHwif
  <1>4. CASE Tick
    BY <1>4, TickIInv
  <1>5. CASE Reset
    BY <1>5, ResetCellsType DEF Reset, Word
  <1>6. CASE UNCHANGED vars
    BY <1>6 DEF vars
  <1> QED
    BY <1>1, <1>2, <1>3, <1>4, <1>5, <1>6 DEF Next

THEOREM Inductive == Spec => []IInv
  BY InitIInv, NextIInv, PTL DEF Spec

(* Every variable keeps its type, in every execution of every design.      *)
THEOREM TypeCorrect == Spec => []TypeOK
  <1>1. IInv => TypeOK
    BY DEF IInv
  <1> QED
    BY <1>1, Inductive, PTL

-----------------------------------------------------------------------------
(* The interrupt latches.                                                  *)

(* Only the edge and reset change the storage.                             *)
LEMMA StorageSteps ==
  ASSUME Next, cells' # cells
  PROVE  Reset \/ Tick
  BY DEF Next, StartWrite, StartRead, DriveHwif

(* An access that hits a cell at the edge is the transfer on the bus, and  *)
(* it completes at this edge: the transfer is in its access phase, where   *)
(* nothing holds it back.                                                  *)
LEMMA HitsComplete ==
  ASSUME Tick, NEW c
  PROVE  /\ ReadSideHits(c, FiringRead) => ReadCompletes(c)
         /\ WriteHits(c, FiringWrite) => WriteCompletes(c) /\ FiringWrite = wtxn
  <1>1. access => wtxn' = None /\ rtxn' = None
    BY DEF Tick, InitiatorSeq, pready
  <1>2. ReadSideHits(c, FiringRead) => ReadCompletes(c)
    BY <1>1 DEF ReadSideHits, FiringRead, ReadCompletes, rd_fire
  <1>3. WriteHits(c, FiringWrite) => WriteCompletes(c) /\ FiringWrite = wtxn
    BY <1>1 DEF WriteHits, FiringWrite, WriteCompletes, wr_fire
  <1> QED
    BY <1>2, <1>3

(* A latched interrupt bit is lost only to reset or at the end of a        *)
(* transfer that acknowledges it, in every design.                         *)
THEOREM StickyHeld == Spec => StickyBitsHeld
  <1> DEFINE Held == \A c \in StickyCell : \A b \in cells[c] \ cells'[c] :
                       Reset \/ Acknowledges(c, b)
  <1>1. IInv /\ [Next]_vars => [Held]_vars
    <2> SUFFICES ASSUME IInv, Next, NEW c \in StickyCell, NEW b \in cells[c] \ cells'[c], ~Reset
                 PROVE  Acknowledges(c, b)
      OBVIOUS
    <2>1. Tick
      BY StorageSteps
    <2>2. PICK hw_last : cells' = SeqNext(cells, hwif_in, FiringWrite, FiringRead, hw_last)
      BY <2>1 DEF Tick, StorageSeq
    <2>3. \/ ReadSideHits(c, FiringRead) /\ FieldOf(c).onread = "rclr"
          \/ /\ WriteHits(c, FiringWrite)
             /\ FieldOf(c).onwrite = "woclr" => b + FieldOf(c).lsb \in FiringWrite.data
      BY <2>2, StickyEdge DEF IInv, TypeOK
    <2> QED
      BY <2>1, <2>3, HitsComplete DEF Acknowledges
  <1> QED
    BY <1>1, Inductive, PTL DEF Spec, StickyBitsHeld

(* A pulse on a sticky source is in the register after the edge, unless a  *)
(* transfer that completes at the same edge assigns the field.             *)
THEOREM PulsesLatched == Spec => PulseLatched
  <1> DEFINE Latched == Tick => \A c \in StickyCell : hwif_in[c] \subseteq cells'[c] \/ Assigned(c)
  <1>1. [Next]_vars => [Latched]_vars
    <2> SUFFICES ASSUME Tick, NEW c \in StickyCell
                 PROVE  hwif_in[c] \subseteq cells'[c] \/ Assigned(c)
      OBVIOUS
    <2>1. PICK hw_last : cells' = SeqNext(cells, hwif_in, FiringWrite, FiringRead, hw_last)
      BY DEF Tick, StorageSeq
    <2> QED
      BY <2>1, PulseEdge, HitsComplete DEF Assigned, ReadSideHits, WriteHits
  <1> QED
    BY <1>1, PTL DEF Spec, PulseLatched

(* The interrupt output falls only by reset, at the end of a transfer to   *)
(* the register or a companion, or where hardware may itself take it back. *)
THEOREM IntrOutputHeld == Spec => IntrHeld
  <1> DEFINE Held == \A r \in Reg :
               (RegIntr(cells, r) /\ ~RegIntr(cells', r)) =>
                  \/ Reset
                  \/ \E c \in IntrCell(r) : WriteCompletes(c) \/ ReadCompletes(c) \/ HwMayDrop(c)
  <1>1. [Next]_vars => [Held]_vars
    <2> SUFFICES ASSUME Next, NEW r \in Reg, RegIntr(cells, r), ~Reset,
                        \A c \in IntrCell(r) :
                          ~WriteCompletes(c) /\ ~ReadCompletes(c) /\ ~HwMayDrop(c)
                 PROVE  RegIntr(cells', r)
      OBVIOUS
    <2>1. CASE cells' = cells
      BY <2>1
    <2>2. CASE cells' # cells
      <3>1. Tick
        BY <2>2, StorageSteps
      <3>2. PICK hw_last : cells' = SeqNext(cells, hwif_in, FiringWrite, FiringRead, hw_last)
        BY <3>1 DEF Tick, StorageSeq
      <3>3. ASSUME NEW c \in IntrCell(r)
            PROVE  cells[c] \subseteq cells'[c] /\ (c \notin HwCell => cells'[c] = cells[c])
        <4>1. c \in Cell
          BY DEF IntrCell
        <4> QED
          BY <3>1, <3>2, <4>1, KeptEdge, HitsComplete
      <3> QED
        BY <3>3, IntrStays
    <2> QED
      BY <2>1, <2>2
  <1> QED
    BY <1>1, PTL DEF Spec, IntrHeld

-----------------------------------------------------------------------------
(* The contract speaks of the same design: its copies of the operators of  *)
(* RegDesign and FieldLogic are those of this module.                      *)
LEMMA SameCells ==
  /\ Contract!Cell = Cell
  /\ Contract!HwifIn = HwifIn
  /\ Contract!ResetCells = ResetCells
  <1>1. Contract!Cell = Cell
    BY DEF Contract!Cell, Cell, Contract!Field, Field, Contract!Elements, Elements,
           Contract!IsArray, IsArray
  <1>2. \A c : Contract!FieldOf(c) = FieldOf(c) /\ Contract!Bits(c) = Bits(c)
    BY DEF Contract!FieldOf, FieldOf, Contract!Bits, Bits, Contract!Ones, Ones
  <1>3. Contract!HwCell = HwCell
    BY <1>1, <1>2 DEF Contract!HwCell, HwCell
  <1>4. Contract!HwifIn = HwifIn
    BY <1>2, <1>3 DEF Contract!HwifIn, HwifIn, Contract!Word, Word
  <1>5. Contract!ResetCells = ResetCells
    BY <1>1, <1>2 DEF Contract!ResetCells, ResetCells
  <1> QED
    BY <1>1, <1>4, <1>5

LEMMA SameAccess ==
  ASSUME NEW c, NEW req
  PROVE  /\ Contract!CellAddress(c) = CellAddress(c)
         /\ Contract!FieldOf(c) = FieldOf(c)
         /\ Contract!TwoBlocks(c) = TwoBlocks(c)
         /\ Contract!WriteHits(c, req) = WriteHits(c, req)
         /\ Contract!ReadSideHits(c, req) = ReadSideHits(c, req)
  <1>1. Contract!FieldOf(c) = FieldOf(c)
    BY DEF Contract!FieldOf, FieldOf
  <1>2. Contract!CellAddress(c) = CellAddress(c)
    BY <1>1 DEF Contract!CellAddress, CellAddress, Contract!ElementAddress, ElementAddress,
                Contract!IsArray, IsArray
  <1>3. Contract!TwoBlocks(c) = TwoBlocks(c)
    BY <1>1 DEF Contract!TwoBlocks, TwoBlocks, Contract!IsArray, IsArray
  <1>4. Contract!WriteHits(c, req) = WriteHits(c, req)
    BY <1>1, <1>2 DEF Contract!WriteHits, WriteHits
  <1>5. Contract!ReadSideHits(c, req) = ReadSideHits(c, req)
    BY <1>1, <1>2 DEF Contract!ReadSideHits, ReadSideHits
  <1> QED
    BY <1>1, <1>2, <1>3, <1>4, <1>5

LEMMA SameEffect ==
  ASSUME NEW f, NEW v, NEW d
  PROVE  /\ Contract!FieldWrite(f, v, d) = FieldWrite(f, v, d)
         /\ Contract!FieldReadSide(f) = FieldReadSide(f)
         /\ Contract!FieldHwifIn(f, v, d) = FieldHwifIn(f, v, d)
  BY DEF Contract!FieldWrite, FieldWrite, Contract!WdataSlice, WdataSlice, Contract!Ones, Ones,
         Contract!SymDiff, SymDiff, Contract!FieldReadSide, FieldReadSide,
         Contract!FieldHwifIn, FieldHwifIn, Contract!IsSticky, IsSticky

LEMMA SameReadMux ==
  ASSUME NEW st, NEW a
  PROVE  Contract!ReadMux(st, a) = ReadMux(st, a)
  <1>1. \A c : /\ Contract!CellAddress(c) = CellAddress(c)
               /\ Contract!FieldOf(c) = FieldOf(c)
    BY SameAccess
  <1> QED
    BY <1>1, SameCells DEF Contract!ReadMux, ReadMux

(* A cell's value after an edge is one the contract allows it.             *)
LEMMA OutcomeAllowed ==
  ASSUME NEW c \in Cell, NEW wr, NEW rd, NEW hw_last \in BOOLEAN
  PROVE  CellNext(c, cells[c], hwif_in, wr, rd, hw_last) \in Contract!Outcomes(c, wr, rd)
  <1> DEFINE f == c[1]
             v == cells[c]
             byWrite == IF WriteHits(c, wr) THEN {FieldWrite(f, v, wr.data)} ELSE {}
             byRead  == IF ReadSideHits(c, rd) THEN {FieldReadSide(f)} ELSE {}
             byHw    == IF FieldOf(c).hw_writable THEN {FieldHwifIn(f, v, hwif_in[c])} ELSE {}
             bySw    == byWrite \cup byRead
  <1>1. Contract!Outcomes(c, wr, rd) =
          CASE bySw = {} /\ byHw = {}     -> {v}
            [] bySw # {} /\ ~TwoBlocks(c) -> bySw
            [] OTHER                      -> bySw \cup byHw
    BY SameAccess, SameEffect DEF Contract!Outcomes
  <1>2. CASE bySw = {}
    <2>1. ~WriteHits(c, wr) /\ ~ReadSideHits(c, rd)
      BY <1>2
    <2> QED
      BY <1>1, <1>2, <2>1 DEF CellNext
  <1>3. CASE bySw # {} /\ ~TwoBlocks(c)
    BY <1>1, <1>3 DEF CellNext
  <1>4. CASE bySw # {} /\ TwoBlocks(c)
    BY <1>1, <1>4 DEF CellNext, TwoBlocks
  <1> QED
    BY <1>2, <1>3, <1>4

-----------------------------------------------------------------------------
LEMMA RefinesInit == Init => Contract!Init
  BY SameCells DEF Init, Contract!Init

(* The clock edge performs the access of the transfer that is in its       *)
(* access phase, and ends the transfer.                                    *)
LEMMA RefinesTick ==
  ASSUME IInv, Tick
  PROVE  Contract!Edge(FiringWrite, FiringRead)
  <1> DEFINE wr == FiringWrite
             rd == FiringRead
  <1>1. /\ \A c \in Contract!Cell : cells'[c] \in Contract!Outcomes(c, wr, rd)
        /\ DOMAIN cells' = Contract!Cell
    <2>1. PICK hw_last : cells' = SeqNext(cells, hwif_in, wr, rd, hw_last)
      BY DEF Tick, StorageSeq
    <2>2. DOMAIN cells' = Cell
      BY <2>1 DEF SeqNext
    <2>3. ASSUME NEW c \in Cell PROVE cells'[c] \in Contract!Outcomes(c, wr, rd)
      <3>1. cells'[c] = CellNext(c, cells[c], hwif_in, wr, rd, <<FieldOf(c).reg, c[2]>> \in hw_last)
        BY <2>1 DEF SeqNext
      <3>2. (<<FieldOf(c).reg, c[2]>> \in hw_last) \in BOOLEAN
        OBVIOUS
      <3> QED
        BY <3>1, <3>2, OutcomeAllowed
    <2> QED
      BY <2>2, <2>3, SameCells
  <1>2. /\ wtxn' = IF wr = None THEN wtxn ELSE None
        /\ rtxn' = IF rd = None THEN rtxn ELSE None
    BY DEF IInv, TypeOK, TransferOnBus, Tick, InitiatorSeq, FiringWrite, FiringRead,
           wr_fire, rd_fire, access, psel, penable, pready
  <1>3. rd # None => result' = Contract!ReadMux(cells, rd)
    BY SameReadMux DEF Tick, InitiatorSeq, FiringRead, prdata, pready
  <1>4. hwif_in' = hwif_in
    BY DEF Tick
  <1> QED
    BY <1>1, <1>2, <1>3, <1>4 DEF Contract!Edge

LEMMA RefinesNext == IInv /\ [Next]_vars => [Contract!Next]_(Contract!vars)
  <1> SUFFICES ASSUME IInv, [Next]_vars PROVE [Contract!Next]_(Contract!vars)
    OBVIOUS
  <1> USE DEF Contract!Next
  <1>1. ASSUME NEW req \in Writes, StartWrite(req) PROVE Contract!AskWrite
    BY <1>1 DEF StartWrite, Contract!AskWrite, IInv, TransferOnBus, psel
  <1>2. ASSUME NEW a \in Reads, StartRead(a) PROVE Contract!AskRead
    BY <1>2 DEF StartRead, Contract!AskRead, IInv, TransferOnBus, psel
  <1>3. ASSUME NEW hw \in HwifIn, DriveHwif(hw) PROVE Contract!DriveHw
    BY <1>3, SameCells DEF DriveHwif, Contract!DriveHw
  <1>4. ASSUME Tick PROVE Contract!Serve
    <2>1. FiringWrite \in {wtxn, None} /\ FiringRead \in {rtxn, None}
      BY DEF FiringWrite, FiringRead
    <2> QED
      BY <1>4, <2>1, RefinesTick DEF Contract!Serve
  <1>5. ASSUME Reset PROVE Contract!Reset
    BY <1>5, SameCells DEF Reset, Contract!Reset
  <1>6. ASSUME UNCHANGED vars PROVE UNCHANGED Contract!vars
    BY <1>6 DEF vars, Contract!vars
  <1> QED
    BY <1>1, <1>2, <1>3, <1>4, <1>5, <1>6 DEF Next

(* The APB4 block keeps the register contract in every design.             *)
THEOREM ImplementsContract == Spec => RefinesContract
  <1>1. Init => Contract!Init
    BY RefinesInit
  <1>2. IInv /\ [Next]_vars => [Contract!Next]_(Contract!vars)
    BY RefinesNext
  <1> QED
    BY <1>1, <1>2, Inductive, PTL DEF Spec, RefinesContract, Contract!Spec
=============================================================================
