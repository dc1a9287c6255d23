--------------------------- MODULE IrqService_proofs ---------------------------
(***************************************************************************)
(* The interrupt service routine over the AXI4-Lite register block, for    *)
(* every design with an interrupt register of single-bit sticky sources:   *)
(* the program is one of the initiators of Axi4LiteRegblock, so that what  *)
(* is proved of every initiator holds of it; it never meets an interrupt   *)
(* it has already cleared; and with pulses of two edges or more it loses   *)
(* none of them.                                                           *)
(***************************************************************************)
EXTENDS IrqService, Axi4LiteRegblock_proofs

allVars == <<vars, irqVars>>

(* A source is a cell of its own, one bit wide, at the status address.     *)
LEMMA SourceCell ==
  ASSUME NEW f \in Source
  PROVE  /\ f \in Field /\ <<f, 0>> \in StickyCell /\ <<f, 0>> \in HwCell /\ <<f, 0>> \in Cell
         /\ FieldOf(<<f, 0>>) = Fields[f]
         /\ CellAddress(<<f, 0>>) = Status
         /\ Ones(f) = {0}
         /\ None \notin OnWrite
  <1>1. f \in Field /\ Fields[f].reg = StatusReg /\ IsSticky(f)
    BY DEF Source
  <1>2. ~IsArray(StatusReg)
    BY <1>1, DesignAssumption DEF ValidIntrField, IsSticky
  <1>3. <<f, 0>> \in Cell
    BY <1>1, <1>2 DEF Cell, Elements
  <1>4. FieldOf(<<f, 0>>) = Fields[f]
    BY DEF FieldOf
  <1>5. Fields[f].hw_writable /\ Fields[f].width = 1
    BY ServiceAssumption
  <1>6. Ones(f) = {0}
    BY <1>5 DEF Ones
  <1>7. CellAddress(<<f, 0>>) = Status
    BY <1>1, <1>2, <1>4 DEF CellAddress, ElementAddress, Status
  <1> QED
    BY <1>1, <1>3, <1>4, <1>5, <1>6, <1>7, DesignAssumption DEF HwCell, StickyCell

-----------------------------------------------------------------------------
(* What an edge does to a source: a write to the status register that is   *)
(* over at the edge clears what it writes as one and keeps the rest, and   *)
(* without one the OR-latch takes the pulse.                               *)
StatusWritten == WriteBeatsOver /\ wtxn.addr = Status

LEMMA SourceEdge ==
  ASSUME IInv, NEW b_ready \in BOOLEAN, NEW r_ready \in BOOLEAN, Tick(b_ready, r_ready),
         NEW f \in Source
  PROVE  LET c == <<f, 0>>
         IN  /\ StatusWritten  => /\ cells'[c] = cells[c] \ WdataSlice(f, wtxn.data)
                                  /\ ~bresp_valid_r /\ bresp_valid_r'
             /\ ~StatusWritten => cells'[c] = cells[c] \cup hwif_in[c]
             /\ IsHigh(f)' = IsHigh(f)
  <1> DEFINE c == <<f, 0>>
  <1>1. PICK hw_last : cells' = SeqNext(cells, hwif_in, FiringWrite, FiringRead, hw_last)
    BY DEF Tick, ClockEdge, StorageSeq
  <1>2. /\ c \in Cell /\ ~TwoBlocks(c) /\ IsSticky(c[1]) /\ c[1] = f
        /\ FieldOf(c) = Fields[f] /\ CellAddress(c) = Status
    BY SourceCell, StickyIsScalar DEF Source
  <1>3. /\ FieldOf(c).sw_writable /\ FieldOf(c).hw_writable
        /\ FieldOf(c).onwrite = "woclr" /\ FieldOf(c).onread = None
    BY <1>2, ServiceAssumption
  <1>4. cells'[c] = CellNext(c, cells[c], hwif_in, FiringWrite, FiringRead,
                             <<FieldOf(c).reg, c[2]>> \in hw_last)
    BY <1>1, <1>2 DEF SeqNext
  <1>5. ~ReadSideHits(c, FiringRead)
    BY <1>3 DEF ReadSideHits
  <1>6. wr_fire <=> WriteBeatsOver
    BY ServiceAssumption DEF IInv, TypeOK, BeatsConsistent, wr_fire, WriteBeatsOver, Beat,
       aw_valid, w_valid, aw_ready, w_ready
  <1>7. wr_fire => wtxn # None
    BY <1>6 DEF WriteBeatsOver
  <1>8. WriteHits(c, FiringWrite) <=> StatusWritten
    BY <1>2, <1>3, <1>6, <1>7 DEF WriteHits, FiringWrite, StatusWritten
  <1>9. ASSUME StatusWritten
        PROVE  /\ cells'[c] = cells[c] \ WdataSlice(f, wtxn.data)
               /\ ~bresp_valid_r /\ bresp_valid_r'
    <2>1. wr_fire /\ FiringWrite = wtxn
      BY <1>6, <1>9 DEF StatusWritten, FiringWrite
    <2>2. cells'[c] = FieldWrite(f, cells[c], wtxn.data)
      BY <1>2, <1>4, <1>5, <1>8, <1>9, <2>1 DEF CellNext
    <2>3. Fields[f].onwrite = "woclr" /\ "woclr" # None
      BY <1>2, <1>3, DesignAssumption DEF OnWrite
    <2>4. cells'[c] = cells[c] \ WdataSlice(f, wtxn.data)
      BY <2>2, <2>3 DEF FieldWrite
    <2>5. ~bresp_valid_r /\ bresp_valid_r'
      BY <2>1 DEF wr_fire, Tick, ClockEdge, HandshakeSeq
    <2> QED
      BY <2>4, <2>5
  <1>10. ~StatusWritten => cells'[c] = cells[c] \cup hwif_in[c]
    BY <1>2, <1>3, <1>4, <1>5, <1>8 DEF CellNext, FieldHwifIn
  <1>11. IsHigh(f)' = IsHigh(f)
    BY DEF IsHigh, Tick
  <1> QED
    BY <1>9, <1>10, <1>11

(* The latched bits of a source, and those a write addresses to it, are    *)
(* its single bit or nothing.                                              *)
LEMMA SourceBit ==
  ASSUME IInv, NEW f \in Source, NEW data
  PROVE  /\ cells[<<f, 0>>] \subseteq {0}
         /\ WdataSlice(f, data) \subseteq {0}
  <1>1. <<f, 0>> \in Cell /\ Bits(<<f, 0>>) = {0} /\ Ones(f) = {0}
    BY SourceCell DEF Bits
  <1>2. cells[<<f, 0>>] \subseteq Bits(<<f, 0>>)
    BY <1>1 DEF IInv, TypeOK, Cells
  <1> QED
    BY <1>1, <1>2 DEF WdataSlice

LEMMA AcknowledgedIs ==
  ASSUME NEW f \in Source
  PROVE  f \in Acknowledged <=> StatusWritten /\ WdataSlice(f, wtxn.data) # {}
  BY DEF Acknowledged, StatusWritten

-----------------------------------------------------------------------------
(* Every step of the program is a step of an initiator of the block.       *)
LEMMA StepRefines ==
  ASSUME ServiceInv, [IrqNext]_allVars
  PROVE  [Next]_vars
  <1>1. CASE Enter
    BY <1>1, ServiceAssumption DEF Enter, Next
  <1>2. CASE Acknowledge
    <2>1. [addr |-> Status, data |-> seen] \in Writes
      BY ServiceAssumption DEF ServiceInv
    <2> QED
      BY <1>2, <2>1 DEF Acknowledge, Next
  <1>3. ASSUME NEW req \in Writes, Configure(req) PROVE Next
    BY <1>3 DEF Configure, Next
  <1>4. ASSUME NEW hw \in HwifIn, Pulse(hw) PROVE Next
    BY <1>4 DEF Pulse, Next
  <1>5. ASSUME NEW b_ready \in BOOLEAN, NEW r_ready \in BOOLEAN, Edge(b_ready, r_ready)
        PROVE  Next
    BY <1>5 DEF Edge, Next
  <1>6. CASE UNCHANGED allVars
    BY <1>6 DEF allVars
  <1> QED
    BY <1>1, <1>2, <1>3, <1>4, <1>5, <1>6 DEF IrqNext

LEMMA InitServiceInv == IrqInit => ServiceInv
  <1> SUFFICES ASSUME IrqInit PROVE ServiceInv
    OBVIOUS
  <1>1. IInv
    BY InitIInv DEF IrqInit
  <1>2. NoPhantomInterrupt
    <2> SUFFICES ASSUME NEW f \in Source PROVE ~Latched(f)
      BY DEF NoPhantomInterrupt
    <2>1. cells[<<f, 0>>] = FieldOf(<<f, 0>>).reset
      BY SourceCell DEF IrqInit, Init, ResetCells
    <2> QED
      BY <2>1, SourceCell, ServiceAssumption DEF Latched
  <1> QED
    BY <1>1, <1>2, ServiceAssumption DEF IrqInit, ServiceInv, Word

(* At an edge: a source is left latched by a pulse, or by what was latched *)
(* before, and a write that acknowledges it leaves nothing of it.          *)
LEMMA EdgeNoPhantom ==
  ASSUME ServiceInv, NEW b_ready \in BOOLEAN, NEW r_ready \in BOOLEAN, Edge(b_ready, r_ready)
  PROVE  NoPhantomInterrupt'
  <1> SUFFICES ASSUME NEW f \in Source, cells'[<<f, 0>>] # {} PROVE f \in owed'
    BY DEF NoPhantomInterrupt, Latched, Source
  <1> DEFINE v == cells[<<f, 0>>]
             h == hwif_in[<<f, 0>>]
             s == WdataSlice(f, wtxn.data)
  <1>1. Tick(b_ready, r_ready) /\ IInv
    BY DEF Edge, ServiceInv
  <1>2. v # {} => f \in owed
    BY DEF ServiceInv, NoPhantomInterrupt, Latched
  <1>3. f \in owed' <=> (f \in owed \/ h # {}) /\ f \notin Acknowledged
    BY DEF Edge, IsHigh
  <1>4. CASE StatusWritten
    <2>1. cells'[<<f, 0>>] = v \ s
      BY <1>1, <1>4, SourceEdge
    <2>2. v # {} /\ s = {}
      BY <1>1, <2>1, SourceBit
    <2> QED
      BY <1>2, <1>3, <2>2, AcknowledgedIs
  <1>5. CASE ~StatusWritten
    <2>1. cells'[<<f, 0>>] = v \cup h
      BY <1>1, <1>5, SourceEdge
    <2> QED
      BY <1>2, <1>3, <1>5, <2>1, AcknowledgedIs
  <1> QED
    BY <1>4, <1>5

LEMMA NextServiceInv == ServiceInv /\ [IrqNext]_allVars => ServiceInv'
  <1> SUFFICES ASSUME ServiceInv, [IrqNext]_allVars PROVE ServiceInv'
    OBVIOUS
  <1>0. IInv'
    BY StepRefines, NextIInv DEF ServiceInv
  <1> USE DEF NoPhantomInterrupt, Latched, irqVars
  <1>1. CASE Enter
    BY <1>0, <1>1 DEF Enter, StartRead, ServiceInv
  <1>2. CASE Acknowledge
    BY <1>0, <1>2 DEF Acknowledge, StartWrite, ServiceInv
  <1>3. ASSUME NEW req \in Writes, Configure(req) PROVE ServiceInv'
    BY <1>0, <1>3 DEF Configure, StartWrite, ServiceInv
  <1>4. ASSUME NEW hw \in HwifIn, Pulse(hw) PROVE ServiceInv'
    <2>1. age' \in [Source -> 0 .. PulseWidth]
      BY <1>4, ServiceAssumption DEF Pulse, ServiceInv
    <2> QED
      BY <1>0, <1>4, <2>1 DEF Pulse, DriveHwif, ServiceInv
  <1>5. ASSUME NEW b_ready \in BOOLEAN, NEW r_ready \in BOOLEAN, Edge(b_ready, r_ready)
        PROVE  ServiceInv'
    <2>1. age' \in [Source -> 0 .. PulseWidth]
      BY <1>5, ServiceAssumption DEF Edge, ServiceInv
    <2>2. seen' \in Word /\ isr' \in {"idle", "reading", "decided", "clearing"}
      BY <1>5 DEF Edge, ServiceInv, IInv, TypeOK, r_data
    <2>3. owed' \subseteq Source
      BY <1>5 DEF Edge, ServiceInv
    <2>4. NoPhantomInterrupt'
      BY <1>5, EdgeNoPhantom
    <2> QED
      BY <1>0, <2>1, <2>2, <2>3, <2>4 DEF ServiceInv
  <1>6. CASE UNCHANGED allVars
    BY <1>0, <1>6 DEF allVars, vars, cpuif, initiator, ServiceInv
  <1> QED
    BY <1>1, <1>2, <1>3, <1>4, <1>5, <1>6 DEF IrqNext

LEMMA ServiceInductive == IrqSpec => []ServiceInv
  BY InitServiceInv, NextServiceInv, PTL DEF IrqSpec, allVars

(* The program drives the block as one of its initiators does: what is     *)
(* proved of Spec (StickyHeld, PulsesLatched, IntrOutputHeld and the rest) *)
(* holds of the program and the block together.                            *)
THEOREM ServiceIsInitiator == IrqSpec => Spec
  <1>1. IrqInit => Init
    BY DEF IrqInit
  <1>2. ServiceInv /\ [IrqNext]_allVars => [Next]_vars
    BY StepRefines
  <1> QED
    BY <1>1, <1>2, ServiceInductive, PTL DEF IrqSpec, Spec, allVars

(* The service routine never finds an interrupt it has already cleared,    *)
(* whatever the width of the pulses.                                       *)
THEOREM PhantomFree == IrqSpec => []NoPhantomInterrupt
  <1>1. ServiceInv => NoPhantomInterrupt
    BY DEF ServiceInv
  <1> QED
    BY <1>1, ServiceInductive, PTL

-----------------------------------------------------------------------------
(* Pulses of two edges or more.                                            *)
LEMMA InitPulseInv == IrqInit => PulseInv
  <1> SUFFICES ASSUME IrqInit PROVE PulseInv
    OBVIOUS
  <1>1. \A f \in Source : age[f] = 0
    BY DEF IrqInit
  <1> QED
    BY <1>1 DEF IrqInit, PulseInv, PulseKept

LEMMA EdgePulseInv ==
  ASSUME PulseWidth >= 2, ServiceInv, PulseInv,
         NEW b_ready \in BOOLEAN, NEW r_ready \in BOOLEAN, Edge(b_ready, r_ready),
         NEW f \in Source
  PROVE  /\ f \in owed' => Latched(f)' \/ (IsHigh(f)' /\ age'[f] < PulseWidth)
         /\ ~IsHigh(f)' => age'[f] = 0
         /\ ~Latched(f)' /\ age'[f] >= 1 => bresp_valid_r'
  <1> DEFINE v == cells[<<f, 0>>]
             h == hwif_in[<<f, 0>>]
             s == WdataSlice(f, wtxn.data)
  <1>1. Tick(b_ready, r_ready) /\ IInv
    BY DEF Edge, ServiceInv
  <1>2. f \in owed' <=> (f \in owed \/ h # {}) /\ f \notin Acknowledged
    BY DEF Edge, IsHigh
  <1>3. IsHigh(f)' <=> h # {}
    BY <1>1, SourceEdge DEF IsHigh
  <1>4. age[f] \in 0 .. PulseWidth /\ PulseWidth \in Nat
    BY ServiceAssumption DEF ServiceInv
  <1>5. age'[f] = IF h # {} /\ age[f] < PulseWidth THEN age[f] + 1 ELSE age[f]
    BY DEF Edge, IsHigh
  <1>6. h = {} => age[f] = 0
    BY DEF PulseInv, IsHigh
  <1>7. (v = {} /\ age[f] >= 1) => bresp_valid_r
    BY DEF PulseInv, Latched
  <1>8. f \in owed => v # {} \/ h # {}
    BY DEF PulseInv, PulseKept, Latched, IsHigh
  <1>9. Latched(f)' <=> cells'[<<f, 0>>] # {}
    BY DEF Latched
  <1>10. ~IsHigh(f)' => age'[f] = 0
    BY <1>3, <1>5, <1>6
  <1>11. CASE StatusWritten
    <2>1. cells'[<<f, 0>>] = v \ s /\ ~bresp_valid_r /\ bresp_valid_r'
      BY <1>1, <1>11, SourceEdge
    <2>2. ASSUME f \in owed', v = {} PROVE h # {} /\ age'[f] < PulseWidth
      <3>1. h # {}
        BY <1>2, <1>8, <2>2
      <3>2. age[f] = 0
        BY <1>4, <1>7, <2>1, <2>2
      <3> QED
        BY <1>4, <1>5, <3>1, <3>2
    <2>3. ASSUME f \in owed', v # {} PROVE v \ s # {}
      BY <1>2, <1>11, <2>3, AcknowledgedIs
    <2> QED
      BY <1>3, <1>9, <1>10, <2>1, <2>2, <2>3
  <1>12. CASE ~StatusWritten
    <2>1. cells'[<<f, 0>>] = v \cup h
      BY <1>1, <1>12, SourceEdge
    <2>2. f \in owed' => Latched(f)'
      BY <1>2, <1>8, <1>9, <2>1
    <2>3. ~Latched(f)' => h = {}
      BY <1>9, <2>1
    <2> QED
      BY <1>3, <1>10, <2>2, <2>3, <1>4
  <1> QED
    BY <1>11, <1>12

LEMMA NextPulseInv ==
  ASSUME PulseWidth >= 2
  PROVE  ServiceInv /\ PulseInv /\ [IrqNext]_allVars => PulseInv'
  <1> SUFFICES ASSUME ServiceInv, PulseInv, [IrqNext]_allVars PROVE PulseInv'
    OBVIOUS
  <1> USE DEF PulseInv, PulseKept, Latched, IsHigh, irqVars
  <1>1. CASE Enter
    BY <1>1 DEF Enter, StartRead, cpuif
  <1>2. CASE Acknowledge
    BY <1>2 DEF Acknowledge, StartWrite, cpuif
  <1>3. ASSUME NEW req \in Writes, Configure(req) PROVE PulseInv'
    BY <1>3 DEF Configure, StartWrite, cpuif
  <1>4. ASSUME NEW hw \in HwifIn, Pulse(hw) PROVE PulseInv'
    <2>1. \A f \in Source : age'[f] = IF hw[<<f, 0>>] = {} THEN 0 ELSE age[f]
      BY <1>4 DEF Pulse
    <2>2. /\ hwif_in' = hw /\ owed' = owed /\ cells' = cells /\ bresp_valid_r' = bresp_valid_r
          /\ \A f \in Source : hwif_in[<<f, 0>>] # {} /\ hw[<<f, 0>>] = {} => age[f] >= PulseWidth
      BY <1>4 DEF Pulse, DriveHwif, cpuif
    <2>3. owed \subseteq Source /\ \A f \in Source : age[f] \in 0 .. PulseWidth
      BY DEF ServiceInv
    <2>4. PulseWidth \in Nat
      BY ServiceAssumption
    <2> QED
      BY <2>1, <2>2, <2>3, <2>4
  <1>5. ASSUME NEW b_ready \in BOOLEAN, NEW r_ready \in BOOLEAN, Edge(b_ready, r_ready)
        PROVE  PulseInv'
    <2>1. owed' \subseteq Source
      BY <1>5 DEF Edge, ServiceInv
    <2> HIDE DEF Latched, IsHigh
    <2>2. PulseKept'
      BY <1>5, <2>1, EdgePulseInv
    <2>3. \A f \in Source : /\ ~IsHigh(f)' => age'[f] = 0
                            /\ (~Latched(f)' /\ age'[f] >= 1) => bresp_valid_r'
      BY <1>5, EdgePulseInv
    <2> QED
      BY <2>2, <2>3
  <1>6. CASE UNCHANGED allVars
    BY <1>6 DEF allVars, vars, cpuif
  <1> QED
    BY <1>1, <1>2, <1>3, <1>4, <1>5, <1>6 DEF IrqNext

(* With pulses of two edges or more no interrupt is lost: a pulse nobody   *)
(* acknowledged is in the status register, or it lasts for another edge,   *)
(* though a write to the status register beats the pulse at its own edge.  *)
THEOREM NoPulseLost ==
  ASSUME PulseWidth >= 2
  PROVE  IrqSpec => []PulseKept
  <1>1. PulseInv => PulseKept
    BY DEF PulseInv
  <1> QED
    BY <1>1, InitPulseInv, NextPulseInv, ServiceInductive, PTL DEF IrqSpec, allVars
=============================================================================
