-------------------------- MODULE FieldLogic_proofs --------------------------
(***************************************************************************)
(* Facts about the operators of FieldLogic, for every design that meets    *)
(* the assumptions of RegDesign.                                           *)
(***************************************************************************)
EXTENDS FieldLogic, TLAPS

(* The properties of a field the proofs below need, read off FieldModel.   *)
LEMMA FieldTypes ==
  ASSUME NEW f \in Field
  PROVE  /\ Fields[f].reg \in Reg
         /\ Fields[f].lsb \in Nat
         /\ Fields[f].width \in Nat \ {0}
         /\ Fields[f].sw_writable \in BOOLEAN
         /\ Fields[f].hw_writable \in BOOLEAN
         /\ Fields[f].onwrite \in OnWrite \cup {None}
         /\ Fields[f].onread \in OnRead \cup {None}
         /\ Fields[f].reset \subseteq Ones(f)
         /\ Fields[f].lsb + Fields[f].width <= DataWidth
         /\ None \notin OnWrite /\ None \notin OnRead
  <1>1. Fields[f] \in FieldModel
    BY DesignAssumption
  <1>2. /\ Fields[f].reset \subseteq Ones(f)
        /\ Fields[f].lsb + Fields[f].width <= DataWidth
    BY DesignAssumption DEF WellPlaced
  <1>3. None \notin OnWrite /\ None \notin OnRead
    BY DesignAssumption
  <1> QED
    BY <1>1, <1>2, <1>3 DEF FieldModel

(* A cell belongs to a field of the design.                                *)
LEMMA CellField ==
  ASSUME NEW c \in Cell
  PROVE  c[1] \in Field /\ FieldOf(c) = Fields[c[1]] /\ Bits(c) = Ones(c[1])
  BY DEF Cell, FieldOf, Bits

(* The bits of a field are bit positions of the data bus.                  *)
LEMMA OnesInWord ==
  ASSUME NEW f \in Field
  PROVE  Ones(f) \subseteq 0 .. DataWidth - 1
  BY FieldTypes, BusAssumption DEF Ones

(* A CPU write leaves the field within its own bits, whatever the onwrite  *)
(* property.                                                               *)
LEMMA FieldWriteInField ==
  ASSUME NEW f \in Field, NEW v \in SUBSET Ones(f), NEW data
  PROVE  FieldWrite(f, v, data) \subseteq Ones(f)
  <1> DEFINE s  == WdataSlice(f, data)
             ow == Fields[f].onwrite
  <1>1. s \subseteq Ones(f)
    BY DEF WdataSlice
  <1>2. ow = None \/ ow \in OnWrite
    BY FieldTypes
  <1>3. None \notin OnWrite
    BY FieldTypes
  <1> HIDE DEF s, ow
  <1>4. FieldWrite(f, v, data) =
          CASE ow = None    -> s
            [] ow = "woclr" -> v \ s
            [] ow = "woset" -> v \cup s
            [] ow = "wclr"  -> {}
            [] ow = "wset"  -> Ones(f)
            [] ow = "wot"   -> SymDiff(v, s)
            [] ow = "wzc"   -> v \cap s
            [] ow = "wzs"   -> v \cup (Ones(f) \ s)
            [] ow = "wzt"   -> SymDiff(v, Ones(f) \ s)
    BY DEF FieldWrite, s, ow
  <1> QED
    BY <1>1, <1>2, <1>3, <1>4 DEF OnWrite, SymDiff

(* One clock edge leaves every cell within its bits.                       *)
LEMMA CellNextInBits ==
  ASSUME NEW c \in Cell, NEW v \in SUBSET Bits(c),
         NEW hw \in HwifIn, NEW wr, NEW rd, NEW hw_last \in BOOLEAN
  PROVE  CellNext(c, v, hw, wr, rd, hw_last) \subseteq Bits(c)
  <1>1. c[1] \in Field /\ Bits(c) = Ones(c[1])
    BY CellField
  <1>2. FieldReadSide(c[1]) \subseteq Bits(c)
    BY <1>1 DEF FieldReadSide
  <1>3. FieldWrite(c[1], v, wr.data) \subseteq Bits(c)
    BY <1>1, FieldWriteInField
  <1>4. FieldOf(c).hw_writable => FieldHwifIn(c[1], v, hw[c]) \subseteq Bits(c)
    BY DEF HwifIn, HwCell, FieldHwifIn
  <1> QED
    BY <1>2, <1>3, <1>4 DEF CellNext

(* The storage stays well typed across an edge.                            *)
THEOREM SeqNextType ==
  ASSUME NEW st \in Cells, NEW hw \in HwifIn, NEW wr, NEW rd, NEW hw_last
  PROVE  SeqNext(st, hw, wr, rd, hw_last) \in Cells
  <1> DEFINE nxt(c) == CellNext(c, st[c], hw, wr, rd, <<FieldOf(c).reg, c[2]>> \in hw_last)
  <1>1. \A c \in Cell : nxt(c) \subseteq Bits(c)
    <2> TAKE c \in Cell
    <2>1. st[c] \in SUBSET Bits(c)
      BY DEF Cells
    <2>2. (<<FieldOf(c).reg, c[2]>> \in hw_last) \in BOOLEAN
      OBVIOUS
    <2> QED
      BY <2>1, <2>2, CellNextInBits
  <1>2. \A c \in Cell : Bits(c) \subseteq 0 .. DataWidth - 1
    BY CellField, OnesInWord
  <1>3. SeqNext(st, hw, wr, rd, hw_last) = [c \in Cell |-> nxt(c)]
    BY DEF SeqNext
  <1> HIDE DEF nxt
  <1> QED
    BY <1>1, <1>2, <1>3 DEF Cells, Word

(* Reset values are well typed.                                            *)
LEMMA ResetCellsType == ResetCells \in Cells
  <1>1. \A c \in Cell : /\ FieldOf(c).reset \subseteq Bits(c)
                        /\ Bits(c) \subseteq 0 .. DataWidth - 1
    BY CellField, FieldTypes, OnesInWord
  <1> QED
    BY <1>1 DEF ResetCells, Cells, Word

(* The readback multiplexer yields a word of the bus.                      *)
LEMMA ReadMuxType ==
  ASSUME NEW st, NEW a
  PROVE  ReadMux(st, a) \in Word
  BY DEF ReadMux, Word

(* What a read returns at the position of a readable field is the value of *)
(* that field in the addressed element, and of nothing else: no two fields *)
(* of the bus word overlap.                                                *)
THEOREM ReadMuxField ==
  ASSUME NEW st \in Cells, NEW c \in Cell, FieldOf(c).sw_readable
  PROVE  WdataSlice(c[1], ReadMux(st, CellAddress(c))) = st[c]
  <1> DEFINE a  == CellAddress(c)
             at == FieldOf(c).lsb
  <1>0. ASSUME NEW x, NEW y
        PROVE  x \in ReadMux(st, y) <=>
                 /\ x \in 0 .. DataWidth - 1
                 /\ \E d \in Cell : /\ CellAddress(d) = y
                                    /\ FieldOf(d).sw_readable
                                    /\ x - FieldOf(d).lsb \in st[d]
    BY DEF ReadMux
  <1>1. c[1] \in Field /\ FieldOf(c) = Fields[c[1]] /\ Bits(c) = Ones(c[1])
    BY CellField
  <1>2. st[c] \subseteq Bits(c)
    BY DEF Cells
  <1>3. /\ at \in Nat /\ DataWidth \in Nat
        /\ \A b \in Bits(c) : b \in Nat /\ b + at \in 0 .. DataWidth - 1
    BY <1>1, FieldTypes, BusAssumption DEF Ones
  <1>4. ASSUME NEW d \in Cell, CellAddress(d) = a, c # d, NEW b \in Bits(c)
        PROVE  (b + at) - FieldOf(d).lsb \notin Bits(d)
    <2>1. b + (at - FieldOf(d).lsb) \notin Bits(d)
      BY <1>4, DesignAssumption, Zenon DEF WellPlaced
    <2>2. FieldOf(d).lsb \in Nat
      BY CellField, FieldTypes
    <2>3. b + (at - FieldOf(d).lsb) = (b + at) - FieldOf(d).lsb
      BY <1>3, <2>2
    <2> QED
      BY <2>1, <2>3
  <1>5. ASSUME NEW b \in Bits(c)
        PROVE  b + at \in ReadMux(st, a) <=> b \in st[c]
    <2>1. (b + at) - at = b
      BY <1>3
    <2>2. ASSUME b \in st[c] PROVE b + at \in ReadMux(st, a)
      BY <1>0, <1>3, <2>1, <2>2
    <2>3. ASSUME b + at \in ReadMux(st, a) PROVE b \in st[c]
      <3>1. PICK d \in Cell : /\ CellAddress(d) = a
                              /\ FieldOf(d).sw_readable
                              /\ (b + at) - FieldOf(d).lsb \in st[d]
        BY <1>0, <2>3, Zenon
      <3>2. st[d] \subseteq Bits(d)
        BY DEF Cells
      <3>3. c = d
        <4>1. (b + at) - FieldOf(d).lsb \in Bits(d)
          BY <3>1, <3>2, Zenon
        <4> QED
          BY <1>4, <3>1, <4>1, Zenon
      <3>4. (b + at) - at \in st[c]
        BY <3>1, <3>3, Zenon
      <3> QED
        BY <2>1, <3>4, Zenon
    <2> QED
      BY <2>2, <2>3
  <1> QED
    BY <1>1, <1>2, <1>5 DEF WdataSlice

-----------------------------------------------------------------------------
(* The storage of the interrupt logic across one edge, at which the write  *)
(* `wr` and the read `rd` fire (or none), whatever the bus.                *)

(* A sticky interrupt field lives in a scalar register, so that only one   *)
(* seq block drives it.                                                    *)
LEMMA StickyIsScalar ==
  ASSUME NEW c \in StickyCell
  PROVE  c \in Cell /\ ~TwoBlocks(c)
  <1>1. c \in Cell /\ c[1] \in Field /\ FieldOf(c) = Fields[c[1]]
    BY CellField DEF StickyCell, HwCell
  <1>2. Fields[c[1]].is_intr
    BY DEF StickyCell, IsSticky
  <1>3. ~IsArray(Fields[c[1]].reg)
    BY <1>1, <1>2, DesignAssumption DEF ValidIntrField
  <1> QED
    BY <1>1, <1>3 DEF TwoBlocks

(* A sticky cell takes one of three values: what a read side effect or a   *)
(* write to its register leaves, else its bits together with the pulses.   *)
LEMMA StickyNext ==
  ASSUME NEW c \in StickyCell, NEW st, NEW hw, NEW wr, NEW rd, NEW hw_last
  PROVE  LET nx == SeqNext(st, hw, wr, rd, hw_last)
         IN  \/ ReadSideHits(c, rd) /\ nx[c] = FieldReadSide(c[1])
             \/ WriteHits(c, wr) /\ nx[c] = FieldWrite(c[1], st[c], wr.data)
             \/ nx[c] = st[c] \cup hw[c]
  <1>1. c \in Cell /\ ~TwoBlocks(c) /\ IsSticky(c[1]) /\ FieldOf(c).hw_writable
    BY StickyIsScalar DEF StickyCell, HwCell
  <1> QED
    BY <1>1 DEF SeqNext, CellNext, FieldHwifIn

(* A latched bit goes only with an access that fires: a read that clears,  *)
(* or a write, of which woclr drops only bits written as one.              *)
LEMMA StickyEdge ==
  ASSUME NEW c \in StickyCell, NEW st \in Cells, NEW hw, NEW wr, NEW rd, NEW hw_last,
         NEW b \in st[c] \ SeqNext(st, hw, wr, rd, hw_last)[c]
  PROVE  \/ ReadSideHits(c, rd) /\ FieldOf(c).onread = "rclr"
         \/ /\ WriteHits(c, wr)
            /\ FieldOf(c).onwrite = "woclr" => b + FieldOf(c).lsb \in wr.data
  <1> DEFINE v  == st[c]
             nx == SeqNext(st, hw, wr, rd, hw_last)
  <1>1. c \in Cell /\ c[1] \in Field /\ FieldOf(c) = Fields[c[1]]
    BY StickyIsScalar, CellField
  <1>2. b \in v /\ v \subseteq Ones(c[1])
    BY <1>1, CellField DEF Cells
  <1>3. CASE ReadSideHits(c, rd) /\ nx[c] = FieldReadSide(c[1])
    BY <1>1, <1>2, <1>3 DEF FieldReadSide
  <1>4. CASE WriteHits(c, wr) /\ nx[c] = FieldWrite(c[1], v, wr.data)
    <2>1. ASSUME FieldOf(c).onwrite = "woclr" PROVE b + FieldOf(c).lsb \in wr.data
      <3>1. Fields[c[1]].onwrite = "woclr" /\ "woclr" # None
        BY <1>1, <2>1, DesignAssumption DEF OnWrite
      <3>2. FieldWrite(c[1], v, wr.data) = v \ WdataSlice(c[1], wr.data)
        BY <3>1 DEF FieldWrite
      <3>3. b \in WdataSlice(c[1], wr.data)
        BY <1>2, <1>4, <3>2
      <3> QED
        BY <1>1, <3>3 DEF WdataSlice
    <2> QED
      BY <1>4, <2>1
  <1>5. CASE nx[c] = v \cup hw[c]
    BY <1>2, <1>5
  <1> QED
    BY <1>3, <1>4, <1>5, StickyNext

(* A pulse is in the register after the edge unless an access hits it.     *)
LEMMA PulseEdge ==
  ASSUME NEW c \in StickyCell, NEW st, NEW hw, NEW wr, NEW rd, NEW hw_last,
         ~ReadSideHits(c, rd), ~WriteHits(c, wr)
  PROVE  hw[c] \subseteq SeqNext(st, hw, wr, rd, hw_last)[c]
  BY StickyNext

(* Away from accesses the edge drops no bit of a cell that hardware may    *)
(* not drop, and leaves one alone that hardware does not drive.            *)
LEMMA KeptEdge ==
  ASSUME NEW c \in Cell, NEW st, NEW hw, NEW wr, NEW rd, NEW hw_last,
         ~ReadSideHits(c, rd), ~WriteHits(c, wr), ~HwMayDrop(c)
  PROVE  LET nx == SeqNext(st, hw, wr, rd, hw_last)
         IN  st[c] \subseteq nx[c] /\ (c \notin HwCell => nx[c] = st[c])
  <1> DEFINE nx == SeqNext(st, hw, wr, rd, hw_last)
  <1>1. nx[c] = CellNext(c, st[c], hw, wr, rd, <<FieldOf(c).reg, c[2]>> \in hw_last)
    BY DEF SeqNext
  <1>2. CASE c \in HwCell
    <2>1. nx[c] = st[c] \cup hw[c]
      BY <1>1, <1>2 DEF CellNext, FieldHwifIn, HwMayDrop, HwCell
    <2> QED
      BY <1>2, <2>1
  <1>3. CASE c \notin HwCell
    BY <1>1, <1>3 DEF CellNext, HwCell
  <1> QED
    BY <1>2, <1>3

(* What qualifies an interrupt source, case by case.                       *)
LEMMA IntrContribIs ==
  ASSUME NEW st, NEW f \in Field
  PROVE  LET v == st[<<f, 0>>]
             e == Fields[f].enable_field
             m == Fields[f].mask_field
         IN  /\ e # None => (IntrContrib(st, f) <=> v \cap st[<<e, 0>>] # {})
             /\ (e = None /\ m # None) => (IntrContrib(st, f) <=> v \ st[<<m, 0>>] # {})
             /\ (e = None /\ m = None) => (IntrContrib(st, f) <=> v # {})
  BY DEF IntrContrib

(* The cells of an interrupt field and of its companions are those of      *)
(* scalar registers.                                                       *)
LEMMA IntrCells ==
  ASSUME NEW r, NEW f \in Field, Fields[f].reg = r, Fields[f].is_intr,
         NEW g \in {f, Fields[f].enable_field, Fields[f].mask_field} \ {None}
  PROVE  <<g, 0>> \in IntrCell(r)
  <1>1. g \in Field
    BY DesignAssumption DEF FieldModel
  <1>2. ~IsArray(Fields[g].reg)
    BY DesignAssumption DEF ValidIntrField
  <1>3. <<g, 0>> \in Cell
    BY <1>1, <1>2 DEF Cell, Elements
  <1> QED
    BY <1>3 DEF IntrCell

(* An interrupt output stays when the cells behind it keep their bits,     *)
(* those that hardware does not drive are unchanged, and no mask is driven *)
(* by hardware.                                                            *)
LEMMA IntrStays ==
  ASSUME NEW st, NEW nx, NEW r \in Reg, RegIntr(st, r),
         \A c \in IntrCell(r) : /\ ~HwMayDrop(c)
                                /\ st[c] \subseteq nx[c]
                                /\ c \notin HwCell => nx[c] = st[c]
  PROVE  RegIntr(nx, r)
  <1>1. PICK f \in Field : Fields[f].reg = r /\ Fields[f].is_intr /\ IntrContrib(st, f)
    BY DEF RegIntr
  <1> DEFINE e == Fields[f].enable_field
             m == Fields[f].mask_field
  <1>2. f # None
    BY DesignAssumption
  <1>3. st[<<f, 0>>] \subseteq nx[<<f, 0>>]
    BY <1>1, <1>2, IntrCells
  <1>4. CASE e # None
    <2>1. st[<<e, 0>>] \subseteq nx[<<e, 0>>]
      BY <1>1, <1>4, IntrCells
    <2>2. st[<<f, 0>>] \cap st[<<e, 0>>] # {}
      BY <1>1, <1>4, IntrContribIs
    <2>3. IntrContrib(nx, f)
      BY <1>3, <1>4, <2>1, <2>2, IntrContribIs
    <2> QED
      BY <1>1, <2>3 DEF RegIntr
  <1>5. CASE e = None /\ m # None
    <2>1. <<m, 0>> \in IntrCell(r)
      BY <1>1, <1>5, IntrCells
    <2>2. <<m, 0>> \notin HwCell
      BY <2>1, <1>1 DEF HwMayDrop
    <2>3. nx[<<m, 0>>] = st[<<m, 0>>]
      BY <2>1, <2>2
    <2>4. st[<<f, 0>>] \ st[<<m, 0>>] # {}
      BY <1>1, <1>5, IntrContribIs
    <2>5. IntrContrib(nx, f)
      BY <1>3, <1>5, <2>3, <2>4, IntrContribIs
    <2> QED
      BY <1>1, <2>5 DEF RegIntr
  <1>6. CASE e = None /\ m = None
    <2>1. st[<<f, 0>>] # {}
      BY <1>1, <1>6, IntrContribIs
    <2>2. IntrContrib(nx, f)
      BY <1>3, <1>6, <2>1, IntrContribIs
    <2> QED
      BY <1>1, <2>2 DEF RegIntr
  <1> QED
    BY <1>4, <1>5, <1>6
=============================================================================
