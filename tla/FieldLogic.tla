------------------------------ MODULE FieldLogic ------------------------------
(***************************************************************************)
(* What one clock edge does to the storage of the generated register       *)
(* block: the statements emit_field_logic.py writes for a field, and the   *)
(* order in which emit_regblock.py lays them out in the `seq` blocks.      *)
(* Every right-hand side reads the value before the edge; of several       *)
(* assignments to one field in one block, the last wins.                   *)
(***************************************************************************)
EXTENDS RegDesign

SymDiff(A, B) == (A \ B) \cup (B \ A)

(* Mutant of WdataSlice: the word is shifted down to the field and not cut *)
(* at its msb.                                                             *)
UncutSlice(f, data) == {b - Fields[f].lsb : b \in data}

(* wdata[msb:lsb], as a value of the field.                                *)
WdataSlice(f, data) == {b \in Ones(f) : b + Fields[f].lsb \in data}

(* Mutant of FieldWrite: woclr keeps the bits written as one.              *)
FieldWriteInverted(f, v, data) ==
  LET s == WdataSlice(f, data)
  IN  IF Fields[f].onwrite = "woclr" THEN v \cap s ELSE s

(* field_write_stmts: the value a CPU write of `data` assigns to a field   *)
(* that holds `v`.                                                         *)
FieldWrite(f, v, data) ==
  LET s  == WdataSlice(f, data)
      ow == Fields[f].onwrite
  IN  CASE ow = None    -> s
        [] ow = "woclr" -> v \ s
        [] ow = "woset" -> v \cup s
        [] ow = "wclr"  -> {}
        [] ow = "wset"  -> Ones(f)
        [] ow = "wot"   -> SymDiff(v, s)
        [] ow = "wzc"   -> v \cap s
        [] ow = "wzs"   -> v \cup (Ones(f) \ s)
        [] ow = "wzt"   -> SymDiff(v, Ones(f) \ s)

(* field_read_side_stmts, for a field with an onread property.             *)
FieldReadSide(f) == IF Fields[f].onread = "rclr" THEN {} ELSE Ones(f)

(* field_hwif_in_seq: an OR-latch for a sticky interrupt field, a copy for *)
(* any other field hardware writes.                                        *)
IsSticky(f) == Fields[f].is_intr /\ Fields[f].is_stickybit

(* Mutant of FieldHwifIn: sticky sources are copied like all others.       *)
HwifCopy(f, v, h) == h

(* The OR-latch or the copy.                                               *)
FieldHwifIn(f, v, h) == IF IsSticky(f) THEN v \cup h ELSE h

-----------------------------------------------------------------------------
(* Mutant of WriteHits: the address compare is left out.                   *)
WriteHitsAnywhere(c, wr) == wr # None /\ FieldOf(c).sw_writable

(* `wr` and `rd` are the accesses that fire at this edge: a write request  *)
(* [addr, data] and a read address, or None.                               *)
WriteHits(c, wr) == wr # None /\ FieldOf(c).sw_writable /\ wr.addr = CellAddress(c)

ReadSideHits(c, rd) == rd # None /\ FieldOf(c).onread # None /\ rd = CellAddress(c)

(* The hwif_in copy of an array element sits in the main seq block and the *)
(* CPU accesses to it in the seq block of its generate_for iteration: both *)
(* may drive the cell at the same edge, and nothing orders two blocks.     *)
TwoBlocks(c) == IsArray(FieldOf(c).reg) /\ FieldOf(c).hw_writable

(* Mutant of CellNext: an access to one element of an array reaches all.   *)
CellNextAnyElement(c, v, hw, wr, rd, hw_last) ==
  LET hit == \E i \in Elements(FieldOf(c).reg) : WriteHits(<<c[1], i>>, wr)
  IN  IF hit THEN FieldWrite(c[1], v, wr.data)
      ELSE IF ReadSideHits(c, rd)    THEN FieldReadSide(c[1])
      ELSE IF FieldOf(c).hw_writable THEN FieldHwifIn(c[1], v, hw[c])
      ELSE v

(* One cell across one edge; `hw_last` tells which block of TwoBlocks is   *)
(* evaluated last.                                                         *)
CellNext(c, v, hw, wr, rd, hw_last) ==
  LET f == c[1]
      sw_wins == ~(TwoBlocks(c) /\ hw_last)
  IN  IF ReadSideHits(c, rd) /\ sw_wins   THEN FieldReadSide(f)
      ELSE IF WriteHits(c, wr) /\ sw_wins THEN FieldWrite(f, v, wr.data)
      ELSE IF FieldOf(c).hw_writable      THEN FieldHwifIn(f, v, hw[c])
      ELSE v

(* The elements whose two blocks may be evaluated in either order.         *)
RacedElement == {<<FieldOf(c).reg, c[2]>> : c \in {d \in Cell : TwoBlocks(d)}}

SeqNext(st, hw, wr, rd, hw_last) ==
  [c \in Cell |-> CellNext(c, st[c], hw, wr, rd, <<FieldOf(c).reg, c[2]>> \in hw_last)]

-----------------------------------------------------------------------------
(* rdata_mux: the readable fields of the element at address `a`, each at   *)
(* its own position; zero when no element is there.                        *)
ReadMux(st, a) ==
  {b \in 0 .. DataWidth - 1 :
     \E c \in Cell : /\ CellAddress(c) = a
                     /\ FieldOf(c).sw_readable
                     /\ b - FieldOf(c).lsb \in st[c]}

(* Mutant of IntrContrib: a mask bit lets its source through.              *)
IntrContribMaskAsEnable(st, f) ==
  LET q == {Fields[f].enable_field, Fields[f].mask_field} \ {None}
  IN  \A g \in q : st[<<f, 0>>] \cap st[<<g, 0>>] # {}

(* <reg>_intr: the OR over the register's interrupt fields, each qualified *)
(* by its enable or, failing that, its mask companion.                     *)
IntrContrib(st, f) ==
  LET v == st[<<f, 0>>]
      e == Fields[f].enable_field
      m == Fields[f].mask_field
  IN  CASE e # None             -> v \cap st[<<e, 0>>] # {}
        [] e = None /\ m # None -> v \ st[<<m, 0>>] # {}
        [] OTHER                -> v # {}

RegIntr(st, r) == \E f \in Field : Fields[f].reg = r /\ Fields[f].is_intr /\ IntrContrib(st, f)

-----------------------------------------------------------------------------
(* The cells the properties of the interrupt logic speak of: those of      *)
(* latched sources, and for a register's output its sources with their     *)
(* enables and masks (emit_regblock.py:344-359).                           *)
StickyCell == {c \in HwCell : IsSticky(c[1])}

IntrCell(r) ==
  {c \in Cell : \E f \in Field :
     /\ Fields[f].reg = r /\ Fields[f].is_intr
     /\ c[1] \in {f, Fields[f].enable_field, Fields[f].mask_field}}

(* Hardware may take the output back by way of such a cell: a source or    *)
(* an enable that it copies, or a mask that it drives.                     *)
HwMayDrop(c) ==
  c \in HwCell /\ (~IsSticky(c[1]) \/ \E f \in Field : Fields[f].mask_field = c[1])
=============================================================================
