------------------------------ MODULE RegDesign ------------------------------
(***************************************************************************)
(* The flat design model scan_design.py builds from an elaborated RDL tree *)
(* and every emitter reads: registers, their elements, and their fields.   *)
(* A field's value is the set of its bit positions that are one (bit 0 is  *)
(* the field's own LSB), so that the bitwise operators of the generated    *)
(* ARCH code are the set operators; a bus word is a set of bit positions   *)
(* of the data bus.                                                        *)
(***************************************************************************)
EXTENDS Integers, FiniteSets

CONSTANTS
  Regs,       \* register name -> RegModel
  Fields,     \* field name -> FieldModel (names are unique in the design)
  DataWidth,  \* width of the data bus, in bits
  None        \* Python's None: an absent property, companion or request

Reg   == DOMAIN Regs
Field == DOMAIN Fields

OnWrite == {"woclr", "woset", "wclr", "wset", "wot", "wzc", "wzs", "wzt"}
OnRead  == {"rclr", "rset"}

RegModel ==
  [base_address : Nat, array_count : Nat \cup {None}, array_stride : Nat \cup {None},
   emit_read_pulse : BOOLEAN, emit_write_pulse : BOOLEAN]

FieldModel ==
  [reg : Reg, lsb : Nat, width : Nat \ {0},
   sw_readable : BOOLEAN, sw_writable : BOOLEAN,
   hw_readable : BOOLEAN, hw_writable : BOOLEAN,
   reset : SUBSET Nat, onwrite : OnWrite \cup {None}, onread : OnRead \cup {None},
   is_intr : BOOLEAN, is_stickybit : BOOLEAN,
   enable_field : Field \cup {None}, mask_field : Field \cup {None}]

IsArray(r) == Regs[r].array_count # None

(* RegModel.elements(): a scalar register is its own element 0.            *)
Elements(r) == IF IsArray(r) THEN 0 .. Regs[r].array_count - 1 ELSE {0}

ElementAddress(r, i) ==
  IF IsArray(r) THEN Regs[r].base_address + i * Regs[r].array_stride
                ELSE Regs[r].base_address

Ones(f) == 0 .. Fields[f].width - 1

(* The storage of the register block: one cell per field and element, the  *)
(* `<reg>_r.<field>` or `<reg>_r[i].<field>` that state_ref names.         *)
Cell == UNION {{f} \X Elements(Fields[f].reg) : f \in Field}

FieldOf(c)     == Fields[c[1]]
CellAddress(c) == ElementAddress(FieldOf(c).reg, c[2])
Bits(c)        == Ones(c[1])

HwCell == {c \in Cell : FieldOf(c).hw_writable}

(* A word of the data bus, and what the storage and hwif_in may hold.      *)
Word   == SUBSET (0 .. DataWidth - 1)
Cells  == {st \in [Cell -> Word] : \A c \in Cell : st[c] \subseteq Bits(c)}
HwifIn == {hw \in [HwCell -> Word] : \A c \in HwCell : hw[c] \subseteq Bits(c)}

ResetCells == [c \in Cell |-> FieldOf(c).reset]

-----------------------------------------------------------------------------
(* What validate() and emit_regblock reject, so that no design that is     *)
(* emitted has it: `stickybit` without `intr`, a companion in an array     *)
(* register, interrupt fields or access pulses in an array register.       *)
ValidPulses(r) ==
  (Regs[r].emit_read_pulse \/ Regs[r].emit_write_pulse) => ~IsArray(r)

ValidIntrField(f) ==
  /\ Fields[f].is_stickybit => Fields[f].is_intr
  /\ Fields[f].is_intr => ~IsArray(Fields[f].reg)
  /\ \A g \in {Fields[f].enable_field, Fields[f].mask_field} \ {None} :
        ~IsArray(Fields[g].reg)

(* Placement of the designs considered: a reset value fits its field, and  *)
(* no two fields share a bit of a bus word, nor two elements an address.   *)
(* SystemRDL allows one exception, a read-only item over a write-only one; *)
(* ReadbackConcat looks at it for the fields of a register.                *)
WellPlaced ==
  /\ \A f \in Field : /\ Fields[f].reset \subseteq Ones(f)
                      /\ Fields[f].lsb + Fields[f].width <= DataWidth
  /\ \A c, d \in Cell :
        (CellAddress(c) = CellAddress(d)) =>
            /\ FieldOf(c).reg = FieldOf(d).reg /\ c[2] = d[2]
            /\ c # d => \A b \in Bits(c) : b + FieldOf(c).lsb - FieldOf(d).lsb \notin Bits(d)

ASSUME BusAssumption == DataWidth \in Nat \ {0} /\ None \notin Nat

ASSUME DesignAssumption ==
  /\ None \notin Field /\ None \notin OnWrite /\ None \notin OnRead
  /\ \A r \in Reg : /\ Regs[r] \in RegModel /\ ValidPulses(r)
                    /\ IsArray(r) => Regs[r].array_count \in Nat \ {0} /\ Regs[r].array_stride \in Nat
  /\ \A f \in Field : Fields[f] \in FieldModel /\ ValidIntrField(f)
  /\ WellPlaced
=============================================================================
