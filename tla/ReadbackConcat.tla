---------------------------- MODULE ReadbackConcat ----------------------------
(***************************************************************************)
(* How reg_read_expr (emit_field_logic.py) builds the readback value of a  *)
(* register: an ARCH concatenation, most significant part first, of the    *)
(* fields in descending order and of zeros for the holes between them, the *)
(* bits above the register and the fields the CPU cannot read. The fields  *)
(* are declared one at a time, in ascending order as reg.fields() yields   *)
(* them, so that every layout of a register is explored.                   *)
(***************************************************************************)
EXTENDS Integers, Sequences, SequencesExt

CONSTANTS
  RegWidth,      \* bits of the register
  DataWidth,     \* bits of the data bus
  AllowOverlap   \* may a read-only field lie over a write-only one, as SystemRDL lets it?

ASSUME WidthAssumption == RegWidth \in Nat \ {0} /\ DataWidth \in Nat /\ RegWidth <= DataWidth

VARIABLES
  stage,     \* "scan", "walk" or "done"
  fields,    \* reg.fields: the declared fields
  todo,      \* fields_sorted not yet walked
  parts,     \* the parts emitted so far: [width, field], field 0 for zeros
  next_bit   \* the highest bit of the register no part covers yet

vars == <<stage, fields, todo, parts, next_bit>>

Msb(f) == f.lsb + f.width - 1

FieldSpec == {f \in [lsb : 0 .. RegWidth - 1, width : 1 .. RegWidth, sw : {"r", "w", "rw"}] :
                Msb(f) < RegWidth}

Disjoint(f, g) == Msb(f) < g.lsb \/ Msb(g) < f.lsb

MayCoexist(f, g) == Disjoint(f, g) \/ (AllowOverlap /\ {f.sw, g.sw} = {"r", "w"})

Zeros(n) == [width |-> n, field |-> 0]

Init ==
  /\ stage = "scan"
  /\ fields = <<>> /\ todo = <<>> /\ parts = <<>>
  /\ next_bit = RegWidth - 1

(* reg.fields() yields one more field.                                     *)
ScanField(f) ==
  /\ stage = "scan"
  /\ \A i \in DOMAIN fields : fields[i].lsb <= f.lsb /\ MayCoexist(fields[i], f)
  /\ fields' = Append(fields, f)
  /\ UNCHANGED <<stage, todo, parts, next_bit>>

(* The indices of `fields` by descending lsb; fields with the same lsb     *)
(* keep their order (Python's sort is stable, with reverse=True too).      *)
Descending(s) ==
  CHOOSE order \in Bijection(DOMAIN s, DOMAIN s) :
    \A k, l \in DOMAIN s : k < l =>
       \/ s[order[k]].lsb > s[order[l]].lsb
       \/ s[order[k]].lsb = s[order[l]].lsb /\ order[k] < order[l]

(* A register without fields reads as one zero literal of the bus width.   *)
StartWalk ==
  /\ stage = "scan"
  /\ IF fields = <<>>
       THEN stage' = "done" /\ parts' = <<Zeros(DataWidth)>> /\ UNCHANGED todo
       ELSE stage' = "walk" /\ todo' = Descending(fields) /\ UNCHANGED parts
  /\ UNCHANGED <<fields, next_bit>>

(* Mutant of Gap: a hole of one bit is not filled.                         *)
GapOffByOne(n) == IF n > 1 THEN <<Zeros(n)>> ELSE <<>>

Gap(n) == IF n > 0 THEN <<Zeros(n)>> ELSE <<>>

(* One iteration of the loop over fields_sorted.                           *)
WalkField ==
  /\ stage = "walk" /\ todo # <<>>
  /\ LET i == Head(todo)
         f == fields[i]
     IN  /\ parts' = parts \o Gap(next_bit - Msb(f))
                           \o <<IF f.sw = "w" THEN Zeros(f.width)
                                              ELSE [width |-> f.width, field |-> i]>>
         /\ next_bit' = f.lsb - 1
  /\ todo' = Tail(todo)
  /\ UNCHANGED <<stage, fields>>

(* Mutant of FinishWalk: the padding goes to the least significant end.    *)
FinishWalkPadLow ==
  /\ stage = "walk" /\ todo = <<>>
  /\ parts' = parts \o Gap(next_bit + 1) \o Gap(DataWidth - RegWidth)
  /\ stage' = "done"
  /\ UNCHANGED <<fields, todo, next_bit>>

(* The hole below the last field, and the padding to the bus width.        *)
FinishWalk ==
  /\ stage = "walk" /\ todo = <<>>
  /\ parts' = Gap(DataWidth - RegWidth) \o parts \o Gap(next_bit + 1)
  /\ stage' = "done"
  /\ UNCHANGED <<fields, todo, next_bit>>

Next ==
  \/ \E f \in FieldSpec : ScanField(f)
  \/ StartWalk
  \/ WalkField
  \/ FinishWalk

Spec == Init /\ [][Next]_vars

-----------------------------------------------------------------------------
(* Correctness.                                                            *)

(* The bits below part `j` of the concatenation; below part 0, all of it.  *)
Below[j \in 0 .. Len(parts)] ==
  IF j = Len(parts) THEN 0 ELSE Below[j + 1] + parts[j + 1].width

(* The concatenation is exactly as wide as the data bus: the docstring's   *)
(* "Pads to data_width with zeros" (emit_field_logic.py:106-107).          *)
FillsBus == stage = "done" => Below[0] = DataWidth

(* Every field the CPU can read appears once, with its LSB at its own      *)
(* position of the bus word, and no other field appears at all.            *)
FieldsInPlace ==
  stage = "done" =>
    \A i \in DOMAIN fields :
      LET at == {j \in DOMAIN parts : parts[j].field = i}
      IN  IF fields[i].sw = "w" THEN at = {}
          ELSE \E j \in at : /\ at = {j}
                             /\ parts[j].width = fields[i].width
                             /\ Below[j] = fields[i].lsb

(* The inductive invariant, for registers without overlap: the parts laid  *)
(* so far, from bit `top` down to bit `bottom`, each end where the next    *)
(* begins (part j at bit lower[j]), and those of fields lie at their own   *)
(* bits; every readable field is laid or waits, below the bits covered.    *)
Part == [width : Nat, field : 0 .. Len(fields)]

FieldsIn(s) == {s[j].field : j \in DOMAIN s}

Laid(s, lower, top, bottom) ==
  /\ s \in Seq(Part) /\ lower \in [0 .. Len(s) -> Nat]
  /\ lower[0] = top /\ lower[Len(s)] = bottom
  /\ \A j \in DOMAIN s :
       /\ lower[j - 1] = lower[j] + s[j].width
       /\ s[j].field # 0 => /\ fields[s[j].field].sw # "w"
                            /\ fields[s[j].field].width = s[j].width
                            /\ fields[s[j].field].lsb = lower[j]
  /\ \A j, k \in DOMAIN s : (s[j].field = s[k].field /\ s[j].field # 0) => j = k

Emitted(waiting) ==
  \A i \in DOMAIN fields : i \in FieldsIn(parts) <=> (i \notin waiting /\ fields[i].sw # "w")

ReadbackInv ==
  /\ stage \in {"scan", "walk", "done"}
  /\ fields \in Seq(FieldSpec)
  /\ \A i, j \in DOMAIN fields : i < j => Msb(fields[i]) < fields[j].lsb
  /\ stage = "scan" => todo = <<>> /\ parts = <<>> /\ next_bit = RegWidth - 1
  /\ stage = "walk" =>
       /\ todo \in Seq(DOMAIN fields) /\ next_bit \in -1 .. RegWidth - 1
       /\ \A k, l \in DOMAIN todo : k < l => Msb(fields[todo[l]]) < fields[todo[k]].lsb
       /\ \A k \in DOMAIN todo : Msb(fields[todo[k]]) <= next_bit
       /\ \E lower \in [0 .. Len(parts) -> Nat] : Laid(parts, lower, RegWidth, next_bit + 1)
       /\ Emitted(ToSet(todo))
  /\ stage = "done" =>
       /\ \E lower \in [0 .. Len(parts) -> Nat] : Laid(parts, lower, DataWidth, 0)
       /\ Emitted({})
=============================================================================
