------------------------ MODULE ReadbackConcat_proofs ------------------------
(***************************************************************************)
(* The readback concatenation, for every width of the register and of the  *)
(* bus and every layout without overlap: it is as wide as the bus, and     *)
(* every readable field appears once, at its own bits.                     *)
(***************************************************************************)
EXTENDS ReadbackConcat, TLAPS, WellFoundedInduction

(* Every non-empty set of naturals has a least element.                    *)
LEMMA LeastNumber ==
  ASSUME NEW T \in SUBSET Nat, T # {} PROVE \E n \in T : \A m \in T : n <= m
  <1>1. PICK n \in T : \A m \in T : <<m, n>> \notin OpToRel(<, Nat)
    BY NatLessThanWellFounded, WFMin
  <1>2. ASSUME NEW m \in T, m < n PROVE FALSE
    <2>1. <<m, n>> \in OpToRel(<, Nat)
      BY <1>2 DEF OpToRel
    <2> QED
      BY <1>1, <2>1
  <1>3. \A m \in T : m \in Nat /\ n \in Nat
    OBVIOUS
  <1> QED
    BY <1>2, <1>3

(* A field lies inside the register.                                       *)
LEMMA FieldFits ==
  \A f \in FieldSpec : /\ f.lsb \in Nat /\ f.width \in Nat \ {0} /\ Msb(f) \in Nat
                       /\ f.lsb <= Msb(f) /\ Msb(f) < RegWidth
                       /\ Msb(f) + 1 = f.lsb + f.width
  BY WidthAssumption DEF FieldSpec, Msb

LEMMA DropHead ==
  ASSUME NEW A, NEW s \in Seq(A), s # <<>>
  PROVE  /\ Tail(s) \in Seq(A) /\ Head(s) \in A /\ Head(s) = s[1] /\ 1 \in DOMAIN s
         /\ ToSet(s) = {Head(s)} \cup ToSet(Tail(s))
         /\ \A k \in DOMAIN Tail(s) : k + 1 \in DOMAIN s /\ 1 < k + 1 /\ Tail(s)[k] = s[k + 1]
         /\ \A k, l \in DOMAIN Tail(s) : k < l => k + 1 < l + 1
  <1>1. /\ DOMAIN s = 1 .. Len(s) /\ DOMAIN Tail(s) = 1 .. Len(s) - 1
        /\ Len(s) \in Nat \ {0} /\ Head(s) = s[1] /\ Tail(s) \in Seq(A) /\ Head(s) \in A
        /\ \A i \in 1 .. Len(s) - 1 : i + 1 \in DOMAIN s /\ Tail(s)[i] = s[i + 1]
        /\ \A i \in DOMAIN s : i = 1 \/ (i - 1 \in 1 .. Len(s) - 1 /\ i = (i - 1) + 1)
    OBVIOUS
  <1>2. ToSet(s) = {Head(s)} \cup ToSet(Tail(s))
    BY <1>1 DEF ToSet
  <1> QED
    BY <1>1, <1>2

-----------------------------------------------------------------------------
(* Laying one more part.                                                   *)

(* A part is appended below: the register is covered down to its last bit. *)
LEMMA LayBelow ==
  ASSUME NEW s, NEW lower, NEW top, NEW bottom, Laid(s, lower, top, bottom),
         NEW p \in Part, NEW low \in Nat, bottom = low + p.width,
         p.field # 0 => /\ fields[p.field].sw # "w" /\ fields[p.field].width = p.width
                        /\ fields[p.field].lsb = low /\ p.field \notin FieldsIn(s)
  PROVE  /\ \E below : Laid(Append(s, p), below, top, low)
         /\ FieldsIn(Append(s, p)) = FieldsIn(s) \cup {p.field}
  <1> DEFINE t == Append(s, p)
             below == [j \in 0 .. Len(s) + 1 |-> IF j = Len(s) + 1 THEN low ELSE lower[j]]
  <1>1. /\ s \in Seq(Part) /\ Len(s) \in Nat /\ DOMAIN s = 1 .. Len(s)
        /\ t \in Seq(Part) /\ Len(t) = Len(s) + 1 /\ DOMAIN t = 1 .. Len(s) + 1
        /\ t[Len(s) + 1] = p
        /\ \A j \in 1 .. Len(s) : t[j] = s[j]
        /\ \A j \in 1 .. Len(s) + 1 : j \in 1 .. Len(s) \/ j = Len(s) + 1
    BY DEF Laid
  <1>2. /\ below \in [0 .. Len(t) -> Nat] /\ below[Len(s) + 1] = low
        /\ \A j \in 0 .. Len(s) : below[j] = lower[j]
    BY <1>1 DEF Laid
  <1> HIDE DEF t, below
  <1>3. below[0] = top /\ below[Len(t)] = low /\ below[Len(s)] = bottom
    BY <1>1, <1>2 DEF Laid
  <1>4. \A j \in 1 .. Len(s) : s[j].field \in FieldsIn(s)
    BY <1>1 DEF FieldsIn
  <1>5. \A j \in DOMAIN t : below[j - 1] = below[j] + t[j].width
    <2> TAKE j \in DOMAIN t
    <2>1. CASE j = Len(s) + 1
      BY <1>1, <1>2, <1>3, <2>1
    <2>2. CASE j \in 1 .. Len(s)
      <3>1. lower[j - 1] = lower[j] + s[j].width /\ j \in 0 .. Len(s) /\ j - 1 \in 0 .. Len(s)
        BY <1>1, <2>2 DEF Laid
      <3> QED
        BY <1>1, <1>2, <2>2, <3>1
    <2> QED
      BY <1>1, <2>1, <2>2
  <1>6. \A j \in DOMAIN t : t[j].field # 0 => /\ fields[t[j].field].sw # "w"
                                              /\ fields[t[j].field].width = t[j].width
                                              /\ fields[t[j].field].lsb = below[j]
    <2> TAKE j \in DOMAIN t
    <2>1. CASE j = Len(s) + 1
      BY <1>1, <1>2, <2>1
    <2>2. CASE j \in 1 .. Len(s)
      <3>1. j \in 0 .. Len(s)
        BY <1>1, <2>2
      <3> QED
        BY <1>1, <1>2, <2>2, <3>1 DEF Laid
    <2> QED
      BY <1>1, <2>1, <2>2
  <1>7. \A j, k \in DOMAIN t : (t[j].field = t[k].field /\ t[j].field # 0) => j = k
    BY <1>1, <1>4 DEF Laid
  <1>8. Laid(t, below, top, low)
    BY <1>1, <1>2, <1>3, <1>5, <1>6, <1>7 DEF Laid
  <1>9. FieldsIn(t) = FieldsIn(s) \cup {p.field}
    BY <1>1 DEF FieldsIn
  <1> QED
    BY <1>8, <1>9 DEF t

(* Zeros are put in front: what lies below them stays where it is.         *)
LEMMA PadAbove ==
  ASSUME NEW s, NEW lower, NEW top, NEW bottom, Laid(s, lower, top, bottom),
         NEW n \in Nat
  PROVE  /\ \E below : Laid(<<Zeros(n)>> \o s, below, top + n, bottom)
         /\ FieldsIn(<<Zeros(n)>> \o s) = FieldsIn(s) \cup {0}
  <1> DEFINE t == <<Zeros(n)>> \o s
             below == [j \in 0 .. Len(s) + 1 |-> IF j = 0 THEN top + n ELSE lower[j - 1]]
  <1>1. Zeros(n) \in Part /\ Zeros(n).width = n /\ Zeros(n).field = 0
    <2>1. 0 \in 0 .. Len(fields)
      OBVIOUS
    <2> QED
      BY <2>1 DEF Zeros, Part
  <1>2. /\ s \in Seq(Part) /\ Len(s) \in Nat /\ DOMAIN s = 1 .. Len(s)
        /\ t \in Seq(Part) /\ Len(t) = Len(s) + 1 /\ DOMAIN t = 1 .. Len(s) + 1
        /\ t[1] = Zeros(n)
        /\ \A j \in 1 .. Len(s) : j + 1 \in DOMAIN t /\ t[j + 1] = s[j]
        /\ \A j \in 1 .. Len(s) + 1 : j = 1 \/ (j - 1 \in 1 .. Len(s) /\ t[j] = s[j - 1])
    BY <1>1 DEF Laid
  <1>3. top \in Nat /\ lower \in [0 .. Len(s) -> Nat] /\ lower[0] = top /\ lower[Len(s)] = bottom
    BY <1>2 DEF Laid
  <1>4. /\ below \in [0 .. Len(t) -> Nat] /\ below[0] = top + n
        /\ \A j \in 1 .. Len(s) + 1 : below[j] = lower[j - 1]
    BY <1>2, <1>3
  <1> HIDE DEF t, below
  <1>5. below[Len(t)] = bottom
    BY <1>2, <1>3, <1>4
  <1>6. \A j \in DOMAIN t : below[j - 1] = below[j] + t[j].width
    <2> TAKE j \in DOMAIN t
    <2>1. CASE j = 1
      BY <1>1, <1>2, <1>3, <1>4, <2>1
    <2>2. CASE j # 1
      <3>1. j - 1 \in 1 .. Len(s) /\ t[j] = s[j - 1]
        BY <1>2, <2>2
      <3>2. lower[(j - 1) - 1] = lower[j - 1] + s[j - 1].width
        BY <1>2, <3>1 DEF Laid
      <3>3. below[j - 1] = lower[(j - 1) - 1] /\ below[j] = lower[j - 1]
        BY <1>2, <1>4, <3>1
      <3> QED
        BY <3>1, <3>2, <3>3
    <2> QED
      BY <2>1, <2>2
  <1>7. \A j \in DOMAIN t : t[j].field # 0 => /\ fields[t[j].field].sw # "w"
                                              /\ fields[t[j].field].width = t[j].width
                                              /\ fields[t[j].field].lsb = below[j]
    <2> SUFFICES ASSUME NEW j \in DOMAIN t, t[j].field # 0
                 PROVE  /\ fields[t[j].field].sw # "w"
                        /\ fields[t[j].field].width = t[j].width
                        /\ fields[t[j].field].lsb = below[j]
      OBVIOUS
    <2>1. j - 1 \in DOMAIN s /\ t[j] = s[j - 1] /\ below[j] = lower[j - 1]
      BY <1>1, <1>2, <1>4
    <2> QED
      BY <2>1 DEF Laid
  <1>8. \A j, k \in DOMAIN t : (t[j].field = t[k].field /\ t[j].field # 0) => j = k
    <2> SUFFICES ASSUME NEW j \in DOMAIN t, NEW k \in DOMAIN t, t[j].field = t[k].field,
                        t[j].field # 0
                 PROVE  j = k
      OBVIOUS
    <2>1. /\ j - 1 \in DOMAIN s /\ t[j] = s[j - 1] /\ k - 1 \in DOMAIN s /\ t[k] = s[k - 1]
          /\ j \in Nat /\ k \in Nat
      BY <1>1, <1>2
    <2>2. j - 1 = k - 1
      BY <2>1 DEF Laid
    <2> QED
      BY <2>1, <2>2
  <1>9. Laid(t, below, top + n, bottom)
    BY <1>2, <1>4, <1>5, <1>6, <1>7, <1>8 DEF Laid
  <1>10. FieldsIn(t) = FieldsIn(s) \cup {0}
    <2>1. \A j \in DOMAIN t : t[j].field \in FieldsIn(s) \cup {0}
      BY <1>1, <1>2 DEF FieldsIn
    <2>2. \A j \in DOMAIN s : s[j].field \in FieldsIn(t)
      BY <1>2 DEF FieldsIn
    <2>3. 1 \in DOMAIN t /\ t[1].field = 0
      BY <1>1, <1>2
    <2>4. 0 \in FieldsIn(t)
      BY <2>3 DEF FieldsIn
    <2>5. FieldsIn(t) \subseteq FieldsIn(s) \cup {0}
      BY <2>1 DEF FieldsIn
    <2>6. FieldsIn(s) \subseteq FieldsIn(t)
      BY <2>2 DEF FieldsIn
    <2> QED
      BY <2>4, <2>5, <2>6
  <1> QED
    BY <1>9, <1>10 DEF t

(* A hole is filled, if there is one.                                      *)
LEMMA GapBelow ==
  ASSUME NEW s, NEW lower, NEW top, NEW bottom, Laid(s, lower, top, bottom),
         NEW n \in Nat, NEW low \in Nat, bottom = low + n
  PROVE  /\ s \o Gap(n) \in Seq(Part)
         /\ \E below : Laid(s \o Gap(n), below, top, low)
         /\ FieldsIn(s \o Gap(n)) \ {0} = FieldsIn(s) \ {0}
  <1>1. s \in Seq(Part)
    BY DEF Laid
  <1>2. CASE n = 0
    <2>1. s \o Gap(n) = s
      BY <1>1, <1>2 DEF Gap
    <2>2. low = bottom
      BY <1>2
    <2>3. Laid(s \o Gap(n), lower, top, low)
      BY <2>1, <2>2
    <2> QED
      BY <1>1, <2>1, <2>3
  <1>3. CASE n > 0
    <2>1. Zeros(n) \in Part /\ Zeros(n).width = n /\ Zeros(n).field = 0
      <3>1. 0 \in 0 .. Len(fields)
        OBVIOUS
      <3> QED
        BY <3>1 DEF Zeros, Part
    <2>2. s \o Gap(n) = Append(s, Zeros(n)) /\ Append(s, Zeros(n)) \in Seq(Part)
      BY <1>1, <1>3, <2>1 DEF Gap
    <2>3. \E below : Laid(Append(s, Zeros(n)), below, top, low)
      BY <2>1, LayBelow
    <2>4. FieldsIn(Append(s, Zeros(n))) = FieldsIn(s) \cup {0}
      BY <2>1, LayBelow
    <2> QED
      BY <2>2, <2>3, <2>4
  <1> QED
    BY <1>2, <1>3

LEMMA GapAbove ==
  ASSUME NEW s, NEW lower, NEW top, NEW bottom, Laid(s, lower, top, bottom),
         NEW n \in Nat
  PROVE  /\ Gap(n) \o s \in Seq(Part)
         /\ \E below : Laid(Gap(n) \o s, below, top + n, bottom)
         /\ FieldsIn(Gap(n) \o s) \ {0} = FieldsIn(s) \ {0}
  <1>1. s \in Seq(Part) /\ top \in Nat
    BY DEF Laid
  <1>2. CASE n = 0
    <2>1. Gap(n) \o s = s /\ top + n = top
      BY <1>1, <1>2 DEF Gap
    <2> QED
      BY <1>1, <2>1
  <1>3. CASE n > 0
    <2>1. Gap(n) = <<Zeros(n)>>
      BY <1>3 DEF Gap
    <2>2. \E below : Laid(<<Zeros(n)>> \o s, below, top + n, bottom)
      BY PadAbove
    <2>3. FieldsIn(<<Zeros(n)>> \o s) = FieldsIn(s) \cup {0}
      BY PadAbove
    <2>4. <<Zeros(n)>> \o s \in Seq(Part)
      BY <2>2 DEF Laid
    <2> QED
      BY <2>1, <2>2, <2>3, <2>4
  <1> QED
    BY <1>2, <1>3

-----------------------------------------------------------------------------
(* The walk.                                                               *)

LEMMA InitReadback == Init => ReadbackInv
  <1> SUFFICES ASSUME Init PROVE ReadbackInv
    OBVIOUS
  <1>1. fields \in Seq(FieldSpec) /\ DOMAIN fields = {}
    BY DEF Init
  <1> QED
    BY <1>1 DEF Init, ReadbackInv

(* The next field lies above those declared before it.                     *)
LEMMA ScanStep ==
  ASSUME ~AllowOverlap, ReadbackInv, NEW f \in FieldSpec, ScanField(f) PROVE ReadbackInv'
  <1>1. /\ fields \in Seq(FieldSpec) /\ Len(fields) \in Nat /\ DOMAIN fields = 1 .. Len(fields)
        /\ fields' \in Seq(FieldSpec) /\ DOMAIN fields' = 1 .. Len(fields) + 1
        /\ fields'[Len(fields) + 1] = f
        /\ \A i \in 1 .. Len(fields) : fields'[i] = fields[i] /\ fields[i] \in FieldSpec
        /\ \A i \in 1 .. Len(fields) + 1 : i \in 1 .. Len(fields) \/ i = Len(fields) + 1
    BY DEF ReadbackInv, ScanField
  <1>2. \A i \in 1 .. Len(fields) : Msb(fields[i]) < f.lsb
    <2> TAKE i \in 1 .. Len(fields)
    <2>1. fields[i].lsb <= f.lsb /\ (Msb(fields[i]) < f.lsb \/ Msb(f) < fields[i].lsb)
      BY <1>1 DEF ScanField, MayCoexist, Disjoint
    <2>2. /\ f.lsb \in Nat /\ Msb(f) \in Nat /\ f.lsb <= Msb(f)
          /\ fields[i].lsb \in Nat /\ Msb(fields[i]) \in Nat
      BY <1>1, FieldFits
    <2> QED
      BY <2>1, <2>2
  <1>3. \A i, j \in DOMAIN fields' : i < j => Msb(fields'[i]) < fields'[j].lsb
    <2> SUFFICES ASSUME NEW i \in DOMAIN fields', NEW j \in DOMAIN fields', i < j
                 PROVE  Msb(fields'[i]) < fields'[j].lsb
      OBVIOUS
    <2>1. i \in 1 .. Len(fields)
      BY <1>1
    <2>2. CASE j \in 1 .. Len(fields)
      BY <1>1, <2>1, <2>2 DEF ReadbackInv
    <2>3. CASE j = Len(fields) + 1
      BY <1>1, <1>2, <2>1, <2>3
    <2> QED
      BY <1>1, <2>2, <2>3
  <1> QED
    BY <1>1, <1>3 DEF ReadbackInv, ScanField, Msb

(* Fields declared in ascending order without overlap have an order by     *)
(* descending LSB, and in it each lies below the one before.               *)
LEMMA SortedFields ==
  ASSUME ReadbackInv
  PROVE  /\ Descending(fields) \in Seq(DOMAIN fields)
         /\ ToSet(Descending(fields)) = DOMAIN fields
         /\ \A k, l \in DOMAIN Descending(fields) : k < l =>
              Msb(fields[Descending(fields)[l]]) < fields[Descending(fields)[k]].lsb
  <1> DEFINE n == Len(fields)
             D == DOMAIN fields
             Sorted(order) ==
               \A k, l \in D : k < l =>
                 \/ fields[order[k]].lsb > fields[order[l]].lsb
                 \/ fields[order[k]].lsb = fields[order[l]].lsb /\ order[k] < order[l]
  <1>1. /\ n \in Nat /\ D = 1 .. n
        /\ \A i \in D : fields[i] \in FieldSpec
        /\ \A i, j \in D : i < j => Msb(fields[i]) < fields[j].lsb
    BY DEF ReadbackInv
  <1>2. \A i, j \in D : i < j => fields[i].lsb < fields[j].lsb
    <2> SUFFICES ASSUME NEW i \in D, NEW j \in D, i < j PROVE fields[i].lsb < fields[j].lsb
      OBVIOUS
    <2>1. /\ fields[i].lsb \in Nat /\ Msb(fields[i]) \in Nat /\ fields[j].lsb \in Nat
          /\ fields[i].lsb <= Msb(fields[i]) /\ Msb(fields[i]) < fields[j].lsb
      BY <1>1, FieldFits
    <2> QED
      BY <2>1
  <1>3. \E order \in Bijection(D, D) : Sorted(order)
    <2> DEFINE back == [i \in D |-> n + 1 - i]
    <2>1. back \in [D -> D] /\ \A i \in D : back[i] \in D /\ back[back[i]] = i
      BY <1>1
    <2>2. back \in Bijection(D, D)
      BY <2>1 DEF Bijection, Surjection, Injection, IsInjective
    <2>3. \A k, l \in D : k < l => back[l] < back[k]
      BY <1>1
    <2>4. \A k, l \in D : k < l => fields[back[l]].lsb < fields[back[k]].lsb
      BY <1>2, <2>1, <2>3
    <2>5. \A i \in D : fields[i].lsb \in Nat
      BY <1>1, FieldFits
    <2>6. Sorted(back)
      BY <2>1, <2>4, <2>5
    <2> QED
      BY <2>2, <2>6
  <1> DEFINE order == Descending(fields)
  <1>4. order \in Bijection(D, D) /\ Sorted(order)
    BY <1>3 DEF Descending
  <1> HIDE DEF order
  <1>5. order \in [D -> D] /\ \A i \in D : \E k \in D : order[k] = i
    BY <1>4 DEF Bijection, Surjection
  <1>6. order \in Seq(D) /\ DOMAIN order = D
    BY <1>1, <1>5
  <1>7. ToSet(order) = D
    BY <1>5 DEF ToSet
  <1>8. ASSUME NEW k \in D, NEW l \in D, k < l
        PROVE  Msb(fields[order[l]]) < fields[order[k]].lsb
    <2>0. order[k] \in D /\ order[l] \in D
      BY <1>5, <1>8
    <2>1. order[k] \in D /\ order[l] \in D /\ order[k] \in Nat /\ order[l] \in Nat
      BY <1>1, <2>0
    <2>2. fields[order[k]].lsb \in Nat /\ fields[order[l]].lsb \in Nat
      BY <1>1, <2>1, FieldFits
    <2>3. \/ fields[order[k]].lsb > fields[order[l]].lsb
          \/ fields[order[k]].lsb = fields[order[l]].lsb /\ order[k] < order[l]
      BY <1>4, <1>8
    <2>4. order[l] < order[k]
      BY <1>2, <2>1, <2>2, <2>3
    <2> QED
      BY <1>1, <2>1, <2>4
  <1> QED
    BY <1>6, <1>7, <1>8 DEF order

(* Nothing is laid yet.                                                    *)
LEMMA NothingLaid ==
  ASSUME NEW top \in Nat
  PROVE  Laid(<<>>, [j \in 0 .. 0 |-> top], top, top) /\ FieldsIn(<<>>) = {}
  BY DEF Laid, FieldsIn

(* What is laid stays laid while the declared fields do not change.        *)
LEMMA LaidKept ==
  ASSUME UNCHANGED fields, NEW s, NEW lower, NEW top, NEW bottom
  PROVE  /\ Laid(s, lower, top, bottom)' <=> Laid(s, lower, top, bottom)
         /\ FieldsIn(s)' = FieldsIn(s)
  BY DEF Laid, Part, FieldsIn

(* What a step that ends or continues the walk has to show.                *)
LEMMA WalkGoesOn ==
  ASSUME ReadbackInv, UNCHANGED fields, stage' = "walk", todo' \in Seq(DOMAIN fields),
         next_bit' \in -1 .. RegWidth - 1,
         \A k, l \in DOMAIN todo' : k < l => Msb(fields[todo'[l]]) < fields[todo'[k]].lsb,
         \A k \in DOMAIN todo' : Msb(fields[todo'[k]]) <= next_bit',
         NEW lower, Laid(parts', lower, RegWidth, next_bit' + 1),
         \A i \in DOMAIN fields :
            i \in FieldsIn(parts') <=> (i \notin ToSet(todo') /\ fields[i].sw # "w")
  PROVE  ReadbackInv'
  <1>1. lower \in [0 .. Len(parts') -> Nat] /\ Laid(parts, lower, RegWidth, next_bit + 1)'
    BY DEF Laid, Part
  <1>2. Emitted(ToSet(todo))'
    BY DEF Emitted, FieldsIn, ToSet
  <1>3. (\A k, l \in DOMAIN todo : k < l => Msb(fields[todo[l]]) < fields[todo[k]].lsb)'
    BY DEF Msb
  <1>4. (\A k \in DOMAIN todo : Msb(fields[todo[k]]) <= next_bit)'
    BY DEF Msb
  <1>5. (\A i, j \in DOMAIN fields : i < j => Msb(fields[i]) < fields[j].lsb)'
    BY DEF ReadbackInv, Msb
  <1> QED
    BY <1>1, <1>2, <1>3, <1>4, <1>5 DEF ReadbackInv

LEMMA WalkEnds ==
  ASSUME ReadbackInv, UNCHANGED fields, stage' = "done",
         NEW lower, Laid(parts', lower, DataWidth, 0),
         \A i \in DOMAIN fields : i \in FieldsIn(parts') <=> fields[i].sw # "w"
  PROVE  ReadbackInv'
  <1>1. lower \in [0 .. Len(parts') -> Nat] /\ Laid(parts, lower, DataWidth, 0)'
    BY DEF Laid, Part
  <1>2. Emitted({})'
    BY DEF Emitted, FieldsIn
  <1>3. (\A i, j \in DOMAIN fields : i < j => Msb(fields[i]) < fields[j].lsb)'
    BY DEF ReadbackInv, Msb
  <1> QED
    BY <1>1, <1>2, <1>3 DEF ReadbackInv

LEMMA StartStep == ASSUME ReadbackInv, StartWalk PROVE ReadbackInv'
  <1>1. /\ parts = <<>> /\ next_bit = RegWidth - 1 /\ UNCHANGED <<fields, next_bit>>
        /\ RegWidth \in Nat /\ next_bit \in -1 .. RegWidth - 1 /\ next_bit + 1 = RegWidth
        /\ DataWidth \in Nat
    BY WidthAssumption DEF ReadbackInv, StartWalk
  <1>2. CASE fields = <<>>
    <2>1. stage' = "done" /\ parts' = <<Zeros(DataWidth)>> /\ DOMAIN fields = {}
      BY <1>2 DEF StartWalk
    <2>2. Laid(<<>>, [j \in 0 .. 0 |-> 0], 0, 0)
      BY NothingLaid
    <2>3. \E below : Laid(<<Zeros(DataWidth)>> \o <<>>, below, 0 + DataWidth, 0)
      BY <1>1, <2>2, PadAbove
    <2>4. <<Zeros(DataWidth)>> \o <<>> = parts' /\ 0 + DataWidth = DataWidth
      BY <1>1, <2>1
    <2> QED
      BY <2>1, <2>3, <2>4, <1>1, WalkEnds
  <1>3. CASE fields # <<>>
    <2>1. stage' = "walk" /\ todo' = Descending(fields) /\ parts' = <<>>
      BY <1>1, <1>3 DEF StartWalk
    <2>2. /\ todo' \in Seq(DOMAIN fields) /\ ToSet(todo') = DOMAIN fields
          /\ \A k, l \in DOMAIN todo' : k < l => Msb(fields[todo'[l]]) < fields[todo'[k]].lsb
      BY <2>1, SortedFields
    <2>3. \A k \in DOMAIN todo' : Msb(fields[todo'[k]]) <= next_bit'
      <3> TAKE k \in DOMAIN todo'
      <3>1. todo'[k] \in DOMAIN fields
        BY <2>2
      <3>2. fields[todo'[k]] \in FieldSpec
        BY <3>1 DEF ReadbackInv
      <3> QED
        BY <1>1, <3>2, FieldFits
    <2>4. Laid(parts', [j \in 0 .. 0 |-> RegWidth], RegWidth, next_bit' + 1)
      BY <1>1, <2>1, NothingLaid
    <2>5. FieldsIn(parts') = {}
      BY <2>1, NothingLaid
    <2>6. \A i \in DOMAIN fields :
            i \in FieldsIn(parts') <=> (i \notin ToSet(todo') /\ fields[i].sw # "w")
      BY <2>2, <2>5
    <2> QED
      BY <1>1, <2>1, <2>2, <2>3, <2>4, <2>6, WalkGoesOn
  <1> QED
    BY <1>2, <1>3

(* One field: the hole above it is filled, its own part ends at its LSB.   *)
LEMMA WalkStep == ASSUME ReadbackInv, WalkField PROVE ReadbackInv'
  <1>1. PICK i : i = Head(todo)
    OBVIOUS
  <1>2. PICK f : f = fields[i]
    OBVIOUS
  <1>3. PICK p : p = IF f.sw = "w" THEN Zeros(f.width) ELSE [width |-> f.width, field |-> i]
    OBVIOUS
  <1>4. /\ stage = "walk" /\ stage' = "walk" /\ UNCHANGED fields /\ todo # <<>>
        /\ todo \in Seq(DOMAIN fields) /\ todo' = Tail(todo)
        /\ parts' = parts \o Gap(next_bit - Msb(f)) \o <<p>> /\ next_bit' = f.lsb - 1
    BY <1>1, <1>2, <1>3 DEF WalkField, ReadbackInv
  <1>5. /\ Tail(todo) \in Seq(DOMAIN fields) /\ i \in DOMAIN fields /\ i = todo[1]
        /\ 1 \in DOMAIN todo /\ ToSet(todo) = {i} \cup ToSet(Tail(todo))
        /\ \A k \in DOMAIN Tail(todo) : k + 1 \in DOMAIN todo /\ 1 < k + 1
                                        /\ Tail(todo)[k] = todo[k + 1]
        /\ \A k, l \in DOMAIN Tail(todo) : k < l => k + 1 < l + 1
    BY <1>1, <1>4, DropHead
  <1>6. /\ f \in FieldSpec /\ i \in 1 .. Len(fields)
    BY <1>2, <1>5 DEF ReadbackInv
  <1>7. /\ f.lsb \in Nat /\ f.width \in Nat \ {0} /\ Msb(f) \in Nat
        /\ f.lsb <= Msb(f) /\ Msb(f) < RegWidth /\ Msb(f) + 1 = f.lsb + f.width
    BY <1>6, FieldFits
  <1>8. /\ Msb(f) <= next_bit /\ next_bit \in -1 .. RegWidth - 1
        /\ \E lower \in [0 .. Len(parts) -> Nat] : Laid(parts, lower, RegWidth, next_bit + 1)
        /\ \A k \in DOMAIN Tail(todo) : Msb(fields[Tail(todo)[k]]) < f.lsb
        /\ \A k, l \in DOMAIN Tail(todo) : k < l =>
              Msb(fields[Tail(todo)[l]]) < fields[Tail(todo)[k]].lsb
    BY <1>2, <1>4, <1>5 DEF ReadbackInv
  <1>9. RegWidth \in Nat
    BY WidthAssumption
  <1>10. PICK lower : Laid(parts, lower, RegWidth, next_bit + 1)
    BY <1>8
  <1> DEFINE gap == next_bit - Msb(f)
             filled == parts \o Gap(gap)
  <1>11. gap \in Nat /\ Msb(f) + 1 \in Nat /\ next_bit + 1 = (Msb(f) + 1) + gap
    BY <1>7, <1>8, <1>9
  <1> HIDE DEF gap
  <1>12. /\ filled \in Seq(Part) /\ \E below : Laid(filled, below, RegWidth, Msb(f) + 1)
         /\ FieldsIn(filled) \ {0} = FieldsIn(parts) \ {0}
    BY <1>10, <1>11, GapBelow
  <1> HIDE DEF filled
  <1>13. PICK below : Laid(filled, below, RegWidth, Msb(f) + 1)
    BY <1>12
  <1>14. parts' = Append(filled, p)
    BY <1>4, <1>12 DEF gap, filled
  <1>15. /\ p \in Part /\ p.width = f.width
         /\ p.field = IF f.sw = "w" THEN 0 ELSE i
    <2>1. 0 \in 0 .. Len(fields) /\ i \in 0 .. Len(fields)
      BY <1>6
    <2> QED
      BY <1>3, <1>7, <2>1 DEF Part, Zeros
  <1>16. i \notin FieldsIn(parts) /\ i # 0
    BY <1>4, <1>5, <1>6 DEF ReadbackInv, Emitted
  <1>17. /\ \E down : Laid(Append(filled, p), down, RegWidth, f.lsb)
         /\ FieldsIn(Append(filled, p)) = FieldsIn(filled) \cup {p.field}
    <2>1. p.field # 0 => /\ fields[p.field].sw # "w" /\ fields[p.field].width = p.width
                         /\ fields[p.field].lsb = f.lsb /\ p.field \notin FieldsIn(filled)
      BY <1>2, <1>12, <1>15, <1>16
    <2>2. Msb(f) + 1 = f.lsb + p.width
      BY <1>7, <1>15
    <2> QED
      BY <1>7, <1>13, <1>15, <2>1, <2>2, LayBelow
  <1>18. next_bit' + 1 = f.lsb /\ next_bit' \in -1 .. RegWidth - 1
    BY <1>4, <1>7, <1>9
  <1>19. \A k \in DOMAIN todo' : Msb(fields[todo'[k]]) <= next_bit'
    <2> TAKE k \in DOMAIN todo'
    <2>0. \A j \in DOMAIN fields : fields[j] \in FieldSpec
      BY DEF ReadbackInv
    <2>1. Tail(todo)[k] \in DOMAIN fields
      BY <1>4, <1>5
    <2>2. fields[Tail(todo)[k]] \in FieldSpec
      BY <2>0, <2>1
    <2>3. Msb(fields[Tail(todo)[k]]) \in Nat /\ Msb(fields[Tail(todo)[k]]) < f.lsb
      BY <1>4, <1>8, <2>2, FieldFits
    <2> QED
      BY <1>4, <1>7, <2>3
  <1>20. \A j \in DOMAIN fields :
           j \in FieldsIn(parts') <=> (j \notin ToSet(todo') /\ fields[j].sw # "w")
    <2>1. i \notin ToSet(Tail(todo))
      <3> SUFFICES ASSUME NEW k \in DOMAIN Tail(todo), Tail(todo)[k] = i PROVE FALSE
        BY DEF ToSet
      <3>1. Msb(f) < f.lsb
        BY <1>2, <1>8
      <3> QED
        BY <1>7, <3>1
    <2>2. FieldsIn(parts') \ {0} =
            (FieldsIn(parts) \cup (IF f.sw = "w" THEN {} ELSE {i})) \ {0}
      BY <1>12, <1>14, <1>15, <1>17
    <2>3. \A j \in DOMAIN fields :
            j \in FieldsIn(parts) <=> (j \notin ToSet(todo) /\ fields[j].sw # "w")
      BY <1>4 DEF ReadbackInv, Emitted
    <2>4. \A j \in DOMAIN fields : j # 0
      BY DEF ReadbackInv
    <2> QED
      BY <1>2, <1>4, <1>5, <2>1, <2>2, <2>3, <2>4
  <1>21. PICK down : Laid(parts', down, RegWidth, next_bit' + 1)
    BY <1>14, <1>17, <1>18
  <1>22. todo' \in Seq(DOMAIN fields)
         /\ \A k, l \in DOMAIN todo' : k < l => Msb(fields[todo'[l]]) < fields[todo'[k]].lsb
    BY <1>4, <1>5, <1>8
  <1> QED
    BY <1>4, <1>18, <1>19, <1>20, <1>21, <1>22, WalkGoesOn

(* The hole below the last field, and the padding above the register.      *)
LEMMA FinishStep == ASSUME ReadbackInv, FinishWalk PROVE ReadbackInv'
  <1>1. /\ stage = "walk" /\ todo = <<>> /\ stage' = "done" /\ UNCHANGED fields
        /\ parts' = Gap(DataWidth - RegWidth) \o parts \o Gap(next_bit + 1)
    BY DEF FinishWalk
  <1>2. /\ next_bit + 1 \in Nat /\ DataWidth - RegWidth \in Nat
        /\ RegWidth + (DataWidth - RegWidth) = DataWidth
        /\ next_bit + 1 = 0 + (next_bit + 1)
    BY <1>1, WidthAssumption DEF ReadbackInv
  <1>3. PICK lower : Laid(parts, lower, RegWidth, next_bit + 1)
    BY <1>1 DEF ReadbackInv
  <1> DEFINE padded == Gap(DataWidth - RegWidth) \o parts
  <1>4. /\ padded \in Seq(Part)
        /\ \E l : Laid(padded, l, RegWidth + (DataWidth - RegWidth), next_bit + 1)
        /\ FieldsIn(padded) \ {0} = FieldsIn(parts) \ {0}
    BY <1>2, <1>3, GapAbove
  <1> HIDE DEF padded
  <1>5. PICK l : Laid(padded, l, DataWidth, next_bit + 1)
    BY <1>2, <1>4
  <1>6. /\ \E m : Laid(padded \o Gap(next_bit + 1), m, DataWidth, 0)
        /\ FieldsIn(padded \o Gap(next_bit + 1)) \ {0} = FieldsIn(padded) \ {0}
    BY <1>2, <1>5, GapBelow
  <1>7. parts' = padded \o Gap(next_bit + 1)
    BY <1>1 DEF padded
  <1>8. \A i \in DOMAIN fields : i \in FieldsIn(parts') <=> fields[i].sw # "w"
    <2>1. \A i \in DOMAIN fields : i # 0
      BY DEF ReadbackInv
    <2>2. \A i \in DOMAIN fields : i \in FieldsIn(parts) <=> fields[i].sw # "w"
      BY <1>1 DEF ReadbackInv, Emitted, ToSet
    <2> QED
      BY <1>4, <1>6, <1>7, <2>1, <2>2
  <1> QED
    BY <1>1, <1>6, <1>7, <1>8, WalkEnds

LEMMA StutterStep == ASSUME ReadbackInv, UNCHANGED vars PROVE ReadbackInv'
  <1>1. /\ \A s, l, top, bottom : Laid(s, l, top, bottom)' <=> Laid(s, l, top, bottom)
        /\ \A s : FieldsIn(s)' = FieldsIn(s)
    BY LaidKept DEF vars
  <1> QED
    BY <1>1 DEF vars, ReadbackInv, Emitted, Msb, ToSet

THEOREM ReadbackInductive == ASSUME ~AllowOverlap PROVE Spec => []ReadbackInv
  <1>1. ReadbackInv /\ [Next]_vars => ReadbackInv'
    BY ScanStep, StartStep, WalkStep, FinishStep, StutterStep DEF Next
  <1> QED
    BY <1>1, InitReadback, PTL DEF Spec

-----------------------------------------------------------------------------
(* Where the parts lie says how wide the concatenation is.                 *)
LEMMA BelowIsLower ==
  ASSUME NEW lower, NEW top, Laid(parts, lower, top, 0) PROVE Below = lower
  <1> DEFINE n == Len(parts)
             D == 0 .. n
             Rec(g) == g = [j \in D |-> IF j = n THEN 0 ELSE g[j + 1] + parts[j + 1].width]
  <1>1. /\ n \in Nat /\ lower \in [D -> Nat] /\ lower[n] = 0
        /\ \A j \in D : j # n => j + 1 \in D /\ lower[j] = lower[j + 1] + parts[j + 1].width
    <2>1. /\ parts \in Seq(Part) /\ DOMAIN parts = 1 .. n /\ n \in Nat
          /\ lower \in [D -> Nat] /\ lower[n] = 0
          /\ \A j \in 1 .. n : lower[j - 1] = lower[j] + parts[j].width
      BY DEF Laid
    <2>2. n \in Nat
      BY <2>1
    <2> HIDE DEF n
    <2>3. \A j \in 0 .. n : j # n => j + 1 \in 1 .. n /\ j + 1 \in 0 .. n /\ (j + 1) - 1 = j
      BY <2>2
    <2>4. ASSUME NEW j \in 0 .. n, j # n PROVE lower[j] = lower[j + 1] + parts[j + 1].width
      <3>1. lower[(j + 1) - 1] = lower[j + 1] + parts[j + 1].width
        BY <2>1, <2>3, <2>4
      <3> QED
        BY <2>3, <2>4, <3>1
    <2> QED
      BY <2>1, <2>3, <2>4
  <1>2. Rec(lower)
    BY <1>1
  <1>3. Rec(Below)
    BY <1>2 DEF Below
  <1>4. ASSUME NEW g, Rec(g) PROVE \A i \in 0 .. n : g[n - i] = lower[n - i]
    <2> DEFINE T == {i \in 0 .. n : g[n - i] # lower[n - i]}
    <2> SUFFICES ASSUME T # {} PROVE FALSE
      OBVIOUS
    <2>0. T \in SUBSET Nat
      BY <1>1
    <2>1. PICK i \in T : \A m \in T : i <= m
      BY <2>0, LeastNumber
    <2>2. i # 0
      BY <1>1, <1>4
    <2>3. /\ i - 1 \in 0 .. n /\ ~(i <= i - 1) /\ n - i \in D /\ n - i # n
          /\ (n - i) + 1 = n - (i - 1)
      BY <1>1, <2>1, <2>2
    <2>4. g[n - (i - 1)] = lower[n - (i - 1)]
      BY <2>1, <2>3
    <2>5. g[n - i] = g[(n - i) + 1] + parts[(n - i) + 1].width
      BY <1>4, <2>3
    <2>6. lower[n - i] = lower[(n - i) + 1] + parts[(n - i) + 1].width
      BY <1>1, <2>3
    <2>7. g[n - i] = lower[n - i]
      BY <2>3, <2>4, <2>5, <2>6
    <2> QED
      BY <2>1, <2>7
  <1>5. \A j \in D : n - j \in 0 .. n /\ n - (n - j) = j
    BY <1>1
  <1>6. \A j \in D : Below[j] = lower[j]
    <2>1. \A i \in 0 .. n : Below[n - i] = lower[n - i]
      BY <1>3, <1>4
    <2> TAKE j \in D
    <2>2. Below[n - (n - j)] = lower[n - (n - j)]
      BY <1>5, <2>1
    <2> QED
      BY <1>5, <2>2
  <1>7. Below = [j \in D |-> Below[j]] /\ lower = [j \in D |-> lower[j]]
    BY <1>1, <1>3
  <1> QED
    BY <1>6, <1>7

(* The readback value is as wide as the data bus (emit_field_logic.py:107, *)
(* "Pads to data_width with zeros").                                       *)
THEOREM BusFilled == ASSUME ~AllowOverlap PROVE Spec => []FillsBus
  <1>1. ReadbackInv => FillsBus
    <2> SUFFICES ASSUME ReadbackInv, stage = "done" PROVE Below[0] = DataWidth
      BY DEF FillsBus
    <2>1. PICK lower : Laid(parts, lower, DataWidth, 0)
      BY DEF ReadbackInv
    <2> QED
      BY <2>1, BelowIsLower DEF Laid
  <1> QED
    BY <1>1, ReadbackInductive, PTL

(* Each readable field appears once and at its own bits of the bus word,   *)
(* and no other field appears (emit_field_logic.py:111-133).               *)
THEOREM EveryFieldInPlace == ASSUME ~AllowOverlap PROVE Spec => []FieldsInPlace
  <1>1. ReadbackInv => FieldsInPlace
    <2> SUFFICES ASSUME ReadbackInv, stage = "done", NEW i \in DOMAIN fields
                 PROVE  LET at == {j \in DOMAIN parts : parts[j].field = i}
                        IN  IF fields[i].sw = "w" THEN at = {}
                            ELSE \E j \in at : /\ at = {j}
                                               /\ parts[j].width = fields[i].width
                                               /\ Below[j] = fields[i].lsb
      BY DEF FieldsInPlace
    <2> DEFINE at == {j \in DOMAIN parts : parts[j].field = i}
    <2>1. PICK lower : Laid(parts, lower, DataWidth, 0)
      BY DEF ReadbackInv
    <2>2. i # 0 /\ (i \in FieldsIn(parts) <=> fields[i].sw # "w")
      BY DEF ReadbackInv, Emitted
    <2>3. CASE fields[i].sw = "w"
      BY <2>2, <2>3 DEF FieldsIn
    <2>4. CASE fields[i].sw # "w"
      <3>1. PICK j \in DOMAIN parts : parts[j].field = i
        BY <2>2, <2>4 DEF FieldsIn
      <3>2. at = {j}
        BY <2>1, <2>2, <3>1 DEF Laid
      <3>3. parts[j].width = fields[i].width /\ Below[j] = fields[i].lsb
        BY <2>1, <2>2, <3>1, BelowIsLower DEF Laid
      <3> QED
        BY <2>4, <3>1, <3>2, <3>3
    <2> QED
      BY <2>3, <2>4
  <1> QED
    BY <1>1, ReadbackInductive, PTL
=============================================================================
