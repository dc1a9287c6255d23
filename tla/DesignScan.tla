------------------------------ MODULE DesignScan ------------------------------
(***************************************************************************)
(* scan() (scan_design.py) on an elaborated RDL tree: it walks nested      *)
(* regfiles, flattens them into a list of registers with absolute          *)
(* addresses and generated names (dereferencer.py, identifier_filter.py),  *)
(* and derives the width of the address port. The tree is declared node by *)
(* node first, as an RDL source would be.                                  *)
(*                                                                         *)
(* A name is a sequence of tokens: words (runs of lower-case letters),     *)
(* digits and "_"; no two sequences that are built here read the same.     *)
(* What the conversions do to a name decides whether names stay apart.     *)
(***************************************************************************)
EXTENDS SequencesExt, Integers, FiniteSets

CONSTANTS
  InstNames,    \* instance names the RDL source uses, for registers and regfiles
  Keywords,     \* the names among them that ARCH reserves (ARCH_KEYWORDS)
  FieldNames,   \* the fields of every register
  Offsets,      \* offsets of children in their parent, in bytes
  Sizes,        \* sizes of registers, in bytes
  Counts,       \* elements of register arrays
  Strides,      \* distances of their elements, in bytes
  Overrides,    \* values of the addr_width argument, besides None
  MaxNodes,     \* bound: registers and regfiles of the tree
  None

(* What the elements of arrays are numbered with.                          *)
Digit == {ToString(d) : d \in 0 .. 9}

ASSUME ScanAssumption ==
  /\ InstNames \cup FieldNames \subseteq Seq(STRING)
  /\ Offsets \subseteq Nat /\ Overrides \subseteq Int /\ MaxNodes \in Nat
  /\ Sizes \cup Counts \cup Strides \subseteq Nat \ {0} /\ None \notin Counts
  /\ \A c, d \in 0 .. 9 : ToString(c) = ToString(d) => c = d
  /\ Digit \subseteq STRING \ {"_"}

VARIABLES
  tree,        \* the nodes, each after its parent; node 0 is the addrmap
  todo,        \* _walk_regs: nodes its iterators have still to yield, in order
  regs,        \* the nodes scanned so far: one RegModel each, in order
  override,    \* the addr_width argument, or None
  addr_width,  \* the width of the address port, or None before it is known
  step         \* "waiting" for its arguments, "declare", "walk", "width", or how
               \* it ended: "compile error", "rejected", "done"

scanVars == <<tree, todo, regs, override, addr_width, step>>

(* A node: a register of `bytes` bytes, alone or an array of `count` of    *)
(* them `stride` bytes apart, or a regfile (bytes = 0).                    *)
RegNode(p, name, offset, bytes, count, stride) ==
  [parent |-> p, inst_name |-> name, offset |-> offset, bytes |-> bytes,
   array_count |-> count, array_stride |-> stride]

Node        == 1 .. Len(tree)
IsReg(n)    == tree[n].bytes > 0

(* The children of a node by address, the order elaboration leaves them in.*)
Before(n, k) == tree[n].offset < tree[k].offset \/ (tree[n].offset = tree[k].offset /\ n < k)

Enumerates(s, S) == ToSet(s) = S /\ \A i, j \in DOMAIN s : i < j => Before(s[i], s[j])

Children(n) ==
  LET inside == {k \in Node : tree[k].parent = n}
  IN  CHOOSE s \in BoundedSeq(inside, Len(tree)) : Enumerates(s, inside)

(* Bytes a node takes in its parent; a regfile reaches to its last child.  *)
Span[n \in Node] ==
  IF ~IsReg(n)
  THEN LET ends == {tree[k].offset + Span[k] : k \in {j \in Node : tree[j].parent = n}}
       IN  IF ends = {} THEN 0 ELSE CHOOSE e \in ends : \A x \in ends : x <= e
  ELSE IF tree[n].array_count = None THEN tree[n].bytes
  ELSE (tree[n].array_count - 1) * tree[n].array_stride + tree[n].bytes

(* What elaboration guarantees: no empty regfile, array elements that do   *)
(* not overlap, and, of siblings only, other names and no overlap.         *)
Elaborated ==
  /\ \A n \in Node : IsReg(n) \/ \E k \in Node : tree[k].parent = n
  /\ \A n \in Node : tree[n].array_count # None => tree[n].array_stride >= tree[n].bytes
  /\ \A n, k \in Node : (n # k /\ tree[n].parent = tree[k].parent) =>
       /\ tree[n].inst_name # tree[k].inst_name
       /\ \/ tree[n].offset + Span[n] <= tree[k].offset
          \/ tree[k].offset + Span[k] <= tree[n].offset

ScanInit ==
  /\ tree = <<>> /\ todo = <<>> /\ regs = <<>>
  /\ override = None /\ addr_width = None
  /\ step = "waiting"

(* The compiler is called, with what scan() will be told about the width.  *)
Begin(value) ==
  /\ step = "waiting"
  /\ override' = value /\ step' = "declare"
  /\ UNCHANGED <<tree, todo, regs, addr_width>>

Declare ==
  /\ step = "declare" /\ Len(tree) < MaxNodes
  /\ \E p \in {0} \cup {n \in Node : ~IsReg(n)}, name \in InstNames, offset \in Offsets, stride \in Strides :
       \/ tree' = Append(tree, RegNode(p, name, offset, 0, None, stride))
       \/ \E bytes \in Sizes, count \in {None} \cup Counts :
            tree' = Append(tree, RegNode(p, name, offset, bytes, count, stride))
  /\ UNCHANGED <<todo, regs, override, addr_width, step>>

(* The compiler stops with an error, or scan() is called on the tree.      *)
CompileError ==
  /\ step = "declare" /\ ~Elaborated
  /\ step' = "compile error"
  /\ UNCHANGED <<tree, todo, regs, override, addr_width>>

StartWalk ==
  /\ step = "declare" /\ tree # <<>> /\ Elaborated
  /\ step' = "walk" /\ todo' = Children(0)
  /\ UNCHANGED <<tree, regs, override, addr_width>>

-----------------------------------------------------------------------------
(* Mutant of WalkNode: the walk does not enter regfiles.                   *)
WalkNodeFlat ==
  /\ step = "walk" /\ todo # <<>>
  /\ todo' = Tail(todo)
  /\ regs' = IF IsReg(Head(todo)) THEN Append(regs, Head(todo)) ELSE regs
  /\ UNCHANGED <<tree, override, addr_width, step>>

(* _walk_regs: a register is yielded and scanned, a regfile entered.       *)
WalkNode ==
  /\ step = "walk" /\ todo # <<>>
  /\ IF IsReg(Head(todo))
     THEN regs' = Append(regs, Head(todo)) /\ todo' = Tail(todo)
     ELSE todo' = Children(Head(todo)) \o Tail(todo) /\ UNCHANGED regs
  /\ UNCHANGED <<tree, override, addr_width, step>>

EndWalk ==
  /\ step = "walk" /\ todo = <<>>
  /\ step' = "width"
  /\ UNCHANGED <<tree, todo, regs, override, addr_width>>

(* The base address of a register and the addresses of its elements.       *)
AbsoluteAddress[n \in 0 .. Len(tree)] ==
  IF n = 0 THEN 0 ELSE AbsoluteAddress[tree[n].parent] + tree[n].offset

Elements(r) == IF tree[r].array_count = None THEN {0} ELSE 0 .. tree[r].array_count - 1

ElementAddress(r, i) == AbsoluteAddress[r] + i * tree[r].array_stride

Element == UNION {{r} \X Elements(r) : r \in ToSet(regs)}

(* int.bit_length, and the derivation from the last byte of any element.   *)
Pow2[n \in Nat] == IF n = 0 THEN 1 ELSE 2 * Pow2[n - 1]

BitLength(n) == CHOOSE w \in 0 .. n : n < Pow2[w] /\ \A v \in 0 .. w - 1 : n >= Pow2[v]

LastBytes == {0} \cup {ElementAddress(e[1], e[2]) + tree[e[1]].bytes - 1 : e \in Element}

(* Mutant of DerivedWidth: it counts the addresses of first elements only. *)
DerivedWidthOfBases ==
  LET bases == {0} \cup {AbsoluteAddress[r] : r \in ToSet(regs)}
      w == BitLength(CHOOSE a \in bases : \A b \in bases : b <= a)
  IN  IF w < 1 THEN 1 ELSE w

DerivedWidth ==
  LET w == BitLength(CHOOSE a \in LastBytes : \A b \in LastBytes : b <= a)
  IN  IF w < 1 THEN 1 ELSE w

SetWidth ==
  /\ step = "width"
  /\ IF override # None /\ override < 1
     THEN step' = "rejected" /\ UNCHANGED addr_width
     ELSE step' = "done" /\ addr_width' = IF override = None THEN DerivedWidth ELSE override
  /\ UNCHANGED <<tree, todo, regs, override>>

ScanNext == Declare \/ CompileError \/ StartWalk \/ WalkNode \/ EndWalk \/ SetWidth

-----------------------------------------------------------------------------
(* filter_identifier, flat_path and the names made from it.                *)
Filter(name) == IF name \in Keywords THEN Append(name, "_") ELSE name

OwnName(n) == Filter(tree[n].inst_name)

(* Mutant of FlatPath: the name of the register without its path.          *)
FlatPathShort(n) == OwnName(n)

Path[n \in Node] ==
  IF tree[n].parent = 0 THEN OwnName(n) ELSE Path[tree[n].parent] \o <<"_">> \o OwnName(n)

FlatPath(n) == Path[n]

StateName(n) == FlatPath(n) \o <<"_", "r">>

(* _camel: the "_" go, and a word after one begins with a capital.         *)
Camel(name) ==
  LET capital(k) == (k = 1 \/ name[k - 1] = "_") /\ name[k] \notin Digit
      upTo[k \in 0 .. Len(name)] ==
        IF k = 0 THEN <<>>
        ELSE IF name[k] = "_" THEN upTo[k - 1]
        ELSE Append(upTo[k - 1], <<name[k], capital(k)>>)
  IN  upTo[Len(name)]

(* The index of an element, digit by digit; it is put behind a variant, and*)
(* into a member between the path and the field.                           *)
Decimal[i \in Nat] ==
  IF i < 10 THEN <<ToString(i)>> ELSE Append(Decimal[i \div 10], ToString(i % 10))

Index(n, i) == IF tree[n].array_count = None THEN <<>> ELSE Decimal[i]

VariantEnd(n, i) == [k \in DOMAIN Index(n, i) |-> <<Index(n, i)[k], FALSE>>]

EnumVariant(n, i) == Camel(FlatPath(n)) \o VariantEnd(n, i)

MemberEnd(n, i, f) ==
  (IF tree[n].array_count = None THEN <<>> ELSE <<"_">> \o Index(n, i)) \o <<"_">> \o Filter(f)

HwifMember(n, i, f) == FlatPath(n) \o MemberEnd(n, i, f)

-----------------------------------------------------------------------------
(* Every register of the tree, at whatever depth, is in the design exactly *)
(* once.                                                                   *)
EveryRegisterScanned ==
  step \in {"width", "done"} =>
     /\ IsInjective(regs)
     /\ ToSet(regs) = {n \in Node : IsReg(n)}

(* The derived width, and any override not below it, keeps every address   *)
(* literal of the decoder whole, and no two elements share one, although   *)
(* only siblings were checked for overlap (scan_design.py:131-138).        *)
AddressesDecode ==
  (step = "done" /\ (override = None \/ override >= DerivedWidth)) =>
     \A e, d \in Element :
        /\ ElementAddress(e[1], e[2]) + tree[e[1]].bytes <= Pow2[addr_width]
        /\ (ElementAddress(e[1], e[2]) - ElementAddress(d[1], d[2])) % Pow2[addr_width] = 0 => e = d

(* The names a node would give at the top of the design; of a regfile, what*)
(* the names of all that lies in it begin with.                            *)
OwnStates(n) == {OwnName(n) \o (IF IsReg(n) THEN <<"_", "r">> ELSE <<"_">>)}

OwnVariants(n) ==
  IF IsReg(n) THEN {Camel(OwnName(n)) \o VariantEnd(n, i) : i \in Elements(n)}
  ELSE {Camel(OwnName(n))}

OwnMembers(n) ==
  IF IsReg(n) THEN {OwnName(n) \o MemberEnd(n, x[1], x[2]) : x \in Elements(n) \X FieldNames}
  ELSE {OwnName(n) \o <<"_">>}

(* Siblings are apart in these: two registers give different names, and no *)
(* name of a sibling continues a regfile's (ch_en does so beside ch).      *)
SiblingNamesApart(Own(_)) ==
  \A n, k \in Node : (n # k /\ tree[n].parent = tree[k].parent) =>
     \A s \in Own(n), t \in Own(k) : IF IsReg(n) THEN s # t ELSE ~IsPrefix(s, t)

(* Flattening brings no collision of its own: where siblings are apart, at *)
(* every level of the tree, so are the generated names at all levels. Two  *)
(* registers then share no state variable, two elements no enum variant,   *)
(* two fields no member of hwif_in or hwif_out ("the path prefix is        *)
(* preserved in generated identifiers", README.md).                        *)
FlatteningKeepsApart ==
  step = "done" =>
     /\ SiblingNamesApart(OwnStates) =>
          \A r, q \in ToSet(regs) : StateName(r) = StateName(q) => r = q
     /\ SiblingNamesApart(OwnVariants) =>
          \A e, d \in Element : EnumVariant(e[1], e[2]) = EnumVariant(d[1], d[2]) => e = d
     /\ (SiblingNamesApart(OwnMembers) /\ \A f, g \in FieldNames : Filter(f) = Filter(g) => f = g) =>
          \A e, d \in Element, f, g \in FieldNames :
             HwifMember(e[1], e[2], f) = HwifMember(d[1], d[2], g) => e = d /\ f = g

(* "CSR address enum - one variant per address-decoded entry. Arrays expand*)
(* to N variants (Ch0, Ch1, ...)" (emit_package.py:12-13), whatever legal  *)
(* names the registers have.                                               *)
OneVariantPerEntry ==
  step = "done" =>
     \A e, d \in Element : EnumVariant(e[1], e[2]) = EnumVariant(d[1], d[2]) => e = d

(* The inductive invariant of the scan. V is what the walk has visited: it *)
(* holds the parent of each node visited or waiting, every top-level node  *)
(* and every child of a visited regfile is visited or waiting, and the     *)
(* registers visited are those in the list, each once.                     *)
NodeRec == [parent : Nat, inst_name : InstNames, offset : Offsets, bytes : {0} \cup Sizes,
            array_count : {None} \cup Counts, array_stride : Strides]

TreeGrown ==
  /\ tree \in Seq(NodeRec)
  /\ \A n \in Node : /\ tree[n].parent < n
                     /\ tree[n].parent # 0 => ~IsReg(tree[n].parent)

WalkedTo(V) ==
  /\ V \cap ToSet(todo) = {}
  /\ \A n \in V \cup ToSet(todo) : tree[n].parent \in V \cup {0}
  /\ \A n \in Node : tree[n].parent \in V \cup {0} => n \in V \cup ToSet(todo)
  /\ ToSet(regs) = {n \in V : IsReg(n)}

ScanInv ==
  /\ TreeGrown
  /\ todo \in Seq(Node) /\ IsInjective(todo)
  /\ regs \in Seq(Node) /\ IsInjective(regs)
  /\ step \in {"waiting", "declare"} => todo = <<>> /\ regs = <<>>
  /\ step = "walk" => \E V \in SUBSET Node : WalkedTo(V)
  /\ EveryRegisterScanned

(* What the addresses rest on besides.                                     *)
WidthInv ==
  /\ override \in {None} \cup Overrides
  /\ step \in {"walk", "width", "done"} => Elaborated
  /\ step = "done" => addr_width = IF override = None THEN DerivedWidth ELSE override
=============================================================================
