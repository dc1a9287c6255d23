-------------------------- MODULE Generator_proofs --------------------------
(***************************************************************************)
(* The parts of main(), proved of the whole program. The lookup, for every *)
(* depth of the working directory and every content of the files: the      *)
(* nearest file is loaded, everything it says takes effect, and a flag     *)
(* always wins. The scan, for every tree: every register is found, once,   *)
(* each address fits the address port and is that of one element, and the  *)
(* names made from paths stay apart wherever those of siblings do.         *)
(* The directory that exports write to: an export that is rejected changes *)
(* no file and, for every set of designs whose file names stay apart, one  *)
(* that returns leaves its two files whole and no other touched, and the   *)
(* two files of a design fit each other unless an export of them was       *)
(* interrupted and not repeated.                                           *)
(***************************************************************************)
EXTENDS Generator, FiniteSetTheorems, TLAPS, WellFoundedInduction

-----------------------------------------------------------------------------
(* The lookup of the configuration.                                        *)

LEMMA LookupInitInv == LookupInit => LookupInv
  BY LookupAssumption DEF LookupInit, LookupInv, LookupType

(* Steps that leave the files and the command line alone keep what is      *)
(* enclosing, what a knob resolves to, and what is malformed.              *)
LEMMA StartSteps ==
  ASSUME LookupInv, SkipConfig \/ TakeExplicit \/ StartDiscovery PROVE LookupInv'
  <1> USE DEF LookupInv, given
  <1>1. CASE SkipConfig
    BY <1>1 DEF SkipConfig, LookupType, Discovery
  <1>2. CASE TakeExplicit
    BY <1>2, LookupAssumption
    DEF TakeExplicit, LookupType, Discovery, Place, Command
  <1>3. CASE StartDiscovery
    BY <1>3 DEF StartDiscovery, LookupType, Discovery, Enclosing
  <1> QED
    BY <1>1, <1>2, <1>3

(* One directory of the walk: it holds the nearest file, or the walk goes  *)
(* on to its parent, or there is none.                                     *)
LEMMA WalkStep == ASSUME LookupInv, Walk PROVE LookupInv'
  <1> USE DEF LookupInv, given, Walk
  <1>1. /\ \A d \in Enclosing : d <= cur
        /\ cur \in 0 .. cwd /\ cwd \in 0 .. MaxDepth /\ MaxDepth \in Nat
        /\ Enclosing' = Enclosing /\ source_path = Unset /\ Discovery
    BY LookupAssumption DEF LookupType, Enclosing
  <1>2. CASE tomls[cur] # Unset /\ phase' = "open" /\ source_path' = cur /\ UNCHANGED cur
    <2>1. cur \in Enclosing
      BY <1>1, <1>2 DEF Enclosing
    <2>2. NearestFound'
      BY <1>1, <1>2, <2>1 DEF NearestFound
    <2>3. LookupType' /\ source_path' # Unset /\ tomls' = tomls
      BY <1>1, <1>2, LookupAssumption DEF LookupType, Place
    <2> QED
      BY <1>2, <2>2, <2>3
  <1>3. CASE tomls[cur] = Unset /\ cur > 0 /\ cur' = cur - 1 /\ UNCHANGED <<phase, source_path>>
    <2>1. \A d \in Enclosing : d <= cur - 1
      BY <1>1, <1>3 DEF Enclosing
    <2>2. LookupType' /\ Discovery'
      BY <1>1, <1>3 DEF LookupType, Discovery
    <2> QED
      BY <1>1, <1>3, <2>1, <2>2
  <1>4. CASE tomls[cur] = Unset /\ cur = 0 /\ phase' = "resolve" /\ UNCHANGED <<cur, source_path>>
    <2>1. Enclosing = {}
      BY <1>1, <1>4 DEF Enclosing
    <2>2. LookupType' /\ NearestFound'
      BY <1>1, <1>4, <2>1 DEF LookupType, NearestFound
    <2> QED
      BY <1>1, <1>4, <2>2
  <1> QED
    BY <1>2, <1>3, <1>4

LEMMA OpenFileStep == ASSUME LookupInv, OpenFile PROVE LookupInv'
  <1> USE DEF LookupInv, given, OpenFile
  <1>1. LookupType' /\ Discovery' = Discovery /\ NearestFound' = NearestFound
    BY DEF LookupType, Discovery, NearestFound, Enclosing
  <1> QED
    BY <1>1

LEMMA ResolveStep == ASSUME LookupInv, ResolveKnobs PROVE LookupInv'
  <1> USE DEF LookupInv, given, ResolveKnobs
  <1>1. LookupType' /\ Discovery' = Discovery /\ NearestFound' = NearestFound
    BY DEF LookupType, Discovery, NearestFound, Enclosing
  <1>2. \A k \in Knob : Resolve(k)' = Resolve(k)
    BY DEF Resolve, CfgValue, FromFile, cpuif_token
  <1>3. knobs' = [k \in Knob |-> Resolve(k)']
    BY <1>2
  <1> QED
    BY <1>1, <1>3

LEMMA StutterStep == ASSUME LookupInv, UNCHANGED lookupVars PROVE LookupInv'
  <1> USE DEF LookupInv, lookupVars, given
  <1>1. /\ LookupType' = LookupType /\ Discovery' = Discovery /\ NearestFound' = NearestFound
        /\ Enclosing' = Enclosing
    BY DEF LookupType, Discovery, NearestFound, Enclosing
  <1>2. \A k \in Knob : Resolve(k)' = Resolve(k)
    BY DEF Resolve, CfgValue, FromFile, cpuif_token
  <1>3. phase = "compile" => knobs' = [k \in Knob |-> Resolve(k)']
    BY <1>2
  <1> QED
    BY <1>1, <1>3

(* The lookup that is over has nothing to say about a file.                *)
LEMMA LookupLeftInv == ASSUME LookupInv, LookupLeft PROVE LookupInv'
  <1>1. Command # {}
    BY DEF LookupInv, LookupType
  <1>2. args' \in Command
    BY <1>1 DEF LookupLeft
  <1>3. tomls' \in [Place -> Contents \cup {Unset}]
    BY DEF LookupLeft
  <1>4. LookupType'
    <2>1. cwd' \in 0 .. MaxDepth /\ cur' \in 0 .. cwd'
      BY LookupAssumption DEF LookupLeft
    <2>2. env_no_config' \in BOOLEAN /\ source_path' \in Place \cup {Unset}
      BY DEF LookupLeft
    <2> QED
      BY <1>2, <1>3, <2>1, <2>2 DEF LookupType
  <1> QED
    BY <1>4 DEF LookupLeft, LookupInv

(* The lookup's invariant holds throughout main().                         *)
LEMMA LookupInductive == GenSpec => []LookupInv
  <1>1. LookupInv /\ [GenNext]_genVars => LookupInv'
    <2> SUFFICES ASSUME LookupInv, [GenNext]_genVars PROVE LookupInv'
      OBVIOUS
    <2>1. LookupNext => LookupInv'
      BY StartSteps, WalkStep, OpenFileStep, ResolveStep DEF LookupNext
    <2>2. UNCHANGED lookupVars => LookupInv'
      BY StutterStep
    <2> QED
      BY <2>1, <2>2, LookupLeftInv
      DEF GenNext, genVars, Lookup, CallCompiler, CompileAndScan, CallExporter, Exporter, Done
  <1> QED
    BY <1>1, LookupInitInv, PTL DEF GenSpec, GenInit

(* Discovery loads the file of the nearest enclosing directory, the root   *)
(* included (find_config_file, config.py:112-130).                         *)
THEOREM NearestLoaded == GenSpec => []NearestFileLoaded
  <1>1. LookupInv => NearestFileLoaded
    BY DEF LookupInv, NearestFileLoaded, NearestFound, Discovery
  <1> QED
    BY <1>1, LookupInductive, PTL

(* The configuration that was opened is one of the files that may be there *)
(* and the section of the selected cpuif is the one of a known token.      *)
LEMMA Loaded ==
  ASSUME LookupInv, phase = "compile", source_path # Unset
  PROVE  /\ tomls[source_path] \in Contents /\ ~Malformed(tomls[source_path])
         /\ cpuif_token \in CpuifToken
         /\ \A k \in Knob : knobs[k] = Resolve(k)
  BY DEF LookupInv, LookupType, Command, cpuif_token, CpuifToken

(* A key of the table that belongs to a knob gives the knob its value.     *)
LEMMA KeyCounts ==
  ASSUME LookupInv, phase = "compile", source_path # Unset, NEW k \in Knob,
         NEW s \in DOMAIN tomls[source_path].tables, k \in DOMAIN tomls[source_path].tables[s],
         s = IF k \in GlobalKey THEN "rdl2arch" ELSE CpuifSection(cpuif_token)
  PROVE  knobs[k] \in {"flag", "file"}
  <1>1. CfgValue(k) = tomls[source_path].tables[s][k]
    BY DEF CfgValue, FromFile, Table
  <1>2. CfgValue(k) # Unset
    BY <1>1, Loaded, LookupAssumption
  <1> QED
    BY <1>2, Loaded DEF Resolve

(* What the file that is loaded says is never passed over: no unknown      *)
(* section or key, no value of a wrong type (config.py:36-39, 185-259).    *)
THEOREM NothingIgnored == GenSpec => []EverythingTakesEffect
  <1>1. LookupInv => EverythingTakesEffect
    <2> SUFFICES ASSUME LookupInv, phase = "compile", source_path # Unset
                 PROVE  EverythingTakesEffect
      BY DEF EverythingTakesEffect
    <2> DEFINE file == tomls[source_path]
    <2>1. file \in Contents /\ ~Malformed(file) /\ cpuif_token \in CpuifToken
      BY Loaded
    <2>2. file.toml /\ file.scalars = {} /\ ~UnknownSection(file)
      BY <2>1 DEF Malformed
    <2>3. ASSUME NEW s \in DOMAIN file.tables, NEW k \in DOMAIN file.tables[s]
          PROVE  \/ s = "rdl2arch" /\ k \in GlobalKey /\ knobs[k] \in {"flag", "file"}
                 \/ s = CpuifSection(cpuif_token) /\ k \in CpuifKey /\ knobs[k] \in {"flag", "file"}
                 \/ s \in {"cpuif.axi4-lite", "cpuif.apb4"} \ {CpuifSection(cpuif_token)}
                      /\ k \in CpuifKey
      <3>1. s \in {"rdl2arch", "cpuif.axi4-lite", "cpuif.apb4"}
        <4>1. DOMAIN file.tables \subseteq Section \ {"cpuif"}
          BY <2>1, LookupAssumption
        <4>2. s \notin {"<other>", "cpuif.<other>"}
          BY <2>2 DEF UnknownSection
        <4> QED
          BY <4>1, <4>2 DEF Section
      <3>2. Table(file, s) = file.tables[s]
        BY DEF Table
      <3>3. s = "rdl2arch" => k \in GlobalKey
        BY <2>1, <3>2 DEF Malformed, UnknownKey
      <3>4. s \in {"cpuif.axi4-lite", "cpuif.apb4"} => k \in CpuifKey
        BY <2>1, <3>2 DEF Malformed, UnknownKey, CpuifToken, CpuifSection
      <3>5. GlobalKey \cap CpuifKey = {}
        BY DEF GlobalKey, CpuifKey
      <3>6. CASE s = "rdl2arch"
        BY <3>3, <3>6, KeyCounts DEF Knob
      <3>7. CASE s = CpuifSection(cpuif_token)
        <4>1. k \in CpuifKey /\ k \notin GlobalKey
          BY <3>4, <3>5, <3>7 DEF CpuifSection
        <4> QED
          BY <3>7, <4>1, KeyCounts DEF Knob
      <3>8. CASE s \in {"cpuif.axi4-lite", "cpuif.apb4"} \ {CpuifSection(cpuif_token)}
        BY <3>4, <3>8
      <3> QED
        BY <3>1, <3>6, <3>7, <3>8
    <2> QED
      BY <2>2, <2>3 DEF EverythingTakesEffect
  <1> QED
    BY <1>1, LookupInductive, PTL

(* A flag that was passed is the value of its knob, also when it is false, *)
(* and a knob is taken from the file only if the file gives it for the     *)
(* selected cpuif (_resolve, __main__.py:111-131).                         *)
THEOREM FlagsAlwaysWin == GenSpec => []FlagsWin
  <1>1. LookupInv => FlagsWin
    <2> SUFFICES ASSUME LookupInv, phase = "compile", NEW k \in Knob
                 PROVE  /\ knobs[k] = "flag" <=> args.flags[k] # Unset
                        /\ knobs[k] = "file" =>
                             /\ source_path # Unset
                             /\ \E s \in {"rdl2arch", CpuifSection(cpuif_token)} :
                                   k \in DOMAIN Table(tomls[source_path], s)
      BY DEF FlagsWin
    <2>1. knobs[k] = Resolve(k)
      BY DEF LookupInv
    <2>2. knobs[k] = "file" => CfgValue(k) # Unset
      BY <2>1 DEF Resolve
    <2> QED
      BY <2>1, <2>2 DEF Resolve, CfgValue, FromFile
  <1> QED
    BY <1>1, LookupInductive, PTL

-----------------------------------------------------------------------------
(* The scan.                                                               *)

(* Every non-empty set of naturals has a least element.                    *)
LEMMA LeastNumber ==
  ASSUME NEW T \in SUBSET Nat, T # {} PROVE \E n \in T : \A m \in T : n <= m
  <1>1. PICK n \in T : \A m \in T : <<m, n>> \notin OpToRel(<, Nat)
    BY NatLessThanWellFounded, WFMin
  <1>2. ASSUME NEW m \in T, m < n PROVE FALSE
    <2>1. <<m, n>> \in OpToRel(<, Nat)
      BY <1>2 DEF OpToRel
    <2> QED
      BY <1>1, <2>1
  <1>3. \A m \in T : m \in Nat /\ n \in Nat
    OBVIOUS
  <1> QED
    BY <1>2, <1>3

(* A set of nodes has one that comes before every other.                   *)
LEMMA FirstOf ==
  ASSUME NEW S \in SUBSET Nat, S # {}, \A n \in S : tree[n].offset \in Nat
  PROVE  \E a \in S : \A n \in S \ {a} : Before(a, n)
  <1> DEFINE low == {tree[n].offset : n \in S}
  <1>1. low \in SUBSET Nat /\ low # {}
    OBVIOUS
  <1>2. PICK o \in low : \A p \in low : o <= p
    BY <1>1, LeastNumber
  <1> DEFINE least == {n \in S : tree[n].offset = o}
  <1>3. least \in SUBSET Nat /\ least # {}
    BY <1>2
  <1>4. PICK a \in least : \A n \in least : a <= n
    BY <1>3, LeastNumber
  <1>5. ASSUME NEW n \in S \ {a} PROVE Before(a, n)
    <2>1. /\ tree[n].offset \in Nat /\ o \in Nat /\ o <= tree[n].offset /\ tree[a].offset = o
          /\ a \in Nat /\ n \in Nat /\ n # a
      BY <1>1, <1>2, <1>4
    <2>2. tree[n].offset = o => a <= n
      BY <1>4
    <2> QED
      BY <2>1, <2>2 DEF Before
  <1> QED
    BY <1>4, <1>5

(* A set of nodes has an enumeration by address: its first, and after it   *)
(* that of the others.                                                     *)
LEMMA Enumeration ==
  ASSUME NEW k \in Nat, NEW S \in SUBSET (1 .. k), \A n \in S : tree[n].offset \in Nat
  PROVE  \E s \in BoundedSeq(S, k) : Enumerates(s, S)
  <1> DEFINE Has(A) == \E s \in [1 .. Cardinality(A) -> A] : Enumerates(s, A)
             Without == {j \in Nat : \E A \in SUBSET S : Cardinality(A) = j /\ ~Has(A)}
  <1>1. \A A \in SUBSET S : IsFiniteSet(A) /\ Cardinality(A) \in Nat /\ Cardinality(A) <= k
    <2>1. IsFiniteSet(1 .. k) /\ Cardinality(1 .. k) = k
      BY FS_Interval
    <2> TAKE A \in SUBSET S
    <2>2. A \subseteq 1 .. k
      OBVIOUS
    <2> QED
      BY <2>1, <2>2, FS_Subset, FS_CardinalityType
  <1>2. Without = {}
    <2> SUFFICES ASSUME Without # {} PROVE FALSE
      OBVIOUS
    <2>1. PICK j \in Without : \A i \in Without : j <= i
      BY LeastNumber
    <2>2. PICK A \in SUBSET S : Cardinality(A) = j /\ ~Has(A)
      BY <2>1
    <2>3. CASE A = {}
      <3>1. j = 0
        BY <2>2, <2>3, FS_EmptySet
      <3> DEFINE e == [i \in 1 .. 0 |-> i]
      <3>2. e \in [1 .. 0 -> A] /\ Enumerates(e, A)
        BY <2>3 DEF Enumerates, ToSet
      <3> QED
        BY <2>2, <3>1, <3>2
    <2>4. CASE A # {}
      <3>1. PICK a \in A : \A n \in A \ {a} : Before(a, n)
        BY <2>4, FirstOf
      <3>2. Cardinality(A \ {a}) = j - 1 /\ j - 1 \in Nat
        <4>1. IsFiniteSet(A)
          BY <1>1
        <4>2. IsFiniteSet(A \ {a}) /\ Cardinality(A \ {a}) = Cardinality(A) - 1
          BY <3>1, <4>1, FS_RemoveElement
        <4> QED
          BY <2>2, <4>2, FS_CardinalityType
      <3>3. ~(j <= j - 1)
        BY <3>2
      <3>4. Has(A \ {a})
        <4>1. j - 1 \notin Without
          BY <2>1, <3>3
        <4>2. A \ {a} \in SUBSET S
          OBVIOUS
        <4> QED
          BY <3>2, <4>1, <4>2
      <3>5. PICK s \in [1 .. j - 1 -> A \ {a}] : Enumerates(s, A \ {a})
        BY <3>2, <3>4
      <3> DEFINE e == [i \in 1 .. j |-> IF i = 1 THEN a ELSE s[i - 1]]
      <3>6. /\ \A i \in 1 .. j : i = 1 \/ i - 1 \in 1 .. j - 1
            /\ \A i \in 1 .. j - 1 : i + 1 \in 1 .. j /\ i + 1 # 1 /\ (i + 1) - 1 = i
            /\ 1 \in 1 .. j
        BY <3>2
      <3>7. e \in [1 .. j -> A]
        BY <3>1, <3>5, <3>6
      <3>8. ToSet(e) = A
        <4>1. ToSet(s) = A \ {a} /\ DOMAIN s = 1 .. j - 1 /\ DOMAIN e = 1 .. j
          BY <3>5 DEF Enumerates
        <4>2. \A x \in A : \E i \in 1 .. j : e[i] = x
          <5> TAKE x \in A
          <5>1. x # a => \E i \in 1 .. j - 1 : s[i] = x
            BY <4>1 DEF ToSet
          <5>2. \A i \in 1 .. j - 1 : e[i + 1] = s[i]
            BY <3>6
          <5>3. e[1] = a
            BY <3>6
          <5> HIDE DEF e
          <5> QED
            BY <3>6, <5>1, <5>2, <5>3
        <4> HIDE DEF e
        <4> QED
          BY <3>7, <4>1, <4>2 DEF ToSet
      <3>9. ASSUME NEW i \in 1 .. j, NEW l \in 1 .. j, i < l PROVE Before(e[i], e[l])
        <4>1. l # 1 /\ l - 1 \in 1 .. j - 1 /\ e[l] = s[l - 1]
          BY <3>2, <3>6, <3>9
        <4>2. CASE i = 1
          BY <3>1, <3>5, <4>1, <4>2
        <4>3. CASE i # 1
          <5>1. i - 1 \in 1 .. j - 1 /\ e[i] = s[i - 1] /\ i - 1 < l - 1
            BY <3>2, <3>6, <3>9, <4>3
          <5>2. DOMAIN s = 1 .. j - 1
            BY <3>5
          <5> HIDE DEF e
          <5> QED
            BY <3>5, <4>1, <5>1, <5>2 DEF Enumerates
        <4> QED
          BY <4>2, <4>3
      <3>10. DOMAIN e = 1 .. j
        OBVIOUS
      <3> HIDE DEF e
      <3>11. Enumerates(e, A)
        BY <3>8, <3>9, <3>10 DEF Enumerates
      <3> QED
        BY <2>2, <3>7, <3>11
    <2> QED
      BY <2>3, <2>4
  <1>3. Has(S)
    <2>1. S \in SUBSET S
      OBVIOUS
    <2> HIDE DEF Has
    <2> QED
      BY <1>1, <1>2, <2>1
  <1>4. PICK s \in [1 .. Cardinality(S) -> S] : Enumerates(s, S)
    BY <1>3
  <1>5. s \in BoundedSeq(S, k)
    <2>1. Cardinality(S) \in 0 .. k
      BY <1>1
    <2> QED
      BY <1>4, <2>1 DEF BoundedSeq, SeqOf
  <1> QED
    BY <1>4, <1>5

(* No node is enumerated twice.                                            *)
LEMMA AscendingOnce ==
  ASSUME NEW S \in SUBSET Nat, \A n \in S : tree[n].offset \in Nat,
         NEW s \in Seq(S), Enumerates(s, S)
  PROVE  IsInjective(s)
  <1> SUFFICES ASSUME NEW a \in DOMAIN s, NEW b \in DOMAIN s, s[a] = s[b] PROVE a = b
    BY DEF IsInjective
  <1>1. a \in 1 .. Len(s) /\ b \in 1 .. Len(s) /\ Len(s) \in Nat /\ s[a] \in S
    OBVIOUS
  <1>2. (a < b => Before(s[a], s[b])) /\ (b < a => Before(s[b], s[a]))
    BY DEF Enumerates
  <1>3. s[a] \in Nat /\ tree[s[a]].offset \in Nat
    BY <1>1
  <1>4. ~Before(s[a], s[a])
    BY <1>3 DEF Before
  <1> QED
    BY <1>1, <1>2, <1>4

LEMMA ChildrenInOrder ==
  ASSUME TreeGrown, NEW n
  PROVE  /\ Children(n) \in Seq(Node) /\ IsInjective(Children(n))
         /\ ToSet(Children(n)) = {k \in Node : tree[k].parent = n}
  <1> DEFINE inside == {k \in Node : tree[k].parent = n}
  <1>1. Len(tree) \in Nat /\ inside \in SUBSET (1 .. Len(tree))
    BY DEF TreeGrown, Node
  <1>2. \A k \in inside : tree[k].offset \in Nat
    <2> TAKE k \in inside
    <2>1. tree \in Seq(NodeRec) /\ k \in 1 .. Len(tree) /\ Len(tree) \in Nat
      BY DEF TreeGrown, Node
    <2>2. tree[k] \in NodeRec
      BY <2>1
    <2> QED
      BY <2>2, ScanAssumption DEF NodeRec
  <1>3. \E s \in BoundedSeq(inside, Len(tree)) : Enumerates(s, inside)
    BY <1>1, <1>2, Enumeration
  <1>4. Children(n) \in BoundedSeq(inside, Len(tree)) /\ Enumerates(Children(n), inside)
    BY <1>3 DEF Children
  <1>5. Children(n) \in Seq(inside)
    <2>1. PICK m \in 0 .. Len(tree) : Children(n) \in [1 .. m -> inside]
      BY <1>4 DEF BoundedSeq, SeqOf
    <2> QED
      BY <1>1, <2>1
  <1> HIDE DEF inside
  <1>6. IsInjective(Children(n))
    BY <1>1, <1>2, <1>4, <1>5, AscendingOnce
  <1>7. ToSet(Children(n)) = inside /\ Children(n) \in Seq(Node)
    BY <1>1, <1>4, <1>5 DEF Enumerates, inside
  <1> QED
    BY <1>6, <1>7 DEF inside

(* What appending, dropping the head and concatenating do to the elements  *)
(* of a sequence, and to the absence of repetitions.                       *)
LEMMA AppendOnce ==
  ASSUME NEW A, NEW s \in Seq(A), NEW x \in A, x \notin ToSet(s), IsInjective(s)
  PROVE  ToSet(Append(s, x)) = ToSet(s) \cup {x} /\ IsInjective(Append(s, x))
  <1>1. /\ DOMAIN s = 1 .. Len(s) /\ DOMAIN Append(s, x) = 1 .. Len(s) + 1 /\ Len(s) \in Nat
        /\ \A i \in 1 .. Len(s) : Append(s, x)[i] = s[i]
        /\ Append(s, x)[Len(s) + 1] = x
        /\ \A i \in 1 .. Len(s) + 1 : i \in 1 .. Len(s) \/ i = Len(s) + 1
    OBVIOUS
  <1>2. ToSet(Append(s, x)) = ToSet(s) \cup {x}
    BY <1>1 DEF ToSet
  <1>3. \A i \in 1 .. Len(s) : s[i] # x
    BY <1>1 DEF ToSet
  <1>4. IsInjective(Append(s, x))
    BY <1>1, <1>3 DEF IsInjective
  <1> QED
    BY <1>2, <1>4

LEMMA DropHead ==
  ASSUME NEW A, NEW s \in Seq(A), s # <<>>, IsInjective(s)
  PROVE  /\ Tail(s) \in Seq(A) /\ Head(s) \in A /\ IsInjective(Tail(s))
         /\ Head(s) \notin ToSet(Tail(s)) /\ ToSet(s) = {Head(s)} \cup ToSet(Tail(s))
  <1>1. /\ DOMAIN s = 1 .. Len(s) /\ DOMAIN Tail(s) = 1 .. Len(s) - 1
        /\ Len(s) \in Nat \ {0} /\ Head(s) = s[1] /\ Tail(s) \in Seq(A) /\ Head(s) \in A
        /\ \A i \in 1 .. Len(s) - 1 : i + 1 \in DOMAIN s /\ Tail(s)[i] = s[i + 1]
        /\ \A i \in DOMAIN s : i = 1 \/ (i - 1 \in 1 .. Len(s) - 1 /\ i = (i - 1) + 1)
    OBVIOUS
  <1>2. ToSet(s) = {Head(s)} \cup ToSet(Tail(s))
    BY <1>1 DEF ToSet
  <1>3. Head(s) \notin ToSet(Tail(s))
    BY <1>1 DEF ToSet, IsInjective
  <1>4. IsInjective(Tail(s))
    BY <1>1 DEF IsInjective
  <1> QED
    BY <1>1, <1>2, <1>3, <1>4

LEMMA ConcatOnce ==
  ASSUME NEW A, NEW s \in Seq(A), NEW t \in Seq(A), IsInjective(s), IsInjective(t),
         ToSet(s) \cap ToSet(t) = {}
  PROVE  /\ s \o t \in Seq(A) /\ IsInjective(s \o t) /\ ToSet(s \o t) = ToSet(s) \cup ToSet(t)
  <1>1. /\ DOMAIN s = 1 .. Len(s) /\ DOMAIN t = 1 .. Len(t)
        /\ DOMAIN (s \o t) = 1 .. Len(s) + Len(t) /\ Len(s) \in Nat /\ Len(t) \in Nat
        /\ s \o t \in Seq(A)
        /\ \A i \in 1 .. Len(s) : i \in DOMAIN (s \o t) /\ (s \o t)[i] = s[i]
        /\ \A i \in 1 .. Len(t) : i + Len(s) \in DOMAIN (s \o t) /\ (s \o t)[i + Len(s)] = t[i]
        /\ \A i \in 1 .. Len(s) + Len(t) :
             i \in 1 .. Len(s) \/ (i - Len(s) \in 1 .. Len(t) /\ i = (i - Len(s)) + Len(s))
    OBVIOUS
  <1>2. ToSet(s \o t) = ToSet(s) \cup ToSet(t)
    BY <1>1 DEF ToSet
  <1>3. \A i \in 1 .. Len(s), j \in 1 .. Len(t) : s[i] # t[j]
    BY <1>1 DEF ToSet
  <1>4. ASSUME NEW i \in DOMAIN (s \o t), NEW j \in DOMAIN (s \o t), (s \o t)[i] = (s \o t)[j]
        PROVE  i = j
    <2>1. CASE i \in 1 .. Len(s) /\ j \in 1 .. Len(s)
      BY <1>1, <1>4, <2>1 DEF IsInjective
    <2>2. CASE i \in 1 .. Len(s) /\ j \notin 1 .. Len(s)
      BY <1>1, <1>3, <1>4, <2>2
    <2>3. CASE i \notin 1 .. Len(s) /\ j \in 1 .. Len(s)
      BY <1>1, <1>3, <1>4, <2>3
    <2>4. CASE i \notin 1 .. Len(s) /\ j \notin 1 .. Len(s)
      <3>1. t[i - Len(s)] = t[j - Len(s)]
        BY <1>1, <1>4, <2>4
      <3>2. i - Len(s) = j - Len(s)
        BY <1>1, <2>4, <3>1 DEF IsInjective
      <3> QED
        BY <1>1, <3>2
    <2> QED
      BY <2>1, <2>2, <2>3, <2>4
  <1> QED
    BY <1>1, <1>2, <1>4 DEF IsInjective

(* A parent is declared before its children, and is no register.           *)
LEMMA NodeFacts ==
  ASSUME TreeGrown, NEW n \in Node
  PROVE  /\ n \in Nat \ {0} /\ Len(tree) \in Nat /\ tree[n].parent \in Nat
         /\ tree[n].parent < n /\ tree[n].parent \in {0} \cup Node
         /\ tree[n].parent # 0 => ~IsReg(tree[n].parent)
  <1>1. tree \in Seq(NodeRec) /\ n \in 1 .. Len(tree) /\ Len(tree) \in Nat
    BY DEF TreeGrown, Node
  <1>2. tree[n] \in NodeRec
    BY <1>1
  <1>3. tree[n].parent \in Nat
    BY <1>2 DEF NodeRec
  <1>4. tree[n].parent < n /\ (tree[n].parent # 0 => ~IsReg(tree[n].parent))
    BY DEF TreeGrown
  <1> QED
    BY <1>1, <1>3, <1>4 DEF Node

LEMMA ScanInitInv == ScanInit => ScanInv
  BY DEF ScanInit, ScanInv, TreeGrown, Node, IsInjective, EveryRegisterScanned

LEMMA BeginStep == ASSUME ScanInv, NEW value, Begin(value) PROVE ScanInv'
  BY DEF Begin, ScanInv, TreeGrown, Node, IsReg, IsInjective, EveryRegisterScanned

(* A declaration adds a node below an earlier one that is no register.     *)
LEMMA DeclareStep == ASSUME ScanInv, Declare PROVE ScanInv'
  <1>1. PICK node \in NodeRec : /\ tree' = Append(tree, node)
                                /\ node.parent \in {0} \cup {n \in Node : ~IsReg(n)}
    <2>1. PICK p \in {0} \cup {n \in Node : ~IsReg(n)}, name \in InstNames, offset \in Offsets,
               stride \in Strides :
            \E bytes \in {0} \cup Sizes, count \in {None} \cup Counts :
               tree' = Append(tree, RegNode(p, name, offset, bytes, count, stride))
      BY DEF Declare
    <2>2. p \in Nat
      BY DEF Node
    <2>3. \A bytes \in {0} \cup Sizes, count \in {None} \cup Counts :
             /\ RegNode(p, name, offset, bytes, count, stride) \in NodeRec
             /\ RegNode(p, name, offset, bytes, count, stride).parent = p
      BY <2>2 DEF RegNode, NodeRec
    <2> QED
      BY <2>1, <2>3
  <1>2. /\ tree' \in Seq(NodeRec) /\ Len(tree') = Len(tree) + 1 /\ Len(tree) \in Nat
        /\ \A n \in 1 .. Len(tree) : tree'[n] = tree[n]
        /\ tree'[Len(tree) + 1] = node
    BY <1>1 DEF ScanInv, TreeGrown
  <1>3. TreeGrown'
    <2>1. ASSUME NEW n \in Node'
          PROVE  tree'[n].parent < n /\ (tree'[n].parent # 0 => ~IsReg(tree[n].parent)')
      <3>1. CASE n \in 1 .. Len(tree)
        <4>1. tree[n].parent < n /\ (tree[n].parent # 0 => ~IsReg(tree[n].parent))
          BY <3>1, NodeFacts DEF ScanInv, Node
        <4>2. tree[n].parent \in Nat
          BY <3>1, NodeFacts DEF ScanInv, Node
        <4>3. tree[n].parent # 0 => tree[n].parent \in 1 .. Len(tree)
          BY <3>1, <4>1, <4>2, <1>2
        <4> QED
          BY <1>2, <3>1, <4>1, <4>3 DEF IsReg
      <3>2. CASE n = Len(tree) + 1
        BY <1>1, <1>2, <3>2 DEF IsReg, Node
      <3> QED
        BY <1>2, <2>1, <3>1, <3>2 DEF Node
    <2> QED
      BY <1>2, <2>1 DEF TreeGrown
  <1>4. todo' = <<>> /\ regs' = <<>> /\ step' = "declare"
    BY DEF Declare, ScanInv
  <1> QED
    BY <1>3, <1>4 DEF ScanInv, IsInjective, EveryRegisterScanned

LEMMA CompileErrorStep == ASSUME ScanInv, CompileError PROVE ScanInv'
  BY DEF CompileError, ScanInv, TreeGrown, Node, IsReg, IsInjective, EveryRegisterScanned

(* What a step keeps that leaves the tree alone.                           *)
LEMMA TreeKept ==
  ASSUME TreeGrown, tree' = tree
  PROVE  /\ TreeGrown' /\ Node' = Node /\ \A n : IsReg(n)' = IsReg(n)
  BY DEF TreeGrown, Node, IsReg

LEMMA StartWalkStep == ASSUME ScanInv, StartWalk PROVE ScanInv'
  <1>1. TreeGrown /\ tree' = tree
    BY DEF ScanInv, StartWalk
  <1>2. /\ todo' = Children(0) /\ regs' = <<>> /\ step' = "walk"
        /\ todo' \in Seq(Node) /\ IsInjective(todo')
        /\ ToSet(todo') = {k \in Node : tree[k].parent = 0}
    BY <1>1, ChildrenInOrder DEF StartWalk, ScanInv
  <1>3. ToSet(regs') = {} /\ IsInjective(regs') /\ regs' \in Seq(Node)
    BY <1>2 DEF ToSet, IsInjective
  <1>4. WalkedTo({})'
    BY <1>1, <1>2, <1>3, TreeKept DEF WalkedTo
  <1> QED
    BY <1>1, <1>2, <1>3, <1>4, TreeKept DEF ScanInv, EveryRegisterScanned

LEMMA WalkGoesOn ==
  ASSUME TreeGrown, UNCHANGED tree, step' = "walk", regs' \in Seq(Node), IsInjective(regs'),
         todo' \in Seq(Node), IsInjective(todo'), NEW V \in SUBSET Node, WalkedTo(V)'
  PROVE  ScanInv'
  <1>1. TreeGrown' /\ Node' = Node
    BY TreeKept
  <1>2. IsInjective(regs)' /\ IsInjective(todo)'
    BY DEF IsInjective
  <1>3. \E W \in SUBSET Node' : WalkedTo(W)'
    BY <1>1
  <1> QED
    BY <1>1, <1>2, <1>3 DEF ScanInv, EveryRegisterScanned

(* The walk visits the node its iterators yield next, and puts what a      *)
(* regfile holds before what was waiting.                                  *)
LEMMA WalkNodeStep == ASSUME ScanInv, WalkNode PROVE ScanInv'
  <1>1. TreeGrown /\ tree' = tree /\ step = "walk" /\ step' = "walk" /\ todo # <<>>
    BY DEF ScanInv, WalkNode
  <1>2. PICK V \in SUBSET Node : WalkedTo(V)
    BY <1>1 DEF ScanInv
  <1>0. PICK h : h = Head(todo)
    OBVIOUS
  <1>3. /\ Tail(todo) \in Seq(Node) /\ h \in Node /\ IsInjective(Tail(todo))
        /\ h \notin ToSet(Tail(todo)) /\ ToSet(todo) = {h} \cup ToSet(Tail(todo))
    BY <1>0, <1>1, DropHead DEF ScanInv
  <1>4. V \cup {h} \in SUBSET Node /\ h \notin V /\ ToSet(regs) \subseteq V
    BY <1>2, <1>3 DEF WalkedTo
  <1>5. CASE IsReg(h)
    <2>1. todo' = Tail(todo) /\ regs' = Append(regs, h)
      BY <1>0, <1>5 DEF WalkNode
    <2>2. /\ ToSet(regs') = ToSet(regs) \cup {h} /\ IsInjective(regs') /\ regs' \in Seq(Node)
      BY <1>3, <1>4, <2>1, AppendOnce DEF ScanInv
    <2>3. h # 0 /\ \A n \in Node : tree[n].parent # h
      BY <1>1, <1>3, <1>5, NodeFacts
    <2>4. WalkedTo(V \cup {h})'
      <3>1. \A n \in Node : IsReg(n)' = IsReg(n)
        BY <1>1, TreeKept
      <3>2. (V \cup {h}) \cap ToSet(todo') = {}
        BY <1>2, <1>3, <2>1 DEF WalkedTo
      <3>3. \A n \in (V \cup {h}) \cup ToSet(todo') : tree[n].parent \in (V \cup {h}) \cup {0}
        BY <1>2, <1>3, <2>1 DEF WalkedTo
      <3>4. \A n \in Node : tree[n].parent \in (V \cup {h}) \cup {0} =>
                             n \in (V \cup {h}) \cup ToSet(todo')
        BY <1>2, <1>3, <2>1, <2>3 DEF WalkedTo
      <3>5. ToSet(regs') = {n \in V \cup {h} : IsReg(n)'}
        BY <1>2, <1>4, <1>5, <2>2, <3>1 DEF WalkedTo
      <3> QED
        BY <1>1, <3>2, <3>3, <3>4, <3>5, TreeKept DEF WalkedTo
    <2> QED
      BY <1>1, <1>3, <1>4, <2>1, <2>2, <2>4, WalkGoesOn
  <1>6. CASE ~IsReg(h)
    <2>1. todo' = Children(h) \o Tail(todo) /\ regs' = regs
      BY <1>0, <1>6 DEF WalkNode
    <2>2. /\ Children(h) \in Seq(Node) /\ IsInjective(Children(h))
          /\ ToSet(Children(h)) = {k \in Node : tree[k].parent = h}
      BY <1>1, ChildrenInOrder
    <2>3. h # 0 /\ h \notin ToSet(Children(h))
      BY <1>1, <1>3, <2>2, NodeFacts
    <2>4. ToSet(Children(h)) \cap (V \cup ToSet(Tail(todo))) = {}
      BY <1>2, <1>3, <1>4, <2>2, <2>3 DEF WalkedTo
    <2>5. /\ todo' \in Seq(Node) /\ IsInjective(todo')
          /\ ToSet(todo') = ToSet(Children(h)) \cup ToSet(Tail(todo))
      <3>1. ToSet(Children(h)) \cap ToSet(Tail(todo)) = {}
        BY <2>4
      <3> DEFINE c == Children(h)
                 r == Tail(todo)
      <3>2. /\ c \in Seq(Node) /\ r \in Seq(Node) /\ IsInjective(c) /\ IsInjective(r)
            /\ ToSet(c) \cap ToSet(r) = {}
        BY <1>3, <2>2, <3>1
      <3> HIDE DEF c, r
      <3>3. /\ c \o r \in Seq(Node) /\ IsInjective(c \o r)
            /\ ToSet(c \o r) = ToSet(c) \cup ToSet(r)
        BY <3>2, ConcatOnce
      <3>4. todo' = c \o r
        BY <2>1 DEF c, r
      <3>5. IsInjective(todo')
        BY <3>3, <3>4
      <3>6. ToSet(todo') = ToSet(c) \cup ToSet(r)
        BY <3>3, <3>4
      <3> QED
        BY <3>3, <3>4, <3>5, <3>6 DEF c, r
    <2>6. WalkedTo(V \cup {h})'
      <3>1. \A n \in Node : IsReg(n)' = IsReg(n)
        BY <1>1, TreeKept
      <3>2. (V \cup {h}) \cap ToSet(todo') = {}
        BY <1>2, <1>3, <2>3, <2>4, <2>5 DEF WalkedTo
      <3>3. \A n \in (V \cup {h}) \cup ToSet(todo') : tree[n].parent \in (V \cup {h}) \cup {0}
        BY <1>2, <1>3, <2>2, <2>5 DEF WalkedTo
      <3>4. \A n \in Node : tree[n].parent \in (V \cup {h}) \cup {0} =>
                             n \in (V \cup {h}) \cup ToSet(todo')
        BY <1>2, <1>3, <2>2, <2>5 DEF WalkedTo
      <3>5. ToSet(regs') = {n \in V \cup {h} : IsReg(n)'}
        BY <1>2, <1>4, <1>6, <2>1, <3>1 DEF WalkedTo
      <3> QED
        BY <1>1, <3>2, <3>3, <3>4, <3>5, TreeKept DEF WalkedTo
    <2> QED
      BY <1>1, <1>4, <2>1, <2>5, <2>6, WalkGoesOn DEF ScanInv
  <1> QED
    BY <1>5, <1>6

(* When nothing is waiting every node was visited: the least one that was  *)
(* not would have a visited parent.                                        *)
LEMMA EndWalkStep == ASSUME ScanInv, EndWalk PROVE ScanInv'
  <1>1. TreeGrown /\ tree' = tree /\ step = "walk" /\ step' = "width" /\ todo = <<>>
        /\ UNCHANGED <<todo, regs>>
    BY DEF ScanInv, EndWalk
  <1>2. PICK V \in SUBSET Node : WalkedTo(V)
    BY <1>1 DEF ScanInv
  <1>3. ToSet(todo) = {}
    BY <1>1 DEF ToSet
  <1>4. V = Node
    <2> SUFFICES ASSUME Node \ V # {} PROVE FALSE
      OBVIOUS
    <2>1. Node \ V \in SUBSET Nat
      BY DEF Node
    <2>2. PICK n \in Node \ V : \A m \in Node \ V : n <= m
      BY <2>1, LeastNumber
    <2>3. /\ n \in Nat /\ tree[n].parent \in Nat /\ tree[n].parent < n
          /\ tree[n].parent \in {0} \cup Node
      BY <1>1, <2>2, NodeFacts
    <2>4. ~(n <= tree[n].parent)
      BY <2>3
    <2>5. tree[n].parent \in V \cup {0}
      BY <2>2, <2>3, <2>4
    <2> QED
      BY <1>2, <1>3, <2>2, <2>5 DEF WalkedTo
  <1>5. ToSet(regs) = {n \in Node : IsReg(n)}
    BY <1>2, <1>4 DEF WalkedTo
  <1> QED
    BY <1>1, <1>5, TreeKept DEF ScanInv, EveryRegisterScanned, IsInjective, ToSet

LEMMA SetWidthStep == ASSUME ScanInv, SetWidth PROVE ScanInv'
  <1>1. /\ TreeGrown /\ tree' = tree /\ step = "width" /\ step' \in {"rejected", "done"}
        /\ UNCHANGED <<todo, regs>>
    BY DEF ScanInv, SetWidth
  <1> QED
    BY <1>1, TreeKept DEF ScanInv, EveryRegisterScanned, IsInjective, ToSet

LEMMA ScanNextInv == ScanInv /\ (ScanNext \/ UNCHANGED scanVars) => ScanInv'
  <1>1. ScanInv /\ UNCHANGED scanVars => ScanInv'
    <2> SUFFICES ASSUME ScanInv, UNCHANGED scanVars PROVE ScanInv'
      OBVIOUS
    <2>1. /\ tree' = tree /\ todo' = todo /\ regs' = regs /\ step' = step
          /\ TreeGrown' /\ Node' = Node /\ \A n : IsReg(n)' = IsReg(n)
      BY TreeKept DEF scanVars, ScanInv
    <2>2. \A V : WalkedTo(V) => WalkedTo(V)'
      BY <2>1 DEF WalkedTo, ToSet
    <2>3. EveryRegisterScanned'
      BY <2>1 DEF ScanInv, EveryRegisterScanned, IsInjective, ToSet
    <2> QED
      BY <2>1, <2>2, <2>3 DEF ScanInv, IsInjective
  <1> QED
    BY <1>1, DeclareStep, CompileErrorStep, StartWalkStep, WalkNodeStep, EndWalkStep,
       SetWidthStep DEF ScanNext

LEMMA ScanLeftInv == ScanLeft => ScanInv'
  BY DEF ScanLeft, ScanInv, TreeGrown, Node, IsInjective, EveryRegisterScanned

(* The scan's invariant holds throughout main().                           *)
LEMMA ScanInductive == GenSpec => []ScanInv
  <1>1. ScanInv /\ [GenNext]_genVars => ScanInv'
    BY ScanNextInv, BeginStep, ScanLeftInv
    DEF GenNext, genVars, Lookup, CallCompiler, CompileAndScan, CallExporter, Exporter, Done
  <1> QED
    BY <1>1, ScanInitInv, PTL DEF GenSpec, GenInit

(* The walk of nested regfiles yields every register once, however deep it *)
(* lies and in whatever order the tree declares it (scan_design.py:129,    *)
(* 153-165).                                                               *)
THEOREM WalkIsComplete == GenSpec => []EveryRegisterScanned
  <1>1. ScanInv => EveryRegisterScanned
    BY DEF ScanInv
  <1> QED
    BY <1>1, ScanInductive, PTL

-----------------------------------------------------------------------------
(* Recursive functions.                                                    *)

(* Where h[n] makes a value from the values of lower rank alone, there is  *)
(* a function whose values h makes from itself.                            *)
FromLower(D, rank, V, h) ==
  /\ V # {} /\ rank \in [D -> Nat] /\ h \in [D -> [[D -> V] -> V]]
  /\ \A n \in D : \A a, b \in [D -> V] :
        (\A m \in D : rank[m] < rank[n] => a[m] = b[m]) => h[n][a] = h[n][b]

HasSolution(D, V, h) == \E f \in [D -> V] : \A n \in D : f[n] = h[n][f]

(* Functions that settle a rank are extended to the next, and agree where  *)
(* they are settled; each value is taken from one that has settled it.     *)
LEMMA CourseOfValues ==
  ASSUME NEW D, NEW rank, NEW V, NEW h, FromLower(D, rank, V, h) PROVE HasSolution(D, V, h)
  <1> SUFFICES ASSUME V # {}, rank \in [D -> Nat], h \in [D -> [[D -> V] -> V]],
                      \A n \in D : \A a, b \in [D -> V] :
                         (\A m \in D : rank[m] < rank[n] => a[m] = b[m]) => h[n][a] = h[n][b]
               PROVE  \E f \in [D -> V] : \A n \in D : f[n] = h[n][f]
    BY DEF FromLower, HasSolution
  <1> DEFINE Good(g, k) == \A n \in D : rank[n] < k => g[n] = h[n][g]
  <1>1. \A k \in Nat : \E g \in [D -> V] : Good(g, k)
    <2> DEFINE Bad == {k \in Nat : ~ \E g \in [D -> V] : Good(g, k)}
    <2> SUFFICES ASSUME Bad # {} PROVE FALSE
      OBVIOUS
    <2>1. PICK k \in Bad : \A j \in Bad : k <= j
      BY LeastNumber
    <2>2. k # 0
      <3>1. PICK v \in V : TRUE
        OBVIOUS
      <3>2. [n \in D |-> v] \in [D -> V] /\ Good([n \in D |-> v], 0)
        OBVIOUS
      <3> QED
        BY <2>1, <3>2
    <2>3. k - 1 \in Nat /\ k - 1 \notin Bad /\ k \in Nat
      <3>1. k \in Nat /\ k - 1 \in Nat /\ ~(k <= k - 1)
        BY <2>1, <2>2
      <3> HIDE DEF Bad
      <3> QED
        BY <2>1, <3>1
    <2>4. PICK g \in [D -> V] : Good(g, k - 1)
      BY <2>3
    <2> DEFINE e == [n \in D |-> IF rank[n] < k - 1 THEN g[n] ELSE h[n][g]]
    <2>5. e \in [D -> V]
      OBVIOUS
    <2>6. ASSUME NEW n \in D, rank[n] < k PROVE e[n] = h[n][e]
      <3>1. e[n] = h[n][g]
        BY <2>4
      <3>2. \A m \in D : rank[m] < rank[n] => e[m] = g[m]
        BY <2>3, <2>6
      <3> HIDE DEF e
      <3> QED
        BY <2>5, <3>1, <3>2
    <2>7. Good(e, k)
      BY <2>6
    <2> QED
      BY <2>1, <2>5, <2>7
  <1>2. ASSUME NEW k \in Nat, NEW a \in [D -> V], NEW b \in [D -> V], Good(a, k), Good(b, k)
        PROVE  \A n \in D : rank[n] < k => a[n] = b[n]
    <2> DEFINE Differ == {rank[n] : n \in {m \in D : rank[m] < k /\ a[m] # b[m]}}
    <2> SUFFICES ASSUME Differ # {} PROVE FALSE
      OBVIOUS
    <2>1. PICK r \in Differ : \A q \in Differ : r <= q
      <3>1. Differ \in SUBSET Nat
        OBVIOUS
      <3> QED
        BY <3>1, LeastNumber
    <2>2. PICK n \in D : rank[n] = r /\ rank[n] < k /\ a[n] # b[n]
      BY <2>1
    <2>3. ASSUME NEW m \in D, rank[m] < rank[n] PROVE a[m] = b[m]
      <3>1. rank[m] < k /\ ~(r <= rank[m])
        BY <2>2, <2>3
      <3> QED
        BY <2>1, <3>1
    <2>4. h[n][a] = h[n][b]
      BY <2>3
    <2> QED
      BY <1>2, <2>2, <2>4
  <1> DEFINE to == [n \in D |-> CHOOSE g \in [D -> V] : Good(g, rank[n] + 1)]
             f == [n \in D |-> to[n][n]]
  <1>3. ASSUME NEW n \in D PROVE to[n] \in [D -> V] /\ Good(to[n], rank[n] + 1)
    <2>1. rank[n] + 1 \in Nat
      OBVIOUS
    <2>2. \E g \in [D -> V] : Good(g, rank[n] + 1)
      BY <1>1, <2>1
    <2> QED
      BY <2>2
  <1> HIDE DEF to
  <1>4. f \in [D -> V]
    BY <1>3
  <1>5. ASSUME NEW n \in D PROVE f[n] = h[n][f]
    <2>1. to[n][n] = h[n][to[n]]
      BY <1>3
    <2>2. ASSUME NEW m \in D, rank[m] < rank[n] PROVE f[m] = to[n][m]
      <3>1. rank[m] + 1 \in Nat /\ rank[m] < rank[m] + 1
        OBVIOUS
      <3>2. Good(to[n], rank[m] + 1)
        BY <1>3, <2>2
      <3>3. to[m][m] = to[n][m]
        BY <1>2, <1>3, <3>1, <3>2
      <3> QED
        BY <3>3
    <2>3. h[n][to[n]] = h[n][f]
      BY <1>3, <1>4, <2>2
    <2> QED
      BY <2>1, <2>3
  <1> QED
    BY <1>4, <1>5

(* Finitely many numbers have a bound. As everywhere below, induction on a *)
(* number is by the set of the counterexamples: were there any, the least  *)
(* would follow a number that is none.                                     *)
LEMMA BoundOf ==
  ASSUME NEW m \in Nat, NEW u \in [1 .. m -> Nat]
  PROVE  \E b \in Nat : \A i \in 1 .. m : u[i] <= b
  <1> DEFINE Bounded(k) == \E b \in Nat : \A i \in 1 .. k : u[i] <= b
             Bad == {k \in 0 .. m : ~Bounded(k)}
  <1>1. Bounded(0)
    <2>1. \A i \in 1 .. 0 : u[i] <= 0
      OBVIOUS
    <2> QED
      BY <2>1
  <1>2. ASSUME NEW k \in 1 .. m, Bounded(k - 1) PROVE Bounded(k)
    <2>1. PICK b \in Nat : \A i \in 1 .. k - 1 : u[i] <= b
      BY <1>2
    <2>2. u[k] \in Nat /\ b + u[k] \in Nat
      OBVIOUS
    <2>3. \A i \in 1 .. k : i = k \/ i \in 1 .. k - 1
      OBVIOUS
    <2>4. \A i \in 1 .. k : u[i] <= b + u[k]
      <3> TAKE i \in 1 .. k
      <3>1. u[i] \in Nat /\ (i = k \/ u[i] <= b)
        BY <2>1, <2>3
      <3> QED
        BY <2>2, <3>1
    <2> QED
      BY <2>2, <2>4
  <1> HIDE DEF Bounded
  <1>3. ASSUME Bad # {} PROVE FALSE
    <2>1. PICK k \in Bad : \A j \in Bad : k <= j
      <3>1. Bad \in SUBSET Nat
        OBVIOUS
      <3> QED
        BY <1>3, <3>1, LeastNumber
    <2>2. k \in 1 .. m /\ ~Bounded(k) /\ k - 1 \in 0 .. m /\ ~(k <= k - 1)
      BY <1>1, <2>1
    <2>3. Bounded(k - 1)
      BY <2>1, <2>2
    <2> QED
      BY <1>2, <2>2, <2>3
  <1>4. Bounded(m)
    BY <1>3
  <1> QED
    BY <1>4 DEF Bounded

(* A bounded set of naturals has a greatest element: its least bound.      *)
LEMMA GreatestNumber ==
  ASSUME NEW T \in SUBSET Nat, T # {}, NEW b \in Nat, \A t \in T : t <= b
  PROVE  \E n \in T : \A m \in T : m <= n
  <1> DEFINE above == {k \in Nat : \A t \in T : t <= k}
  <1>1. PICK k \in above : \A j \in above : k <= j
    BY LeastNumber
  <1>2. k \in Nat /\ \A t \in T : t <= k
    OBVIOUS
  <1>3. ASSUME k \notin T PROVE FALSE
    <2>1. \A t \in T : t < k /\ t \in Nat
      BY <1>2, <1>3
    <2>2. PICK t \in T : TRUE
      OBVIOUS
    <2>3. k - 1 \in Nat /\ ~(k <= k - 1)
      BY <1>2, <2>1, <2>2
    <2>4. \A x \in T : x <= k - 1
      <3> TAKE x \in T
      <3> QED
        BY <1>2, <2>1
    <2>5. k - 1 \in above
      BY <2>3, <2>4
    <2> QED
      BY <1>1, <2>3, <2>5
  <1> QED
    BY <1>2, <1>3

-----------------------------------------------------------------------------
(* Powers of two, and the number of bits of a number.                      *)
LEMMA Pow2Is ==
  Pow2 \in [Nat -> Nat] /\ Pow2[0] = 1 /\ \A n \in Nat : Pow2[n + 1] = 2 * Pow2[n]
  <1> DEFINE h == [n \in Nat |-> [g \in [Nat -> Nat] |-> IF n = 0 THEN 1 ELSE 2 * g[n - 1]]]
             rank == [n \in Nat |-> n]
  <1>1. h \in [Nat -> [[Nat -> Nat] -> Nat]] /\ rank \in [Nat -> Nat]
    OBVIOUS
  <1>2. ASSUME NEW n \in Nat, NEW a \in [Nat -> Nat], NEW b \in [Nat -> Nat],
               \A m \in Nat : rank[m] < rank[n] => a[m] = b[m]
        PROVE  h[n][a] = h[n][b]
    <2>1. CASE n = 0
      BY <2>1
    <2>2. CASE n # 0
      <3>1. n - 1 \in Nat /\ n - 1 < n
        BY <2>2
      <3>2. a[n - 1] = b[n - 1]
        BY <1>2, <3>1
      <3> QED
        BY <3>2
    <2> QED
      BY <2>1, <2>2
  <1>3. HasSolution(Nat, Nat, h)
    <2> HIDE DEF h, rank
    <2>1. FromLower(Nat, rank, Nat, h)
      BY <1>1, <1>2 DEF FromLower
    <2> QED
      BY <2>1, CourseOfValues
  <1>4. PICK f \in [Nat -> Nat] : f = [n \in Nat |-> IF n = 0 THEN 1 ELSE 2 * f[n - 1]]
    BY <1>3 DEF HasSolution
  <1>5. Pow2 = [n \in Nat |-> IF n = 0 THEN 1 ELSE 2 * Pow2[n - 1]]
    BY <1>4 DEF Pow2
  <1>6. Pow2[0] = 1 /\ \A n \in Nat : Pow2[n + 1] = 2 * Pow2[n]
    BY <1>5
  <1>7. \A n \in Nat : Pow2[n] \in Nat
    <2> DEFINE Bad == {n \in Nat : Pow2[n] \notin Nat}
    <2> SUFFICES ASSUME Bad # {} PROVE FALSE
      OBVIOUS
    <2>1. PICK n \in Bad : \A j \in Bad : n <= j
      BY LeastNumber
    <2>2. n # 0
      BY <1>6, <2>1
    <2>3. n \in Nat /\ n - 1 \in Nat /\ ~(n <= n - 1) /\ (n - 1) + 1 = n
      BY <2>1, <2>2
    <2>4. Pow2[n - 1] \in Nat
      BY <2>1, <2>3
    <2>5. Pow2[n] = 2 * Pow2[n - 1]
      BY <1>6, <2>3
    <2> QED
      BY <2>1, <2>4, <2>5
  <1> QED
    BY <1>5, <1>6, <1>7

(* Both by a least counterexample.                                         *)
LEMMA Pow2Grows ==
  /\ \A n \in Nat : n < Pow2[n]
  /\ \A m, n \in Nat : m <= n => Pow2[m] <= Pow2[n]
  <1>1. \A n \in Nat : n < Pow2[n]
    <2> DEFINE Bad == {n \in Nat : ~(n < Pow2[n])}
    <2> SUFFICES ASSUME Bad # {} PROVE FALSE
      OBVIOUS
    <2>1. PICK n \in Bad : \A j \in Bad : n <= j
      BY LeastNumber
    <2>2. n # 0
      BY Pow2Is, <2>1
    <2>3. n \in Nat /\ n - 1 \in Nat /\ ~(n <= n - 1) /\ (n - 1) + 1 = n
      BY <2>1, <2>2
    <2>4. n - 1 < Pow2[n - 1] /\ Pow2[n - 1] \in Nat
      BY Pow2Is, <2>1, <2>3
    <2>5. Pow2[n] = 2 * Pow2[n - 1]
      BY Pow2Is, <2>3
    <2> QED
      BY <2>1, <2>3, <2>4, <2>5
  <1>2. \A m, d \in Nat : Pow2[m] <= Pow2[m + d]
    <2> TAKE m \in Nat
    <2> DEFINE Bad == {d \in Nat : ~(Pow2[m] <= Pow2[m + d])}
    <2> SUFFICES ASSUME Bad # {} PROVE FALSE
      OBVIOUS
    <2>1. PICK d \in Bad : \A j \in Bad : d <= j
      BY LeastNumber
    <2>2. d # 0
      BY Pow2Is, <2>1
    <2>3. /\ d \in Nat /\ d - 1 \in Nat /\ ~(d <= d - 1)
          /\ m + (d - 1) \in Nat /\ (m + (d - 1)) + 1 = m + d
      BY <2>1, <2>2
    <2>4. Pow2[m] <= Pow2[m + (d - 1)]
      BY <2>1, <2>3
    <2>5. Pow2[m + d] = 2 * Pow2[m + (d - 1)]
      BY Pow2Is, <2>3
    <2>6. Pow2[m + (d - 1)] \in Nat /\ Pow2[m] \in Nat
      BY Pow2Is, <2>3
    <2> QED
      BY <2>1, <2>4, <2>5, <2>6
  <1>3. ASSUME NEW m \in Nat, NEW n \in Nat, m <= n PROVE Pow2[m] <= Pow2[n]
    <2>1. n - m \in Nat /\ m + (n - m) = n
      BY <1>3
    <2>2. Pow2[m] <= Pow2[m + (n - m)]
      BY <1>2, <2>1
    <2> QED
      BY <2>1, <2>2
  <1> QED
    BY <1>1, <1>3

(* int.bit_length gives bits enough.                                       *)
LEMMA BitLengthIs ==
  ASSUME NEW n \in Nat PROVE BitLength(n) \in Nat /\ n < Pow2[BitLength(n)]
  <1> DEFINE wide == {w \in Nat : n < Pow2[w]}
  <1>1. PICK w \in wide : \A v \in wide : w <= v
    BY Pow2Grows, LeastNumber
  <1>2. w \in 0 .. n /\ n < Pow2[w]
    BY Pow2Grows, <1>1
  <1>3. \A v \in 0 .. w - 1 : n >= Pow2[v]
    <2> TAKE v \in 0 .. w - 1
    <2>1. v \in Nat /\ ~(w <= v) /\ Pow2[v] \in Nat
      BY Pow2Is, <1>2
    <2>2. v \notin wide
      BY <1>1, <2>1
    <2> QED
      BY <2>1, <2>2
  <1>4. \E x \in 0 .. n : n < Pow2[x] /\ \A v \in 0 .. x - 1 : n >= Pow2[v]
    BY <1>2, <1>3
  <1> QED
    BY <1>4 DEF BitLength

(* An address below a power of two is what is left of it modulo that.      *)
LEMMA SmallRemainder ==
  ASSUME NEW p \in Nat \ {0}, NEW a \in 0 .. p - 1, NEW b \in 0 .. p - 1, (a - b) % p = 0
  PROVE  a = b
  OBVIOUS

-----------------------------------------------------------------------------
(* Spans and addresses, unfolded along the tree.                           *)
LEMMA NodeShape ==
  ASSUME TreeGrown, NEW n \in Node
  PROVE  /\ tree[n].offset \in Nat /\ tree[n].bytes \in Nat
         /\ tree[n].array_count = None \/ tree[n].array_count \in Nat \ {0}
         /\ tree[n].array_stride \in Nat \ {0} /\ tree[n].inst_name \in InstNames
  <1>1. tree[n] \in NodeRec
    BY DEF TreeGrown, Node
  <1>2. /\ tree[n].offset \in Offsets /\ tree[n].bytes \in {0} \cup Sizes
        /\ tree[n].array_count \in {None} \cup Counts /\ tree[n].array_stride \in Strides
        /\ tree[n].inst_name \in InstNames
    BY <1>1 DEF NodeRec
  <1>3. /\ Offsets \subseteq Nat /\ Sizes \subseteq Nat \ {0}
        /\ Counts \subseteq Nat \ {0} /\ Strides \subseteq Nat \ {0}
    BY ScanAssumption
  <1>4. tree[n].offset \in Nat
    BY <1>2, <1>3
  <1>5. tree[n].bytes \in Nat
    <2>1. tree[n].bytes = 0 \/ tree[n].bytes \in Nat
      BY <1>2, <1>3, Zenon
    <2> QED
      BY <2>1
  <1>6. tree[n].array_count = None \/ tree[n].array_count \in Nat \ {0}
    BY <1>2, <1>3, Zenon
  <1>7. tree[n].array_stride \in Nat \ {0}
    BY <1>2, <1>3, Zenon
  <1> QED
    BY <1>2, <1>4, <1>5, <1>6, <1>7

Inside(n) == {j \in Node : tree[j].parent = n}

Ends(n, g) == {tree[k].offset + g[k] : k \in Inside(n)}

FarthestEnd(n, g) == CHOOSE e \in Ends(n, g) : \A x \in Ends(n, g) : x <= e

SpanFrom(n, g) ==
  IF ~IsReg(n)
  THEN IF Ends(n, g) = {} THEN 0 ELSE FarthestEnd(n, g)
  ELSE IF tree[n].array_count = None THEN tree[n].bytes
  ELSE (tree[n].array_count - 1) * tree[n].array_stride + tree[n].bytes

(* The CHOOSE of a regfile's span finds its last end.                      *)
LEMMA LastEnd ==
  ASSUME TreeGrown, NEW g \in [Node -> Nat], NEW n, Ends(n, g) # {}
  PROVE  FarthestEnd(n, g) \in Nat /\ \A x \in Ends(n, g) : x <= FarthestEnd(n, g)
  <1>1. Len(tree) \in Nat /\ Node = 1 .. Len(tree)
    BY DEF TreeGrown, Node
  <1> DEFINE u == [k \in Node |-> tree[k].offset + g[k]]
  <1>2. u \in [Node -> Nat]
    BY NodeShape
  <1>3. \A x \in Ends(n, g) : \E k \in Node : x = u[k]
    BY DEF Ends, Inside
  <1> HIDE DEF u
  <1>4. PICK b \in Nat : \A k \in Node : u[k] <= b
    BY <1>1, <1>2, BoundOf
  <1>5. Ends(n, g) \in SUBSET Nat
    BY <1>2, <1>3
  <1>6. \A x \in Ends(n, g) : x <= b
    BY <1>3, <1>4
  <1>7. \E e \in Ends(n, g) : \A x \in Ends(n, g) : x <= e
    BY <1>4, <1>5, <1>6, GreatestNumber
  <1>8. FarthestEnd(n, g) \in Ends(n, g) /\ \A x \in Ends(n, g) : x <= FarthestEnd(n, g)
    BY <1>7 DEF FarthestEnd
  <1> QED
    BY <1>5, <1>8

(* The last element of an array ends at a natural number.                  *)
LEMMA RegSpan ==
  ASSUME TreeGrown, NEW n \in Node, tree[n].array_count # None
  PROVE  (tree[n].array_count - 1) * tree[n].array_stride + tree[n].bytes \in Nat
  <1>1. /\ tree[n].array_count - 1 \in Nat /\ tree[n].array_stride \in Nat
        /\ tree[n].bytes \in Nat
    BY NodeShape
  <1> QED
    BY <1>1

(* Span is what its definition says: a node's rank is its distance from    *)
(* the end of the tree, as children are declared after their parent.       *)
LEMMA SpanUnfolds ==
  ASSUME TreeGrown
  PROVE  Span \in [Node -> Nat] /\ \A n \in Node : Span[n] = SpanFrom(n, Span)
  <1>1. Len(tree) \in Nat /\ Node = 1 .. Len(tree)
    BY DEF TreeGrown, Node
  <1> DEFINE h == [n \in Node |-> [g \in [Node -> Nat] |-> SpanFrom(n, g)]]
             rank == [n \in Node |-> Len(tree) - n]
  <1>2. \A n \in Node, g \in [Node -> Nat] : SpanFrom(n, g) \in Nat
    BY NodeShape, LastEnd, RegSpan DEF SpanFrom
  <1>3. rank \in [Node -> Nat] /\ h \in [Node -> [[Node -> Nat] -> Nat]]
    BY <1>1, <1>2
  <1>4. ASSUME NEW n \in Node, NEW a \in [Node -> Nat], NEW b \in [Node -> Nat],
               \A m \in Node : rank[m] < rank[n] => a[m] = b[m]
        PROVE  h[n][a] = h[n][b]
    <2>1. ASSUME NEW k \in Inside(n) PROVE a[k] = b[k]
      <3>1. k \in Node /\ n < k
        BY NodeFacts DEF Inside
      <3>2. rank[k] < rank[n]
        BY <1>1, <3>1
      <3> QED
        BY <1>4, <3>1, <3>2
    <2>2. Ends(n, a) = Ends(n, b)
      BY <2>1 DEF Ends
    <2>3. SpanFrom(n, a) = SpanFrom(n, b)
      BY <2>2 DEF SpanFrom, FarthestEnd
    <2> QED
      BY <2>3
  <1>5. HasSolution(Node, Nat, h)
    <2>1. Nat # {}
      OBVIOUS
    <2> HIDE DEF h, rank
    <2>2. FromLower(Node, rank, Nat, h)
      BY <1>3, <1>4, <2>1 DEF FromLower
    <2> QED
      BY <2>2, CourseOfValues
  <1>6. PICK f \in [Node -> Nat] : \A n \in Node : f[n] = h[n][f]
    BY <1>5 DEF HasSolution
  <1>7. f = [n \in Node |-> SpanFrom(n, f)]
    BY <1>6
  <1>8. Span = CHOOSE g : g = [n \in Node |-> SpanFrom(n, g)]
    BY DEF Span, SpanFrom, Ends, FarthestEnd, Inside
  <1>9. Span = [n \in Node |-> SpanFrom(n, Span)]
    BY <1>7, <1>8
  <1>10. ASSUME NEW n \in Node, \A k \in Inside(n) : Span[k] \in Nat PROVE Span[n] \in Nat
    <2> DEFINE g == [k \in Node |-> IF Span[k] \in Nat THEN Span[k] ELSE 0]
    <2>1. g \in [Node -> Nat] /\ \A k \in Inside(n) : g[k] = Span[k]
      BY <1>10 DEF Inside
    <2> HIDE DEF g
    <2>2. Ends(n, g) = Ends(n, Span)
      BY <2>1 DEF Ends
    <2>3. SpanFrom(n, Span) = SpanFrom(n, g)
      BY <2>2 DEF SpanFrom, FarthestEnd
    <2> QED
      BY <1>2, <1>9, <2>1, <2>3
  <1> DEFINE Wrong == {i \in Nat : \E n \in Node : i = Len(tree) - n /\ Span[n] \notin Nat}
  <1>11. ASSUME Wrong # {} PROVE FALSE
    <2>1. Wrong \in SUBSET Nat
      OBVIOUS
    <2>2. PICK i \in Wrong : \A j \in Wrong : i <= j
      BY <1>11, <2>1, LeastNumber
    <2>3. PICK n \in Node : i = Len(tree) - n /\ Span[n] \notin Nat
      BY <2>2
    <2>4. ASSUME NEW k \in Inside(n) PROVE Span[k] \in Nat
      <3>1. k \in Node /\ n < k
        BY NodeFacts DEF Inside
      <3>2. Len(tree) - k \in Nat /\ ~(i <= Len(tree) - k)
        BY <1>1, <2>3, <3>1
      <3>3. Len(tree) - k \notin Wrong
        BY <2>2, <3>2
      <3> QED
        BY <3>1, <3>2, <3>3
    <2> QED
      BY <1>10, <2>3, <2>4
  <1>12. \A n \in Node : Len(tree) - n \in Nat
    BY <1>1
  <1>13. \A n \in Node : Span[n] \in Nat
    BY <1>11, <1>12
  <1>14. \A n \in Node : Span[n] = SpanFrom(n, Span)
    BY <1>9
  <1>15. Span \in [Node -> Nat]
    BY <1>9, <1>13
  <1> QED
    BY <1>14, <1>15

(* A node is at its offset from its parent, and ends within it.            *)
LEMMA AddressIs ==
  ASSUME TreeGrown
  PROVE  /\ \A n \in 0 .. Len(tree) : AbsoluteAddress[n] \in Nat
         /\ AbsoluteAddress[0] = 0
         /\ \A n \in Node : AbsoluteAddress[n] = AbsoluteAddress[tree[n].parent] + tree[n].offset
  <1> DEFINE D == 0 .. Len(tree)
             AddressFrom(n, g) == IF n = 0 THEN 0 ELSE g[tree[n].parent] + tree[n].offset
             h == [n \in D |-> [g \in [D -> Nat] |-> AddressFrom(n, g)]]
             rank == [n \in D |-> n]
  <1>1. Len(tree) \in Nat /\ \A n \in D : n \in Nat /\ (n # 0 => n \in Node)
    BY DEF TreeGrown, Node
  <1>2. \A n \in Node : /\ tree[n].parent \in D /\ tree[n].parent < n /\ tree[n].offset \in Nat
                        /\ n \in D /\ n # 0
    BY <1>1, NodeFacts, NodeShape DEF Node
  <1>3. rank \in [D -> Nat] /\ h \in [D -> [[D -> Nat] -> Nat]]
    BY <1>1, <1>2
  <1>4. ASSUME NEW n \in D, NEW a \in [D -> Nat], NEW b \in [D -> Nat],
               \A m \in D : rank[m] < rank[n] => a[m] = b[m]
        PROVE  h[n][a] = h[n][b]
    BY <1>1, <1>2, <1>4
  <1>5. HasSolution(D, Nat, h)
    <2>1. Nat # {}
      OBVIOUS
    <2> HIDE DEF h, rank, D
    <2>2. FromLower(D, rank, Nat, h)
      BY <1>3, <1>4, <2>1 DEF FromLower
    <2> QED
      BY <2>2, CourseOfValues
  <1>6. PICK f \in [D -> Nat] : \A n \in D : f[n] = h[n][f]
    BY <1>5 DEF HasSolution
  <1>7. f = [n \in D |-> AddressFrom(n, f)]
    BY <1>6
  <1>8. AbsoluteAddress = CHOOSE g : g = [n \in D |-> AddressFrom(n, g)]
    BY DEF AbsoluteAddress
  <1>9. AbsoluteAddress = [n \in D |-> AddressFrom(n, AbsoluteAddress)]
    <2> HIDE DEF AddressFrom
    <2> QED
      BY <1>7, <1>8
  <1>10. AbsoluteAddress[0] = 0 /\ 0 \in D
    BY <1>1, <1>9
  <1>11. \A n \in Node : AbsoluteAddress[n] = AbsoluteAddress[tree[n].parent] + tree[n].offset
    BY <1>2, <1>9
  <1> DEFINE Wrong == {n \in Nat : n \in D /\ AbsoluteAddress[n] \notin Nat}
  <1>12. ASSUME Wrong # {} PROVE FALSE
    <2>1. Wrong \in SUBSET Nat
      OBVIOUS
    <2>2. PICK n \in Wrong : \A m \in Wrong : n <= m
      BY <1>12, <2>1, LeastNumber
    <2>3. n \in Node /\ AbsoluteAddress[n] \notin Nat
      BY <1>1, <1>10, <2>2
    <2>4. tree[n].parent \in Nat /\ tree[n].parent \in D /\ ~(n <= tree[n].parent)
      BY <1>1, <1>2, <2>3
    <2>5. AbsoluteAddress[tree[n].parent] \in Nat
      BY <2>2, <2>4
    <2> QED
      BY <1>2, <1>11, <2>3, <2>5
  <1>13. \A n \in D : AbsoluteAddress[n] \in Nat
    BY <1>1, <1>12
  <1> QED
    BY <1>10, <1>11, <1>13

Base(n) == AbsoluteAddress[n]

End(n) == AbsoluteAddress[n] + Span[n]

(* A regfile reaches to the end of each of its children.                   *)
LEMMA NodeWithinParent ==
  ASSUME TreeGrown, NEW n \in Node
  PROVE  /\ Base(n) \in Nat /\ End(n) \in Nat /\ Span[n] \in Nat
         /\ Base(n) <= End(n)
         /\ tree[n].parent \in Node =>
              Base(tree[n].parent) <= Base(n) /\ End(n) <= End(tree[n].parent)
  <1>1. n \in 0 .. Len(tree) /\ Base(n) \in Nat /\ Span[n] \in Nat
    BY AddressIs, SpanUnfolds DEF Base, Node, TreeGrown
  <1>2. ASSUME tree[n].parent \in Node
        PROVE  Base(tree[n].parent) <= Base(n) /\ End(n) <= End(tree[n].parent)
    <2> DEFINE p == tree[n].parent
    <2>1. ~IsReg(p) /\ p # 0
      BY <1>2, NodeFacts DEF Node
    <2>2. n \in Inside(p) /\ tree[n].offset + Span[n] \in Ends(p, Span)
      BY DEF Inside, Ends
    <2>3. Span \in [Node -> Nat] /\ Span[p] = SpanFrom(p, Span)
      BY <1>2, SpanUnfolds
    <2>4. Span[p] = FarthestEnd(p, Span)
      BY <2>1, <2>2, <2>3 DEF SpanFrom
    <2>5. tree[n].offset + Span[n] <= Span[p] /\ Span[p] \in Nat
      BY <2>2, <2>3, <2>4, LastEnd
    <2>6. Base(n) = Base(p) + tree[n].offset /\ Base(p) \in Nat /\ tree[n].offset \in Nat
      <3>1. p \in 0 .. Len(tree)
        BY <1>2 DEF Node
      <3> QED
        BY <3>1, AddressIs, NodeShape DEF Base
    <2> QED
      BY <1>1, <2>5, <2>6 DEF Base, End
  <1> QED
    BY <1>1, <1>2 DEF Base, End

(* Two nodes are apart, or one contains the other. Below(x, y): y is, or   *)
(* is within, a child of x.                                                *)
Apart(x, y) == x \in Node /\ y \in Node /\ (End(x) <= Base(y) \/ End(y) <= Base(x))

Below(x, y) ==
  y \in Node /\ \E c \in Node : /\ tree[c].parent = x /\ c <= y
                                /\ Base(c) <= Base(y) /\ End(y) <= End(c)

(* Of siblings, elaboration says that they do not overlap.                 *)
LEMMA SiblingsApart ==
  ASSUME TreeGrown, Elaborated, NEW c \in Node, NEW d \in Node, c # d,
         tree[c].parent = tree[d].parent
  PROVE  Apart(c, d)
  <1>1. \/ tree[c].offset + Span[c] <= tree[d].offset
        \/ tree[d].offset + Span[d] <= tree[c].offset
    BY DEF Elaborated
  <1> DEFINE a == AbsoluteAddress[tree[c].parent]
  <1>2. AbsoluteAddress[c] = a + tree[c].offset /\ AbsoluteAddress[d] = a + tree[d].offset
    BY AddressIs
  <1>3. a \in Nat
    <2>1. tree[c].parent \in 0 .. Len(tree)
      BY NodeFacts DEF Node
    <2> QED
      BY <2>1, AddressIs
  <1>4. tree[c].offset \in Nat /\ tree[d].offset \in Nat /\ Span[c] \in Nat /\ Span[d] \in Nat
    BY NodeShape, NodeWithinParent
  <1> HIDE DEF a
  <1>5. End(c) <= Base(d) \/ End(d) <= Base(c)
    BY <1>1, <1>2, <1>3, <1>4 DEF End, Base
  <1> QED
    BY <1>5 DEF Apart

(* Within what is apart, everything is apart.                              *)
LEMMA WithinApart ==
  ASSUME TreeGrown, NEW c \in Node, NEW d \in Node, NEW x \in Node, NEW y \in Node, Apart(c, d),
         Base(c) <= Base(x), End(x) <= End(c), Base(d) <= Base(y), End(y) <= End(d)
  PROVE  Apart(x, y)
  <1>1. \A n \in Node : Base(n) \in Nat /\ End(n) \in Nat
    BY NodeWithinParent
  <1>2. End(c) <= Base(d) \/ End(d) <= Base(c)
    BY DEF Apart
  <1>3. End(x) <= Base(y) \/ End(y) <= Base(x)
    BY <1>1, <1>2
  <1> QED
    BY <1>3 DEF Apart

Related(x, y) == Apart(x, y) \/ Below(x, y) \/ Below(y, x)

(* Were there nodes not so related, the later of the two could be taken as *)
(* early as possible, and its parent would be related to the other.        *)
LEMMA AllRelated ==
  ASSUME TreeGrown, Elaborated
  PROVE  \A x, y \in 0 .. Len(tree) : x < y => Related(x, y)
  <1> DEFINE D == 0 .. Len(tree)
             Wrong == {y \in Nat : y \in D /\ \E x \in D : x < y /\ ~Related(x, y)}
  <1>1. Len(tree) \in Nat /\ \A n \in D : n \in Nat /\ (n # 0 => n \in Node)
    BY DEF TreeGrown, Node
  <1>2. ASSUME Wrong # {} PROVE FALSE
    <2>1. Wrong \in SUBSET Nat
      OBVIOUS
    <2>2. PICK y \in Wrong : \A z \in Wrong : y <= z
      BY <1>2, <2>1, LeastNumber
    <2>3. PICK x \in D : x < y /\ ~Related(x, y)
      BY <2>2
    <2> DEFINE p == tree[y].parent
    <2>4. y \in Node /\ y \in D /\ x \in Nat
      BY <1>1, <2>2, <2>3
    <2>5. p \in D /\ p \in Nat /\ p < y
      BY <1>1, <2>4, NodeFacts DEF Node
    <2>6. Base(y) \in Nat /\ End(y) \in Nat
      BY <2>4, NodeWithinParent
    <2>7. p # 0 => p \in Node /\ Base(p) <= Base(y) /\ End(y) <= End(p)
      BY <1>1, <2>4, <2>5, NodeWithinParent
    <2> HIDE DEF Wrong
    <2>8. CASE p = x
      <3>1. Below(x, y)
        BY <1>1, <2>4, <2>6, <2>8 DEF Below
      <3> QED
        BY <2>3, <3>1 DEF Related
    <2>9. CASE x < p
      <3>1. p \notin Wrong
        <4>1. ~(y <= p)
          BY <2>4, <2>5, NodeFacts
        <4> QED
          BY <2>2, <4>1
      <3>2. Related(x, p) /\ p # 0 /\ p \in Node
        BY <1>1, <2>3, <2>4, <2>5, <2>9, <3>1 DEF Wrong
      <3>3. CASE Apart(x, p)
        <4>1. x \in Node
          BY <3>3 DEF Apart
        <4>2. Base(x) \in Nat /\ End(x) \in Nat
          BY <4>1, NodeWithinParent
        <4>3. Base(x) <= Base(x) /\ End(x) <= End(x)
          BY <4>2
        <4>4. Base(p) <= Base(y) /\ End(y) <= End(p)
          BY <2>7, <3>2
        <4>5. Apart(x, y)
          BY <2>4, <3>2, <3>3, <4>1, <4>3, <4>4, WithinApart
        <4> QED
          BY <2>3, <4>5 DEF Related
      <3>4. CASE Below(x, p)
        <4>1. PICK c \in Node : /\ tree[c].parent = x /\ c <= p
                                /\ Base(c) <= Base(p) /\ End(p) <= End(c)
          BY <3>4 DEF Below
        <4>2. \A n \in {c, p, y} : Base(n) \in Nat /\ End(n) \in Nat /\ n \in Nat
          BY <2>4, <2>5, <3>2, <4>1, NodeFacts, NodeWithinParent
        <4>3. c <= y /\ Base(c) <= Base(y) /\ End(y) <= End(c)
          BY <2>5, <2>7, <3>2, <4>1, <4>2
        <4>4. Below(x, y)
          BY <2>4, <4>1, <4>3 DEF Below
        <4> QED
          BY <2>3, <4>4 DEF Related
      <3>5. CASE Below(p, x)
        <4>1. PICK c \in Node : tree[c].parent = p /\ c <= x
          BY <3>5 DEF Below
        <4>2. p < c
          BY <4>1, NodeFacts
        <4> QED
          BY <2>4, <2>5, <2>9, <4>1, <4>2, NodeFacts
      <3> QED
        BY <3>2, <3>3, <3>4, <3>5 DEF Related
    <2>10. CASE p < x
      <3>1. x \notin Wrong
        BY <2>2, <2>3, <2>4
      <3>2. Related(p, x) /\ x # 0 /\ x \in Node
        BY <1>1, <2>3, <2>4, <2>5, <2>10, <3>1 DEF Wrong
      <3>0. Base(x) \in Nat /\ End(x) \in Nat
        BY <3>2, NodeWithinParent
      <3>3. CASE Apart(p, x)
        <4>1. p \in Node /\ p # 0
          BY <1>1, <3>3 DEF Apart, Node
        <4>2. Base(x) <= Base(x) /\ End(x) <= End(x)
          BY <3>0
        <4>3. Base(p) <= Base(y) /\ End(y) <= End(p)
          BY <2>7, <4>1
        <4>4. Apart(y, x)
          BY <2>4, <3>2, <3>3, <4>1, <4>2, <4>3, WithinApart
        <4>5. Apart(x, y)
          BY <4>4 DEF Apart
        <4> QED
          BY <2>3, <4>5 DEF Related
      <3>4. CASE Below(p, x)
        <4>1. PICK c \in Node : /\ tree[c].parent = p /\ c <= x
                                /\ Base(c) <= Base(x) /\ End(x) <= End(c)
          BY <3>4 DEF Below
        <4>2. c # y
          BY <2>3, <2>4, <4>1, NodeFacts
        <4>3. Apart(c, y)
          BY <2>4, <4>1, <4>2, SiblingsApart
        <4>4. Apart(x, y)
          BY <2>4, <2>6, <3>2, <4>1, <4>3, WithinApart
        <4> QED
          BY <2>3, <4>4 DEF Related
      <3>5. CASE Below(x, p)
        <4>1. PICK c \in Node : tree[c].parent = x /\ c <= p
          BY <3>5 DEF Below
        <4>2. x < c
          BY <4>1, NodeFacts
        <4> QED
          BY <2>4, <2>5, <2>10, <4>1, <4>2, NodeFacts
      <3> QED
        BY <3>2, <3>3, <3>4, <3>5 DEF Related
    <2> QED
      BY <2>4, <2>5, <2>8, <2>9, <2>10
  <1> QED
    BY <1>1, <1>2

(* No register contains another: what has children is a regfile.           *)
LEMMA RegistersApart ==
  ASSUME TreeGrown, Elaborated, NEW r \in Node, NEW s \in Node, IsReg(r), IsReg(s), r # s
  PROVE  Apart(r, s)
  <1>1. \A x, y : x \in Node /\ IsReg(x) => ~Below(x, y)
    <2> SUFFICES ASSUME NEW x \in Node, IsReg(x), NEW y, Below(x, y) PROVE FALSE
      OBVIOUS
    <2>1. PICK c \in Node : tree[c].parent = x
      BY DEF Below
    <2> QED
      BY <2>1, NodeFacts
  <1>2. r \in 0 .. Len(tree) /\ s \in 0 .. Len(tree) /\ r \in Nat /\ s \in Nat
    BY NodeFacts DEF Node
  <1>3. Related(r, s) \/ Related(s, r)
    BY <1>2, AllRelated
  <1> QED
    BY <1>1, <1>3 DEF Related, Apart

-----------------------------------------------------------------------------
(* The elements of registers.                                              *)
LEMMA TimesGrows ==
  ASSUME NEW i \in Nat, NEW j \in Nat, NEW s \in Nat
  PROVE  /\ i * s \in Nat
         /\ i <= j => i * s <= j * s
         /\ i < j => i * s + s <= j * s
  <1>1. ASSUME i <= j PROVE j * s = i * s + (j - i) * s /\ (j - i) * s \in Nat
    BY <1>1
  <1>2. ASSUME i < j PROVE j * s = i * s + s + (j - i - 1) * s /\ (j - i - 1) * s \in Nat
    BY <1>2
  <1>3. i * s \in Nat /\ j * s \in Nat
    OBVIOUS
  <1>4. ASSUME i <= j PROVE i * s <= j * s
    <2> DEFINE a == i * s
               b == j * s
               c == (j - i) * s
    <2>1. a \in Nat /\ c \in Nat /\ b = a + c
      BY <1>1, <1>3, <1>4
    <2> HIDE DEF a, b, c
    <2>2. a <= b
      BY <2>1
    <2> QED
      BY <2>2 DEF a, b
  <1>5. ASSUME i < j PROVE i * s + s <= j * s
    <2> DEFINE a == i * s
               b == j * s
               c == (j - i - 1) * s
    <2>1. a \in Nat /\ c \in Nat /\ b = a + s + c
      BY <1>2, <1>3, <1>5
    <2> HIDE DEF a, b, c
    <2>2. a + s <= b
      BY <2>1
    <2> QED
      BY <2>2 DEF a, b
  <1> QED
    BY <1>3, <1>4, <1>5

(* The elements of a register lie between its base and the end of its      *)
(* span.                                                                   *)
LEMMA ElementWithin ==
  ASSUME TreeGrown, NEW r \in Node, IsReg(r), NEW i \in Elements(r)
  PROVE  /\ i \in Nat /\ ElementAddress(r, i) \in Nat /\ tree[r].bytes \in Nat \ {0}
         /\ Base(r) <= ElementAddress(r, i)
         /\ ElementAddress(r, i) + tree[r].bytes <= End(r)
  <1> DEFINE bytes == tree[r].bytes
             stride == tree[r].array_stride
             count == tree[r].array_count
  <1>1. bytes \in Nat \ {0} /\ stride \in Nat \ {0} /\ (count = None \/ count \in Nat \ {0})
    BY NodeShape DEF IsReg
  <1>2. Base(r) \in Nat /\ Span[r] = SpanFrom(r, Span) /\ Span[r] \in Nat
    BY NodeWithinParent, SpanUnfolds
  <1>3. CASE count = None
    <2>1. i = 0 /\ Span[r] = bytes
      BY <1>2, <1>3 DEF Elements, SpanFrom
    <2>2. ElementAddress(r, i) = Base(r) + 0 * stride
      BY <2>1 DEF ElementAddress, Base
    <2>3. 0 * stride = 0
      BY <1>1
    <2> HIDE DEF bytes, stride
    <2>4. ElementAddress(r, i) = Base(r)
      BY <1>2, <2>2, <2>3
    <2> QED
      BY <1>1, <1>2, <2>1, <2>4 DEF End, Base, bytes
  <1>4. CASE count # None
    <2>1. count \in Nat \ {0} /\ i \in Nat /\ count - 1 \in Nat /\ i <= count - 1
      BY <1>1, <1>4 DEF Elements
    <2>2. Span[r] = (count - 1) * stride + bytes
      BY <1>2, <1>4 DEF SpanFrom
    <2>3. i * stride <= (count - 1) * stride /\ i * stride \in Nat /\ (count - 1) * stride \in Nat
      BY <1>1, <2>1, TimesGrows
    <2>4. ElementAddress(r, i) = Base(r) + i * stride
      BY DEF ElementAddress, Base
    <2> DEFINE a == i * stride
               b == (count - 1) * stride
    <2>5. a <= b /\ a \in Nat /\ b \in Nat /\ Span[r] = b + bytes /\ ElementAddress(r, i) = Base(r) + a
      BY <2>2, <2>3, <2>4
    <2> HIDE DEF a, b, bytes, stride, count
    <2>6. End(r) = Base(r) + b + bytes
      BY <1>1, <1>2, <2>5 DEF End, Base
    <2>7. /\ ElementAddress(r, i) \in Nat /\ Base(r) <= ElementAddress(r, i)
          /\ ElementAddress(r, i) + bytes <= End(r)
      BY <1>1, <1>2, <2>5, <2>6
    <2> QED
      BY <1>1, <2>1, <2>7 DEF bytes
  <1> QED
    BY <1>3, <1>4

(* Two elements never share an address: those of one register are strides  *)
(* apart, and a stride holds a register.                                   *)
LEMMA ElementsApart ==
  ASSUME TreeGrown, Elaborated, NEW r \in Node, IsReg(r), NEW s \in Node, IsReg(s),
         NEW i \in Elements(r), NEW j \in Elements(s),
         ElementAddress(r, i) = ElementAddress(s, j)
  PROVE  r = s /\ i = j
  <1>1. ASSUME r # s PROVE FALSE
    <2>1. End(r) <= Base(s) \/ End(s) <= Base(r)
      BY <1>1, RegistersApart DEF Apart
    <2>2. /\ Base(r) \in Nat /\ End(r) \in Nat /\ Base(s) \in Nat /\ End(s) \in Nat
      BY NodeWithinParent
    <2>3. /\ ElementAddress(r, i) \in Nat /\ tree[r].bytes \in Nat \ {0}
          /\ Base(r) <= ElementAddress(r, i)
          /\ ElementAddress(r, i) + tree[r].bytes <= End(r)
      BY ElementWithin
    <2>4. /\ tree[s].bytes \in Nat \ {0}
          /\ Base(s) <= ElementAddress(r, i)
          /\ ElementAddress(r, i) + tree[s].bytes <= End(s)
      BY ElementWithin
    <2> QED
      BY <2>1, <2>2, <2>3, <2>4
  <1>2. ASSUME NEW a \in Elements(r), NEW b \in Elements(r), a < b
        PROVE  ElementAddress(r, a) # ElementAddress(r, b)
    <2> DEFINE stride == tree[r].array_stride
    <2>1. a \in Nat /\ b \in Nat /\ Base(r) \in Nat /\ stride \in Nat \ {0}
      BY ElementWithin, NodeWithinParent, NodeShape
    <2>2. a * stride + stride <= b * stride /\ a * stride \in Nat /\ b * stride \in Nat
      BY <1>2, <2>1, TimesGrows
    <2>3. ElementAddress(r, a) = Base(r) + a * stride /\ ElementAddress(r, b) = Base(r) + b * stride
      BY DEF ElementAddress, Base
    <2> DEFINE x == a * stride
               y == b * stride
    <2>4. x + stride <= y /\ x \in Nat /\ y \in Nat
      BY <2>2
    <2> HIDE DEF x, y, stride
    <2>5. Base(r) + x # Base(r) + y
      BY <2>1, <2>4
    <2> QED
      BY <2>3, <2>5 DEF x, y, stride
  <1>3. r = s
    BY <1>1
  <1>4. i \in Nat /\ j \in Nat /\ j \in Elements(r) /\ ElementAddress(r, i) = ElementAddress(r, j)
    BY <1>3, ElementWithin
  <1>5. ~(i < j) /\ ~(j < i)
    BY <1>2, <1>4
  <1> QED
    BY <1>3, <1>4, <1>5

(* The elements of a scanned design.                                       *)
LEMMA ElementIs ==
  ASSUME ScanInv, step = "done", NEW e \in Element
  PROVE  e[1] \in Node /\ IsReg(e[1]) /\ e[2] \in Elements(e[1]) /\ e = <<e[1], e[2]>>
  <1>1. ToSet(regs) = {n \in Node : IsReg(n)}
    BY DEF ScanInv, EveryRegisterScanned
  <1>2. PICK r \in ToSet(regs) : e \in {r} \X Elements(r)
    BY DEF Element
  <1> QED
    BY <1>1, <1>2

(* The derived width holds the last byte of every element.                 *)
LEMMA DerivedWidthHolds ==
  ASSUME ScanInv, step = "done"
  PROVE  /\ DerivedWidth \in Nat
         /\ \A e \in Element : ElementAddress(e[1], e[2]) + tree[e[1]].bytes <= Pow2[DerivedWidth]
  <1>1. TreeGrown /\ Len(tree) \in Nat /\ Node = 1 .. Len(tree)
    BY DEF ScanInv, TreeGrown, Node
  <1>2. [n \in Node |-> End(n)] \in [Node -> Nat]
    BY <1>1, NodeWithinParent
  <1>3. PICK b \in Nat : \A n \in Node : End(n) <= b
    <2>1. \E b \in Nat : \A n \in 1 .. Len(tree) : [m \in Node |-> End(m)][n] <= b
      BY <1>1, <1>2, BoundOf
    <2> QED
      BY <1>1, <2>1
  <1> DEFINE last(e) == ElementAddress(e[1], e[2]) + tree[e[1]].bytes - 1
  <1>4. ASSUME NEW e \in Element
        PROVE  /\ last(e) \in Nat /\ last(e) <= b
               /\ ElementAddress(e[1], e[2]) + tree[e[1]].bytes = last(e) + 1
    <2>1. e[1] \in Node /\ IsReg(e[1]) /\ e[2] \in Elements(e[1])
      BY ElementIs
    <2>2. /\ ElementAddress(e[1], e[2]) \in Nat /\ tree[e[1]].bytes \in Nat \ {0}
          /\ ElementAddress(e[1], e[2]) + tree[e[1]].bytes <= End(e[1]) /\ End(e[1]) <= b
          /\ End(e[1]) \in Nat
      BY <1>1, <1>3, <2>1, ElementWithin, NodeWithinParent
    <2> QED
      BY <2>2
  <1>5. LastBytes \in SUBSET Nat /\ LastBytes # {} /\ \A t \in LastBytes : t <= b
    BY <1>3, <1>4 DEF LastBytes
  <1> DEFINE top == CHOOSE a \in LastBytes : \A c \in LastBytes : c <= a
  <1>6. top \in Nat /\ \A c \in LastBytes : c <= top
    <2>1. \E a \in LastBytes : \A c \in LastBytes : c <= a
      BY <1>3, <1>5, GreatestNumber
    <2>2. top \in LastBytes /\ \A c \in LastBytes : c <= top
      BY <2>1
    <2> QED
      BY <1>5, <2>2
  <1>7. DerivedWidth = IF BitLength(top) < 1 THEN 1 ELSE BitLength(top)
    BY DEF DerivedWidth
  <1> HIDE DEF top
  <1>8. BitLength(top) \in Nat /\ top < Pow2[BitLength(top)]
    BY <1>6, BitLengthIs
  <1>9. DerivedWidth \in Nat /\ BitLength(top) <= DerivedWidth
    BY <1>7, <1>8
  <1>10. Pow2[BitLength(top)] <= Pow2[DerivedWidth]
    BY <1>8, <1>9, Pow2Grows
  <1>11. ASSUME NEW e \in Element
         PROVE  ElementAddress(e[1], e[2]) + tree[e[1]].bytes <= Pow2[DerivedWidth]
    <2>1. last(e) \in LastBytes
      BY <1>11 DEF LastBytes
    <2>2. last(e) <= top /\ last(e) \in Nat
      BY <1>4, <1>6, <2>1
    <2>3. Pow2[BitLength(top)] \in Nat /\ Pow2[DerivedWidth] \in Nat
      BY <1>8, <1>9, Pow2Is
    <2>4. ElementAddress(e[1], e[2]) + tree[e[1]].bytes = last(e) + 1
      BY <1>4
    <2> HIDE DEF last
    <2> QED
      BY <1>6, <1>8, <1>10, <2>2, <2>3, <2>4
  <1> QED
    BY <1>9, <1>11

(* Addresses decode in every state of the invariants.                      *)
LEMMA AddressesFit == ScanInv /\ WidthInv => AddressesDecode
  <1> SUFFICES ASSUME ScanInv, WidthInv, step = "done", override = None \/ override >= DerivedWidth
               PROVE  \A e, d \in Element :
                 /\ ElementAddress(e[1], e[2]) + tree[e[1]].bytes <= Pow2[addr_width]
                 /\ (ElementAddress(e[1], e[2]) - ElementAddress(d[1], d[2])) % Pow2[addr_width] = 0 => e = d
    BY DEF AddressesDecode
  <1>1. TreeGrown /\ Elaborated
    BY DEF ScanInv, WidthInv
  <1>2. DerivedWidth \in Nat
    BY DerivedWidthHolds
  <1>3. addr_width \in Nat /\ DerivedWidth <= addr_width
    <2>1. CASE override = None
      BY <1>2, <2>1 DEF WidthInv
    <2>2. CASE override # None
      <3>1. override \in Int /\ addr_width = override /\ override >= DerivedWidth
        BY <2>2, ScanAssumption DEF WidthInv
      <3> QED
        BY <1>2, <3>1
    <2> QED
      BY <2>1, <2>2
  <1>4. Pow2[DerivedWidth] <= Pow2[addr_width] /\ Pow2[DerivedWidth] \in Nat /\ Pow2[addr_width] \in Nat
    BY <1>2, <1>3, Pow2Grows, Pow2Is
  <1>5. ASSUME NEW e \in Element
        PROVE  /\ ElementAddress(e[1], e[2]) + tree[e[1]].bytes <= Pow2[addr_width]
               /\ ElementAddress(e[1], e[2]) \in 0 .. Pow2[addr_width] - 1
               /\ Pow2[addr_width] # 0
    <2>1. ElementAddress(e[1], e[2]) + tree[e[1]].bytes <= Pow2[DerivedWidth]
      BY DerivedWidthHolds
    <2>2. e[1] \in Node /\ IsReg(e[1]) /\ e[2] \in Elements(e[1])
      BY ElementIs
    <2>3. ElementAddress(e[1], e[2]) \in Nat /\ tree[e[1]].bytes \in Nat \ {0}
      BY <1>1, <2>2, ElementWithin
    <2> QED
      BY <1>4, <2>1, <2>3
  <1>6. ASSUME NEW e \in Element, NEW d \in Element,
               (ElementAddress(e[1], e[2]) - ElementAddress(d[1], d[2])) % Pow2[addr_width] = 0
        PROVE  e = d
    <2>1. ElementAddress(e[1], e[2]) = ElementAddress(d[1], d[2])
      BY <1>4, <1>5, <1>6, SmallRemainder
    <2>2. /\ e[1] \in Node /\ IsReg(e[1]) /\ e[2] \in Elements(e[1]) /\ e = <<e[1], e[2]>>
          /\ d[1] \in Node /\ IsReg(d[1]) /\ d[2] \in Elements(d[1]) /\ d = <<d[1], d[2]>>
      BY ElementIs
    <2>3. e[1] = d[1] /\ e[2] = d[2]
      BY <1>1, <2>1, <2>2, ElementsApart
    <2> QED
      BY <2>2, <2>3
  <1> QED
    BY <1>5, <1>6

(* A step that leaves the tree and the registers alone leaves what is      *)
(* defined from them.                                                      *)
LEMMA ElaboratedKept == ASSUME tree' = tree PROVE Elaborated' = Elaborated
  BY DEF Elaborated, Span, IsReg, Node

LEMMA DerivedWidthKept ==
  ASSUME tree' = tree, regs' = regs PROVE DerivedWidth' = DerivedWidth
  BY DEF DerivedWidth, LastBytes, Element, Elements, ElementAddress, AbsoluteAddress

(* What the lookup resolved addr_width to is an argument scan() can get.   *)
LEMMA AddrWidthTyped ==
  ASSUME LookupInv, phase = "compile" PROVE AddrWidth \subseteq {None} \cup Overrides
  <1>1. knobs["addr_width"] = Resolve("addr_width")
    <2>1. knobs = [k \in Knob |-> Resolve(k)] /\ "addr_width" \in Knob
      BY DEF LookupInv, Knob, GlobalKey, CpuifKey
    <2> QED
      BY <2>1
  <1>2. knobs["addr_width"] \in {"flag", "file", "default"}
    BY <1>1 DEF Resolve
  <1> QED
    BY <1>2 DEF AddrWidth

(* The tree the walk starts on is elaborated and stays as it is, and the   *)
(* width is set from an override that does too.                            *)
LEMMA WidthNextInv == WidthInv /\ (ScanNext \/ UNCHANGED scanVars) => WidthInv'
  <1> SUFFICES ASSUME WidthInv, ScanNext \/ UNCHANGED scanVars PROVE WidthInv'
    OBVIOUS
  <1>1. CASE Declare \/ CompileError
    BY <1>1 DEF WidthInv, Declare, CompileError
  <1>2. CASE StartWalk \/ WalkNode \/ EndWalk
    <2>1. Elaborated /\ tree' = tree /\ override' = override /\ step' # "done"
      BY <1>2 DEF WidthInv, StartWalk, WalkNode, EndWalk
    <2> QED
      BY <2>1, ElaboratedKept DEF WidthInv
  <1>3. CASE SetWidth
    <2>1. Elaborated /\ tree' = tree /\ regs' = regs /\ override' = override
      BY <1>3 DEF WidthInv, SetWidth
    <2>2. step' = "done" => addr_width' = IF override = None THEN DerivedWidth ELSE override
      BY <1>3 DEF SetWidth
    <2> QED
      BY <2>1, <2>2, ElaboratedKept, DerivedWidthKept DEF WidthInv
  <1>4. CASE UNCHANGED scanVars
    <2>1. /\ tree' = tree /\ regs' = regs /\ override' = override /\ step' = step
          /\ addr_width' = addr_width
      BY <1>4 DEF scanVars
    <2> QED
      BY <2>1, ElaboratedKept, DerivedWidthKept DEF WidthInv
  <1> QED
    BY <1>1, <1>2, <1>3, <1>4 DEF ScanNext

(* What the addresses rest on holds throughout main().                     *)
LEMMA WidthInductive == GenSpec => []WidthInv
  <1>1. GenInit => WidthInv
    BY DEF GenInit, ScanInit, WidthInv
  <1>2. LookupInv /\ WidthInv /\ [GenNext]_genVars => WidthInv'
    <2> SUFFICES ASSUME LookupInv, WidthInv, [GenNext]_genVars PROVE WidthInv'
      OBVIOUS
    <2>1. ASSUME phase = "compile", NEW value \in AddrWidth, Begin(value) PROVE WidthInv'
      <3>1. value \in {None} \cup Overrides
        BY <2>1, AddrWidthTyped
      <3> QED
        BY <2>1, <3>1 DEF Begin, WidthInv
    <2>2. ScanLeft => WidthInv'
      BY DEF ScanLeft, WidthInv
    <2> QED
      BY <2>1, <2>2, WidthNextInv
      DEF GenNext, genVars, Lookup, CallCompiler, CompileAndScan, CallExporter, Exporter, Done
  <1> QED
    BY <1>1, <1>2, LookupInductive, PTL DEF GenSpec

(* The width of the address port is enough for every element's address,    *)
(* and no two elements share one, however deep their regfiles nest, when   *)
(* it is derived or is not less than that (scan_design.py:131-138).        *)
THEOREM AddressesStayApart == GenSpec => []AddressesDecode
  BY AddressesFit, WidthInductive, ScanInductive, PTL

-----------------------------------------------------------------------------
(* The names.                                                              *)

(* The tokens: the strings. The provers do not know of a literal that it   *)
(* is one, and reason better about a literal that has a name.              *)
Bar == "_"

Token == STRING \cup {Bar, "r"}

LEMMA BarIsToken == Bar \in Token
  BY DEF Token

LEMMA AppendApart ==
  ASSUME NEW A, NEW s \in Seq(A), NEW t \in Seq(A), NEW x \in A, NEW y \in A,
         Append(s, x) = Append(t, y)
  PROVE  s = t /\ x = y
  <1>1. Len(s) + 1 = Len(t) + 1 /\ Len(s) \in Nat /\ Len(t) \in Nat
    <2>1. Len(Append(s, x)) = Len(s) + 1 /\ Len(Append(t, y)) = Len(t) + 1
      OBVIOUS
    <2> QED
      BY <2>1
  <1>2. Len(s) = Len(t)
    BY <1>1
  <1>3. x = y
    <2>1. Append(s, x)[Len(s) + 1] = x /\ Append(t, y)[Len(t) + 1] = y
      OBVIOUS
    <2> QED
      BY <1>2, <2>1
  <1>4. \A k \in 1 .. Len(s) : s[k] = t[k]
    <2>1. \A k \in 1 .. Len(s) : Append(s, x)[k] = s[k] /\ Append(t, y)[k] = t[k]
      BY <1>2
    <2> QED
      BY <2>1
  <1> QED
    BY <1>2, <1>3, <1>4

(* Names and fields are names, and stay so when a reserved one is changed. *)
LEMMA FilterIs ==
  ASSUME NEW name \in InstNames \cup FieldNames PROVE Filter(name) \in Seq(Token)
  <1>1. name \in Seq(STRING)
    BY ScanAssumption
  <1>2. name \in Seq(Token)
    BY <1>1 DEF Token
  <1>3. Append(name, Bar) \in Seq(Token)
    BY <1>2, BarIsToken
  <1> QED
    BY <1>2, <1>3 DEF Filter, Bar

LEMMA OwnNameIs == ASSUME TreeGrown, NEW n \in Node PROVE OwnName(n) \in Seq(Token)
  BY NodeShape, FilterIs DEF OwnName

(* The path of a node: its own name, after its parent's path.              *)
Joined(s, name) == s \o <<Bar>> \o name

LEMMA JoinedIs ==
  ASSUME NEW s \in Seq(Token), NEW name \in Seq(Token)
  PROVE  /\ Joined(s, name) \in Seq(Token)
         /\ Joined(s, name) = Append(s, Bar) \o name /\ Append(s, Bar) \in Seq(Token)
         /\ Append(s, Bar) = s \o <<Bar>>
  BY BarIsToken DEF Joined

LEMMA PathIs ==
  ASSUME TreeGrown
  PROVE  \A n \in Node :
           /\ Path[n] \in Seq(Token)
           /\ Path[n] = IF tree[n].parent = 0 THEN OwnName(n)
                        ELSE Joined(Path[tree[n].parent], OwnName(n))
  <1> DEFINE PathFrom(n, g) == IF tree[n].parent = 0 THEN OwnName(n)
                               ELSE Joined(g[tree[n].parent], OwnName(n))
             V == Seq(Token)
             h == [n \in Node |-> [g \in [Node -> V] |-> PathFrom(n, g)]]
             rank == [n \in Node |-> n]
  <1>1. \A n \in Node : /\ tree[n].parent \in Nat /\ n \in Nat /\ tree[n].parent < n
                        /\ tree[n].parent \in {0} \cup Node
    BY NodeFacts
  <1>2. \A n \in Node : OwnName(n) \in V
    BY OwnNameIs
  <1>3. ASSUME NEW n \in Node, NEW g, tree[n].parent # 0 => g[tree[n].parent] \in V
        PROVE  PathFrom(n, g) \in V
    BY <1>1, <1>2, <1>3, JoinedIs
  <1> HIDE DEF V
  <1>4. rank \in [Node -> Nat] /\ h \in [Node -> [[Node -> V] -> V]]
    <2>1. \A n \in Node, g \in [Node -> V] : PathFrom(n, g) \in V
      BY <1>1, <1>3
    <2> HIDE DEF PathFrom
    <2> QED
      BY <1>1, <2>1
  <1>5. ASSUME NEW n \in Node, NEW a \in [Node -> V], NEW b \in [Node -> V],
               \A m \in Node : rank[m] < rank[n] => a[m] = b[m]
        PROVE  h[n][a] = h[n][b]
    BY <1>1, <1>5
  <1>6. HasSolution(Node, V, h)
    <2>1. V # {}
      <3>1. <<>> \in V
        BY DEF V
      <3> QED
        BY <3>1
    <2> HIDE DEF h, rank
    <2>2. FromLower(Node, rank, V, h)
      BY <1>4, <1>5, <2>1 DEF FromLower
    <2> QED
      BY <2>2, CourseOfValues
  <1>7. PICK f \in [Node -> V] : \A n \in Node : f[n] = h[n][f]
    BY <1>6 DEF HasSolution
  <1>8. f = [n \in Node |-> PathFrom(n, f)]
    <2> HIDE DEF PathFrom
    <2> QED
      BY <1>7
  <1>9. Path = CHOOSE g : g = [n \in Node |-> PathFrom(n, g)]
    BY DEF Path, Joined, Bar
  <1>10. Path = [n \in Node |-> PathFrom(n, Path)]
    <2> HIDE DEF PathFrom
    <2> QED
      BY <1>8, <1>9
  <1>11. \A n \in Node : Path[n] = PathFrom(n, Path)
    <2> HIDE DEF PathFrom
    <2> QED
      BY <1>10
  <1> DEFINE Wrong == {n \in Nat : n \in Node /\ Path[n] \notin V}
  <1>12. ASSUME Wrong # {} PROVE FALSE
    <2>1. Wrong \in SUBSET Nat
      OBVIOUS
    <2>2. PICK n \in Wrong : \A m \in Wrong : n <= m
      BY <1>12, <2>1, LeastNumber
    <2>3. n \in Node /\ Path[n] \notin V
      BY <2>2
    <2>4. tree[n].parent \in Nat /\ ~(n <= tree[n].parent)
      BY <1>1, <2>3
    <2>5. tree[n].parent # 0 => Path[tree[n].parent] \in V
      BY <1>1, <2>2, <2>3, <2>4
    <2> QED
      BY <1>3, <1>11, <2>3, <2>5
  <1>13. \A n \in Node : Path[n] \in V
    BY <1>1, <1>12
  <1> QED
    BY <1>11, <1>13 DEF V

(* _camel, one token at a time.                                            *)
Capital(name, k) == (k = 1 \/ name[k - 1] = Bar) /\ name[k] \notin Digit

CamelFrom(name, k, g) ==
  IF k = 0 THEN <<>>
  ELSE IF name[k] = Bar THEN g[k - 1]
  ELSE Append(g[k - 1], <<name[k], Capital(name, k)>>)

CamelTo(name) == CHOOSE g : g = [k \in 0 .. Len(name) |-> CamelFrom(name, k, g)]

Part == Token \X BOOLEAN

(* _camel is what its recursion says.                                      *)
LEMMA CamelUnfolds ==
  ASSUME NEW name \in Seq(Token)
  PROVE  /\ Camel(name) = CamelTo(name)[Len(name)]
         /\ \A k \in 0 .. Len(name) : /\ CamelTo(name)[k] \in Seq(Part)
                                      /\ CamelTo(name)[k] = CamelFrom(name, k, CamelTo(name))
  <1> DEFINE D == 0 .. Len(name)
             V == Seq(Part)
             h == [k \in D |-> [g \in [D -> V] |-> CamelFrom(name, k, g)]]
             rank == [k \in D |-> k]
             C == CamelTo(name)
  <1>1. Len(name) \in Nat /\ \A k \in D : k \in Nat /\ (k # 0 => k - 1 \in D /\ k - 1 < k /\ k \in 1 .. Len(name))
    OBVIOUS
  <1>2. \A k \in 1 .. Len(name) : name[k] \in Token
    OBVIOUS
  <1>3. ASSUME NEW k \in D, NEW g, k # 0 => g[k - 1] \in V PROVE CamelFrom(name, k, g) \in V
    <2>1. CASE k = 0
      <3>1. <<>> \in V
        OBVIOUS
      <3> QED
        BY <2>1, <3>1 DEF CamelFrom
    <2>2. CASE k # 0
      <3>1. <<name[k], Capital(name, k)>> \in Part
        BY <1>1, <1>2, <2>2 DEF Part, Capital
      <3> DEFINE s == g[k - 1]
                 x == <<name[k], Capital(name, k)>>
      <3>2. s \in V /\ x \in Part
        BY <1>3, <2>2, <3>1
      <3>3. CamelFrom(name, k, g) = s \/ CamelFrom(name, k, g) = Append(s, x)
        BY <2>2 DEF CamelFrom
      <3> HIDE DEF s, x
      <3>4. Append(s, x) \in V
        BY <3>2
      <3> QED
        BY <3>2, <3>3, <3>4
    <2> QED
      BY <2>1, <2>2
  <1> HIDE DEF V
  <1>4. rank \in [D -> Nat] /\ h \in [D -> [[D -> V] -> V]]
    <2>1. \A k \in D, g \in [D -> V] : CamelFrom(name, k, g) \in V
      BY <1>1, <1>3
    <2> HIDE DEF D
    <2> QED
      BY <1>1, <2>1
  <1>5. ASSUME NEW k \in D, NEW a \in [D -> V], NEW b \in [D -> V],
               \A j \in D : rank[j] < rank[k] => a[j] = b[j]
        PROVE  h[k][a] = h[k][b]
    <2>1. k # 0 => a[k - 1] = b[k - 1]
      BY <1>1, <1>5
    <2>2. CamelFrom(name, k, a) = CamelFrom(name, k, b)
      BY <2>1 DEF CamelFrom
    <2> QED
      BY <2>2
  <1>6. HasSolution(D, V, h)
    <2>1. V # {}
      <3>1. <<>> \in V
        BY DEF V
      <3> QED
        BY <3>1
    <2> HIDE DEF h, rank, D
    <2>2. FromLower(D, rank, V, h)
      BY <1>4, <1>5, <2>1 DEF FromLower
    <2> QED
      BY <2>2, CourseOfValues
  <1>7. PICK f \in [D -> V] : \A k \in D : f[k] = h[k][f]
    BY <1>6 DEF HasSolution
  <1>8. f = [k \in D |-> CamelFrom(name, k, f)]
    BY <1>7
  <1>9. C = [k \in D |-> CamelFrom(name, k, C)]
    BY <1>8 DEF CamelTo
  <1>10. \A k \in D : C[k] = CamelFrom(name, k, C)
    <2> HIDE DEF C
    <2> QED
      BY <1>9
  <1> DEFINE Wrong == {k \in Nat : k \in D /\ C[k] \notin V}
  <1>11. ASSUME Wrong # {} PROVE FALSE
    <2>1. Wrong \in SUBSET Nat
      OBVIOUS
    <2>2. PICK k \in Wrong : \A j \in Wrong : k <= j
      BY <1>11, <2>1, LeastNumber
    <2> HIDE DEF C
    <2>3. k \in D /\ C[k] \notin V
      BY <2>2
    <2>4. k # 0 => C[k - 1] \in V
      <3>1. k # 0 => k - 1 \in Nat /\ ~(k <= k - 1)
        BY <1>1, <2>3
      <3>2. k # 0 => k - 1 \notin Wrong
        BY <2>2, <3>1
      <3> QED
        BY <1>1, <2>3, <3>1, <3>2
    <2> QED
      BY <1>3, <1>10, <2>3, <2>4
  <1>12. \A k \in D : C[k] \in V
    BY <1>1, <1>11
  <1>13. Camel(name) = C[Len(name)]
    BY DEF Camel, CamelTo, CamelFrom, Capital, Bar
  <1> QED
    BY <1>10, <1>12, <1>13 DEF V

(* What a token more adds.                                                 *)
LEMMA CamelAppend ==
  ASSUME NEW s \in Seq(Token), NEW x \in Token
  PROVE  /\ Camel(s) \in Seq(Part)
         /\ x = Bar => Camel(Append(s, x)) = Camel(s)
         /\ x # Bar => Camel(Append(s, x)) =
              Append(Camel(s), <<x, (Len(s) = 0 \/ s[Len(s)] = Bar) /\ x \notin Digit>>)
  <1> DEFINE t == Append(s, x)
             L == Len(s)
  <1>1. /\ t \in Seq(Token) /\ Len(t) = L + 1 /\ L \in Nat /\ t[L + 1] = x
        /\ \A k \in 1 .. L : t[k] = s[k]
    OBVIOUS
  <1> HIDE DEF t
  <1> DEFINE Wrong == {k \in Nat : k \in 0 .. L /\ CamelTo(t)[k] # CamelTo(s)[k]}
  <1>2. \A k \in 0 .. L : CamelTo(s)[k] = CamelFrom(s, k, CamelTo(s))
    BY CamelUnfolds
  <1>3. \A k \in 0 .. L + 1 : CamelTo(t)[k] = CamelFrom(t, k, CamelTo(t))
    BY <1>1, CamelUnfolds
  <1>4. ASSUME Wrong # {} PROVE FALSE
    <2>1. Wrong \in SUBSET Nat
      OBVIOUS
    <2>2. PICK k \in Wrong : \A j \in Wrong : k <= j
      BY <1>4, <2>1, LeastNumber
    <2>3. k \in 0 .. L /\ k \in 0 .. L + 1 /\ CamelTo(t)[k] # CamelTo(s)[k]
      BY <1>1, <2>2
    <2>4. CASE k = 0
      BY <1>2, <1>3, <2>3, <2>4 DEF CamelFrom
    <2>5. CASE k # 0
      <3>1. k - 1 \in Nat /\ k - 1 \in 0 .. L /\ ~(k <= k - 1)
        BY <1>1, <2>3, <2>5
      <3>2. k - 1 \notin Wrong
        BY <2>2, <3>1
      <3>3. CamelTo(t)[k - 1] = CamelTo(s)[k - 1]
        BY <3>1, <3>2
      <3>4. t[k] = s[k] /\ (k # 1 => t[k - 1] = s[k - 1])
        BY <1>1, <2>3, <2>5, <3>1
      <3>5. Capital(t, k) <=> Capital(s, k)
        BY <3>4 DEF Capital
      <3>6. CamelFrom(t, k, CamelTo(t)) = CamelFrom(s, k, CamelTo(s))
        <4>1. CASE s[k] = Bar
          BY <2>5, <3>3, <3>4, <4>1 DEF CamelFrom
        <4>2. CASE s[k] # Bar
          <5>1. <<t[k], Capital(t, k)>> = <<s[k], Capital(s, k)>>
            <6>1. Capital(t, k) \in BOOLEAN /\ Capital(s, k) \in BOOLEAN
              BY DEF Capital
            <6>2. Capital(t, k) = Capital(s, k)
              BY <3>5, <6>1
            <6> QED
              BY <3>4, <6>2
          <5> QED
            BY <2>5, <3>3, <3>4, <4>2, <5>1 DEF CamelFrom
        <4> QED
          BY <4>1, <4>2
      <3> QED
        BY <1>2, <1>3, <2>3, <3>6
    <2> QED
      BY <2>4, <2>5
  <1>5. CamelTo(t)[L] = CamelTo(s)[L]
    BY <1>1, <1>4
  <1>6. Camel(s) = CamelTo(s)[L] /\ Camel(s) \in Seq(Part) /\ Camel(t) = CamelTo(t)[L + 1]
    BY <1>1, CamelUnfolds
  <1>7. CamelTo(t)[L + 1] = CamelFrom(t, L + 1, CamelTo(t))
    BY <1>1, <1>3
  <1>8. L + 1 # 0 /\ (L + 1) - 1 = L
    BY <1>1
  <1>9. x = Bar => Camel(t) = Camel(s)
    BY <1>1, <1>5, <1>6, <1>7, <1>8 DEF CamelFrom
  <1>10. Capital(t, L + 1) = ((L = 0 \/ s[L] = Bar) /\ x \notin Digit)
    <2>1. L + 1 = 1 <=> L = 0
      BY <1>1
    <2>2. L # 0 => t[L] = s[L]
      BY <1>1
    <2> QED
      BY <1>1, <1>8, <2>1, <2>2 DEF Capital
  <1>11. x # Bar => Camel(t) = Append(Camel(s), <<x, (L = 0 \/ s[L] = Bar) /\ x \notin Digit>>)
    BY <1>1, <1>5, <1>6, <1>7, <1>8, <1>10 DEF CamelFrom
  <1> QED
    BY <1>6, <1>9, <1>11 DEF t

(* Prefixes, element by element, and what concatenation does to them.      *)
LEMMA PrefixIs ==
  ASSUME NEW A, NEW s \in Seq(A), NEW t \in Seq(A)
  PROVE  IsPrefix(s, t) <=> Len(s) <= Len(t) /\ \A i \in 1 .. Len(s) : s[i] = t[i]
  <1>1. Len(s) \in Nat /\ Len(t) \in Nat
    OBVIOUS
  <1>2. ASSUME Len(s) <= Len(t)
        PROVE  SubSeq(s, 1, Len(s)) = SubSeq(t, 1, Len(s)) <=> \A i \in 1 .. Len(s) : s[i] = t[i]
    <2> DEFINE u == SubSeq(s, 1, Len(s))
               v == SubSeq(t, 1, Len(s))
    <2>1. /\ u \in Seq(A) /\ Len(u) = Len(s) /\ \A i \in 1 .. Len(s) : u[i] = s[i]
          /\ v \in Seq(A) /\ Len(v) = Len(s) /\ \A i \in 1 .. Len(s) : v[i] = t[i]
      BY <1>1, <1>2
    <2> HIDE DEF u, v
    <2>2. ASSUME \A i \in 1 .. Len(s) : u[i] = v[i] PROVE u = v
      <3>1. Len(u) = Len(v) /\ \A i \in 1 .. Len(u) : u[i] = v[i]
        BY <2>1, <2>2
      <3> QED
        BY <2>1, <3>1
    <2>3. u = v <=> \A i \in 1 .. Len(s) : s[i] = t[i]
      BY <2>1, <2>2
    <2> QED
      BY <2>3 DEF u, v
  <1> QED
    BY <1>2 DEF IsPrefix

LEMMA ConcatIs ==
  ASSUME NEW A, NEW s \in Seq(A), NEW t \in Seq(A)
  PROVE  /\ s \o t \in Seq(A) /\ Len(s \o t) = Len(s) + Len(t)
         /\ \A i \in 1 .. Len(s) : (s \o t)[i] = s[i]
         /\ \A i \in 1 .. Len(t) : (s \o t)[Len(s) + i] = t[i]
         /\ Len(s) \in Nat /\ Len(t) \in Nat
  OBVIOUS

(* What is put before both is of no account.                               *)
LEMMA SameStart ==
  ASSUME NEW A, NEW p \in Seq(A), NEW s \in Seq(A), NEW t \in Seq(A)
  PROVE  /\ p \o s = p \o t => s = t
         /\ IsPrefix(p \o s, p \o t) => IsPrefix(s, t)
  <1> DEFINE ps == p \o s
             pt == p \o t
  <1>1. /\ ps \in Seq(A) /\ Len(ps) = Len(p) + Len(s) /\ \A i \in 1 .. Len(s) : ps[Len(p) + i] = s[i]
        /\ pt \in Seq(A) /\ Len(pt) = Len(p) + Len(t) /\ \A i \in 1 .. Len(t) : pt[Len(p) + i] = t[i]
        /\ Len(p) \in Nat /\ Len(s) \in Nat /\ Len(t) \in Nat
    BY ConcatIs
  <1> HIDE DEF ps, pt
  <1>2. ASSUME IsPrefix(ps, pt) PROVE Len(s) <= Len(t) /\ \A i \in 1 .. Len(s) : s[i] = t[i]
    <2>1. Len(ps) <= Len(pt) /\ \A i \in 1 .. Len(ps) : ps[i] = pt[i]
      BY <1>1, <1>2, PrefixIs
    <2>2. Len(s) <= Len(t)
      BY <1>1, <2>1
    <2>3. ASSUME NEW i \in 1 .. Len(s) PROVE s[i] = t[i]
      <3>1. i \in 1 .. Len(t) /\ Len(p) + i \in 1 .. Len(ps)
        BY <1>1, <2>2
      <3> QED
        BY <1>1, <2>1, <3>1
    <2> QED
      BY <2>2, <2>3
  <1>3. IsPrefix(ps, pt) => IsPrefix(s, t)
    BY <1>2, PrefixIs
  <1>4. ASSUME ps = pt PROVE s = t
    <2>1. IsPrefix(ps, pt)
      BY <1>1, <1>4, PrefixIs
    <2>2. Len(s) = Len(t) /\ \A i \in 1 .. Len(s) : s[i] = t[i]
      BY <1>1, <1>2, <1>4, <2>1
    <2> QED
      BY <2>2
  <1> QED
    BY <1>3, <1>4 DEF ps, pt

(* Of two prefixes of one sequence one is a prefix of the other.           *)
LEMMA PrefixesNest ==
  ASSUME NEW A, NEW s \in Seq(A), NEW t \in Seq(A), NEW z \in Seq(A), IsPrefix(s, z), IsPrefix(t, z)
  PROVE  IsPrefix(s, t) \/ IsPrefix(t, s)
  <1>1. /\ Len(s) <= Len(z) /\ \A i \in 1 .. Len(s) : s[i] = z[i]
        /\ Len(t) <= Len(z) /\ \A i \in 1 .. Len(t) : t[i] = z[i]
        /\ Len(s) \in Nat /\ Len(t) \in Nat
    BY PrefixIs
  <1>2. CASE Len(s) <= Len(t)
    <2>1. \A i \in 1 .. Len(s) : i \in 1 .. Len(t)
      BY <1>1, <1>2
    <2>2. \A i \in 1 .. Len(s) : s[i] = t[i]
      BY <1>1, <2>1
    <2> QED
      BY <1>2, <2>2, PrefixIs
  <1>3. CASE ~(Len(s) <= Len(t))
    <2>1. Len(t) <= Len(s) /\ \A i \in 1 .. Len(t) : i \in 1 .. Len(s)
      BY <1>1, <1>3
    <2>2. \A i \in 1 .. Len(t) : t[i] = s[i]
      BY <1>1, <2>1
    <2> QED
      BY <2>1, <2>2, PrefixIs
  <1> QED
    BY <1>2, <1>3

(* A sequence begins what continues it, and so does what begins it.        *)
LEMMA PrefixOfConcat ==
  ASSUME NEW A, NEW s \in Seq(A), NEW t \in Seq(A), NEW z \in Seq(A), IsPrefix(s \o t, z)
  PROVE  IsPrefix(s, z)
  <1> DEFINE st == s \o t
  <1>1. /\ st \in Seq(A) /\ Len(st) = Len(s) + Len(t) /\ \A i \in 1 .. Len(s) : st[i] = s[i]
        /\ Len(s) \in Nat /\ Len(t) \in Nat /\ Len(z) \in Nat
    BY ConcatIs
  <1> HIDE DEF st
  <1>2. Len(st) <= Len(z) /\ \A i \in 1 .. Len(st) : st[i] = z[i]
    BY <1>1, PrefixIs DEF st
  <1>3. Len(s) <= Len(z) /\ \A i \in 1 .. Len(s) : i \in 1 .. Len(st)
    BY <1>1, <1>2
  <1>4. \A i \in 1 .. Len(s) : s[i] = z[i]
    BY <1>1, <1>2, <1>3
  <1> QED
    BY <1>3, <1>4, PrefixIs

LEMMA PrefixOfSelf == ASSUME NEW A, NEW s \in Seq(A) PROVE IsPrefix(s, s)
  BY PrefixIs

(* The names of a tree are apart if those of siblings are. pre[n] is what  *)
(* the names of n begin with, above n itself; what own[n] holds is put     *)
(* behind it, whole names for a register, beginnings for a regfile. A      *)
(* name passes through a node if what the node gives begins it.            *)
Named(A, pre, own) ==
  /\ pre \in [Node -> Seq(A)] /\ own \in [Node -> SUBSET Seq(A)]
  /\ \A n, k \in Node : tree[n].parent = tree[k].parent => pre[n] = pre[k]
  /\ \A n \in Node : tree[n].parent # 0 =>
       \E s \in own[tree[n].parent] : pre[n] = pre[tree[n].parent] \o s
  /\ \A n, k \in Node : (n # k /\ tree[n].parent = tree[k].parent) =>
       \A s \in own[n], t \in own[k] : IF IsReg(n) THEN s # t ELSE ~IsPrefix(s, t)

Through(z, pre, own, n) ==
  \E s \in own[n] : IF IsReg(n) THEN pre[n] \o s = z ELSE IsPrefix(pre[n] \o s, z)

(* It passes through one of siblings at most,                              *)
LEMMA OneOfSiblings ==
  ASSUME TreeGrown, NEW A, NEW pre, NEW own, Named(A, pre, own), NEW z \in Seq(A),
         NEW n \in Node, NEW k \in Node, tree[n].parent = tree[k].parent,
         Through(z, pre, own, n), Through(z, pre, own, k)
  PROVE  n = k
  <1> SUFFICES ASSUME n # k PROVE FALSE
    OBVIOUS
  <1> DEFINE p == pre[n]
  <1>1. PICK s \in own[n] : IF IsReg(n) THEN p \o s = z ELSE IsPrefix(p \o s, z)
    BY DEF Through
  <1>2. PICK t \in own[k] : IF IsReg(k) THEN p \o t = z ELSE IsPrefix(p \o t, z)
    BY DEF Through, Named
  <1>3. p \in Seq(A) /\ s \in Seq(A) /\ t \in Seq(A)
    BY DEF Named
  <1>4. /\ IF IsReg(n) THEN s # t ELSE ~IsPrefix(s, t)
        /\ IF IsReg(k) THEN s # t ELSE ~IsPrefix(t, s)
    BY DEF Named
  <1> HIDE DEF p
  <1> DEFINE ps == p \o s
             pt == p \o t
  <1>5. ps \in Seq(A) /\ pt \in Seq(A)
    BY <1>3, ConcatIs
  <1>6. /\ ps = pt => s = t
        /\ IsPrefix(ps, pt) => IsPrefix(s, t)
        /\ IsPrefix(pt, ps) => IsPrefix(t, s)
    BY <1>3, SameStart
  <1> HIDE DEF ps, pt
  <1>7. (IF IsReg(n) THEN ps = z ELSE IsPrefix(ps, z)) /\ (IF IsReg(k) THEN pt = z ELSE IsPrefix(pt, z))
    BY <1>1, <1>2 DEF ps, pt
  <1>8. CASE IsReg(n)
    BY <1>4, <1>6, <1>7, <1>8
  <1>9. CASE IsReg(k) /\ ~IsReg(n)
    BY <1>4, <1>6, <1>7, <1>9
  <1>10. CASE ~IsReg(k) /\ ~IsReg(n)
    <2>1. IsPrefix(ps, pt) \/ IsPrefix(pt, ps)
      BY <1>5, <1>7, <1>10, PrefixesNest
    <2> QED
      BY <1>4, <1>6, <1>10, <2>1
  <1> QED
    BY <1>8, <1>9, <1>10

(* and through the parent of a node it passes through.                     *)
LEMMA ThroughParent ==
  ASSUME TreeGrown, NEW A, NEW pre, NEW own, Named(A, pre, own), NEW z \in Seq(A),
         NEW n \in Node, Through(z, pre, own, n), tree[n].parent # 0
  PROVE  tree[n].parent \in Node /\ Through(z, pre, own, tree[n].parent)
  <1> DEFINE p == tree[n].parent
  <1>1. p \in Node /\ ~IsReg(p)
    BY NodeFacts
  <1>2. PICK s \in own[n] : IF IsReg(n) THEN pre[n] \o s = z ELSE IsPrefix(pre[n] \o s, z)
    BY DEF Through
  <1>3. PICK t \in own[p] : pre[n] = pre[p] \o t
    BY DEF Named
  <1>4. s \in Seq(A) /\ t \in Seq(A) /\ pre[n] \in Seq(A) /\ pre[p] \in Seq(A)
    BY <1>1 DEF Named
  <1>5. pre[n] \o s \in Seq(A)
    BY <1>4, ConcatIs
  <1>6. IsPrefix(pre[n] \o s, z)
    BY <1>2, <1>5, PrefixOfSelf
  <1>7. IsPrefix(pre[n], z)
    BY <1>4, <1>6, PrefixOfConcat
  <1> QED
    BY <1>1, <1>3, <1>7 DEF Through

(* So the nodes it passes through are one below the other: from any of     *)
(* them, and from the top, the way to a later one goes on at a child. Were *)
(* there a first later one for which this fails, its parent, or that of    *)
(* the earlier one, would have two such children.                          *)
LEMMA OneBranch ==
  ASSUME TreeGrown, NEW A, NEW pre, NEW own, Named(A, pre, own), NEW z \in Seq(A),
         NEW n \in {0} \cup Node, NEW k \in Node, n < k, n = 0 \/ Through(z, pre, own, n),
         Through(z, pre, own, k)
  PROVE  \E c \in Node : tree[c].parent = n /\ c <= k
  <1> DEFINE On == {m \in Node : Through(z, pre, own, m)}
             Leads(m, l) == \E c \in On : tree[c].parent = m /\ c <= l
             Fails == {l \in On : \E m \in {0} \cup On : m < l /\ ~Leads(m, l)}
  <1>1. On \in SUBSET Nat /\ Fails \in SUBSET Nat
    BY DEF Node
  <1>2. \A l \in On : /\ l \in Nat /\ l <= l /\ tree[l].parent \in {0} \cup On
                      /\ tree[l].parent \in Nat /\ tree[l].parent < l
    BY NodeFacts, ThroughParent
  <1>3. \A c, d \in On : tree[c].parent = tree[d].parent => c = d
    BY OneOfSiblings
  <1> HIDE DEF On
  <1>4. ASSUME Fails # {} PROVE FALSE
    <2>1. PICK l \in Fails : \A j \in Fails : l <= j
      BY <1>1, <1>4, LeastNumber
    <2>2. PICK m \in {0} \cup On : m < l /\ ~Leads(m, l)
      OBVIOUS
    <2> DEFINE p == tree[l].parent
    <2>3. l \in On /\ l \in Nat /\ m \in Nat /\ p \in {0} \cup On /\ p \in Nat /\ p < l
      BY <1>1, <1>2, <2>2
    <2>4. p # m
      BY <1>2, <2>2, <2>3
    <2>5. CASE m < p
      <3>1. p \in On /\ ~(l <= p)
        BY <2>3, <2>5
      <3>2. p \notin Fails
        BY <2>1, <3>1
      <3>3. PICK c \in On : tree[c].parent = m /\ c <= p
        BY <2>2, <2>5, <3>1, <3>2
      <3>4. c \in Nat /\ c <= l
        BY <1>1, <2>3, <3>3
      <3> QED
        BY <2>2, <3>3, <3>4
    <2>6. CASE p < m
      <3>1. m \in On /\ ~(l <= m)
        BY <2>2, <2>3, <2>6
      <3>2. m \notin Fails
        BY <2>1, <3>1
      <3>3. PICK c \in On : tree[c].parent = p /\ c <= m
        BY <2>3, <2>6, <3>1, <3>2
      <3>4. c = l
        BY <1>3, <2>3, <3>3
      <3> QED
        BY <2>2, <2>3, <3>3, <3>4
    <2> QED
      BY <2>3, <2>4, <2>5, <2>6
  <1>5. k \in On /\ n \in {0} \cup On
    BY DEF On
  <1>6. Leads(n, k)
    BY <1>4, <1>5
  <1> QED
    BY <1>6 DEF On

(* Two registers have nothing below them, so they are the same one.        *)
LEMMA NamedApart ==
  ASSUME TreeGrown, NEW A, NEW pre, NEW own, Named(A, pre, own),
         NEW r \in Node, NEW q \in Node, IsReg(r), IsReg(q), NEW s \in own[r], NEW t \in own[q],
         pre[r] \o s = pre[q] \o t
  PROVE  r = q /\ s = t
  <1> DEFINE z == pre[r] \o s
  <1>1. pre[r] \in Seq(A) /\ pre[q] \in Seq(A) /\ s \in Seq(A) /\ t \in Seq(A)
    BY DEF Named
  <1>2. z \in Seq(A)
    BY <1>1, ConcatIs
  <1>3. Through(z, pre, own, r) /\ Through(z, pre, own, q)
    BY DEF Through
  <1> HIDE DEF z
  <1>4. r \in Nat \ {0} /\ q \in Nat \ {0}
    BY NodeFacts
  <1>5. \A c \in Node : tree[c].parent # r /\ tree[c].parent # q
    BY <1>4, NodeFacts
  <1>6. ~(r < q) /\ ~(q < r)
    BY <1>2, <1>3, <1>5, OneBranch
  <1>7. r = q
    BY <1>4, <1>6
  <1> QED
    BY <1>1, <1>7, SameStart

LEMMA ConcatAssoc ==
  ASSUME NEW A, NEW s \in Seq(A), NEW t \in Seq(A), NEW u \in Seq(A)
  PROVE  (s \o t) \o u = s \o (t \o u)
  <1> DEFINE st == s \o t
             tu == t \o u
             x == st \o u
             y == s \o tu
  <1>1. /\ st \in Seq(A) /\ Len(st) = Len(s) + Len(t) /\ \A i \in 1 .. Len(s) : st[i] = s[i]
        /\ \A i \in 1 .. Len(t) : st[Len(s) + i] = t[i]
        /\ Len(s) \in Nat /\ Len(t) \in Nat /\ Len(u) \in Nat
    BY ConcatIs
  <1>2. /\ tu \in Seq(A) /\ Len(tu) = Len(t) + Len(u) /\ \A i \in 1 .. Len(t) : tu[i] = t[i]
        /\ \A i \in 1 .. Len(u) : tu[Len(t) + i] = u[i]
    BY ConcatIs
  <1>0. st \in Seq(A) /\ tu \in Seq(A)
    BY <1>1, <1>2
  <1> HIDE DEF st, tu
  <1>3. /\ x \in Seq(A) /\ Len(x) = Len(st) + Len(u) /\ \A i \in 1 .. Len(st) : x[i] = st[i]
        /\ \A i \in 1 .. Len(u) : x[Len(st) + i] = u[i]
    BY <1>0, ConcatIs
  <1>4. /\ y \in Seq(A) /\ Len(y) = Len(s) + Len(tu) /\ \A i \in 1 .. Len(s) : y[i] = s[i]
        /\ \A i \in 1 .. Len(tu) : y[Len(s) + i] = tu[i]
    BY <1>0, ConcatIs
  <1> HIDE DEF x, y
  <1>5. Len(x) = Len(y) /\ Len(x) = Len(s) + Len(t) + Len(u)
    BY <1>1, <1>2, <1>3, <1>4
  <1>6. ASSUME NEW i \in 1 .. Len(x) PROVE x[i] = y[i]
    <2>1. CASE i <= Len(s)
      <3>1. i \in 1 .. Len(s) /\ i \in 1 .. Len(st)
        BY <1>1, <1>5, <2>1
      <3> QED
        BY <1>1, <1>3, <1>4, <3>1
    <2>2. CASE Len(s) < i /\ i <= Len(s) + Len(t)
      <3> DEFINE j == i - Len(s)
      <3>1. j \in 1 .. Len(t) /\ j \in 1 .. Len(tu) /\ i \in 1 .. Len(st) /\ i = Len(s) + j
        BY <1>1, <1>2, <1>5, <2>2
      <3> HIDE DEF j
      <3>2. x[i] = t[j] /\ y[i] = t[j]
        BY <1>1, <1>2, <1>3, <1>4, <3>1
      <3> QED
        BY <3>2
    <2>3. CASE Len(s) + Len(t) < i
      <3> DEFINE j == i - (Len(s) + Len(t))
      <3>1. /\ j \in 1 .. Len(u) /\ Len(t) + j \in 1 .. Len(tu)
            /\ i = Len(st) + j /\ i = Len(s) + (Len(t) + j)
        BY <1>1, <1>2, <1>5, <2>3
      <3> HIDE DEF j
      <3>2. x[i] = u[j]
        BY <1>3, <3>1
      <3>3. y[i] = u[j]
        BY <1>2, <1>4, <3>1
      <3> QED
        BY <3>2, <3>3
    <2> QED
      BY <1>1, <1>5, <2>1, <2>2, <2>3
  <1>7. x = y
    BY <1>3, <1>4, <1>5, <1>6
  <1> QED
    BY <1>7 DEF x, y, st, tu

LEMMA NothingBefore == ASSUME NEW A, NEW s \in Seq(A) PROVE <<>> \o s = s /\ s \o <<>> = s
  <1> DEFINE e == <<>>
  <1>1. e \in Seq(A) /\ Len(e) = 0
    OBVIOUS
  <1> HIDE DEF e
  <1> DEFINE x == e \o s
             y == s \o e
  <1>2. x \in Seq(A) /\ Len(x) = Len(s) /\ \A i \in 1 .. Len(s) : x[i] = s[i]
    <2>1. x \in Seq(A) /\ Len(x) = 0 + Len(s) /\ \A i \in 1 .. Len(s) : x[0 + i] = s[i]
      BY <1>1, ConcatIs
    <2>2. 0 + Len(s) = Len(s) /\ \A i \in 1 .. Len(s) : 0 + i = i
      OBVIOUS
    <2> HIDE DEF x
    <2> QED
      BY <2>1, <2>2
  <1>3. y \in Seq(A) /\ Len(y) = Len(s) /\ \A i \in 1 .. Len(s) : y[i] = s[i]
    <2>1. y \in Seq(A) /\ Len(y) = Len(s) + 0 /\ \A i \in 1 .. Len(s) : y[i] = s[i]
      BY <1>1, ConcatIs
    <2>2. Len(s) + 0 = Len(s)
      OBVIOUS
    <2> HIDE DEF y
    <2> QED
      BY <2>1, <2>2
  <1> HIDE DEF x, y
  <1>4. x = s /\ y = s
    BY <1>2, <1>3
  <1> QED
    BY <1>4 DEF x, y, e

(* Decimals: what the recursion says, no "_" among the digits, and no two  *)
(* numbers with the same.                                                  *)
DecimalFrom(i, g) == IF i < 10 THEN <<ToString(i)>> ELSE Append(g[i \div 10], ToString(i % 10))

LEMMA DigitsOf ==
  ASSUME NEW i \in Nat
  PROVE  /\ i \div 10 \in Nat /\ i % 10 \in 0 .. 9 /\ i = (10 * (i \div 10)) + (i % 10)
         /\ i >= 10 => i \div 10 < i
         /\ i < 10 => i \in 0 .. 9
  OBVIOUS

LEMMA DecimalIs ==
  \A i \in Nat : Decimal[i] \in Seq(Digit) /\ Decimal[i] = DecimalFrom(i, Decimal)
  <1> DEFINE V == Seq(Digit)
             h == [i \in Nat |-> [g \in [Nat -> V] |-> DecimalFrom(i, g)]]
             rank == [i \in Nat |-> i]
  <1>1. ASSUME NEW i \in Nat, NEW g, i >= 10 => g[i \div 10] \in V PROVE DecimalFrom(i, g) \in V
    <2>1. CASE i < 10
      <3>1. ToString(i) \in Digit
        BY <2>1, DigitsOf DEF Digit
      <3>2. <<ToString(i)>> \in V
        BY <3>1
      <3> QED
        BY <2>1, <3>2 DEF DecimalFrom
    <2>2. CASE ~(i < 10)
      <3>1. ToString(i % 10) \in Digit
        BY DigitsOf DEF Digit
      <3>2. g[i \div 10] \in V
        BY <1>1, <2>2
      <3>3. Append(g[i \div 10], ToString(i % 10)) \in V
        BY <3>1, <3>2
      <3> QED
        BY <2>2, <3>3 DEF DecimalFrom
    <2> QED
      BY <2>1, <2>2
  <1>2. V # {}
    <2>1. <<>> \in V
      OBVIOUS
    <2> QED
      BY <2>1
  <1> HIDE DEF V
  <1>3. rank \in [Nat -> Nat] /\ h \in [Nat -> [[Nat -> V] -> V]]
    <2>1. \A i \in Nat, g \in [Nat -> V] : DecimalFrom(i, g) \in V
      BY <1>1, DigitsOf
    <2> QED
      BY <2>1
  <1>4. ASSUME NEW i \in Nat, NEW a \in [Nat -> V], NEW b \in [Nat -> V],
               \A j \in Nat : rank[j] < rank[i] => a[j] = b[j]
        PROVE  h[i][a] = h[i][b]
    <2>1. i >= 10 => a[i \div 10] = b[i \div 10]
      BY <1>4, DigitsOf
    <2>2. DecimalFrom(i, a) = DecimalFrom(i, b)
      BY <2>1 DEF DecimalFrom
    <2> QED
      BY <2>2
  <1>5. HasSolution(Nat, V, h)
    <2> HIDE DEF h, rank
    <2>1. FromLower(Nat, rank, V, h)
      BY <1>2, <1>3, <1>4 DEF FromLower
    <2> QED
      BY <2>1, CourseOfValues
  <1>6. PICK f \in [Nat -> V] : \A i \in Nat : f[i] = h[i][f]
    BY <1>5 DEF HasSolution
  <1>7. f = [i \in Nat |-> DecimalFrom(i, f)]
    BY <1>6
  <1>8. Decimal = CHOOSE g : g = [i \in Nat |-> DecimalFrom(i, g)]
    BY DEF Decimal, DecimalFrom
  <1>9. Decimal = [i \in Nat |-> DecimalFrom(i, Decimal)]
    BY <1>7, <1>8
  <1>10. \A i \in Nat : Decimal[i] = DecimalFrom(i, Decimal)
    BY <1>9
  <1> DEFINE Wrong == {i \in Nat : Decimal[i] \notin V}
  <1>11. ASSUME Wrong # {} PROVE FALSE
    <2>1. PICK i \in Wrong : \A j \in Wrong : i <= j
      BY <1>11, LeastNumber
    <2>2. i >= 10 => Decimal[i \div 10] \in V
      <3>1. i >= 10 => i \div 10 \in Nat /\ ~(i <= i \div 10)
        BY DigitsOf
      <3> QED
        BY <2>1, <3>1
    <2> QED
      BY <1>1, <1>10, <2>2
  <1> QED
    BY <1>10, <1>11 DEF V

LEMMA DecimalLength ==
  ASSUME NEW i \in Nat PROVE i < 10 <=> Len(Decimal[i]) = 1
  <1>1. CASE i < 10
    <2>1. Decimal[i] = <<ToString(i)>>
      BY <1>1, DecimalIs DEF DecimalFrom
    <2> QED
      BY <1>1, <2>1
  <1>2. CASE ~(i < 10)
    <2>0. i \div 10 \in Nat /\ i % 10 \in 0 .. 9
      BY DigitsOf
    <2> DEFINE d == Decimal[i \div 10]
               x == ToString(i % 10)
    <2>1. Decimal[i] = Append(d, x)
      BY <1>2, DecimalIs DEF DecimalFrom
    <2>2. d \in Seq(Digit) /\ x \in Digit
      BY <2>0, DecimalIs DEF Digit
    <2>3. Len(d) # 0
      <3>1. CASE i \div 10 < 10
        <4>1. d = <<ToString(i \div 10)>>
          BY <2>0, <3>1, DecimalIs DEF DecimalFrom
        <4> QED
          BY <4>1
      <3>2. CASE ~(i \div 10 < 10)
        <4>1. (i \div 10) \div 10 \in Nat /\ (i \div 10) % 10 \in 0 .. 9
          BY <2>0, DigitsOf
        <4> DEFINE c == Decimal[(i \div 10) \div 10]
                   y == ToString((i \div 10) % 10)
        <4>2. d = Append(c, y)
          BY <2>0, <3>2, DecimalIs DEF DecimalFrom
        <4>3. c \in Seq(Digit) /\ y \in Digit
          BY <4>1, DecimalIs DEF Digit
        <4> HIDE DEF c, d, y
        <4>4. Len(Append(c, y)) = Len(c) + 1 /\ Len(c) \in Nat
          BY <4>3
        <4> QED
          BY <4>2, <4>4
      <3> QED
        BY <3>1, <3>2
    <2> HIDE DEF d, x
    <2>4. Len(Append(d, x)) = Len(d) + 1 /\ Len(d) \in Nat
      BY <2>2
    <2> QED
      BY <1>2, <2>1, <2>3, <2>4
  <1> QED
    BY <1>1, <1>2

LEMMA DecimalsApart ==
  ASSUME NEW m \in Nat, NEW k \in Nat, Decimal[m] = Decimal[k] PROVE m = k
  <1> DEFINE Wrong == {i \in Nat : \E j \in Nat : Decimal[i] = Decimal[j] /\ i # j}
  <1>1. ASSUME Wrong # {} PROVE FALSE
    <2>1. PICK i \in Wrong : \A j \in Wrong : i <= j
      BY <1>1, LeastNumber
    <2>2. PICK j \in Nat : Decimal[i] = Decimal[j] /\ i # j
      OBVIOUS
    <2>3. i \in Nat /\ (i < 10 <=> j < 10)
      BY <2>2, DecimalLength
    <2>4. CASE i < 10
      <3>1. <<ToString(i)>> = <<ToString(j)>>
        BY <2>2, <2>3, <2>4, DecimalIs DEF DecimalFrom
      <3>2. ToString(i) = ToString(j)
        BY <3>1
      <3>3. i \in 0 .. 9 /\ j \in 0 .. 9
        BY <2>3, <2>4
      <3> QED
        BY <2>2, <3>2, <3>3, ScanAssumption
    <2>5. CASE ~(i < 10)
      <3> DEFINE c == i \div 10
                 d == j \div 10
                 x == i % 10
                 y == j % 10
      <3>1. /\ c \in Nat /\ d \in Nat /\ x \in 0 .. 9 /\ y \in 0 .. 9
            /\ i = (10 * c) + x /\ j = (10 * d) + y /\ ~(i <= c)
        BY <2>3, <2>5, DigitsOf
      <3>2. Append(Decimal[c], ToString(x)) = Append(Decimal[d], ToString(y))
        BY <2>2, <2>3, <2>5, DecimalIs DEF DecimalFrom
      <3> HIDE DEF c, d, x, y
      <3>3. /\ Decimal[c] \in Seq(Digit) /\ Decimal[d] \in Seq(Digit)
            /\ ToString(x) \in Digit /\ ToString(y) \in Digit
        BY <3>1, DecimalIs DEF Digit
      <3>4. Decimal[c] = Decimal[d] /\ ToString(x) = ToString(y)
        <4> DEFINE a == Decimal[c]
                   b == Decimal[d]
                   u == ToString(x)
                   v == ToString(y)
        <4>1. a \in Seq(Digit) /\ b \in Seq(Digit) /\ u \in Digit /\ v \in Digit /\ Append(a, u) = Append(b, v)
          BY <3>2, <3>3
        <4> HIDE DEF a, b, u, v
        <4>2. a = b /\ u = v
          BY <4>1, AppendApart
        <4> QED
          BY <4>2 DEF a, b, u, v
      <3>5. x = y
        BY <3>1, <3>4, ScanAssumption
      <3>6. c = d
        <4>1. c \notin Wrong
          BY <2>1, <3>1
        <4> QED
          BY <3>1, <3>4, <4>1
      <3> QED
        BY <2>2, <3>1, <3>5, <3>6
    <2> QED
      BY <2>4, <2>5
  <1> QED
    BY <1>1

(* What stands before the first "_" is the same, and so is what is behind. *)
LEMMA SplitAtBar ==
  ASSUME NEW s \in Seq(Token), NEW t \in Seq(Token), NEW x \in Seq(Token), NEW y \in Seq(Token),
         \A i \in 1 .. Len(s) : s[i] # Bar, \A i \in 1 .. Len(t) : t[i] # Bar,
         Joined(s, x) = Joined(t, y)
  PROVE  s = t /\ x = y
  <1> DEFINE u == Append(s, Bar)
             v == Append(t, Bar)
  <1>1. /\ u \in Seq(Token) /\ Len(u) = Len(s) + 1 /\ u[Len(s) + 1] = Bar
        /\ \A i \in 1 .. Len(s) : u[i] = s[i]
        /\ v \in Seq(Token) /\ Len(v) = Len(t) + 1 /\ v[Len(t) + 1] = Bar
        /\ \A i \in 1 .. Len(t) : v[i] = t[i]
        /\ Len(s) \in Nat /\ Len(t) \in Nat
    BY BarIsToken
  <1>2. u \o x = v \o y
    <2>1. Joined(s, x) = u \o x /\ Joined(t, y) = v \o y
      BY JoinedIs
    <2> QED
      BY <2>1
  <1> HIDE DEF u, v
  <1>3. /\ \A i \in 1 .. Len(u) : (u \o x)[i] = u[i]
        /\ \A i \in 1 .. Len(v) : (v \o y)[i] = v[i]
    BY <1>1, ConcatIs
  <1>4. \A i \in 1 .. Len(u) : i \in 1 .. Len(v) => u[i] = v[i]
    BY <1>2, <1>3
  <1>5. ~(Len(s) < Len(t))
    <2> SUFFICES ASSUME Len(s) < Len(t) PROVE FALSE
      OBVIOUS
    <2>1. Len(s) + 1 \in 1 .. Len(u) /\ Len(s) + 1 \in 1 .. Len(v) /\ Len(s) + 1 \in 1 .. Len(t)
      BY <1>1
    <2> QED
      BY <1>1, <1>4, <2>1
  <1>6. ~(Len(t) < Len(s))
    <2> SUFFICES ASSUME Len(t) < Len(s) PROVE FALSE
      OBVIOUS
    <2>1. Len(t) + 1 \in 1 .. Len(u) /\ Len(t) + 1 \in 1 .. Len(v) /\ Len(t) + 1 \in 1 .. Len(s)
      BY <1>1
    <2> QED
      BY <1>1, <1>4, <2>1
  <1>7. Len(s) = Len(t)
    BY <1>1, <1>5, <1>6
  <1>8. \A i \in 1 .. Len(s) : s[i] = t[i]
    <2> TAKE i \in 1 .. Len(s)
    <2>1. i \in 1 .. Len(u) /\ i \in 1 .. Len(v) /\ i \in 1 .. Len(t)
      BY <1>1, <1>7
    <2> QED
      BY <1>1, <1>4, <2>1
  <1>9. s = t
    BY <1>7, <1>8
  <1>10. u = v
    BY <1>9 DEF u, v
  <1>11. u \o x = u \o y => x = y
    <2>1. u \in Seq(Token)
      BY <1>1
    <2> QED
      BY <2>1, SameStart
  <1> QED
    BY <1>2, <1>9, <1>10, <1>11

(* What is appended to the second is appended to both.                     *)
AddTo(s, x)    == Append(s, x)
Behind(s, t) == s \o t

LEMMA AddBehind ==
  ASSUME NEW A, NEW s \in Seq(A), NEW t \in Seq(A), NEW x \in A
  PROVE  AddTo(Behind(s, t), x) = Behind(s, AddTo(t, x))
  BY DEF AddTo, Behind

(* _camel treats what stands before a "_" and what is behind it alike.     *)
LEMMA CamelOfNothing == Camel(<<>>) = <<>>
  <1> DEFINE e == <<>>
  <1>1. e \in Seq(Token) /\ Len(e) = 0
    OBVIOUS
  <1>2. CamelFrom(e, 0, CamelTo(e)) = e
    BY DEF CamelFrom
  <1> HIDE DEF e
  <1>3. Camel(e) = CamelTo(e)[0] /\ 0 \in 0 .. Len(e)
    <2>1. Camel(e) = CamelTo(e)[Len(e)]
      BY <1>1, CamelUnfolds
    <2> QED
      BY <1>1, <2>1
  <1>4. CamelTo(e)[0] = CamelFrom(e, 0, CamelTo(e))
    BY <1>1, <1>3, CamelUnfolds
  <1>5. Camel(e) = e
    BY <1>2, <1>3, <1>4
  <1> QED
    BY <1>5 DEF e

LEMMA LastOf ==
  ASSUME NEW A, NEW t \in Seq(A), Len(t) # 0
  PROVE  \E u \in Seq(A), x \in A : t = Append(u, x) /\ Len(u) = Len(t) - 1
  <1> DEFINE u == SubSeq(t, 1, Len(t) - 1)
             x == t[Len(t)]
             a == Append(u, x)
  <1>1. Len(t) \in Nat \ {0} /\ Len(t) - 1 \in Nat /\ Len(t) \in 1 .. Len(t)
    OBVIOUS
  <1>2. u \in Seq(A) /\ Len(u) = Len(t) - 1 /\ (\A i \in 1 .. Len(t) - 1 : u[i] = t[i]) /\ x \in A
    <2> DEFINE m == Len(t) - 1
    <2>1. m \in Nat /\ m <= Len(t) /\ x \in A
      BY <1>1
    <2> HIDE DEF m
    <2>2. SubSeq(t, 1, m) \in Seq(A) /\ Len(SubSeq(t, 1, m)) = m
      BY <2>1
    <2>3. \A i \in 1 .. m : SubSeq(t, 1, m)[i] = t[i]
      BY <2>1
    <2> QED
      BY <2>1, <2>2, <2>3 DEF m
  <1> HIDE DEF u, x
  <1>3. a \in Seq(A) /\ Len(a) = Len(u) + 1 /\ a[Len(u) + 1] = x /\ \A i \in 1 .. Len(u) : a[i] = u[i]
    BY <1>2
  <1> HIDE DEF a
  <1>4. Len(a) = Len(t)
    BY <1>1, <1>2, <1>3
  <1>5. \A i \in 1 .. Len(t) : a[i] = t[i]
    <2> TAKE i \in 1 .. Len(t)
    <2>1. i = Len(t) \/ i \in 1 .. Len(t) - 1
      BY <1>1
    <2>2. Len(u) + 1 = Len(t)
      BY <1>1, <1>2
    <2> QED
      BY <1>2, <1>3, <2>1, <2>2 DEF x
  <1>6. a = t
    BY <1>3, <1>4, <1>5
  <1> QED
    BY <1>2, <1>6 DEF a

LEMMA CamelJoins ==
  ASSUME NEW s \in Seq(Token), NEW name \in Seq(Token)
  PROVE  Camel(Joined(s, name)) = Camel(s) \o Camel(name)
  <1> DEFINE b == Append(s, Bar)
             Wrong == {j \in Nat : \E t \in Seq(Token) : Len(t) = j /\ Camel(b \o t) # Camel(s) \o Camel(t)}
  <1>1. b \in Seq(Token) /\ Len(b) = Len(s) + 1 /\ Len(s) \in Nat /\ b[Len(b)] = Bar /\ Len(b) # 0
    BY BarIsToken
  <1>2. Camel(b) = Camel(s) /\ Camel(s) \in Seq(Part)
    BY BarIsToken, CamelAppend
  <1> HIDE DEF b
  <1>3. ASSUME Wrong # {} PROVE FALSE
    <2>1. PICK j \in Wrong : \A i \in Wrong : j <= i
      BY <1>3, LeastNumber
    <2>2. PICK t \in Seq(Token) : Len(t) = j /\ Camel(b \o t) # Camel(s) \o Camel(t)
      OBVIOUS
    <2>3. j \in Nat
      OBVIOUS
    <2>4. CASE j = 0
      <3>1. t = <<>>
        BY <2>2, <2>4
      <3>2. b \o t = b /\ Camel(t) = <<>> /\ Camel(s) \o <<>> = Camel(s)
        BY <1>1, <1>2, <3>1, NothingBefore, CamelOfNothing
      <3> QED
        BY <1>2, <2>2, <3>2
    <2>5. CASE j # 0
      <3>1. PICK u \in Seq(Token), x \in Token : t = Append(u, x) /\ Len(u) = j - 1
        BY <2>2, <2>5, LastOf
      <3>2. j - 1 \in Nat /\ ~(j <= j - 1)
        BY <2>3, <2>5
      <3>3. Camel(b \o u) = Camel(s) \o Camel(u)
        <4>1. j - 1 \notin Wrong
          BY <2>1, <3>2
        <4> QED
          BY <3>1, <3>2, <4>1
      <3> HIDE DEF Wrong
      <3> DEFINE v == b \o u
                 cu == Camel(u)
                 cs == Camel(s)
      <3>4. /\ v \in Seq(Token) /\ Len(v) = Len(b) + Len(u) /\ Len(u) \in Nat
            /\ \A i \in 1 .. Len(u) : v[Len(b) + i] = u[i]
            /\ \A i \in 1 .. Len(b) : v[i] = b[i]
        <4>1. b \in Seq(Token)
          BY <1>1
        <4> QED
          BY <4>1, ConcatIs
      <3>5. b \o t = Append(v, x)
        BY <1>1, <3>1
      <3> HIDE DEF v
      <3>6. (Len(v) = 0 \/ v[Len(v)] = Bar) <=> (Len(u) = 0 \/ u[Len(u)] = Bar)
        <4>1. CASE Len(u) = 0
          <5>1. Len(v) = Len(b) /\ Len(b) \in 1 .. Len(b)
            BY <1>1, <3>4, <4>1
          <5> QED
            BY <1>1, <3>4, <4>1, <5>1
        <4>2. CASE Len(u) # 0
          <5>1. Len(u) \in 1 .. Len(u) /\ Len(v) # 0
            BY <1>1, <3>4, <4>2
          <5>2. v[Len(v)] = u[Len(u)]
            BY <3>4, <5>1
          <5> QED
            BY <4>2, <5>1, <5>2
        <4> QED
          BY <4>1, <4>2
      <3>7. cu \in Seq(Part) /\ cs \in Seq(Part) /\ Camel(v) = cs \o cu
        BY <1>2, <3>1, <3>3, CamelAppend DEF v
      <3>8. CASE x = Bar
        <4>1. Camel(Append(v, x)) = Camel(v) /\ Camel(t) = cu
          BY <3>1, <3>4, <3>8, CamelAppend
        <4> QED
          BY <2>2, <3>5, <3>7, <4>1
      <3>9. CASE x # Bar
        <4> DEFINE c == (Len(u) = 0 \/ u[Len(u)] = Bar) /\ x \notin Digit
                   d == (Len(v) = 0 \/ v[Len(v)] = Bar) /\ x \notin Digit
                   y == <<x, c>>
        <4>1. c = d
          BY <3>6
        <4>2. Camel(Append(v, x)) = Append(Camel(v), <<x, d>>)
          BY <3>4, <3>9, CamelAppend
        <4>3. Camel(t) = Append(cu, y)
          BY <3>1, <3>9, CamelAppend
        <4>4. y \in Part
          BY DEF Part
        <4>5. Camel(Append(v, x)) = Append(Camel(v), y)
          BY <4>1, <4>2
        <4> HIDE DEF c, d, y, cu, cs
        <4>6. Append(cs \o cu, y) = cs \o Append(cu, y)
          <5>1. cs \in Seq(Part) /\ cu \in Seq(Part) /\ y \in Part
            BY <3>7, <4>4
          <5>2. AddTo(Behind(cs, cu), y) = Behind(cs, AddTo(cu, y))
            BY <5>1, AddBehind
          <5> QED
            BY <5>2 DEF AddTo, Behind
        <4>7. Camel(b \o t) = cs \o Camel(t)
          BY <3>5, <3>7, <4>3, <4>5, <4>6
        <4> QED
          BY <2>2, <4>7 DEF cs
      <3> QED
        BY <3>8, <3>9
    <2> QED
      BY <2>4, <2>5
  <1>4. Camel(b \o name) = Camel(s) \o Camel(name)
    <2>1. Len(name) \in Nat
      OBVIOUS
    <2> QED
      BY <1>3, <2>1
  <1> QED
    BY <1>4, JoinedIs DEF b

(* What the names of a node's own kin begin with, as they are flattened.   *)
Above(n) == IF tree[n].parent = 0 THEN <<>> ELSE Append(Path[tree[n].parent], Bar)

CamelAbove(n) == IF tree[n].parent = 0 THEN <<>> ELSE Camel(Path[tree[n].parent])

LEMMA AboveIs ==
  ASSUME TreeGrown, NEW n \in Node
  PROVE  /\ Above(n) \in Seq(Token) /\ CamelAbove(n) \in Seq(Part)
         /\ Camel(OwnName(n)) \in Seq(Part)
         /\ Camel(Path[n]) = CamelAbove(n) \o Camel(OwnName(n))
         /\ \A x \in Seq(Token) : Path[n] \o x = Above(n) \o (OwnName(n) \o x)
  <1> DEFINE p == tree[n].parent
             o == OwnName(n)
             path == Path[n]
  <1>1. p \in {0} \cup Node /\ o \in Seq(Token)
    BY NodeFacts, OwnNameIs
  <1>2. Camel(o) \in Seq(Part)
    BY <1>1, BarIsToken, CamelAppend
  <1>3. path = IF p = 0 THEN o ELSE Joined(Path[p], o)
    BY PathIs
  <1>4. CASE p = 0
    <2> DEFINE e == <<>>
    <2>1. Above(n) = e /\ CamelAbove(n) = e
      BY <1>4 DEF Above, CamelAbove
    <2>2. e \in Seq(Token) /\ e \in Seq(Part)
      OBVIOUS
    <2> HIDE DEF o
    <2>3. e \o Camel(o) = Camel(o)
      BY <1>2, NothingBefore
    <2>4. ASSUME NEW x \in Seq(Token) PROVE path \o x = e \o (o \o x)
      <3> DEFINE ox == o \o x
      <3>1. ox \in Seq(Token)
        BY <1>1, ConcatIs
      <3> HIDE DEF ox
      <3>2. e \o ox = ox
        BY <3>1, NothingBefore
      <3>3. path = o
        BY <1>3, <1>4
      <3> HIDE DEF path, e
      <3> QED
        BY <3>2, <3>3 DEF ox
    <2> HIDE DEF e
    <2>5. Camel(path) = e \o Camel(o)
      BY <1>3, <1>4, <2>3 DEF e
    <2> QED
      BY <1>2, <2>1, <2>2, <2>4, <2>5 DEF o
  <1>5. CASE p # 0
    <2> DEFINE s == Path[p]
               b == Append(s, Bar)
    <2>1. s \in Seq(Token)
      BY <1>1, <1>5, PathIs
    <2>2. Above(n) = b /\ CamelAbove(n) = Camel(s) /\ path = Joined(s, o)
      BY <1>3, <1>5 DEF Above, CamelAbove
    <2> HIDE DEF s, o, path
    <2>3. Camel(s) \in Seq(Part) /\ b \in Seq(Token) /\ Joined(s, o) = b \o o
      BY <1>1, <2>1, BarIsToken, CamelAppend, JoinedIs
    <2>4. Camel(path) = Camel(s) \o Camel(o)
      BY <1>1, <2>1, <2>2, CamelJoins
    <2> HIDE DEF b
    <2>5. ASSUME NEW x \in Seq(Token) PROVE path \o x = b \o (o \o x)
      <3>1. (b \o o) \o x = b \o (o \o x)
        BY <1>1, <2>3, ConcatAssoc
      <3> QED
        BY <2>2, <2>3, <3>1
    <2> QED
      BY <1>2, <2>2, <2>3, <2>4, <2>5 DEF o, path
  <1> QED
    BY <1>4, <1>5

(* Names that are joined by "_": a regfile's members begin with its path   *)
(* and a "_".                                                              *)
LEMMA JoinedNamed ==
  ASSUME TreeGrown, NEW own \in [Node -> SUBSET Seq(Token)],
         \A n \in Node : ~IsReg(n) => own[n] = {Append(OwnName(n), Bar)},
         \A n, k \in Node : (n # k /\ tree[n].parent = tree[k].parent) =>
            \A s \in own[n], t \in own[k] : IF IsReg(n) THEN s # t ELSE ~IsPrefix(s, t)
  PROVE  Named(Token, [n \in Node |-> Above(n)], own)
  <1> DEFINE pre == [n \in Node |-> Above(n)]
  <1>1. pre \in [Node -> Seq(Token)]
    BY AboveIs
  <1>2. \A n, k \in Node : tree[n].parent = tree[k].parent => pre[n] = pre[k]
    BY DEF Above
  <1>3. ASSUME NEW n \in Node, tree[n].parent # 0
        PROVE  \E s \in own[tree[n].parent] : pre[n] = pre[tree[n].parent] \o s
    <2> DEFINE p == tree[n].parent
               o == OwnName(p)
               b == <<Bar>>
    <2>1. p \in Node /\ ~IsReg(p)
      BY <1>3, NodeFacts
    <2>2. o \in Seq(Token) /\ b \in Seq(Token) /\ Path[p] \in Seq(Token)
      BY <2>1, OwnNameIs, PathIs, BarIsToken
    <2>3. pre[n] = Append(Path[p], Bar) /\ pre[p] = Above(p)
      BY <1>3, <2>1 DEF Above
    <2>4. Path[p] \o b = Above(p) \o (o \o b)
      BY <2>1, <2>2, AboveIs
    <2> HIDE DEF o, p
    <2>5. Path[p] \o b = Append(Path[p], Bar) /\ o \o b = Append(o, Bar)
      BY <2>2, BarIsToken
    <2>6. pre[n] = pre[p] \o Append(o, Bar)
      BY <2>3, <2>4, <2>5
    <2>7. Append(o, Bar) \in own[p]
      BY <2>1 DEF o
    <2> QED
      BY <2>6, <2>7 DEF p
  <1> HIDE DEF pre
  <1>4. Named(Token, pre, own)
    BY <1>1, <1>2, <1>3 DEF Named
  <1> QED
    BY <1>4 DEF pre

LEMMA StateNamesApart ==
  ASSUME TreeGrown, SiblingNamesApart(OwnStates), NEW r \in Node, NEW q \in Node,
         IsReg(r), IsReg(q), StateName(r) = StateName(q)
  PROVE  r = q
  <1> DEFINE own == [n \in Node |-> OwnStates(n)]
             pre == [n \in Node |-> Above(n)]
             end == <<Bar, "r">>
  <1>1. end \in Seq(Token)
    <2>1. Bar \in Token /\ "r" \in Token
      BY DEF Token
    <2> QED
      BY <2>1
  <1>2. \A n \in Node : /\ IsReg(n) => own[n] = {OwnName(n) \o end}
                        /\ ~IsReg(n) => own[n] = {OwnName(n) \o <<Bar>>}
    BY DEF OwnStates, Bar
  <1>3. \A n \in Node : /\ OwnName(n) \o end \in Seq(Token)
                        /\ OwnName(n) \o <<Bar>> = Append(OwnName(n), Bar)
                        /\ Append(OwnName(n), Bar) \in Seq(Token)
    <2> TAKE n \in Node
    <2> DEFINE o == OwnName(n)
    <2>1. o \in Seq(Token)
      BY OwnNameIs
    <2> HIDE DEF o
    <2>2. o \o end \in Seq(Token)
      BY <1>1, <2>1, ConcatIs
    <2>3. o \o <<Bar>> = Append(o, Bar) /\ Append(o, Bar) \in Seq(Token)
      BY <2>1, BarIsToken
    <2> QED
      BY <2>2, <2>3 DEF o
  <1>4. own \in [Node -> SUBSET Seq(Token)]
    <2>1. \A n \in Node : own[n] \subseteq Seq(Token)
      BY <1>2, <1>3
    <2> QED
      BY <2>1
  <1>5. \A n, k \in Node : (n # k /\ tree[n].parent = tree[k].parent) =>
            \A s \in own[n], t \in own[k] : IF IsReg(n) THEN s # t ELSE ~IsPrefix(s, t)
    BY DEF SiblingNamesApart
  <1>6. \A n \in Node : ~IsReg(n) => own[n] = {Append(OwnName(n), Bar)}
    BY <1>2, <1>3
  <1> HIDE DEF own
  <1>7. Named(Token, pre, own)
    BY <1>4, <1>5, <1>6, JoinedNamed
  <1>8. \A n \in Node : IsReg(n) =>
           StateName(n) = pre[n] \o (OwnName(n) \o end) /\ OwnName(n) \o end \in own[n]
    BY <1>1, <1>2, AboveIs DEF StateName, FlatPath, Bar
  <1> HIDE DEF end, pre
  <1> DEFINE s == OwnName(r) \o end
             t == OwnName(q) \o end
  <1>9. s \in own[r] /\ t \in own[q] /\ pre[r] \o s = pre[q] \o t
    BY <1>8
  <1> HIDE DEF s, t
  <1> QED
    BY <1>7, <1>9, NamedApart

(* The end of a member: an index, if any, and a field.                     *)
LEMMA MemberEndIs ==
  ASSUME TreeGrown, NEW n \in Node, NEW i \in Elements(n), NEW f \in FieldNames
  PROVE  /\ MemberEnd(n, i, f) \in Seq(Token) /\ i \in Nat
         /\ MemberEnd(n, i, f) =
              IF tree[n].array_count = None THEN <<Bar>> \o Filter(f)
              ELSE <<Bar>> \o Joined(Decimal[i], Filter(f))
  <1> DEFINE b == <<Bar>>
             d == Decimal[i]
             v == Filter(f)
             e == <<>>
  <1>1. i \in Nat
    BY NodeShape DEF Elements
  <1>2. d \in Seq(Token) /\ v \in Seq(Token) /\ b \in Seq(Token) /\ e \in Seq(Token)
    <2>1. d \in Seq(Digit) /\ Digit \subseteq Token
      BY <1>1, DecimalIs, ScanAssumption DEF Token
    <2>2. d \in Seq(Token)
      BY <2>1
    <2> QED
      BY <2>2, FilterIs, BarIsToken
  <1>3. MemberEnd(n, i, f) = (IF tree[n].array_count = None THEN e ELSE b \o d) \o b \o v
    BY DEF MemberEnd, Index, Bar
  <1> HIDE DEF b, d, v, e
  <1>4. e \o b = b
    BY <1>2, NothingBefore DEF e
  <1>5. CASE tree[n].array_count = None
    <2>1. b \o v \in Seq(Token)
      BY <1>2, ConcatIs
    <2>2. MemberEnd(n, i, f) = b \o v
      BY <1>3, <1>4, <1>5
    <2> QED
      BY <1>1, <1>5, <2>1, <2>2 DEF b, v
  <1>6. CASE tree[n].array_count # None
    <2> DEFINE bd == b \o d
               bv == b \o v
               j == Joined(d, v)
    <2>1. bd \o b \in Seq(Token) /\ bd \in Seq(Token) /\ bv \in Seq(Token)
      BY <1>2, ConcatIs
    <2>2. (bd \o b) \o v = bd \o bv
      BY <1>2, <2>1, ConcatAssoc
    <2>3. bd \o bv = b \o (d \o bv)
      BY <1>2, <2>1, ConcatAssoc
    <2>4. d \o bv = (d \o b) \o v
      BY <1>2, ConcatAssoc
    <2>5. j = (d \o b) \o v /\ j \in Seq(Token)
      BY <1>2, JoinedIs DEF Joined, b
    <2> HIDE DEF j, bv
    <2>6. MemberEnd(n, i, f) = b \o j /\ b \o j \in Seq(Token)
      <3>1. MemberEnd(n, i, f) = (bd \o b) \o v
        BY <1>3, <1>6
      <3> HIDE DEF bd
      <3>2. MemberEnd(n, i, f) = b \o j
        BY <2>2, <2>3, <2>4, <2>5, <3>1
      <3> QED
        BY <1>2, <2>5, <3>2, ConcatIs
    <2> QED
      BY <1>1, <1>6, <2>6 DEF b, d, v, j
  <1> QED
    BY <1>5, <1>6

LEMMA MemberEndsApart ==
  ASSUME TreeGrown, NEW n \in Node, NEW i \in Elements(n), NEW j \in Elements(n),
         NEW f \in FieldNames, NEW g \in FieldNames, MemberEnd(n, i, f) = MemberEnd(n, j, g)
  PROVE  i = j /\ Filter(f) = Filter(g)
  <1> DEFINE b == <<Bar>>
             v == Filter(f)
             w == Filter(g)
             c == Decimal[i]
             d == Decimal[j]
  <1>1. i \in Nat /\ j \in Nat
    BY MemberEndIs
  <1>2. v \in Seq(Token) /\ w \in Seq(Token) /\ b \in Seq(Token)
    BY FilterIs, BarIsToken
  <1>3. /\ c \in Seq(Token) /\ d \in Seq(Token)
        /\ \A k \in 1 .. Len(c) : c[k] # Bar
        /\ \A k \in 1 .. Len(d) : d[k] # Bar
    <2>1. c \in Seq(Digit) /\ d \in Seq(Digit) /\ Digit \subseteq Token /\ Bar \notin Digit
      BY <1>1, DecimalIs, ScanAssumption DEF Token, Bar
    <2> HIDE DEF c, d
    <2>2. c \in Seq(Token) /\ d \in Seq(Token)
      BY <2>1
    <2>3. /\ \A k \in 1 .. Len(c) : c[k] \in Digit
          /\ \A k \in 1 .. Len(d) : d[k] \in Digit
      BY <2>1
    <2> QED
      BY <2>1, <2>2, <2>3
  <1>4. CASE tree[n].array_count = None
    <2>1. i = 0 /\ j = 0
      BY <1>4 DEF Elements
    <2>2. b \o v = b \o w
      BY <1>4, MemberEndIs
    <2> HIDE DEF b, v, w
    <2>3. v = w
      BY <1>2, <2>2, SameStart
    <2> QED
      BY <2>1, <2>3 DEF v, w
  <1>5. CASE tree[n].array_count # None
    <2> DEFINE cv == Joined(c, v)
               dw == Joined(d, w)
    <2>1. b \o cv = b \o dw
      BY <1>5, MemberEndIs
    <2> HIDE DEF b, c, d, v, w
    <2>2. cv \in Seq(Token) /\ dw \in Seq(Token)
      BY <1>2, <1>3, JoinedIs
    <2>3. cv = dw
      <3> HIDE DEF cv, dw
      <3> QED
        BY <1>2, <2>1, <2>2, SameStart
    <2>4. c = d /\ v = w
      BY <1>2, <1>3, <2>3, SplitAtBar
    <2> QED
      BY <1>1, <2>4, DecimalsApart DEF c, d, v, w
  <1> QED
    BY <1>4, <1>5

LEMMA MembersApart ==
  ASSUME TreeGrown, SiblingNamesApart(OwnMembers),
         \A f, g \in FieldNames : Filter(f) = Filter(g) => f = g,
         NEW r \in Node, NEW q \in Node, IsReg(r), IsReg(q),
         NEW i \in Elements(r), NEW j \in Elements(q), NEW f \in FieldNames, NEW g \in FieldNames,
         HwifMember(r, i, f) = HwifMember(q, j, g)
  PROVE  r = q /\ i = j /\ f = g
  <1> DEFINE own == [n \in Node |-> OwnMembers(n)]
             pre == [n \in Node |-> Above(n)]
             s == OwnName(r) \o MemberEnd(r, i, f)
             t == OwnName(q) \o MemberEnd(q, j, g)
  <1>1. \A n \in Node : IsReg(n) =>
           own[n] = {OwnName(n) \o MemberEnd(n, x[1], x[2]) : x \in Elements(n) \X FieldNames}
    BY DEF OwnMembers
  <1>2. \A n \in Node : ~IsReg(n) => own[n] = {Append(OwnName(n), Bar)} /\ own[n] \subseteq Seq(Token)
    <2> TAKE n \in Node
    <2> HAVE ~IsReg(n)
    <2> DEFINE o == OwnName(n)
    <2>1. own[n] = {o \o <<Bar>>}
      BY DEF OwnMembers, Bar
    <2>2. o \in Seq(Token)
      BY OwnNameIs
    <2> HIDE DEF o, own
    <2>3. o \o <<Bar>> = Append(o, Bar) /\ Append(o, Bar) \in Seq(Token)
      BY <2>2, BarIsToken
    <2> QED
      BY <2>1, <2>3 DEF o
  <1>3. ASSUME NEW n \in Node, NEW k \in Elements(n), NEW h \in FieldNames
        PROVE  OwnName(n) \o MemberEnd(n, k, h) \in Seq(Token)
    <2>1. OwnName(n) \in Seq(Token) /\ MemberEnd(n, k, h) \in Seq(Token)
      BY OwnNameIs, MemberEndIs
    <2> QED
      BY <2>1, ConcatIs
  <1>4. \A n, k \in Node : (n # k /\ tree[n].parent = tree[k].parent) =>
            \A x \in own[n], y \in own[k] : IF IsReg(n) THEN x # y ELSE ~IsPrefix(x, y)
    BY DEF SiblingNamesApart
  <1>5. s \in own[r] /\ t \in own[q]
    <2>1. /\ <<i, f>> \in Elements(r) \X FieldNames /\ <<i, f>>[1] = i /\ <<i, f>>[2] = f
          /\ <<j, g>> \in Elements(q) \X FieldNames /\ <<j, g>>[1] = j /\ <<j, g>>[2] = g
      OBVIOUS
    <2>2. /\ s = OwnName(r) \o MemberEnd(r, <<i, f>>[1], <<i, f>>[2])
          /\ t = OwnName(q) \o MemberEnd(q, <<j, g>>[1], <<j, g>>[2])
      BY <2>1
    <2> HIDE DEF own, s, t
    <2> QED
      BY <1>1, <2>1, <2>2
  <1>6. own = [n \in Node |-> own[n]]
    OBVIOUS
  <1> HIDE DEF own
  <1>7. own \in [Node -> SUBSET Seq(Token)]
    <2>1. \A n \in Node : own[n] \subseteq Seq(Token)
      <3> TAKE n \in Node
      <3>1. ASSUME IsReg(n), NEW u \in own[n] PROVE u \in Seq(Token)
        <4>1. PICK x \in Elements(n) \X FieldNames : u = OwnName(n) \o MemberEnd(n, x[1], x[2])
          BY <1>1, <3>1
        <4>2. x[1] \in Elements(n) /\ x[2] \in FieldNames
          OBVIOUS
        <4> QED
          BY <1>3, <4>1, <4>2
      <3> QED
        BY <1>2, <3>1
    <2> QED
      BY <1>6, <2>1
  <1>8. Named(Token, pre, own)
    BY <1>2, <1>4, <1>7, JoinedNamed
  <1>9. pre[r] \o s = pre[q] \o t
    <2>1. /\ MemberEnd(r, i, f) \in Seq(Token)
          /\ MemberEnd(q, j, g) \in Seq(Token)
      BY MemberEndIs
    <2>2. /\ HwifMember(r, i, f) = Above(r) \o s
          /\ HwifMember(q, j, g) = Above(q) \o t
      BY <2>1, AboveIs DEF HwifMember, FlatPath
    <2> QED
      BY <2>2
  <1>10. r = q /\ s = t
    <2> HIDE DEF s, t, pre
    <2>1. s \in own[r] /\ t \in own[q]
      BY <1>5 DEF s, t
    <2>2. \A x \in own[r], y \in own[q] : pre[r] \o x = pre[q] \o y => r = q /\ x = y
      BY <1>8, NamedApart
    <2> QED
      BY <1>9, <2>1, <2>2
  <1>11. MemberEnd(r, i, f) = MemberEnd(r, j, g) /\ j \in Elements(r)
    <2>1. /\ OwnName(r) \in Seq(Token) /\ MemberEnd(r, i, f) \in Seq(Token)
          /\ MemberEnd(r, j, g) \in Seq(Token) /\ j \in Elements(r)
      BY <1>10, OwnNameIs, MemberEndIs
    <2>2. OwnName(r) \o MemberEnd(r, i, f) = OwnName(r) \o MemberEnd(r, j, g)
      BY <1>10
    <2> QED
      BY <2>1, <2>2, SameStart
  <1>12. i = j /\ Filter(f) = Filter(g)
    BY <1>11, MemberEndsApart
  <1> QED
    BY <1>10, <1>12

(* The end of a variant: an index, if any.                                 *)
LEMMA VariantEndIs ==
  ASSUME TreeGrown, NEW n \in Node, NEW i \in Elements(n)
  PROVE  /\ VariantEnd(n, i) \in Seq(Part)
         /\ \A j \in Elements(n) : VariantEnd(n, i) = VariantEnd(n, j) => i = j
  <1>1. \A j \in Elements(n) : j \in Nat
    BY NodeShape DEF Elements
  <1>2. CASE tree[n].array_count = None
    <2>1. \A j \in Elements(n) : j = i
      BY <1>2 DEF Elements
    <2> DEFINE e == <<>>
    <2>2. Index(n, i) = e /\ e \in Seq(Token)
      BY <1>2 DEF Index
    <2>3. VariantEnd(n, i) = [k \in DOMAIN e |-> <<e[k], FALSE>>]
      BY <2>2 DEF VariantEnd
    <2>4. DOMAIN e = 1 .. 0
      OBVIOUS
    <2>5. VariantEnd(n, i) \in Seq(Part)
      <3> HIDE DEF e
      <3>1. VariantEnd(n, i) \in [1 .. 0 -> Part]
        BY <2>3, <2>4
      <3> QED
        BY <3>1
    <2> QED
      BY <2>1, <2>5
  <1>3. CASE tree[n].array_count # None
    <2>1. ASSUME NEW j \in Elements(n)
          PROVE  /\ VariantEnd(n, j) = [k \in 1 .. Len(Decimal[j]) |-> <<Decimal[j][k], FALSE>>]
                 /\ Decimal[j] \in Seq(Token) /\ Len(Decimal[j]) \in Nat
      <3>1. Decimal[j] \in Seq(Digit) /\ Digit \subseteq Token
        BY <1>1, DecimalIs, ScanAssumption DEF Token
      <3> DEFINE d == Decimal[j]
      <3>2. Index(n, j) = d
        BY <1>3 DEF Index
      <3> HIDE DEF d
      <3>3. d \in Seq(Token) /\ DOMAIN d = 1 .. Len(d) /\ Len(d) \in Nat
        BY <3>1 DEF d
      <3>4. VariantEnd(n, j) = [k \in 1 .. Len(d) |-> <<d[k], FALSE>>]
        BY <3>2, <3>3 DEF VariantEnd
      <3> QED
        BY <3>3, <3>4 DEF d
    <2>2. VariantEnd(n, i) \in Seq(Part)
      <3> DEFINE d == Decimal[i]
      <3>1. d \in Seq(Token) /\ Len(d) \in Nat /\ VariantEnd(n, i) = [k \in 1 .. Len(d) |-> <<d[k], FALSE>>]
        BY <2>1
      <3> HIDE DEF d
      <3>2. \A k \in 1 .. Len(d) : <<d[k], FALSE>> \in Part
        <4> TAKE k \in 1 .. Len(d)
        <4>1. d[k] \in Token
          BY <3>1
        <4> QED
          BY <4>1 DEF Part
      <3>3. VariantEnd(n, i) \in [1 .. Len(d) -> Part]
        BY <3>1, <3>2
      <3> DEFINE m == Len(d)
                 v == VariantEnd(n, i)
      <3>4. m \in Nat /\ v \in [1 .. m -> Part]
        BY <3>1, <3>3
      <3> HIDE DEF m, v
      <3> QED
        BY <3>4 DEF v
    <2>3. ASSUME NEW j \in Elements(n), VariantEnd(n, i) = VariantEnd(n, j) PROVE i = j
      <3> DEFINE c == Decimal[i]
                 d == Decimal[j]
                 u == VariantEnd(n, i)
      <3>1. /\ c \in Seq(Token) /\ Len(c) \in Nat /\ u = [k \in 1 .. Len(c) |-> <<c[k], FALSE>>]
            /\ d \in Seq(Token) /\ Len(d) \in Nat /\ u = [k \in 1 .. Len(d) |-> <<d[k], FALSE>>]
        BY <2>1, <2>3
      <3> HIDE DEF c, d, u
      <3>2. 1 .. Len(c) = 1 .. Len(d)
        BY <3>1
      <3>3. Len(c) = Len(d)
        BY <3>1, <3>2
      <3>4. \A k \in 1 .. Len(c) : c[k] = d[k]
        <4> TAKE k \in 1 .. Len(c)
        <4>1. u[k] = <<c[k], FALSE>> /\ u[k] = <<d[k], FALSE>>
          BY <3>1, <3>3
        <4> QED
          BY <4>1
      <3>5. c = d
        BY <3>1, <3>3, <3>4
      <3> QED
        BY <1>1, <3>5, DecimalsApart DEF c, d
    <2> QED
      BY <2>2, <2>3
  <1> QED
    BY <1>2, <1>3

LEMMA VariantsApart ==
  ASSUME TreeGrown, SiblingNamesApart(OwnVariants),
         NEW r \in Node, NEW q \in Node, IsReg(r), IsReg(q),
         NEW i \in Elements(r), NEW j \in Elements(q), EnumVariant(r, i) = EnumVariant(q, j)
  PROVE  r = q /\ i = j
  <1> DEFINE own == [n \in Node |-> OwnVariants(n)]
             pre == [n \in Node |-> CamelAbove(n)]
             s == Camel(OwnName(r)) \o VariantEnd(r, i)
             t == Camel(OwnName(q)) \o VariantEnd(q, j)
  <1>1. \A n \in Node : /\ IsReg(n) => own[n] = {Camel(OwnName(n)) \o VariantEnd(n, k) : k \in Elements(n)}
                        /\ ~IsReg(n) => own[n] = {Camel(OwnName(n))}
    BY DEF OwnVariants
  <1>2. \A n \in Node : Camel(OwnName(n)) \in Seq(Part) /\ CamelAbove(n) \in Seq(Part)
    BY AboveIs
  <1>3. ASSUME NEW n \in Node, NEW k \in Elements(n)
        PROVE  Camel(OwnName(n)) \o VariantEnd(n, k) \in Seq(Part)
    <2>1. Camel(OwnName(n)) \in Seq(Part) /\ VariantEnd(n, k) \in Seq(Part)
      BY <1>2, VariantEndIs
    <2> QED
      BY <2>1, ConcatIs
  <1>4. \A n, k \in Node : (n # k /\ tree[n].parent = tree[k].parent) =>
            \A x \in own[n], y \in own[k] : IF IsReg(n) THEN x # y ELSE ~IsPrefix(x, y)
    BY DEF SiblingNamesApart
  <1>5. s \in own[r] /\ t \in own[q]
    <2> HIDE DEF own
    <2> QED
      BY <1>1
  <1>6. own = [n \in Node |-> own[n]]
    OBVIOUS
  <1>7. pre \in [Node -> Seq(Part)] /\ \A n \in Node : pre[n] = CamelAbove(n)
    BY <1>2
  <1> HIDE DEF own, pre
  <1>8. own \in [Node -> SUBSET Seq(Part)]
    <2>1. \A n \in Node : own[n] \subseteq Seq(Part)
      <3> TAKE n \in Node
      <3>1. ASSUME IsReg(n), NEW u \in own[n] PROVE u \in Seq(Part)
        <4>1. PICK k \in Elements(n) : u = Camel(OwnName(n)) \o VariantEnd(n, k)
          BY <1>1, <3>1
        <4> QED
          BY <1>3, <4>1
      <3> QED
        BY <1>1, <1>2, <3>1
    <2> QED
      BY <1>6, <2>1
  <1>9. Named(Part, pre, own)
    <2>1. \A n, k \in Node : tree[n].parent = tree[k].parent => pre[n] = pre[k]
      BY <1>7 DEF CamelAbove
    <2>2. ASSUME NEW n \in Node, tree[n].parent # 0
          PROVE  \E x \in own[tree[n].parent] : pre[n] = pre[tree[n].parent] \o x
      <3> DEFINE p == tree[n].parent
      <3>1. p \in Node /\ ~IsReg(p)
        BY <2>2, NodeFacts
      <3>2. pre[n] = Camel(Path[p])
        BY <1>7, <2>2 DEF CamelAbove
      <3> HIDE DEF p
      <3>3. Camel(Path[p]) = pre[p] \o Camel(OwnName(p))
        BY <1>7, <3>1, AboveIs
      <3>4. Camel(OwnName(p)) \in own[p]
        BY <1>1, <3>1
      <3> QED
        BY <3>2, <3>3, <3>4 DEF p
    <2> QED
      BY <1>4, <1>7, <1>8, <2>1, <2>2 DEF Named
  <1>10. ASSUME NEW n \in Node, NEW k \in Elements(n)
         PROVE  EnumVariant(n, k) = pre[n] \o (Camel(OwnName(n)) \o VariantEnd(n, k))
    <2> DEFINE a == CamelAbove(n)
               o == Camel(OwnName(n))
               v == VariantEnd(n, k)
    <2>1. a \in Seq(Part) /\ o \in Seq(Part) /\ v \in Seq(Part) /\ pre[n] = a
      BY <1>2, <1>7, VariantEndIs
    <2>2. EnumVariant(n, k) = (a \o o) \o v
      BY AboveIs DEF EnumVariant, FlatPath
    <2> HIDE DEF a, o, v
    <2>3. (a \o o) \o v = a \o (o \o v)
      BY <2>1, ConcatAssoc
    <2>4. EnumVariant(n, k) = pre[n] \o (o \o v)
      BY <2>1, <2>2, <2>3
    <2> QED
      BY <2>4 DEF o, v
  <1>11. pre[r] \o s = pre[q] \o t
    BY <1>10
  <1>12. r = q /\ s = t
    <2> HIDE DEF s, t
    <2>1. \A x \in own[r], y \in own[q] : pre[r] \o x = pre[q] \o y => r = q /\ x = y
      BY <1>9, NamedApart
    <2> QED
      BY <1>5, <1>11, <2>1
  <1>13. VariantEnd(r, i) = VariantEnd(r, j) /\ j \in Elements(r)
    <2>1. /\ Camel(OwnName(r)) \in Seq(Part) /\ VariantEnd(r, i) \in Seq(Part)
          /\ VariantEnd(r, j) \in Seq(Part) /\ j \in Elements(r)
      BY <1>2, <1>12, VariantEndIs
    <2>2. Camel(OwnName(r)) \o VariantEnd(r, i) = Camel(OwnName(r)) \o VariantEnd(r, j)
      BY <1>12
    <2> QED
      BY <2>1, <2>2, SameStart
  <1> QED
    BY <1>12, <1>13, VariantEndIs

LEMMA NamesApartInv == ScanInv => FlatteningKeepsApart
  <1> SUFFICES ASSUME ScanInv, step = "done" PROVE FlatteningKeepsApart
    BY DEF FlatteningKeepsApart
  <1>1. TreeGrown /\ ToSet(regs) = {n \in Node : IsReg(n)}
    BY DEF ScanInv, EveryRegisterScanned
  <1>2. \A e \in Element : e[1] \in Node /\ e[2] \in Elements(e[1]) /\ e = <<e[1], e[2]>> /\ IsReg(e[1])
    <2>1. \A e \in Element : e[1] \in ToSet(regs)
      BY DEF Element
    <2> QED
      BY <1>1, <2>1, ElementIs
  <1>3. SiblingNamesApart(OwnStates) =>
          \A r, q \in ToSet(regs) : StateName(r) = StateName(q) => r = q
    BY <1>1, StateNamesApart
  <1>4. ASSUME SiblingNamesApart(OwnVariants), NEW e \in Element, NEW d \in Element,
               EnumVariant(e[1], e[2]) = EnumVariant(d[1], d[2])
        PROVE  e = d
    BY <1>1, <1>2, <1>4, VariantsApart
  <1>5. ASSUME SiblingNamesApart(OwnMembers),
               \A f, g \in FieldNames : Filter(f) = Filter(g) => f = g,
               NEW e \in Element, NEW d \in Element, NEW f \in FieldNames, NEW g \in FieldNames,
               HwifMember(e[1], e[2], f) = HwifMember(d[1], d[2], g)
        PROVE  e = d /\ f = g
    BY <1>1, <1>2, <1>5, MembersApart
  <1> QED
    BY <1>3, <1>4, <1>5 DEF FlatteningKeepsApart

(* Flattening makes no two generated names meet unless two of siblings met *)
(* already, or one continued the other, however deep the regfiles nest and *)
(* whatever the names are, "_" and digits in them and reserved ones        *)
(* included (dereferencer.py:8-45, scan_design.py:87-97).                  *)
THEOREM FlatNamesStayApart == GenSpec => []FlatteningKeepsApart
  BY NamesApartInv, ScanInductive, PTL

-----------------------------------------------------------------------------
(* The directory.                                                          *)

(* A file name of a design is a name of the directory.                     *)
LEMMA FilesOfNames == \A d \in Designs : d.package_name \in Name /\ d.module_name \in Name
  BY DEF Name

(* An update of one file leaves the others, and keeps the type.            *)
LEMMA PutFile ==
  ASSUME TypeOK, design \in Designs, NEW n \in {design.package_name, design.module_name},
         NEW part \in {"package", "module"}, NEW whole \in BOOLEAN,
         files' = [files EXCEPT ![n] = File(design, part, whole)]
  PROVE  /\ files' \in [Name -> {Absent} \cup Content]
         /\ files'[n] = File(design, part, whole)
         /\ \A m \in Name \ {n} : files'[m] = files[m]
  <1>1. n \in Name
    BY FilesOfNames
  <1>2. File(design, part, whole) \in Content
    BY DEF File, Content
  <1> QED
    BY <1>1, <1>2 DEF TypeOK

(* The two whole files of one build fit each other.                        *)
LEMMA BuildFits ==
  \A d \in Designs : Fits(<<File(d, "package", TRUE), File(d, "module", TRUE)>>)
  <1> TAKE d \in Designs
  <1> DEFINE p == File(d, "package", TRUE)
             m == File(d, "module", TRUE)
  <1>1. p \in Content /\ m \in Content
    BY DEF File, Content
  <1>2. p # Absent /\ m # Absent
    BY <1>1, ExportAssumption
  <1>3. p.whole /\ m.whole /\ p.of = m.of
    BY DEF File
  <1> HIDE DEF p, m
  <1>4. <<p, m>>[1] = p /\ <<p, m>>[2] = m
    OBVIOUS
  <1>5. Fits(<<p, m>>)
    BY <1>2, <1>3, <1>4 DEF Fits
  <1> QED
    BY <1>5 DEF p, m

(* A step that changes only files of the design being exported leaves the  *)
(* pair of every design without a file in common with it.                  *)
LEMMA OtherPairs ==
  ASSUME \A m \in Name \ FilesOf(design) : files'[m] = files[m],
         NEW d \in Designs, FilesOf(d) \cap FilesOf(design) = {}
  PROVE  Pair(d)' = Pair(d)
  <1>1. d.package_name \in Name \ FilesOf(design) /\ d.module_name \in Name \ FilesOf(design)
    BY FilesOfNames DEF FilesOf
  <1>2. /\ files'[d.package_name] = files[d.package_name]
        /\ files'[d.module_name] = files[d.module_name]
    BY <1>1
  <1> QED
    BY <1>2 DEF Pair

(* No export has run in the initial state.                                 *)
LEMMA ExportInitInv == ExportInit => ExportInv
  BY FilesOfNames
  DEF ExportInit, ExportInv, TypeOK, OnDisk, OthersFit, Stage, Ended, Untouched, Writing,
      Fits, Pair

(* An export is called: nothing is written yet.                            *)
LEMMA CallStep == ASSUME ExportInv, NEW d \in Designs, Export(d) PROVE ExportInv'
  BY DEF Export, ExportInv, TypeOK, OnDisk, OthersFit, Stage, Ended, Untouched, Writing,
         Fits, Pair, FilesOf

(* The stages that work in memory.                                         *)
LEMMA InMemoryStep ==
  ASSUME ExportInv, NEW this \in Untouched \ {"rejected"}, this # "open package",
         NEW rejects, NEW next \in Untouched, InMemory(this, rejects, next)
  PROVE  ExportInv'
  BY DEF InMemory, ExportInv, TypeOK, OnDisk, OthersFit, Stage, Ended, Untouched, Writing,
         Fits, Pair, FilesOf

(* A step that opens or writes one file and stays inside the writing: the  *)
(* pairs without a file of this design are not touched.                    *)
LEMMA OthersFitKept ==
  ASSUME OthersFit, torn' = torn, design' = design, stage' \in Writing,
         \A m \in Name \ FilesOf(design) : files'[m] = files[m]
  PROVE  OthersFit'
  <1> SUFFICES ASSUME NEW d \in Designs, FilesOf(d) \cap torn = {},
                      FilesOf(d) \cap FilesOf(design) = {}
               PROVE  Fits(Pair(d))'
    BY DEF OthersFit, FilesOf
  <1>1. Fits(Pair(d))
    BY DEF OthersFit
  <1>2. Pair(d)' = Pair(d)
    BY OtherPairs
  <1> QED
    BY <1>1, <1>2 DEF Fits

(* The package file is emptied, and then written.                          *)
LEMMA OpenPackageStep ==
  ASSUME NamesApart, ExportInv, OpenPackage PROVE ExportInv'
  <1> USE DEF OpenPackage, Put, ExportInv
  <1>1. design \in Designs
    BY DEF OnDisk
  <1>2. /\ files' \in [Name -> {Absent} \cup Content]
        /\ \A m \in Name \ FilesOf(design) : files'[m] = files[m]
    BY <1>1, PutFile DEF FilesOf
  <1>3. TypeOK'
    BY <1>2 DEF TypeOK, Stage
  <1>4. OnDisk'
    BY <1>1, <1>2 DEF OnDisk, Untouched, Writing, FilesOf
  <1>5. OthersFit'
    BY <1>2, OthersFitKept DEF Writing
  <1> QED
    BY <1>3, <1>4, <1>5

LEMMA WritePackageStep ==
  ASSUME NamesApart, ExportInv, WritePackage PROVE ExportInv'
  <1> USE DEF WritePackage, Put, ExportInv
  <1>1. design \in Designs
    BY DEF OnDisk
  <1>2. /\ files' \in [Name -> {Absent} \cup Content]
        /\ files'[design.package_name] = File(design, "package", TRUE)
        /\ \A m \in Name \ FilesOf(design) : files'[m] = files[m]
    BY <1>1, PutFile DEF FilesOf
  <1>3. TypeOK'
    BY <1>2 DEF TypeOK, Stage
  <1>4. OnDisk'
    BY <1>1, <1>2 DEF OnDisk, Untouched, Writing, FilesOf
  <1>5. OthersFit'
    BY <1>2, OthersFitKept DEF Writing
  <1> QED
    BY <1>3, <1>4, <1>5

(* The module file is emptied: the package is whole by now.                *)
LEMMA OpenModuleStep ==
  ASSUME NamesApart, ExportInv, OpenModule PROVE ExportInv'
  <1> USE DEF OpenModule, Put, ExportInv
  <1>1. design \in Designs
    BY DEF OnDisk
  <1>2. design.package_name # design.module_name
    BY <1>1 DEF NamesApart
  <1>3. /\ files' \in [Name -> {Absent} \cup Content]
        /\ files'[design.package_name] = files[design.package_name]
        /\ \A m \in Name \ FilesOf(design) : files'[m] = files[m]
    BY <1>1, <1>2, FilesOfNames, PutFile DEF FilesOf
  <1>4. TypeOK'
    BY <1>3 DEF TypeOK, Stage
  <1>5. OnDisk'
    BY <1>1, <1>3 DEF OnDisk, Untouched, Writing, FilesOf, File
  <1>6. OthersFit'
    BY <1>3, OthersFitKept DEF Writing
  <1> QED
    BY <1>4, <1>5, <1>6

(* The last write: the pair of this design fits again, and with it that of *)
(* every design of the same files, also when it was torn before.           *)
LEMMA WriteModuleStep ==
  ASSUME NamesApart, ExportInv, WriteModule PROVE ExportInv'
  <1> USE DEF WriteModule, Put, ExportInv
  <1>1. design \in Designs
    BY DEF OnDisk
  <1>2. design.package_name # design.module_name
    BY <1>1 DEF NamesApart
  <1>3. /\ files' \in [Name -> {Absent} \cup Content]
        /\ files'[design.package_name] = files[design.package_name]
        /\ files'[design.module_name] = File(design, "module", TRUE)
        /\ \A m \in Name \ FilesOf(design) : files'[m] = files[m]
    BY <1>1, <1>2, FilesOfNames, PutFile DEF FilesOf
  <1>4. TypeOK'
    BY <1>3 DEF TypeOK, Stage, Ended
  <1>5. Pair(design)' = <<File(design, "package", TRUE), File(design, "module", TRUE)>>
    BY <1>3 DEF Pair, OnDisk, File
  <1>6. OnDisk'
    BY <1>1, <1>3, <1>5 DEF OnDisk, Untouched, Writing, FilesOf, Pair, File
  <1>7. OthersFit'
    <2> SUFFICES ASSUME NEW d \in Designs, FilesOf(d) \cap torn' = {}
                 PROVE  Fits(Pair(d))'
      BY DEF OthersFit, FilesOf
    <2>1. CASE FilesOf(d) \cap FilesOf(design) # {}
      <3>1. d.package_name = design.package_name /\ d.module_name = design.module_name
        BY <1>1, <2>1 DEF NamesApart
      <3>2. Pair(d)' = <<File(design, "package", TRUE), File(design, "module", TRUE)>>
        BY <1>5, <3>1 DEF Pair
      <3> QED
        BY <1>1, <3>2, BuildFits
    <2>2. CASE FilesOf(d) \cap FilesOf(design) = {}
      <3>1. FilesOf(d) \cap torn = {}
        BY <2>2 DEF FilesOf
      <3>2. Fits(Pair(d))
        BY <2>2, <3>1 DEF OthersFit
      <3>3. Pair(d)' = Pair(d)
        BY <1>3, <2>2, OtherPairs
      <3> QED
        BY <3>2, <3>3 DEF Fits
    <2> QED
      BY <2>1, <2>2
  <1> QED
    BY <1>4, <1>6, <1>7

(* Where an export is interrupted tells whether its files are torn.        *)
LEMMA InterruptStep == ASSUME ExportInv, Interrupt PROVE ExportInv'
  <1> USE DEF Interrupt, ExportInv
  <1>1. design \in Designs
    BY DEF OnDisk, Ended
  <1>2. TypeOK'
    BY <1>1, FilesOfNames DEF TypeOK, Stage, Ended
  <1>3. OnDisk'
    BY <1>1 DEF OnDisk, Untouched, Writing
  <1>4. OthersFit'
    <2> SUFFICES ASSUME NEW d \in Designs, FilesOf(d) \cap torn' = {}
                 PROVE  Fits(Pair(d))'
      BY DEF OthersFit
    <2>1. FilesOf(d) \cap torn = {} /\ (stage \in Writing => FilesOf(d) \cap FilesOf(design) = {})
      BY DEF FilesOf
    <2>2. Fits(Pair(d))
      BY <2>1 DEF OthersFit
    <2> QED
      BY <2>2 DEF Fits, Pair
  <1> QED
    BY <1>2, <1>3, <1>4

(* Every step of an export keeps the exporter's invariant.                 *)
LEMMA ExportNextInv ==
  ASSUME NamesApart PROVE ExportInv /\ [ExportNext]_exportVars => ExportInv'
  <1> SUFFICES ASSUME ExportInv, [ExportNext]_exportVars PROVE ExportInv'
    OBVIOUS
  <1>1. ASSUME NEW d \in Designs, Export(d) PROVE ExportInv'
    BY <1>1, CallStep
  <1>2. CASE Scan
    BY <1>2, InMemoryStep DEF Scan, Untouched
  <1>3. CASE Validate
    BY <1>3, InMemoryStep DEF Validate, Untouched
  <1>4. CASE EmitPackage
    BY <1>4, InMemoryStep DEF EmitPackage, Untouched
  <1>5. CASE EmitRegblock
    BY <1>5, InMemoryStep DEF EmitRegblock, Untouched
  <1>6. CASE MakeDirectory
    BY <1>6, InMemoryStep DEF MakeDirectory, Untouched
  <1>7. CASE OpenPackage \/ WritePackage \/ OpenModule \/ WriteModule
    BY <1>7, OpenPackageStep, WritePackageStep, OpenModuleStep, WriteModuleStep
  <1>8. CASE Interrupt
    BY <1>8, InterruptStep
  <1>9. CASE UNCHANGED exportVars
    BY <1>9 DEF exportVars, ExportInv, TypeOK, OnDisk, OthersFit, Fits, Pair
  <1> QED
    BY <1>1, <1>2, <1>3, <1>4, <1>5, <1>6, <1>7, <1>8, <1>9 DEF ExportNext

(* The exporter's invariant holds from the export of main() on.            *)
LEMMA ExportInductive == ASSUME NamesApart PROVE GenSpec => []ExportInv
  <1>1. ExportInv /\ [GenNext]_genVars => ExportInv'
    <2> SUFFICES ASSUME ExportInv, [GenNext]_genVars PROVE ExportInv'
      OBVIOUS
    <2>1. ExportNext \/ UNCHANGED exportVars => ExportInv'
      BY ExportNextInv
    <2>2. \A d \in Designs : Export(d) => ExportInv'
      BY CallStep
    <2> QED
      BY <2>1, <2>2
      DEF GenNext, genVars, Lookup, CallCompiler, CompileAndScan, CallExporter, Exporter, Done
  <1> QED
    BY <1>1, ExportInitInv, PTL DEF GenSpec, GenInit

(* The directory is well-typed whatever the designs are called: an export  *)
(* only writes names it was given.                                         *)
LEMMA TypeStep ==
  ASSUME TypeOK, stage # "idle" => design \in Designs, ExportNext
  PROVE  TypeOK' /\ (stage' # "idle" => design' \in Designs)
  <1>1. ASSUME NEW d \in Designs, Export(d) PROVE TypeOK' /\ design' \in Designs
    BY <1>1 DEF Export, TypeOK, Stage
  <1>2. ASSUME NEW this \in Stage \ {"idle"}, NEW rejects, NEW next \in Stage,
               InMemory(this, rejects, next)
        PROVE  TypeOK' /\ design' \in Designs
    BY <1>2 DEF InMemory, TypeOK, Stage, Ended
  <1>3. CASE Scan \/ Validate \/ EmitPackage \/ EmitRegblock \/ MakeDirectory
    BY <1>2, <1>3 DEF Scan, Validate, EmitPackage, EmitRegblock, MakeDirectory, Stage, Ended
  <1>4. ASSUME NEW this \in Stage \ {"idle"}, NEW next \in Stage, stage = this,
               NEW n \in {design.package_name, design.module_name},
               NEW part \in {"package", "module"}, NEW whole \in BOOLEAN,
               Put(this, n, File(design, part, whole), next),
               torn' \subseteq torn
        PROVE  TypeOK' /\ design' \in Designs
    <2>1. design \in Designs
      BY <1>4
    <2>2. files' \in [Name -> {Absent} \cup Content]
      BY <1>4, <2>1, PutFile DEF Put
    <2> QED
      BY <1>4, <2>1, <2>2 DEF Put, TypeOK
  <1>5. CASE OpenPackage
    BY <1>4, <1>5 DEF OpenPackage, Put, Stage, Ended
  <1>6. CASE WritePackage
    BY <1>4, <1>6 DEF WritePackage, Put, Stage, Ended
  <1>7. CASE OpenModule
    BY <1>4, <1>7 DEF OpenModule, Put, Stage, Ended
  <1>8. CASE WriteModule
    BY <1>4, <1>8 DEF WriteModule, Put, Stage, Ended
  <1>9. CASE Interrupt
    <2>1. design \in Designs
      BY <1>9 DEF Interrupt, Ended
    <2> QED
      BY <1>9, <2>1, FilesOfNames DEF Interrupt, TypeOK, Stage, Ended
  <1> QED
    BY <1>1, <1>3, <1>5, <1>6, <1>7, <1>8, <1>9 DEF ExportNext

(* An export only creates and writes files whose names a design gives.     *)
THEOREM DirectoryTyped == GenSpec => []TypeOK
  <1> DEFINE Inv == TypeOK /\ (stage # "idle" => design \in Designs)
  <1>1. GenInit => Inv
    BY DEF GenInit, ExportInit, TypeOK, Stage, Ended
  <1>2. Inv /\ [GenNext]_genVars => Inv'
    <2> SUFFICES ASSUME Inv, [GenNext]_genVars PROVE Inv'
      OBVIOUS
    <2>1. ExportNext => Inv'
      BY TypeStep
    <2>2. UNCHANGED exportVars => Inv'
      BY DEF exportVars, TypeOK
    <2>3. \A d \in Designs : Export(d) => ExportNext
      BY DEF ExportNext
    <2> QED
      BY <2>1, <2>2, <2>3
      DEF GenNext, genVars, Lookup, CallCompiler, CompileAndScan, CallExporter, Exporter, Done
  <1> QED
    BY <1>1, <1>2, PTL DEF GenSpec

(* The files of a rejected export are those it found (exporter.py:49-66),  *)
(* whatever the designs are called: nothing is opened before that.         *)
THEOREM RejectionIsClean == GenSpec => []RejectionLeavesFiles
  <1> DEFINE Inv == stage \in Untouched => files = before
  <1>1. GenInit => Inv
    BY DEF GenInit, ExportInit, Untouched
  <1>2. ExportNext => (Inv => Inv')
    <2>1. ASSUME NEW d \in Designs, Export(d) PROVE Inv'
      BY <2>1 DEF Export
    <2>2. ASSUME NEW this \in Untouched, NEW rejects, NEW next, InMemory(this, rejects, next), Inv
          PROVE  Inv'
      BY <2>2 DEF InMemory
    <2>3. CASE Scan \/ Validate \/ EmitPackage \/ EmitRegblock \/ MakeDirectory
      BY <2>2, <2>3 DEF Scan, Validate, EmitPackage, EmitRegblock, MakeDirectory, Untouched
    <2>4. CASE OpenPackage \/ WritePackage \/ OpenModule \/ WriteModule
      BY <2>4 DEF OpenPackage, WritePackage, OpenModule, WriteModule, Put, Untouched
    <2>5. CASE Interrupt
      BY <2>5 DEF Interrupt, Untouched
    <2> QED
      BY <2>1, <2>3, <2>4, <2>5 DEF ExportNext
  <1>3. Inv /\ [GenNext]_genVars => Inv'
    <2>1. UNCHANGED exportVars => (Inv => Inv')
      BY DEF exportVars
    <2>2. \A d \in Designs : Export(d) => ExportNext
      BY DEF ExportNext
    <2> QED
      BY <1>2, <2>1, <2>2
      DEF GenNext, genVars, Lookup, CallCompiler, CompileAndScan, CallExporter, Exporter, Done
  <1>4. Inv => RejectionLeavesFiles
    BY DEF Untouched, RejectionLeavesFiles
  <1> QED
    BY <1>1, <1>3, <1>4, PTL DEF GenSpec

(* Between exports package and module fit each other, unless the last      *)
(* export of them was interrupted (exporter.py:69-74).                     *)
THEOREM PairsAlwaysFit == ASSUME NamesApart PROVE GenSpec => []PairsFit
  <1>1. ExportInv => PairsFit
    BY DEF ExportInv, OthersFit, PairsFit, FilesOf, Ended, Writing
  <1> QED
    BY <1>1, ExportInductive, PTL

(* An export that returns wrote both its files, whole, and no other.       *)
THEOREM SuccessWritesBoth == ASSUME NamesApart PROVE GenSpec => []SuccessIsComplete
  <1>1. ExportInv => SuccessIsComplete
    BY DEF ExportInv, OnDisk, SuccessIsComplete, FilesOf
  <1> QED
    BY <1>1, ExportInductive, PTL
=============================================================================
