----------------------------- MODULE ConfigLookup -----------------------------
(***************************************************************************)
(* One run of the command line (__main__.py) up to the call of the RDL     *)
(* compiler: which rdl2arch.toml it loads (config.py), what that file may  *)
(* hold, and where the value of each generator knob comes from. A value is *)
(* abstracted to its origin and to whether Python takes it as false.       *)
(***************************************************************************)
EXTENDS Integers

CONSTANTS
  MaxDepth,   \* bound: directories 0 (the root) .. MaxDepth, nested
  Explicit,   \* the place --config names, outside those directories
  Contents,   \* what a file may hold: records [toml, scalars, tables]
  FlagSets,   \* what the command line may pass: functions knob -> flag value
  Unset       \* an option, a file or a value that is not there

GlobalKey   == {"addr_width", "data_width", "reset_style"}   \* _GLOBAL_KEYS
CpuifKey    == {"port_name", "combinational_readback"}       \* _CPUIF_KEYS
Knob        == GlobalKey \cup CpuifKey
CpuifToken  == {"axi4-lite", "apb4"}                          \* _KNOWN_CPUIF_TOKENS

(* Sections as dotted names; "cpuif.<other>" stands for an unknown token,  *)
(* "<other>" for an unknown top-level section; [cpuif] itself only holds   *)
(* the sections of the tokens, unless it is a plain value.                 *)
CpuifSection(token) == IF token = "apb4" THEN "cpuif.apb4" ELSE "cpuif.axi4-lite"
Section == {"rdl2arch", "cpuif", "cpuif.axi4-lite", "cpuif.apb4", "cpuif.<other>", "<other>"}

(* A file: is it TOML, which sections hold a plain value instead of a      *)
(* table, and the tables: key -> "true", "false" (as Python sees the       *)
(* value) or "bad" (a value of the wrong type or range).                   *)
KeyValue == {"true", "false", "bad"}

Place == 0 .. MaxDepth \cup {Explicit}

ASSUME LookupAssumption ==
  /\ MaxDepth \in Nat
  /\ Explicit \notin 0 .. MaxDepth
  /\ Unset \notin Place /\ Unset \notin Contents /\ Unset \notin KeyValue
  /\ \A file \in Contents : /\ file.toml \in BOOLEAN
                            /\ file.scalars \subseteq Section
                            /\ DOMAIN file.tables \subseteq Section \ {"cpuif"}
                            /\ \A s \in DOMAIN file.tables :
                                 \A k \in DOMAIN file.tables[s] : file.tables[s][k] \in KeyValue
  /\ \A flags \in FlagSets : flags \in [Knob -> {Unset, "true", "false"}]

VARIABLES
  tomls,          \* place -> the rdl2arch.toml there, or Unset; never changes
  cwd,            \* the working directory, a depth
  env_no_config,  \* is RDL2ARCH_NO_CONFIG=1 set?
  args,           \* [no_config, config, cpuif, flags]: the command line
  phase,          \* where main() stands: "start", "walk", "open", "resolve",
                  \* "compile", or how it ended
  cur,            \* find_config_file: the directory looked at
  source_path,    \* the file the configuration comes from, or Unset
  knobs           \* knob -> where its value came from, once resolved

given      == <<tomls, cwd, env_no_config, args>>
lookupVars == <<given, phase, cur, source_path, knobs>>

(* How main() ends before it compiles anything.                            *)
Stopped == {"config error", "traceback"}

(* What the command line can hold.                                        *)
Command == [no_config : BOOLEAN, config : {Unset, Explicit},
            cpuif : CpuifToken \cup {Unset}, flags : FlagSets]

Unresolved == [k \in Knob |-> "unresolved"]

LookupInit ==
  /\ tomls \in [Place -> Contents \cup {Unset}]
  /\ cwd \in 0 .. MaxDepth
  /\ env_no_config \in BOOLEAN
  /\ args \in Command
  /\ phase = "start" /\ cur = cwd /\ source_path = Unset
  /\ knobs = Unresolved

-----------------------------------------------------------------------------
(* load_config: the environment first, then --no-config, then --config,    *)
(* then the walk. An empty Config has no source.                           *)
SkipConfig ==
  /\ phase = "start"
  /\ env_no_config \/ args.no_config
  /\ phase' = "resolve"
  /\ UNCHANGED <<given, cur, source_path, knobs>>

TakeExplicit ==
  /\ phase = "start"
  /\ ~env_no_config /\ ~args.no_config /\ args.config # Unset
  /\ IF tomls[args.config] = Unset
     THEN phase' = "config error" /\ UNCHANGED source_path
     ELSE phase' = "open" /\ source_path' = args.config
  /\ UNCHANGED <<given, cur, knobs>>

StartDiscovery ==
  /\ phase = "start"
  /\ ~env_no_config /\ ~args.no_config /\ args.config = Unset
  /\ phase' = "walk"
  /\ UNCHANGED <<given, cur, source_path, knobs>>

(* Mutant of Walk: it stops at the root without looking for a file there.  *)
WalkNotRoot ==
  /\ phase = "walk"
  /\ \/ cur = 0 /\ phase' = "resolve" /\ UNCHANGED <<cur, source_path>>
     \/ cur > 0 /\ tomls[cur] # Unset /\ phase' = "open" /\ source_path' = cur /\ UNCHANGED cur
     \/ cur > 0 /\ tomls[cur] = Unset /\ cur' = cur - 1 /\ UNCHANGED <<phase, source_path>>
  /\ UNCHANGED <<given, knobs>>

(* Mutant of Walk: the root, its own parent, is not recognised.            *)
WalkOnForever ==
  /\ phase = "walk"
  /\ \/ tomls[cur] # Unset /\ phase' = "open" /\ source_path' = cur /\ UNCHANGED cur
     \/ tomls[cur] = Unset /\ cur' = (IF cur = 0 THEN 0 ELSE cur - 1)
                           /\ UNCHANGED <<phase, source_path>>
  /\ UNCHANGED <<given, knobs>>

(* find_config_file: one directory per step, up to the root.               *)
Walk ==
  /\ phase = "walk"
  /\ \/ tomls[cur] # Unset /\ phase' = "open" /\ source_path' = cur /\ UNCHANGED cur
     \/ tomls[cur] = Unset /\ cur > 0 /\ cur' = cur - 1 /\ UNCHANGED <<phase, source_path>>
     \/ tomls[cur] = Unset /\ cur = 0 /\ phase' = "resolve" /\ UNCHANGED <<cur, source_path>>
  /\ UNCHANGED <<given, knobs>>

-----------------------------------------------------------------------------
(* _parse: what makes a file malformed.                                    *)
Table(file, s) == IF s \in DOMAIN file.tables THEN file.tables[s] ELSE [k \in {} |-> ""]

UnknownSection(file) ==
  {"<other>", "cpuif.<other>"} \cap (DOMAIN file.tables \cup file.scalars) # {}

UnknownKey(file, s, allowed) == ~(DOMAIN Table(file, s) \subseteq allowed)
BadValue(file, s) == \E k \in DOMAIN Table(file, s) : Table(file, s)[k] = "bad"

(* Mutant of Malformed: keys of the cpuif sections are not checked.        *)
MalformedGlobalOnly(file) ==
  \/ ~file.toml \/ UnknownSection(file) \/ file.scalars # {}
  \/ UnknownKey(file, "rdl2arch", GlobalKey)
  \/ \E s \in Section : BadValue(file, s)

Malformed(file) ==
  \/ ~file.toml
  \/ UnknownSection(file)
  \/ file.scalars # {}
  \/ UnknownKey(file, "rdl2arch", GlobalKey)
  \/ \E token \in CpuifToken : UnknownKey(file, CpuifSection(token), CpuifKey)
  \/ \E s \in Section : BadValue(file, s)

(* Open and parse; main() reports a ConfigError and exits with 1, but does *)
(* not catch the OSError of a file it may not read or that is gone by now. *)
OpenFile ==
  /\ phase = "open"
  /\ \/ phase' = IF Malformed(tomls[source_path]) THEN "config error" ELSE "resolve"
     \/ phase' = "traceback"
  /\ UNCHANGED <<given, cur, source_path, knobs>>

-----------------------------------------------------------------------------
(* The value a section of the loaded configuration gives a knob, or Unset. *)
FromFile(s, k) ==
  IF source_path # Unset /\ k \in DOMAIN Table(tomls[source_path], s)
  THEN Table(tomls[source_path], s)[k] ELSE Unset

cpuif_token == IF args.cpuif # Unset THEN args.cpuif ELSE "axi4-lite"

CfgValue(k) == FromFile(IF k \in GlobalKey THEN "rdl2arch" ELSE CpuifSection(cpuif_token), k)

(* Mutant of Resolve: a flag or value that Python takes as false is passed *)
(* over, as if it had not been given.                                      *)
ResolveTruthy(k) ==
  IF args.flags[k] = "true" THEN "flag" ELSE IF CfgValue(k) = "true" THEN "file" ELSE "default"

(* _resolve: the flag if it was passed (the _UNSET sentinel tells), else   *)
(* the file's value if there is one, else the default.                     *)
Resolve(k) ==
  IF args.flags[k] # Unset THEN "flag" ELSE IF CfgValue(k) # Unset THEN "file" ELSE "default"

ResolveKnobs ==
  /\ phase = "resolve"
  /\ knobs' = [k \in Knob |-> Resolve(k)]
  /\ phase' = "compile"
  /\ UNCHANGED <<given, cur, source_path>>

LookupNext == SkipConfig \/ TakeExplicit \/ StartDiscovery \/ Walk \/ OpenFile \/ ResolveKnobs

-----------------------------------------------------------------------------
(* Which file counts when discovery is on: the one in the nearest enclosing *)
(* directory, the root included, and never one beside or below the working *)
(* directory (config.py:9-16, "same pattern as pyproject.toml").           *)
Enclosing == {d \in 0 .. cwd : tomls[d] # Unset}

NearestFileLoaded ==
  (phase = "compile" /\ ~env_no_config /\ ~args.no_config /\ args.config = Unset) =>
     IF Enclosing = {} THEN source_path = Unset
     ELSE source_path \in Enclosing /\ \A d \in Enclosing : d <= source_path

(* No typo passes in silence: when the compiler is called, everything the  *)
(* loaded file says has a meaning, and is the value of its knob unless a   *)
(* flag overrides it or it belongs to the cpuif not selected ("typos       *)
(* silently no-opping would defeat the purpose", config.py:36-39).         *)
EverythingTakesEffect ==
  (phase = "compile" /\ source_path # Unset) =>
     LET file == tomls[source_path]
     IN  /\ file.toml /\ file.scalars = {}
         /\ \A s \in DOMAIN file.tables : \A k \in DOMAIN file.tables[s] :
              \/ s = "rdl2arch" /\ k \in GlobalKey /\ knobs[k] \in {"flag", "file"}
              \/ s = CpuifSection(cpuif_token) /\ k \in CpuifKey /\ knobs[k] \in {"flag", "file"}
              \/ s \in {"cpuif.axi4-lite", "cpuif.apb4"} \ {CpuifSection(cpuif_token)}
                   /\ k \in CpuifKey

(* A flag always wins, whatever its value, and nothing is taken from a     *)
(* file that says nothing about the knob for the selected cpuif.           *)
FlagsWin ==
  phase = "compile" =>
     \A k \in Knob :
        /\ knobs[k] = "flag" <=> args.flags[k] # Unset
        /\ knobs[k] = "file" =>
             /\ source_path # Unset
             /\ \E s \in {"rdl2arch", CpuifSection(cpuif_token)} :
                   k \in DOMAIN Table(tomls[source_path], s)

(* The inductive invariant: a directory the walk has left holds no file,   *)
(* nothing malformed gets past the parser, and every knob is resolved.     *)
LookupType ==
  /\ tomls \in [Place -> Contents \cup {Unset}]
  /\ cwd \in 0 .. MaxDepth /\ cur \in 0 .. cwd
  /\ env_no_config \in BOOLEAN /\ args \in Command
  /\ source_path \in Place \cup {Unset}

Discovery == ~env_no_config /\ ~args.no_config /\ args.config = Unset

NearestFound ==
  IF Enclosing = {} THEN source_path = Unset
  ELSE source_path \in Enclosing /\ \A d \in Enclosing : d <= source_path

LookupInv ==
  /\ LookupType
  /\ phase \in {"start", "walk"} => source_path = Unset
  /\ phase = "start" => cur = cwd
  /\ phase = "walk" => Discovery /\ \A d \in Enclosing : d <= cur
  /\ phase \in {"open", "resolve", "compile"} => (Discovery => NearestFound)
  /\ phase = "open" => source_path # Unset
  /\ (phase \in {"open", "resolve", "compile"} /\ source_path # Unset) => tomls[source_path] # Unset
  /\ (phase \in {"resolve", "compile"} /\ source_path # Unset) => ~Malformed(tomls[source_path])
  /\ phase = "compile" => knobs = [k \in Knob |-> Resolve(k)]
=============================================================================
