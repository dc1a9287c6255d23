---------------------------- MODULE ExportPipeline ----------------------------
(***************************************************************************)
(* ArchExporter.export (exporter.py), called again and again with one      *)
(* output directory: a design is scanned, validated and emitted in memory, *)
(* then its package and its module are written, one file after the other,  *)
(* each truncated when it is opened. A design may be rejected at three     *)
(* stages, and the process may be killed, or an operation on a file fail,  *)
(* at any point; nothing is undone.                                        *)
(***************************************************************************)
EXTENDS Naturals

CONSTANTS
  Designs,  \* the exports asked for: records [package_name, module_name, has,
            \* build]; `build` tells two versions of one design apart
  Absent    \* stands for a file that does not exist

(* What `has` may list, by the stage that rejects it: scan() and the nodes *)
(* it reads raise ValueError, validate() UnsupportedRdlError, and          *)
(* emit_regblock() ValueError for what validate() lets through.            *)
ScanRejects == {"addr_width < 1", "register in a regfile array"}

ValidateRejects ==
  {"mem", "regwidth not 8/16/32", "regwidth > data_width", "multi-dimensional array",
   "onwrite", "onread", "counter", "sticky", "haltenable", "haltmask", "edge interrupt",
   "companion is no field", "companion in an array", "stickybit without intr"}

EmitRejects == {"access pulse on an array", "intr on an array"}

Name == UNION {{d.package_name, d.module_name} : d \in Designs}

(* A file holds a whole text or the beginning of one.                      *)
Content == [of : Designs, part : {"package", "module"}, whole : BOOLEAN]

ASSUME ExportAssumption ==
  /\ \A d \in Designs : d.has \subseteq ScanRejects \cup ValidateRejects \cup EmitRejects
  /\ Absent \notin Designs \cup Content

VARIABLES
  files,      \* file name -> its Content, or Absent: what the directory holds
  design,     \* the design of the export in progress or last made, or Absent
  stage,      \* the next thing that export does, or how it ended
  before,     \* history: the files when that export began
  torn        \* history: names an interrupted export may have left half done

exportVars == <<files, design, stage, before, torn>>

Ended == {"idle", "rejected", "interrupted", "done"}
Stage == Ended \cup {"scan", "validate", "emit package", "emit regblock", "make directory",
                     "open package", "write package", "open module", "write module"}

File(d, part, whole) == [of |-> d, part |-> part, whole |-> whole]

ExportInit ==
  /\ files = [n \in Name |-> Absent]
  /\ design = Absent /\ stage = "idle"
  /\ before = files /\ torn = {}

-----------------------------------------------------------------------------
Export(d) ==
  /\ stage \in Ended
  /\ design' = d /\ stage' = "scan" /\ before' = files
  /\ UNCHANGED <<files, torn>>

(* A stage that works in memory and rejects what it does not support. The  *)
(* cpuif object made before emission rejects nothing.                      *)
InMemory(this, rejects, next) ==
  /\ stage = this
  /\ stage' = IF design.has \cap rejects # {} THEN "rejected" ELSE next
  /\ UNCHANGED <<files, design, before, torn>>

Scan     == InMemory("scan", ScanRejects, "validate")
Validate == InMemory("validate", ValidateRejects, "emit package")

(* Mutant of EmitPackage: it writes the package as soon as it has it.      *)
EmitPackageAtOnce ==
  /\ stage = "emit package"
  /\ stage' = "emit regblock"
  /\ files' = [files EXCEPT ![design.package_name] = File(design, "package", TRUE)]
  /\ UNCHANGED <<design, before, torn>>

EmitPackage  == InMemory("emit package", {}, "emit regblock")
EmitRegblock == InMemory("emit regblock", EmitRejects, "make directory")

(* os.makedirs with exist_ok.                                              *)
MakeDirectory == InMemory("make directory", {}, "open package")

(* open(..., "w") truncates or creates the file; the text is there when    *)
(* the file is closed.                                                     *)
Put(this, name, content, next) ==
  /\ stage = this
  /\ files' = [files EXCEPT ![name] = content]
  /\ stage' = next
  /\ UNCHANGED <<design, before>>

(* Mutant of WriteModule: a short write is taken for a whole one.          *)
WriteModuleShort ==
  /\ Put("write module", design.module_name, File(design, "module", FALSE), "done")
  /\ torn' = torn \ {design.package_name, design.module_name}

(* Mutant of WriteModule: it writes a temporary file and leaves it behind.  *)
WriteModuleAside ==
  /\ stage = "write module"
  /\ files' = [n \in Name \cup {"module.tmp"} |->
                IF n = "module.tmp" THEN File(design, "module", TRUE) ELSE files[n]]
  /\ stage' = "done"
  /\ UNCHANGED <<design, before, torn>>

OpenPackage ==
  /\ Put("open package", design.package_name, File(design, "package", FALSE), "write package")
  /\ UNCHANGED torn

WritePackage ==
  /\ Put("write package", design.package_name, File(design, "package", TRUE), "open module")
  /\ UNCHANGED torn

OpenModule ==
  /\ Put("open module", design.module_name, File(design, "module", FALSE), "write module")
  /\ UNCHANGED torn

WriteModule ==
  /\ Put("write module", design.module_name, File(design, "module", TRUE), "done")
  /\ torn' = torn \ {design.package_name, design.module_name}

(* An OSError, or the end of the process: what is on disk stays as it is.  *)
Writing == {"write package", "open module", "write module"}

Interrupt ==
  /\ stage \notin Ended
  /\ stage' = "interrupted"
  /\ torn' = IF stage \in Writing THEN torn \cup {design.package_name, design.module_name} ELSE torn
  /\ UNCHANGED <<files, design, before>>

ExportNext ==
  \/ \E d \in Designs : Export(d)
  \/ Scan \/ Validate \/ EmitPackage \/ EmitRegblock \/ MakeDirectory
  \/ OpenPackage \/ WritePackage \/ OpenModule \/ WriteModule
  \/ Interrupt

-----------------------------------------------------------------------------
TypeOK ==
  /\ files \in [Name -> {Absent} \cup Content]
  /\ before \in [Name -> {Absent} \cup Content]
  /\ design \in Designs \cup {Absent}
  /\ stage \in Stage
  /\ torn \subseteq Name

(* An export that is rejected, at whichever stage, leaves every file as it *)
(* found it, the last good version of the same design included: all text   *)
(* is made before the first file is opened (exporter.py:64-71).            *)
RejectionLeavesFiles == stage = "rejected" => files = before

(* Package and module fit each other: both whole and of one build.         *)
Pair(d) == <<files[d.package_name], files[d.module_name]>>

Fits(pair) ==
  \/ pair = <<Absent, Absent>>
  \/ Absent \notin {pair[1], pair[2]} /\ pair[1].whole /\ pair[2].whole /\ pair[1].of = pair[2].of

(* Between exports, the two files of a design fit each other unless an     *)
(* export that wrote them was interrupted and not repeated with success.   *)
PairsFit ==
  stage \in Ended =>
     \A d \in Designs : {d.package_name, d.module_name} \cap torn = {} => Fits(Pair(d))

(* An export that returns leaves the two files it names, whole and its     *)
(* own, and touched no other file, whatever state it found them in.        *)
SuccessIsComplete ==
  stage = "done" =>
     /\ Pair(design) = <<File(design, "package", TRUE), File(design, "module", TRUE)>>
     /\ \A n \in Name \ {design.package_name, design.module_name} : files[n] = before[n]

(* The code compares the names it is given with nothing. The properties    *)
(* need a directory in which no package shares its name with a module, and *)
(* no export shares one file with another and not both.                    *)
FilesOf(d) == {d.package_name, d.module_name}

NamesApart ==
  \A d, e \in Designs :
     /\ d.package_name # d.module_name
     /\ FilesOf(d) \cap FilesOf(e) # {} =>
          d.package_name = e.package_name /\ d.module_name = e.module_name

(* The inductive invariant: what is on disk at each stage of an export,    *)
(* and that outside the files it is writing all that is not torn fits.     *)
Untouched == {"scan", "validate", "emit package", "emit regblock", "make directory",
              "open package", "rejected"}

OnDisk ==
  /\ stage # "idle" => design \in Designs
  /\ stage \in Untouched => files = before
  /\ stage \in Writing \cup {"done"} => \A n \in Name \ FilesOf(design) : files[n] = before[n]
  /\ stage \in {"open module", "write module"} =>
       files[design.package_name] = File(design, "package", TRUE)
  /\ stage = "done" =>
       Pair(design) = <<File(design, "package", TRUE), File(design, "module", TRUE)>>

OthersFit ==
  \A d \in Designs :
     \/ FilesOf(d) \cap torn # {}
     \/ stage \in Writing /\ FilesOf(d) \cap FilesOf(design) # {}
     \/ Fits(Pair(d))

ExportInv == TypeOK /\ OnDisk /\ OthersFit
=============================================================================
