------------------------------ MODULE Generator ------------------------------
(***************************************************************************)
(* main() (__main__.py) from its start to its end: the lookup of the       *)
(* configuration, the RDL compiler and scan(), and the export into a       *)
(* directory that other exports write to afterwards. Each part starts when *)
(* the one before it is over and is told its outcome: what the lookup      *)
(* found for addr_width is what scan() sets the address port to, and what  *)
(* scan() rejects the export rejects.                                      *)
(*                                                                         *)
(* A part that is over is left in one state: nothing reads its variables   *)
(* again, and the parts' state spaces add up instead of multiplying.       *)
(***************************************************************************)
EXTENDS ConfigLookup, DesignScan, ExportPipeline

genVars == <<lookupVars, scanVars, exportVars>>

GenInit == LookupInit /\ ScanInit /\ ExportInit

Lookup == LookupNext /\ UNCHANGED <<scanVars, exportVars>>

(* The addr_width argument that reaches scan(), from where it was resolved *)
(* to come from: the parser takes any integer from a flag, the loader of   *)
(* the file one that is at least 1.                                        *)
AddrWidth ==
  CASE knobs["addr_width"] = "default" -> {None}
    [] knobs["addr_width"] = "file"    -> {w \in Overrides : w >= 1}
    [] knobs["addr_width"] = "flag"    ->
         {w \in Overrides : (w = 0) = (args.flags["addr_width"] = "false")}

LookupLeft ==
  /\ tomls' = [p \in Place |-> Unset] /\ cwd' = 0 /\ env_no_config' = FALSE
  /\ args' = CHOOSE command \in Command : TRUE
  /\ phase' = "over" /\ cur' = 0 /\ source_path' = Unset /\ knobs' = Unresolved

CallCompiler ==
  /\ phase = "compile"
  /\ \E value \in AddrWidth : Begin(value)
  /\ LookupLeft
  /\ UNCHANGED exportVars

CompileAndScan == ScanNext /\ UNCHANGED <<lookupVars, exportVars>>

(* scan() is back in export(), which goes on with the design it returned   *)
(* or lets its ValueError pass.                                            *)
ScanLeft ==
  /\ tree' = <<>> /\ todo' = <<>> /\ regs' = <<>>
  /\ override' = None /\ addr_width' = None /\ step' = "over"

CallExporter(d) ==
  /\ step \in {"done", "rejected"} /\ stage = "idle"
  /\ ("addr_width < 1" \in d.has) = (step = "rejected")
  /\ Export(d)
  /\ ScanLeft
  /\ UNCHANGED lookupVars

(* main() goes on with its export; when that has ended others follow.      *)
Exporter == step = "over" /\ ExportNext /\ UNCHANGED <<lookupVars, scanVars>>

Exited == phase \in Stopped \/ step = "compile error" \/ stage \in Ended \ {"idle"}

Done == Exited /\ UNCHANGED genVars

GenNext ==
  \/ Lookup
  \/ CallCompiler
  \/ CompileAndScan
  \/ \E d \in Designs : CallExporter(d)
  \/ Exporter
  \/ Done

(* A program that runs by itself takes its next step.                      *)
GenSpec == GenInit /\ [][GenNext]_genVars /\ WF_genVars(GenNext)

-----------------------------------------------------------------------------
(* Every run of main() ends, whatever it is given: also when no directory  *)
(* up to the root holds a file, and however deep the regfiles nest.        *)
RunEnds == <>Exited
=============================================================================
