----------------------------- MODULE Apb4Regblock -----------------------------
(***************************************************************************)
(* The generated register block behind its APB4 subordinate interface      *)
(* (cpuif/apb4.py inside emit_regblock.py), and the initiator that takes a *)
(* transfer through its setup and access phases. A state is the cycle      *)
(* between two rising clock edges; Tick is the edge that ends it.          *)
(***************************************************************************)
EXTENDS FieldLogic

CONSTANTS
  Writes,  \* the write requests made: records [addr, data]
  Reads    \* the addresses read

ASSUME ApbAssumption ==
  /\ Writes \subseteq [addr : Nat, data : Word] /\ None \notin Writes
  /\ Reads \subseteq Nat

VARIABLES
  cells,   \* the register storage
  hwif_in, \* what hardware drives in this cycle
  phase,   \* the transfer's phase: "idle", "setup" or "access"
  pwrite,  \* direction of the transfer
  wtxn,    \* the write on paddr and pwdata, or None
  rtxn,    \* the address of the read on paddr, or None
  result   \* what the last read returned to the initiator

vars == <<cells, hwif_in, phase, pwrite, wtxn, rtxn, result>>

(* Combinational signals.                                                  *)
psel    == phase # "idle"
penable == phase = "access"
access  == psel /\ penable
(* Mutant of wr_fire: it does not wait for the access phase.               *)
wr_fire_in_setup == psel /\ pwrite

wr_fire == access /\ pwrite
rd_fire == access /\ ~pwrite
(* Mutant of pready: only reads are ever ready.                            *)
pready_on_read == rd_fire

pready  == TRUE
prdata  == IF rtxn # None THEN ReadMux(cells, rtxn) ELSE ReadMux(cells, wtxn.addr)

FiringWrite == IF wr_fire THEN wtxn ELSE None
FiringRead  == IF rd_fire THEN rtxn ELSE None

Init ==
  /\ cells = ResetCells
  /\ hwif_in \in HwifIn
  /\ phase = "idle" /\ pwrite = FALSE
  /\ wtxn = None /\ rtxn = None
  /\ result = {}

-----------------------------------------------------------------------------
(* _xfer of the drivers: address, direction and data are put on the bus    *)
(* with psel and held to the end of the access phase.                      *)
StartWrite(req) ==
  /\ phase = "idle"
  /\ phase' = "setup" /\ pwrite' = TRUE /\ wtxn' = req
  /\ UNCHANGED <<cells, hwif_in, rtxn, result>>

StartRead(a) ==
  /\ phase = "idle"
  /\ phase' = "setup" /\ pwrite' = FALSE /\ rtxn' = a
  /\ UNCHANGED <<cells, hwif_in, wtxn, result>>

DriveHwif(hw) ==
  /\ hwif_in' = hw
  /\ UNCHANGED <<cells, phase, pwrite, wtxn, rtxn, result>>

StorageSeq ==
  \E hw_last \in SUBSET RacedElement :
     cells' = SeqNext(cells, hwif_in, FiringWrite, FiringRead, hw_last)

(* The initiator samples prdata and pready in the access phase before the  *)
(* edge, and goes back to idle after it.                                   *)
InitiatorSeq ==
  /\ result' = IF rd_fire /\ pready THEN prdata ELSE result
  /\ phase' = CASE phase = "setup"           -> "access"
                [] phase = "access" /\ pready -> "idle"
                [] OTHER                      -> phase
  /\ wtxn' = IF access /\ pready THEN None ELSE wtxn
  /\ rtxn' = IF access /\ pready THEN None ELSE rtxn
  /\ UNCHANGED pwrite

Tick == StorageSeq /\ InitiatorSeq /\ UNCHANGED hwif_in

Reset ==
  /\ cells' = ResetCells
  /\ phase' = "idle" /\ pwrite' = FALSE
  /\ wtxn' = None /\ rtxn' = None
  /\ result' = {}
  /\ UNCHANGED hwif_in

Next ==
  \/ \E req \in Writes : StartWrite(req)
  \/ \E a \in Reads : StartRead(a)
  \/ \E hw \in HwifIn : DriveHwif(hw)
  \/ Tick
  \/ Reset

(* The clock keeps running.                                                *)
Spec     == Init /\ [][Next]_vars
FairSpec == Spec /\ WF_vars(Tick)

-----------------------------------------------------------------------------
(* Correctness.                                                            *)

TypeOK ==
  /\ cells \in Cells
  /\ hwif_in \in HwifIn
  /\ phase \in {"idle", "setup", "access"}
  /\ pwrite \in BOOLEAN
  /\ wtxn \in Writes \cup {None}
  /\ rtxn \in Reads \cup {None}
  /\ result \in Word

(* The bus carries exactly the transfer that its direction announces.      *)
TransferOnBus ==
  /\ (wtxn # None) <=> (psel /\ pwrite)
  /\ (rtxn # None) <=> (psel /\ ~pwrite)

(* The inductive invariant.                                                *)
IInv == TypeOK /\ TransferOnBus

(* Every transfer ends (pready is never withheld, apb4.py:8-9), or reset   *)
(* abandons it.                                                            *)
TransferEnds == psel ~> ~psel

(* A write, or a read, of the element of `c` completes at this step.       *)
WriteCompletes(c) == wtxn # None /\ wtxn' = None /\ wtxn.addr = CellAddress(c)
ReadCompletes(c)  == rtxn # None /\ rtxn' = None /\ rtxn = CellAddress(c)

(* A completed access tells cell `c` to drop its bit `b`.                  *)
Acknowledges(c, b) ==
  \/ /\ WriteCompletes(c)
     /\ FieldOf(c).onwrite = "woclr" => b + FieldOf(c).lsb \in wtxn.data
  \/ ReadCompletes(c) /\ FieldOf(c).onread = "rclr"

(* A latched interrupt bit is dropped only by reset or at the end of the   *)
(* access phase of a transfer that acknowledges it; the setup phase, in    *)
(* which address and data are on the bus already, takes nothing away.      *)
StickyBitsHeld ==
  [][\A c \in StickyCell : \A b \in cells[c] \ cells'[c] : Reset \/ Acknowledges(c, b)]_vars

(* A completed access whose statements assign the field: a write, or a read*)
(* where the field has a read side effect.                                 *)
Assigned(c) ==
  \/ WriteCompletes(c) /\ FieldOf(c).sw_writable
  \/ ReadCompletes(c) /\ FieldOf(c).onread # None

(* A pulse on a sticky source is in the register after the edge, also when *)
(* that edge ends a read of it, unless a transfer assigns the very field.  *)
PulseLatched ==
  [][Tick => \A c \in StickyCell : hwif_in[c] \subseteq cells'[c] \/ Assigned(c)]_vars

(* The interrupt output of a register falls only by reset, at the end of a *)
(* transfer to the register or a companion of it, or where hardware may    *)
(* take it back (emit_regblock.py:344-359).                                *)
IntrHeld ==
  [][\A r \in Reg :
       (RegIntr(cells, r) /\ ~RegIntr(cells', r)) =>
          \/ Reset
          \/ \E c \in IntrCell(r) : WriteCompletes(c) \/ ReadCompletes(c) \/ HwMayDrop(c)]_vars

(* The block keeps the register contract, its responses given at the very  *)
(* edge that performs the access.                                          *)
Contract == INSTANCE RegisterContract WITH
  mem <- cells, hw <- hwif_in, wreq <- wtxn, rreq <- rtxn,
  wowed <- FALSE, rowed <- FALSE, rdata <- result

RefinesContract == Contract!Spec
=============================================================================
