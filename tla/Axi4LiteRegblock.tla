--------------------------- MODULE Axi4LiteRegblock ---------------------------
(***************************************************************************)
(* The generated register block behind its AXI4-Lite subordinate interface *)
(* (cpuif/axi4lite.py inside emit_regblock.py), an initiator that drives   *)
(* the five channels, and the hardware side that drives hwif_in. A state   *)
(* is the cycle between two rising clock edges: signals have settled, and  *)
(* Tick is the edge that ends the cycle.                                   *)
(***************************************************************************)
EXTENDS FieldLogic

CONSTANTS
  Writes,                \* the write requests made: records [addr, data]
  Reads,                 \* the addresses read
  MaxOutstanding,        \* bound: responses of one kind the initiator lets pile up
                         \* before it starts another access
  JointWrites,           \* does the initiator raise aw_valid and w_valid together?
  CombinationalReadback  \* the cpuif's combinational_readback override

ASSUME AxiAssumption ==
  /\ Writes \subseteq [addr : Nat, data : Word] /\ None \notin Writes
  /\ Reads \subseteq Nat
  /\ MaxOutstanding \in Nat \ {0}
  /\ JointWrites \in BOOLEAN
  /\ CombinationalReadback \in BOOLEAN

VARIABLES
  cells,           \* the register storage
  bresp_valid_r,   \* a write response is waiting for b_ready
  rresp_valid_r,   \* a read response is waiting for r_ready
  rdata_r,         \* the read data latch
  hwif_in,         \* what hardware drives in this cycle
  wtxn,            \* the initiator's write in progress, or None
  aw, w,           \* its address and data beats: "idle", "valid" or "done"
  rtxn,            \* the address on AR while ar_valid is high, or None
  b_owed, r_owed   \* responses the initiator is still waiting for

cpuif     == <<bresp_valid_r, rresp_valid_r, rdata_r>>
initiator == <<wtxn, aw, w, rtxn, b_owed, r_owed>>
vars      == <<cells, cpuif, hwif_in, initiator>>

BeatState == {"idle", "valid", "done"}

-----------------------------------------------------------------------------
(* Combinational signals.                                                  *)
aw_valid == aw = "valid"
w_valid  == w = "valid"
ar_valid == rtxn # None

(* Mutants of wr_fire: it does not wait for the response slot, waits for   *)
(* the one of the other channel too, or does not wait for W.               *)
wr_fire_unguarded == aw_valid /\ w_valid
wr_fire_one_slot  == aw_valid /\ w_valid /\ ~bresp_valid_r /\ ~rresp_valid_r
wr_fire_on_aw     == aw_valid /\ ~bresp_valid_r

wr_fire == aw_valid /\ w_valid /\ ~bresp_valid_r
rd_fire == ar_valid /\ ~rresp_valid_r

aw_ready == ~bresp_valid_r
w_ready  == ~bresp_valid_r
b_valid  == bresp_valid_r
ar_ready == ~rresp_valid_r
r_valid  == rresp_valid_r
r_data   == rdata_r

FiringWrite == IF wr_fire THEN wtxn ELSE None
FiringRead  == IF rd_fire THEN rtxn ELSE None

(* Mutants of read_pulse and write_pulse: levels that follow the valid     *)
(* signals and not the fire conditions.                                    *)
read_pulse_level(r)  == Regs[r].emit_read_pulse /\ ar_valid /\ rtxn = Regs[r].base_address
write_pulse_level(r) ==
  Regs[r].emit_write_pulse /\ aw_valid /\ w_valid /\ wtxn.addr = Regs[r].base_address

(* The optional pulse outputs of a register, high in the cycle in which an *)
(* access to its address fires.                                            *)
read_pulse(r)  == Regs[r].emit_read_pulse /\ rd_fire /\ rtxn = Regs[r].base_address
write_pulse(r) == Regs[r].emit_write_pulse /\ wr_fire /\ wtxn.addr = Regs[r].base_address

Init ==
  /\ cells = ResetCells
  /\ bresp_valid_r = FALSE
  /\ rresp_valid_r = FALSE
  /\ rdata_r = {}
  /\ hwif_in \in HwifIn
  /\ wtxn = None /\ aw = "idle" /\ w = "idle"
  /\ rtxn = None
  /\ b_owed = 0 /\ r_owed = 0

-----------------------------------------------------------------------------
(* The initiator between two edges. Shipped drivers raise AW and W at once *)
(* (JointWrites); the protocol also lets a beat follow the other later.    *)
StartWrite(req) ==
  /\ wtxn = None
  /\ b_owed < MaxOutstanding
  /\ wtxn' = req
  /\ aw' = IF JointWrites THEN "valid" ELSE "idle"
  /\ w'  = IF JointWrites THEN "valid" ELSE "idle"
  /\ UNCHANGED <<cells, cpuif, hwif_in, rtxn, b_owed, r_owed>>

RaiseAw ==
  /\ wtxn # None /\ aw = "idle"
  /\ aw' = "valid"
  /\ UNCHANGED <<cells, cpuif, hwif_in, wtxn, w, rtxn, b_owed, r_owed>>

RaiseW ==
  /\ wtxn # None /\ w = "idle"
  /\ w' = "valid"
  /\ UNCHANGED <<cells, cpuif, hwif_in, wtxn, aw, rtxn, b_owed, r_owed>>

StartRead(a) ==
  /\ rtxn = None
  /\ r_owed < MaxOutstanding
  /\ rtxn' = a
  /\ UNCHANGED <<cells, cpuif, hwif_in, wtxn, aw, w, b_owed, r_owed>>

DriveHwif(hw) ==
  /\ hwif_in' = hw
  /\ UNCHANGED <<cells, cpuif, initiator>>

-----------------------------------------------------------------------------
(* Mutant of HandshakeSeq: a response is offered for one cycle only.       *)
HandshakeSeqPulse(b_ready, r_ready) ==
  /\ bresp_valid_r' = wr_fire
  /\ rresp_valid_r' = rd_fire

(* The clock edge. handshake_seq assigns each response latch twice, the    *)
(* set after the clear; the readback latch is emitted only when the cpuif  *)
(* is not combinational.                                                   *)
HandshakeSeq(b_ready, r_ready) ==
  /\ bresp_valid_r' = (wr_fire \/ (bresp_valid_r /\ ~b_ready))
  /\ rresp_valid_r' = (rd_fire \/ (rresp_valid_r /\ ~r_ready))

(* Mutant of ReadbackLatch: it latches the contents after the edge.        *)
ReadbackLatchLate ==
  rdata_r' = IF rd_fire /\ ~CombinationalReadback THEN ReadMux(cells', rtxn) ELSE rdata_r

ReadbackLatch ==
  rdata_r' = IF rd_fire /\ ~CombinationalReadback THEN ReadMux(cells, rtxn) ELSE rdata_r

StorageSeq ==
  \E hw_last \in SUBSET RacedElement :
     cells' = SeqNext(cells, hwif_in, FiringWrite, FiringRead, hw_last)

(* The initiator at the edge: a beat whose valid and ready are both high   *)
(* is over, the write is over when both its beats are, and a response is   *)
(* taken when its valid and ready are both high.                           *)
Beat(state, ready) == IF state = "valid" /\ ready THEN "done" ELSE state

Count(b) == IF b THEN 1 ELSE 0

WriteBeatsOver == wtxn # None /\ Beat(aw, aw_ready) = "done" /\ Beat(w, w_ready) = "done"

InitiatorWrite(b_ready) ==
  /\ wtxn' = IF WriteBeatsOver THEN None ELSE wtxn
  /\ aw' = IF WriteBeatsOver THEN "idle" ELSE Beat(aw, aw_ready)
  /\ w'  = IF WriteBeatsOver THEN "idle" ELSE Beat(w, w_ready)
  /\ b_owed' = b_owed + Count(WriteBeatsOver) - Count(b_valid /\ b_ready)

InitiatorRead(r_ready) ==
  /\ rtxn' = IF ar_valid /\ ar_ready THEN None ELSE rtxn
  /\ r_owed' = r_owed + Count(ar_valid /\ ar_ready) - Count(r_valid /\ r_ready)

ClockEdge(b_ready, r_ready) ==
  /\ StorageSeq
  /\ HandshakeSeq(b_ready, r_ready)
  /\ ReadbackLatch
  /\ InitiatorWrite(b_ready)
  /\ InitiatorRead(r_ready)

Tick(b_ready, r_ready) == ClockEdge(b_ready, r_ready) /\ UNCHANGED hwif_in

(* rst asserted over an edge: every register takes its reset value; the    *)
(* initiator drops what it had in progress.                                *)
Reset ==
  /\ cells' = ResetCells
  /\ bresp_valid_r' = FALSE
  /\ rresp_valid_r' = FALSE
  /\ rdata_r' = {}
  /\ wtxn' = None /\ aw' = "idle" /\ w' = "idle"
  /\ rtxn' = None
  /\ b_owed' = 0 /\ r_owed' = 0
  /\ UNCHANGED hwif_in

Next ==
  \/ \E req \in Writes : StartWrite(req)
  \/ RaiseAw
  \/ RaiseW
  \/ \E a \in Reads : StartRead(a)
  \/ \E hw \in HwifIn : DriveHwif(hw)
  \/ \E b_ready, r_ready \in BOOLEAN : Tick(b_ready, r_ready)
  \/ Reset

(* The clock keeps running, and the initiator accepts a response it is     *)
(* offered sooner or later, each of the two kinds on its own.              *)
Fairness ==
  /\ WF_vars(\E r_ready \in BOOLEAN : Tick(TRUE, r_ready))
  /\ WF_vars(\E b_ready \in BOOLEAN : Tick(b_ready, TRUE))

Spec     == Init /\ [][Next]_vars
FairSpec == Spec /\ Fairness

-----------------------------------------------------------------------------
(* Correctness.                                                            *)

TypeOK ==
  /\ cells \in Cells
  /\ bresp_valid_r \in BOOLEAN /\ rresp_valid_r \in BOOLEAN
  /\ rdata_r \in Word
  /\ hwif_in \in HwifIn
  /\ wtxn \in Writes \cup {None}
  /\ aw \in BeatState /\ w \in BeatState
  /\ rtxn \in Reads \cup {None}
  /\ b_owed \in Nat /\ r_owed \in Nat

(* A B response is offered only to an initiator that still waits for one,  *)
(* however its AW and W beats were spread over time (axi4lite.py:62-78).   *)
NoSpuriousResponse == bresp_valid_r => b_owed >= 1

(* With AW and W raised together the initiator waits for a B response      *)
(* exactly while the block holds one: none lost, none duplicated, and      *)
(* never two outstanding (axi4lite.py:50-51 "single-outstanding").         *)
WriteResponseOwed == JointWrites => b_owed = Count(bresp_valid_r)

(* The same for reads, under every initiator.                              *)
ReadResponseOwed == r_owed = Count(rresp_valid_r)

(* The initiator's beats belong to its write: none without one, and both   *)
(* raised as long as the write lasts when they are raised together.        *)
BeatsConsistent ==
  /\ wtxn = None => aw = "idle" /\ w = "idle"
  /\ (JointWrites /\ wtxn # None) => aw = "valid" /\ w = "valid"

(* The inductive invariant: the type of b_owed needs NoSpuriousResponse,   *)
(* and the two counts need the beats they count.                           *)
IInv ==
  /\ TypeOK
  /\ BeatsConsistent
  /\ NoSpuriousResponse
  /\ WriteResponseOwed
  /\ ReadResponseOwed

(* A write takes effect only at the edge at which the initiator sees the   *)
(* last of its beats go: it can never be applied again at a later edge,    *)
(* while it is held back by a response that is not taken yet.              *)
AppliedOnce == wr_fire => WriteBeatsOver

(* A cycle that completes the AW handshake is one in which the write       *)
(* fires: the claim of axi4lite.py:50 and emit_regblock.py:317-319. The    *)
(* code keeps it only for initiators that raise AW and W together.         *)
AcceptTogether == (aw_valid /\ aw_ready) => wr_fire

(* With combinational_readback the read data output is the readback mux    *)
(* (base.py:20-22).                                                        *)
ReadDataFromMux == (CombinationalReadback /\ ar_valid) => r_data = ReadMux(cells, rtxn)

(* A write, or a read, of the element of `c` completes at this step.       *)
WriteCompletes(c) == wtxn # None /\ wtxn' = None /\ wtxn.addr = CellAddress(c)
ReadCompletes(c)  == rtxn # None /\ rtxn' = None /\ rtxn = CellAddress(c)

(* A completed access tells cell `c` to drop its bit `b`: a write that is  *)
(* not write-one-to-clear may drop any bit, woclr those written as one.    *)
Acknowledges(c, b) ==
  \/ /\ WriteCompletes(c)
     /\ FieldOf(c).onwrite = "woclr" => b + FieldOf(c).lsb \in wtxn.data
  \/ ReadCompletes(c) /\ FieldOf(c).onread = "rclr"

(* A latched interrupt bit is dropped only by reset or by a completed      *)
(* access that addresses its register and acknowledges that very bit; no   *)
(* other traffic, half-finished handshake or quiet hardware loses it.      *)
StickyBitsHeld ==
  [][\A c \in StickyCell : \A b \in cells[c] \ cells'[c] : Reset \/ Acknowledges(c, b)]_vars

(* A completed access whose statements assign the field: a write, or a read*)
(* where the field has a read side effect.                                 *)
Assigned(c) ==
  \/ WriteCompletes(c) /\ FieldOf(c).sw_writable
  \/ ReadCompletes(c) /\ FieldOf(c).onread # None

(* A pulse of one cycle on a sticky source is in the register after the    *)
(* edge, whatever completes at that edge, be it a read of the same status, *)
(* unless an access assigns the very field (emit_field_logic.py:93-95).    *)
PulseLatched ==
  [][(\E b, r \in BOOLEAN : Tick(b, r)) =>
       \A c \in StickyCell : hwif_in[c] \subseteq cells'[c] \/ Assigned(c)]_vars

(* What the docstring of field_hwif_in_seq says of such a pulse: it stays  *)
(* until a write-one-to-clear resets it, so it is lost only to an access   *)
(* that acknowledges it (emit_field_logic.py:80-82).                       *)
PulseKeptUntilCleared ==
  [][(\E b, r \in BOOLEAN : Tick(b, r)) =>
       \A c \in StickyCell : \A b \in hwif_in[c] \ cells'[c] : Acknowledges(c, b)]_vars

(* The interrupt output of a register whose sources hardware only sets,    *)
(* with masks hardware leaves alone, falls only by reset or by a completed *)
(* CPU access to the register itself or to one that holds an enable or     *)
(* mask of it (emit_regblock.py:344-359).                                  *)
IntrHeld ==
  [][\A r \in Reg :
       (RegIntr(cells, r) /\ ~RegIntr(cells', r)) =>
          \/ Reset
          \/ \E c \in IntrCell(r) : WriteCompletes(c) \/ ReadCompletes(c) \/ HwMayDrop(c)]_vars

(* Every write that is started is accepted, and every response the         *)
(* initiator waits for comes (or it resets): nothing in the handshake of   *)
(* one channel can hold the other back.                                    *)
WriteAnswered == (wtxn # None ~> wtxn = None) /\ (b_owed > 0 ~> b_owed = 0)
ReadAnswered  == (rtxn # None ~> rtxn = None) /\ (r_owed > 0 ~> r_owed = 0)

(* The block keeps the register contract: exactly-once accesses over the   *)
(* latches and handshakes, for initiators that raise AW and W together.    *)
Contract == INSTANCE RegisterContract WITH
  mem <- cells, hw <- hwif_in, wreq <- wtxn, rreq <- rtxn,
  wowed <- b_owed > 0, rowed <- r_owed > 0, rdata <- r_data

RefinesContract == Contract!Spec
=============================================================================
