------------------------------ MODULE IrqService ------------------------------
(***************************************************************************)
(* Software that services a sticky interrupt register over AXI4-Lite, as   *)
(* tests/cocotb_sv/cocotb_tests/test_interrupts.py does call by call: when *)
(* <reg>_intr rises it reads the status register and writes the ones it    *)
(* read back to clear them; between services the main program changes the  *)
(* enables and masks, and may start a write before the last is answered.   *)
(* The sources raise pulses at any time.                                   *)
(***************************************************************************)
EXTENDS Axi4LiteRegblock

CONSTANTS
  StatusReg,   \* the register of the sticky sources
  PulseWidth   \* the clock edges a pulse of a source lasts, at least

Status == Regs[StatusReg].base_address
Source == {f \in Field : Fields[f].reg = StatusReg /\ IsSticky(f)}

(* The sources are single-bit write-one-to-clear fields without a reset    *)
(* value, as in interrupts.rdl; the service routine may write back any word it reads,   *)
(* and the main program writes to no register with sticky sources.         *)
ASSUME ServiceAssumption ==
  /\ StatusReg \in Reg
  /\ PulseWidth \in Nat \ {0}
  /\ JointWrites
  /\ Reads = {Status}
  /\ \A data \in Word : [addr |-> Status, data |-> data] \in Writes
  /\ \A req \in Writes :
       req.addr = Status \/ \A f \in Field : IsSticky(f) => req.addr # CellAddress(<<f, 0>>)
  /\ \A f \in Source : /\ Fields[f].width = 1 /\ Fields[f].reset = {}
                        /\ Fields[f].sw_writable /\ Fields[f].hw_writable
                        /\ Fields[f].onwrite = "woclr" /\ Fields[f].onread = None

VARIABLES
  isr,     \* "idle", "reading", "decided" or "clearing"
  seen,    \* the status word the service routine read
  age,     \* source -> the edges its present pulse has lasted, up to PulseWidth
  owed     \* history: the sources with a pulse that no service acknowledged

irqVars == <<isr, seen, age, owed>>

IsHigh(f)  == hwif_in[<<f, 0>>] # {}
Latched(f) == cells[<<f, 0>>] # {}

IrqInit ==
  /\ Init /\ \A c \in HwCell : hwif_in[c] = {}
  /\ isr = "idle" /\ seen = {}
  /\ age = [f \in Source |-> 0]
  /\ owed = {}

-----------------------------------------------------------------------------
(* The service routine starts when every call made before it is answered.  *)
BusIdle == wtxn = None /\ rtxn = None /\ b_owed = 0 /\ r_owed = 0

Enter ==
  /\ isr = "idle" /\ BusIdle /\ RegIntr(cells, StatusReg)
  /\ StartRead(Status)
  /\ isr' = "reading"
  /\ UNCHANGED <<seen, age, owed>>

Acknowledge ==
  /\ isr = "decided"
  /\ StartWrite([addr |-> Status, data |-> seen])
  /\ isr' = "clearing"
  /\ UNCHANGED <<seen, age, owed>>

(* The main program does not run ahead of its answers past an interrupt.   *)
Configure(req) ==
  /\ isr = "idle"
  /\ BusIdle \/ ~RegIntr(cells, StatusReg)
  /\ req.addr # Status
  /\ StartWrite(req)
  /\ UNCHANGED irqVars

(* A source may rise at any time and falls when its pulse lasted.          *)
Pulse(hw) ==
  /\ \A f \in Source : IsHigh(f) /\ hw[<<f, 0>>] = {} => age[f] >= PulseWidth
  /\ DriveHwif(hw)
  /\ age' = [f \in Source |-> IF hw[<<f, 0>>] = {} THEN 0 ELSE age[f]]
  /\ UNCHANGED <<isr, seen, owed>>

(* The sources the write that is over at this edge acknowledges.           *)
Acknowledged ==
  IF WriteBeatsOver /\ wtxn.addr = Status
  THEN {f \in Source : WdataSlice(f, wtxn.data) # {}} ELSE {}

Edge(b_ready, r_ready) ==
  /\ Tick(b_ready, r_ready)
  /\ isr' = CASE isr = "reading" /\ r_valid /\ r_ready  -> "decided"
              [] isr = "clearing" /\ b_valid /\ b_ready -> "idle"
              [] OTHER                                  -> isr
  /\ seen' = IF isr = "reading" /\ r_valid /\ r_ready THEN r_data ELSE seen
  /\ age' = [f \in Source |-> IF IsHigh(f) /\ age[f] < PulseWidth THEN age[f] + 1 ELSE age[f]]
  /\ owed' = (owed \cup {f \in Source : IsHigh(f)}) \ Acknowledged

IrqNext ==
  \/ Enter
  \/ Acknowledge
  \/ \E req \in Writes : Configure(req)
  \/ \E hw \in HwifIn : Pulse(hw)
  \/ \E b_ready, r_ready \in BOOLEAN : Edge(b_ready, r_ready)

(* The clock runs, responses are taken, and the service routine runs; it   *)
(* preempts the main program, which cannot keep the bus from it forever.   *)
IrqSpec ==
  /\ IrqInit /\ [][IrqNext]_<<vars, irqVars>>
  /\ WF_<<vars, irqVars>>(Edge(TRUE, TRUE))
  /\ SF_<<vars, irqVars>>(Enter)
  /\ WF_<<vars, irqVars>>(Acknowledge)

-----------------------------------------------------------------------------
(* With pulses of two edges or more nothing is lost, though a write to the *)
(* status register beats a pulse at the same edge, also for the bits it    *)
(* does not clear (emit_field_logic.py:46): a pulse nobody acknowledged is *)
(* in the status register, or it lasts for another edge.                   *)
PulseKept == \A f \in owed : Latched(f) \/ (IsHigh(f) /\ age[f] < PulseWidth)

(* A status bit stands for a pulse that nobody acknowledged: the service   *)
(* routine never finds an interrupt it has already cleared.                *)
NoPhantomInterrupt == \A f \in Source : Latched(f) => f \in owed

(* The two invariants these rest on. A pulse that lasted an edge and is    *)
(* not latched met a write to the status register at that edge, whose      *)
(* response keeps the next write off: no pulse can be beaten twice.        *)
ServiceInv ==
  /\ IInv
  /\ isr \in {"idle", "reading", "decided", "clearing"}
  /\ seen \in Word
  /\ age \in [Source -> 0 .. PulseWidth]
  /\ owed \subseteq Source
  /\ NoPhantomInterrupt

PulseInv ==
  /\ PulseKept
  /\ \A f \in Source : /\ ~IsHigh(f) => age[f] = 0
                       /\ (~Latched(f) /\ age[f] >= 1) => bresp_valid_r

(* A pulse is acknowledged sooner or later, if its source is not left      *)
(* disabled or masked from some time on.                                   *)
Qualified(f) ==
  /\ Fields[f].enable_field # None => Ones(f) \subseteq cells[<<Fields[f].enable_field, 0>>]
  /\ Fields[f].mask_field # None   => cells[<<Fields[f].mask_field, 0>>] = {}

Serviced == \A f \in Source : <>[]Qualified(f) => (f \in owed ~> f \notin owed)
=============================================================================
