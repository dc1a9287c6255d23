----------------------------- MODULE FifoLoopback -----------------------------
(***************************************************************************)
(* The two uses of access pulses in udps/__init__.py around one FIFO       *)
(* beside an AXI4-Lite register block. Software writes entries to one      *)
(* register: its write pulse is high in the cycle before the edge that     *)
(* stores the value, so the hardware delays it by one edge and then takes  *)
(* hwif_out into the FIFO. The FIFO drives its fill level and its head     *)
(* into two registers through hwif_in, and the read pulse of the second    *)
(* drops one entry ("FIFO pop-on-read").                                   *)
(*                                                                         *)
(* The registers are copies, one edge behind the FIFO, and a response is   *)
(* one edge behind the registers. Software reads the level and then that   *)
(* many entries, and starts an access before the last is answered; every   *)
(* entry must come back once and in order.                                 *)
(***************************************************************************)
EXTENDS Axi4LiteRegblock, Sequences

CONSTANTS
  PushReg, PushField,    \* the register with emit_write_pulse, its field
  LevelReg, LevelField,  \* the register and field the fill level is copied to
  PopReg, HeadField,     \* the same for the head; PopReg has emit_read_pulse
  FifoDepth              \* bound: the capacity of the FIFO

Address(r) == Regs[r].base_address

(* The fill level n as the hardware drives it into the level field.        *)
Binary(n) == {b \in Ones(LevelField) : (n \div 2 ^ b) % 2 = 1}

(* Three registers; the level field is wide enough to tell the levels      *)
(* apart, and the two fields the FIFO drives are read-only for software    *)
(* and copied from hwif_in at every edge.                                  *)
ASSUME FifoAssumption ==
  /\ {PushReg, LevelReg, PopReg} \subseteq Reg
  /\ PushReg # LevelReg /\ PushReg # PopReg /\ LevelReg # PopReg
  /\ Regs[PushReg].emit_write_pulse /\ Regs[PopReg].emit_read_pulse /\ ~IsArray(LevelReg)
  /\ JointWrites /\ ~CombinationalReadback /\ Reads = {Address(LevelReg), Address(PopReg)}
  /\ {PushField, LevelField, HeadField} \subseteq Field
  /\ Fields[PushField].reg = PushReg
  /\ Fields[PushField].sw_writable /\ Fields[PushField].onwrite = None
  /\ Fields[LevelField].reg = LevelReg /\ Fields[HeadField].reg = PopReg
  /\ HwCell = {<<LevelField, 0>>, <<HeadField, 0>>}
  /\ \A f \in {LevelField, HeadField} :
        /\ Fields[f].sw_readable /\ ~Fields[f].sw_writable
        /\ Fields[f].onread = None /\ ~IsSticky(f)
  /\ Fields[PushField].width = Fields[HeadField].width
  /\ FifoDepth \in Nat \ {0}
  /\ Fields[LevelField].reset = Binary(0)
  /\ \A m, n \in 0 .. FifoDepth : Binary(m) = Binary(n) => m = n

VARIABLES
  fifo,    \* the entries in the FIFO, each a value of HeadField
  strobe,  \* the write pulse, one clock edge late
  asked,   \* what the reads in progress are for: "level" or "pop"
  credit,  \* entries software knows of and has not asked for
  sent     \* history: entries written that software has not got back

fifoVars == <<fifo, strobe, asked, credit, sent>>

(* hwif_out.<reg>_<field>: the value stored in the field.                  *)
hwif_out == cells[<<PushField, 0>>]

(* What the FIFO drives into hwif_in; an empty one shows a zero head.      *)
Port(q) ==
  [c \in HwCell |-> IF c[1] = LevelField THEN Binary(Len(q))
                    ELSE IF q = <<>> THEN {} ELSE Head(q)]

FifoInit ==
  /\ Init
  /\ fifo = <<>> /\ strobe = FALSE /\ hwif_in = Port(fifo)
  /\ asked = "level" /\ credit = 0
  /\ sent = <<>>

-----------------------------------------------------------------------------
(* Software writes an entry when the FIFO has room for all it sent, and    *)
(* other registers at any time.                                            *)
Write(req) ==
  /\ req.addr = Address(PushReg) => Len(sent) < FifoDepth
  /\ StartWrite(req)
  /\ UNCHANGED fifoVars

(* It asks for the level when nothing it knows of is left to fetch, and    *)
(* for an entry whenever it knows of one.                                  *)
ReadLevel ==
  /\ credit = 0 /\ r_owed = 0
  /\ StartRead(Address(LevelReg))
  /\ asked' = "level"
  /\ UNCHANGED <<fifo, strobe, credit, sent>>

ReadEntry ==
  /\ credit > 0
  /\ StartRead(Address(PopReg))
  /\ asked' = "pop" /\ credit' = credit - 1
  /\ UNCHANGED <<fifo, strobe, sent>>

(* What the hardware does at a clock edge.                                 *)
Popped(q) == IF read_pulse(PopReg) /\ q # <<>> THEN Tail(q) ELSE q
Pushed    == IF strobe THEN <<hwif_out>> ELSE <<>>

(* What software did at that edge: the write whose beats are over, the     *)
(* response it is offered.                                                 *)
Written ==
  IF WriteBeatsOver /\ wtxn.addr = Address(PushReg)
  THEN <<WdataSlice(PushField, wtxn.data)>> ELSE <<>>

Received      == r_valid /\ asked = "pop"
LevelReceived == r_valid /\ asked = "level"

Edge(b_ready, r_ready) ==
  /\ ClockEdge(b_ready, r_ready)
  /\ strobe' = write_pulse(PushReg)
  /\ fifo' = Popped(fifo) \o Pushed
  /\ hwif_in' = Port(fifo')
  /\ sent' = (IF r_ready /\ Received /\ sent # <<>> THEN Tail(sent) ELSE sent) \o Written
  /\ credit' = IF r_ready /\ LevelReceived
               THEN CHOOSE n \in 0 .. FifoDepth : Binary(n) = WdataSlice(LevelField, r_data)
               ELSE credit
  /\ UNCHANGED asked

FifoNext ==
  \/ \E req \in Writes : Write(req)
  \/ ReadLevel
  \/ ReadEntry
  \/ \E b_ready, r_ready \in BOOLEAN : Edge(b_ready, r_ready)

(* The clock runs, responses are taken, and software keeps polling.        *)
FifoSpec ==
  /\ FifoInit /\ [][FifoNext]_<<vars, fifoVars>>
  /\ WF_<<vars, fifoVars>>(Edge(TRUE, TRUE))
  /\ WF_<<vars, fifoVars>>(ReadLevel) /\ WF_<<vars, fifoVars>>(ReadEntry)

-----------------------------------------------------------------------------
(* Every entry written is, in order, in the one response on its way back,  *)
(* in the FIFO, or strobed into it in this cycle. So a read drops exactly  *)
(* the entry it returns, though it returns a copy made before              *)
(* (emit_regblock.py:320), and no write is missed, taken twice or seen     *)
(* with the value before it, however long it waited for the response slot  *)
(* (emit_regblock.py:326).                                                 *)
InFlight == IF Received THEN <<WdataSlice(HeadField, r_data)>> ELSE <<>>

EntriesConserved == sent = InFlight \o fifo \o Pushed

(* Software never asks for more entries than are there, although the level *)
(* it read is old when it gets it.                                         *)
NoUnderflow == credit + Count(rtxn = Address(PopReg)) <= Len(fifo)

(* The inductive invariant. While no pop is on its way back, the copies in *)
(* the registers are of use: the level is one the FIFO still has, and the  *)
(* head is the entry that will be read.                                    *)
Entry == SUBSET Ones(HeadField)

LevelAtMostFifo(bits) == \E n \in 0 .. FifoDepth : bits = Binary(n) /\ n <= Len(fifo)

Wanted == credit + Count(rtxn = Address(PopReg))

FifoTypeOK ==
  /\ fifo \in Seq(Entry) /\ Len(fifo) <= FifoDepth /\ sent \in Seq(Entry)
  /\ strobe \in BOOLEAN
  /\ asked \in {"level", "pop"}
  /\ credit \in Nat
  /\ hwif_in = Port(fifo)

AskedFor ==
  /\ rtxn = Address(PopReg) => asked = "pop"
  /\ rtxn = Address(LevelReg) => asked = "level" /\ ~r_valid
  /\ asked = "level" /\ (ar_valid \/ r_valid) => credit = 0

CopiesCurrent ==
  /\ ~r_valid => LevelAtMostFifo(cells[<<LevelField, 0>>])
  /\ ~r_valid /\ Wanted > 0 => cells[<<HeadField, 0>>] = Head(fifo)
  /\ LevelReceived => LevelAtMostFifo(WdataSlice(LevelField, r_data))

RoomForWrite ==
  Len(sent) + Count(wtxn # None /\ wtxn.addr = Address(PushReg)) <= FifoDepth

FifoInv ==
  /\ IInv /\ FifoTypeOK /\ AskedFor /\ CopiesCurrent /\ RoomForWrite
  /\ EntriesConserved /\ NoUnderflow

(* A full FIFO gets room again: no pulse, no answer is lost for good.      *)
FifoDrains == Len(fifo) = FifoDepth ~> Len(fifo) < FifoDepth
=============================================================================
