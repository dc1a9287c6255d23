--------------------------- MODULE RegisterContract ---------------------------
(***************************************************************************)
(* What a register block promises its initiator and its hardware, whatever *)
(* the bus: every write and every read that is asked for takes effect on   *)
(* exactly one clock edge; a write reaches the fields of the element it    *)
(* addresses and nothing else; a read returns the contents as they were    *)
(* before the edge that performed it, and the value stays put until it is  *)
(* taken; hardware drives the fields it may write at every edge.           *)
(*                                                                         *)
(* Bus phases, handshakes and latches do not appear. Where the two         *)
(* accesses of one edge, or an access and hardware, meet in one field, one *)
(* of them takes effect whole and an access beats hardware, except in      *)
(* array elements that hardware also drives, where either may win.         *)
(***************************************************************************)
EXTENDS FieldLogic

CONSTANTS
  Writes,  \* the write requests an initiator makes: records [addr, data]
  Reads    \* the addresses it reads

VARIABLES
  mem,     \* the contents of the storage
  hw,      \* what hardware drives
  wreq,    \* the write asked for and not yet performed, or None
  rreq,    \* the read asked for and not yet performed, or None
  wowed,   \* a performed write whose response the initiator has not taken
  rowed,   \* the same for a read
  rdata    \* the data of the last read performed

vars == <<mem, hw, wreq, rreq, wowed, rowed, rdata>>

Init ==
  /\ mem = ResetCells
  /\ hw \in HwifIn
  /\ wreq = None /\ rreq = None
  /\ wowed = FALSE /\ rowed = FALSE
  /\ rdata = {}

AskWrite ==
  /\ wreq = None
  /\ wreq' \in Writes
  /\ UNCHANGED <<mem, hw, rreq, wowed, rowed, rdata>>

AskRead ==
  /\ rreq = None
  /\ rreq' \in Reads
  /\ UNCHANGED <<mem, hw, wreq, wowed, rowed, rdata>>

DriveHw ==
  /\ hw' \in HwifIn
  /\ UNCHANGED <<mem, wreq, rreq, wowed, rowed, rdata>>

(* The values cell `c` may hold after an edge at which `wr` and `rd` are   *)
(* performed.                                                              *)
Outcomes(c, wr, rd) ==
  LET byWrite == IF WriteHits(c, wr) THEN {FieldWrite(c[1], mem[c], wr.data)} ELSE {}
      byRead  == IF ReadSideHits(c, rd) THEN {FieldReadSide(c[1])} ELSE {}
      bySw    == byWrite \cup byRead
      byHw    == IF FieldOf(c).hw_writable THEN {FieldHwifIn(c[1], mem[c], hw[c])} ELSE {}
  IN  CASE bySw = {} /\ byHw = {}          -> {mem[c]}
        [] bySw # {} /\ ~TwoBlocks(c)      -> bySw
        [] OTHER                           -> bySw \cup byHw

(* A clock edge that performs `wr` and `rd`, each a pending request or     *)
(* None. A response may stay owed or be given at once, and at most one of  *)
(* each kind is ever owed.                                                 *)
Edge(wr, rd) ==
  /\ \A c \in Cell : mem'[c] \in Outcomes(c, wr, rd)
  /\ DOMAIN mem' = Cell
  /\ wreq' = IF wr = None THEN wreq ELSE None
  /\ rreq' = IF rd = None THEN rreq ELSE None
  /\ wowed' \in BOOLEAN /\ rowed' \in BOOLEAN
  /\ wr # None => ~wowed
  /\ rd # None => ~rowed
  /\ wr = None => (wowed' => wowed)
  /\ rd = None => (rowed' => rowed)
  /\ rd # None => rdata' = ReadMux(mem, rd)
  /\ (rd = None /\ rowed') => rdata' = rdata
  /\ hw' = hw

Serve == \E wr \in {wreq, None}, rd \in {rreq, None} : Edge(wr, rd)

Reset ==
  /\ mem' = ResetCells
  /\ wreq' = None /\ rreq' = None
  /\ wowed' = FALSE /\ rowed' = FALSE
  /\ rdata' = {}
  /\ UNCHANGED hw

Next == AskWrite \/ AskRead \/ DriveHw \/ Serve \/ Reset

Spec == Init /\ [][Next]_vars
=============================================================================
