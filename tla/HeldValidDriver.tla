--------------------------- MODULE HeldValidDriver ---------------------------
(***************************************************************************)
(* The cocotb driver (tests/cocotb_sv/drivers/axi4lite.py) on the          *)
(* generated AXI4-Lite block. It never looks at aw_ready or ar_ready: it   *)
(* raises its valid signals, waits for the response with ready tied high,  *)
(* and drops them only after the edge that takes the response, so the      *)
(* request of an access is still on the bus at an edge after the access    *)
(* was performed. write() and read() are coroutines that run side by side. *)
(***************************************************************************)
EXTENDS FieldLogic

CONSTANTS
  Writes, Reads,  \* the requests the test makes, as in Axi4LiteRegblock
  Timeout         \* edges a call waits for its response (32 in the source)

ASSUME DriverAssumption ==
  /\ Writes \subseteq [addr : Nat, data : Word] /\ None \notin Writes
  /\ Reads \subseteq Nat
  /\ Timeout \in Nat \ {0}

VARIABLES
  cells, bresp_valid_r, rresp_valid_r, rdata_r, hwif_in,  \* the block
  wtxn, rtxn,      \* the request of write() or read() on the bus, or None
  wphase, rphase,  \* where the coroutine stands
  wwaited, rwaited \* edges it has waited in its loop

Phase == {"idle", "waiting", "consuming", "timed out"}

block      == <<cells, bresp_valid_r, rresp_valid_r, rdata_r>>
writeCall  == <<wtxn, wphase, wwaited>>
readCall   == <<rtxn, rphase, rwaited>>
vars       == <<block, hwif_in, writeCall, readCall>>

(* The block, as its other initiators see it.                              *)
Valid(t) == IF t = None THEN "idle" ELSE "valid"

Block == INSTANCE Axi4LiteRegblock WITH
  aw <- Valid(wtxn), w <- Valid(wtxn), b_owed <- 0, r_owed <- 0,
  MaxOutstanding <- 1, JointWrites <- TRUE, CombinationalReadback <- FALSE

Init ==
  /\ cells = ResetCells
  /\ bresp_valid_r = FALSE /\ rresp_valid_r = FALSE /\ rdata_r = {}
  /\ hwif_in \in HwifIn
  /\ wtxn = None /\ wphase = "idle" /\ wwaited = 0
  /\ rtxn = None /\ rphase = "idle" /\ rwaited = 0

-----------------------------------------------------------------------------
Write(req) ==
  /\ wphase = "idle"
  /\ wtxn' = req /\ wphase' = "waiting" /\ wwaited' = 0
  /\ UNCHANGED <<block, hwif_in, readCall>>

Read(a) ==
  /\ rphase = "idle"
  /\ rtxn' = a /\ rphase' = "waiting" /\ rwaited' = 0
  /\ UNCHANGED <<block, hwif_in, writeCall>>

(* A test sets the hwif_in signals between two edges.                      *)
DriveHwif(hw) == hwif_in' = hw /\ UNCHANGED <<block, writeCall, readCall>>

(* A coroutine resumes after an edge: in its loop it samples the response  *)
(* as that edge left it (`responded`); then one more edge takes the        *)
(* response, and the coroutine drops its valid signals and returns. When   *)
(* the loop ends without a response, TimeoutError leaves the request up.   *)
Resume(phase, waited, responded) ==
  CASE phase = "waiting" /\ responded    -> "consuming"
    [] phase = "waiting" /\ ~responded   -> IF waited + 1 < Timeout THEN "waiting" ELSE "timed out"
    [] phase = "consuming"               -> "idle"
    [] phase \in {"idle", "timed out"}   -> phase

Tick ==
  /\ Block!StorageSeq
  /\ Block!HandshakeSeq(TRUE, TRUE)
  /\ Block!ReadbackLatch
  /\ wphase' = Resume(wphase, wwaited, bresp_valid_r')
  /\ rphase' = Resume(rphase, rwaited, rresp_valid_r')
  /\ wtxn' = IF wphase = "consuming" THEN None ELSE wtxn
  /\ rtxn' = IF rphase = "consuming" THEN None ELSE rtxn
  /\ wwaited' = IF wphase = "waiting" THEN wwaited + 1 ELSE 0
  /\ rwaited' = IF rphase = "waiting" THEN rwaited + 1 ELSE 0
  /\ UNCHANGED hwif_in

Next ==
  \/ \E req \in Writes : Write(req)
  \/ \E a \in Reads : Read(a)
  \/ \E hw \in HwifIn : DriveHwif(hw)
  \/ Tick

Spec == Init /\ [][Next]_vars /\ WF_vars(Tick)

-----------------------------------------------------------------------------
TypeOK ==
  /\ cells \in Cells /\ hwif_in \in HwifIn /\ rdata_r \in Word
  /\ bresp_valid_r \in BOOLEAN /\ rresp_valid_r \in BOOLEAN
  /\ wtxn \in Writes \cup {None} /\ rtxn \in Reads \cup {None}
  /\ wphase \in Phase /\ rphase \in Phase
  /\ wwaited \in 0 .. Timeout /\ rwaited \in 0 .. Timeout

(* "the rdl2arch regblock accepts transactions on the first cycle after    *)
(* the master asserts valid" (drivers/axi4lite.py:4-6): with a timeout of  *)
(* a single edge no call times out, whatever the other channel does.       *)
NoTimeout == "timed out" \notin {wphase, rphase}

(* The inductive invariant: where a call stands tells what the block holds *)
(* for it. A call waits only until the next edge, its response goes at the *)
(* edge after that, and the request it leaves up meanwhile finds the       *)
(* response slot taken.                                                    *)
CallAt(phase, txn, waited, resp) ==
  \/ phase = "idle"      /\ txn = None /\ ~resp
  \/ phase = "waiting"   /\ txn # None /\ ~resp /\ waited = 0
  \/ phase = "consuming" /\ txn # None /\ resp

DriverInv ==
  /\ TypeOK
  /\ CallAt(wphase, wtxn, wwaited, bresp_valid_r)
  /\ CallAt(rphase, rtxn, rwaited, rresp_valid_r)

(* Each call is one access of the register contract, though its request    *)
(* stays up after it was performed; the value read() returns is the one    *)
(* the access read.                                                        *)
Contract == INSTANCE RegisterContract WITH
  mem <- cells, hw <- hwif_in,
  wreq <- IF wphase = "waiting" THEN wtxn ELSE None,
  rreq <- IF rphase = "waiting" THEN rtxn ELSE None,
  wowed <- bresp_valid_r, rowed <- rresp_valid_r, rdata <- rdata_r

RefinesContract == Contract!Spec
=============================================================================
