--------------------------- MODULE MC_FifoLoopback ---------------------------
(* FifoLoopback on the Fifo design of Fixtures: software also writes the     *)
(* address of `pop`, which must neither push nor drop an entry.              *)
EXTENDS FifoLoopback

LOCAL Fx == INSTANCE Fixtures

MCRegs   == Fx!FifoRegs
MCFields == Fx!FifoFields
MCWrites == {[addr |-> 4, data |-> {0}]} \cup [addr : {8}, data : {{}, {0}}]
MCReads  == {0, 4}
=============================================================================
