------------------------------ MODULE MC_AxiAccess ------------------------------
(* Axi4LiteRegblock on the Access design of Fixtures.                           *)
EXTENDS Axi4LiteRegblock

LOCAL Fx == INSTANCE Fixtures

MCRegs   == Fx!AccessRegs
MCFields == Fx!AccessFields
MCWrites == Fx!AccessWrites
MCReads  == Fx!AccessReads
=============================================================================
