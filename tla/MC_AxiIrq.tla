------------------------------ MODULE MC_AxiIrq ------------------------------
(* Axi4LiteRegblock on the Irq design of Fixtures.                           *)
EXTENDS Axi4LiteRegblock

LOCAL Fx == INSTANCE Fixtures

MCRegs   == Fx!IrqRegs
MCFields == Fx!IrqFields
MCWrites == Fx!IrqWrites
MCReads  == {}
=============================================================================
