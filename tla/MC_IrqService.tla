---------------------------- MODULE MC_IrqService ----------------------------
(* IrqService on the Irq design of Fixtures: the service routine may write   *)
(* any word back, the main program any enable and mask.                      *)
EXTENDS IrqService

LOCAL Fx == INSTANCE Fixtures

MCRegs   == Fx!IrqRegs
MCFields == Fx!IrqFields
MCWrites == Fx!IrqWrites
MCReads  == {0}
=============================================================================
