------------------------------ MODULE MC_AxiArray ------------------------------
(* HeldValidDriver on the Array design of Fixtures: its bits that software     *)
(* clears, sets, reads to clear and that hardware drives show an access that   *)
(* takes effect twice, or on another element.                                  *)
EXTENDS HeldValidDriver

LOCAL Fx == INSTANCE Fixtures

MCRegs   == Fx!ArrayRegs
MCFields == Fx!ArrayFields
MCWrites == Fx!ArrayWrites
MCReads  == Fx!ArrayReads
=============================================================================
