----------------------------- MODULE MC_Readback -----------------------------
(* ReadbackConcat over every layout of a register of RegWidth bits.         *)
EXTENDS ReadbackConcat
=============================================================================
