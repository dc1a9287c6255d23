-------------------------------- MODULE MC_Apb --------------------------------
(* Apb4Regblock on designs of Fixtures side by side: the access types (all *)
(* but the write-only field), the channel array behind them, and an         *)
(* interrupt source with its enable.                                        *)
EXTENDS Apb4Regblock, TLC

LOCAL Fx == INSTANCE Fixtures

OtherRegs ==
  [ch |-> Fx!ArrayReg(8, 2, 4), irq_status |-> Fx!ScalarReg(16), irq_enable |-> Fx!ScalarReg(20)]

OtherFields ==
  [enable     |-> Fx!PlainField("ch", 0, 1),
   rx_done    |-> [Fx!StickyField("irq_status", 0) EXCEPT !.enable_field = "rx_done_en"],
   rx_done_en |-> Fx!PlainField("irq_enable", 0, 1)]

MCRegs   == OtherRegs @@ Fx!AccessRegs
MCFields == OtherFields @@ [f \in {"toggle", "event", "flag"} |-> Fx!AccessFields[f]]

MCWrites == Fx!AccessWrites \cup [addr : {12, 16, 20}, data : {{}, {0}}]
MCReads  == {0, 4, 12, 16}
=============================================================================
