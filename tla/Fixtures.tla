------------------------------- MODULE Fixtures -------------------------------
(***************************************************************************)
(* Small designs for model checking, cut down from tests/rdl/*.rdl: each   *)
(* keeps the combinations of properties of its original and one or two     *)
(* bits per field.                                                         *)
(***************************************************************************)
EXTENDS Integers

CONSTANT None

ArrayReg(addr, count, stride) ==
  [base_address |-> addr, array_count |-> count, array_stride |-> stride,
   emit_read_pulse |-> FALSE, emit_write_pulse |-> FALSE]

ScalarReg(addr) == ArrayReg(addr, None, None)

(* A field with no hardware side and no side effects, sw = rw.             *)
PlainField(r, lsb, width) ==
  [reg |-> r, lsb |-> lsb, width |-> width,
   sw_readable |-> TRUE, sw_writable |-> TRUE,
   hw_readable |-> TRUE, hw_writable |-> FALSE,
   reset |-> {}, onwrite |-> None, onread |-> None,
   is_intr |-> FALSE, is_stickybit |-> FALSE,
   enable_field |-> None, mask_field |-> None]

(* sw = rw; hw = w; onwrite = woclr; intr; as in interrupts.rdl.           *)
StickyField(r, lsb) ==
  [PlainField(r, lsb, 1) EXCEPT
     !.hw_readable = FALSE, !.hw_writable = TRUE, !.onwrite = "woclr",
     !.is_intr = TRUE, !.is_stickybit = TRUE]

-----------------------------------------------------------------------------
(* interrupts.rdl: two sticky sources, one behind an enable and one behind *)
(* a mask, in irq_status; the companions in irq_enable; a live source in a *)
(* register of its own.                                                    *)
IrqRegs ==
  [irq_status |-> ScalarReg(0), irq_enable |-> ScalarReg(4), irq_live |-> ScalarReg(8)]

IrqFields ==
  [rx_done    |-> [StickyField("irq_status", 0) EXCEPT !.enable_field = "rx_done_en"],
   err        |-> [StickyField("irq_status", 1) EXCEPT !.mask_field = "err_mask"],
   rx_done_en |-> PlainField("irq_enable", 0, 1),
   err_mask   |-> PlainField("irq_enable", 1, 1),
   live       |-> [StickyField("irq_live", 0) EXCEPT
                     !.sw_writable = FALSE, !.onwrite = None, !.is_stickybit = FALSE]]

IrqWrites ==
  [addr : {0, 4}, data : SUBSET {0, 1}] \cup {[addr |-> 12, data |-> {0, 1}]}

(* access_types.rdl: a two-bit toggle field above a plain one, a write-    *)
(* only field, and a status register with a read-to-clear field hardware   *)
(* drives and a read-to-set field the CPU also writes.                     *)
AccessRegs == [ctrl |-> ScalarReg(0), reads |-> ScalarReg(4)]

AccessFields ==
  [toggle |-> [PlainField("ctrl", 1, 2) EXCEPT !.onwrite = "wot", !.reset = {0}],
   key    |-> [PlainField("ctrl", 0, 1) EXCEPT !.sw_readable = FALSE],
   event  |-> [PlainField("reads", 0, 1) EXCEPT
                 !.sw_writable = FALSE, !.hw_writable = TRUE, !.onread = "rclr"],
   flag   |-> [PlainField("reads", 1, 1) EXCEPT !.onread = "rset"]]

AccessWrites ==
  [addr : {0}, data : {{}, {0, 1}, {1, 2}}] \cup [addr : {4, 8}, data : {{0}, {1}}]

AccessReads == {0, 4, 8}

(* arrays_and_regfile.rdl: an array of two channels, and a scalar behind   *)
(* them; the channel's event bit is driven by hardware as well.            *)
ArrayRegs == [ch |-> ArrayReg(0, 2, 4), status |-> ScalarReg(8)]

ArrayFields ==
  [enable |-> PlainField("ch", 0, 1),
   event  |-> [PlainField("ch", 1, 1) EXCEPT !.hw_writable = TRUE, !.onwrite = "woclr"],
   mode   |-> [PlainField("status", 0, 1) EXCEPT !.onwrite = "woset", !.onread = "rclr"]]

ArrayWrites == [addr : {0, 4}, data : {{}, {0}, {0, 1}}] \cup {[addr |-> 8, data |-> {0}]}

ArrayReads == {4, 8}

-----------------------------------------------------------------------------
(* A register block between a CPU and a FIFO beside it, as in the use-cases *)
(* of udps/__init__.py: `level` tells how many entries the FIFO holds,     *)
(* reading `pop` takes one (emit_read_pulse), writing `push` hands one to  *)
(* the hardware (emit_write_pulse).                                        *)
FifoRegs ==
  [level |-> ScalarReg(0),
   pop   |-> [ScalarReg(4) EXCEPT !.emit_read_pulse = TRUE],
   push  |-> [ScalarReg(8) EXCEPT !.emit_write_pulse = TRUE]]

FifoFields ==
  [count |-> [PlainField("level", 0, 2) EXCEPT !.sw_writable = FALSE, !.hw_writable = TRUE],
   head  |-> [PlainField("pop", 0, 1) EXCEPT !.sw_writable = FALSE, !.hw_writable = TRUE],
   tail  |-> PlainField("push", 0, 1)]
=============================================================================
