CONSTANTS
  Regs <- MCRegs
  Fields <- MCFields
  DataWidth = 2
  None = None
  Writes <- MCWrites
  Reads <- MCReads
  MaxOutstanding = 2
  JointWrites = TRUE
  CombinationalReadback = FALSE
  StatusReg = "irq_status"
  PulseWidth = 2
SPECIFICATION IrqSpec
INVARIANT TypeOK
INVARIANT WriteResponseOwed
INVARIANT PulseKept
INVARIANT NoPhantomInterrupt
PROPERTY WriteAnswered
PROPERTY Serviced
