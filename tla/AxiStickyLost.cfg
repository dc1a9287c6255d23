CONSTANTS
  Regs <- MCRegs
  Fields <- MCFields
  DataWidth = 2
  None = None
  Writes <- MCWrites
  Reads <- MCReads
  MaxOutstanding = 2
  JointWrites = TRUE
  CombinationalReadback = FALSE
SPECIFICATION Spec
PROPERTY PulseKeptUntilCleared
