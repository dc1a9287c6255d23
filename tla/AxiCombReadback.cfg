CONSTANTS
  Regs <- MCRegs
  Fields <- MCFields
  DataWidth = 3
  None = None
  Writes <- MCWrites
  Reads <- MCReads
  MaxOutstanding = 2
  JointWrites = TRUE
  CombinationalReadback = TRUE
SPECIFICATION Spec
INVARIANT ReadDataFromMux
