CONSTANTS
  Regs <- MCRegs
  Fields <- MCFields
  DataWidth = 3
  None = None
  Writes <- MCWrites
  Reads <- MCReads
  MaxOutstanding = 2
  JointWrites = TRUE
  CombinationalReadback = FALSE
SPECIFICATION FairSpec
INVARIANT ReadResponseOwed
PROPERTY RefinesContract
PROPERTY ReadAnswered
