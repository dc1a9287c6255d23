CONSTANTS
  Regs <- MCRegs
  Fields <- MCFields
  DataWidth = 2
  None = None
  Writes <- MCWrites
  Reads <- MCReads
  MaxOutstanding = 2
  JointWrites = TRUE
  CombinationalReadback = FALSE
  PushReg = "push"
  PushField = "tail"
  LevelReg = "level"
  LevelField = "count"
  PopReg = "pop"
  HeadField = "head"
  FifoDepth = 3
SPECIFICATION FifoSpec
INVARIANT EntriesConserved
INVARIANT NoUnderflow
PROPERTY FifoDrains
