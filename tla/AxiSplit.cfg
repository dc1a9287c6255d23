CONSTANTS
  Regs <- MCRegs
  Fields <- MCFields
  DataWidth = 2
  None = None
  Writes <- MCWrites
  Reads <- MCReads
  MaxOutstanding = 2
  JointWrites = FALSE
  CombinationalReadback = FALSE
SPECIFICATION Spec
INVARIANT NoSpuriousResponse
INVARIANT AppliedOnce
PROPERTY StickyBitsHeld
PROPERTY PulseLatched
PROPERTY IntrHeld
