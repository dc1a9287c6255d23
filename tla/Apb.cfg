CONSTANTS
  Regs <- MCRegs
  Fields <- MCFields
  DataWidth = 3
  None = None
  Writes <- MCWrites
  Reads <- MCReads
SPECIFICATION FairSpec
INVARIANT TypeOK
PROPERTY RefinesContract
PROPERTY StickyBitsHeld
PROPERTY PulseLatched
PROPERTY IntrHeld
PROPERTY TransferEnds
