CONSTANTS
  Regs <- MCRegs
  Fields <- MCFields
  DataWidth = 2
  None = None
  Writes <- MCWrites
  Reads <- MCReads
  Timeout = 1
SPECIFICATION Spec
INVARIANT TypeOK
INVARIANT NoTimeout
PROPERTY RefinesContract
