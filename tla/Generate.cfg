CONSTANTS
  MaxDepth = 1
  Explicit = 9
  Contents <- MCContents
  FlagSets <- MCFlagSets
  Unset = Unset
  InstNames <- MCInstNames
  Keywords <- MCKeywords
  FieldNames <- MCFields
  Offsets = {0, 4, 8}
  Sizes = {1, 4}
  Counts = {2}
  Strides = {4}
  Overrides = {0, 4}
  MaxNodes = 3
  None = None
  Designs <- MCDesigns
  Absent = Absent
SPECIFICATION GenSpec
INVARIANT TypeOK
INVARIANT NearestFileLoaded
INVARIANT EverythingTakesEffect
INVARIANT FlagsWin
INVARIANT EveryRegisterScanned
INVARIANT AddressesDecode
INVARIANT FlatteningKeepsApart
INVARIANT RejectionLeavesFiles
INVARIANT PairsFit
INVARIANT SuccessIsComplete
PROPERTY RunEnds
