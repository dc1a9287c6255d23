CONSTANTS
  MaxDepth = 0
  Explicit = 9
  Contents <- MCContents
  FlagSets <- MCFlagSets
  Unset = Unset
  InstNames <- MCNumberedNames
  Keywords <- MCKeywords
  FieldNames <- MCFields
  Offsets = {0, 4, 8}
  Sizes = {4}
  Counts = {2}
  Strides = {4}
  Overrides = {0, 4}
  MaxNodes = 2
  None = None
  Designs <- MCDesigns
  Absent = Absent
SPECIFICATION GenSpec
INVARIANT OneVariantPerEntry
