CONSTANTS
  RegWidth = 4
  DataWidth = 6
  AllowOverlap = FALSE
SPECIFICATION Spec
CHECK_DEADLOCK FALSE
INVARIANT FillsBus
INVARIANT FieldsInPlace
