\* Text files in UTF-8, and some that are cut off.
SPECIFICATION Spec
CONSTANT Inputs <- TextFiles
INVARIANTS
  WithinInput
  LinesAndColumns
  NumbersButBareHex
PROPERTIES
  SemicolonExact
  
CHECK_DEADLOCK FALSE
