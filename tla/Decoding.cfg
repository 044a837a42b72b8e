SPECIFICATION Spec
CONSTANTS
  StringSizes = {0, 1, 40}
  MaxLength = 450
  FilterSize = 3
INVARIANTS WithinData PrefilterSound LikeOuter
CHECK_DEADLOCK FALSE
