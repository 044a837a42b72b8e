SPECIFICATION Spec
CONSTANTS
  StringSizes = {0, 1, 40}
  MaxLength = 180
  FilterSize = 1
INVARIANT RemovalsRouted
CHECK_DEADLOCK FALSE
