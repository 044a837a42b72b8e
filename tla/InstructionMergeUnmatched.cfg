SPECIFICATION Spec
CONSTANTS
  Programs = {"pumpfun", "dlmm", "router"}
  Identities = {"a"}
  HeightsReported = {TRUE}
  MaxCalls = 3
  MaxDepth = 3
INVARIANTS UnmatchedRetained
CHECK_DEADLOCK FALSE
