SPECIFICATION Spec
CONSTANTS
  Programs = {"pumpfun", "pumpswap", "dlmm", "plain", "lone", "router"}
  Identities = {"a", "b"}
  HeightsReported = {TRUE, FALSE}
  MaxCalls = 3
  MaxDepth = 3
INVARIANTS OwnExecution ExecutedOnce
CHECK_DEADLOCK FALSE
