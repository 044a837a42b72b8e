SPECIFICATION TransactionSpec
CONSTANTS
  Pump = "pumpfun"
  Programs = {"pumpfun", "pumpswap", "router", "ed25519"}
  Precompiles = {"ed25519"}
  Selective = {"pumpfun", "pumpswap"}
  Quoted = "quoted"
  None = None
  Settings <- AllSettings
INVARIANTS
  OwnScope
  OuterFound
  CreateDetected
  OwnCounterpart
  ToldOnce
  ToldInOrder
CHECK_DEADLOCK FALSE
