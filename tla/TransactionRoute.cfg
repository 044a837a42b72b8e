SPECIFICATION Spec
CONSTANTS
  Accounts <- FiveAccounts
  MintOf <- TwoMints
  Amount <- PowerOfTwo
  MaxHeight = 4
  MaxSum = 40
  Settings <- AllSettings
  None = None
INVARIANTS
  OwnEvidence
  MintsFound
CHECK_DEADLOCK FALSE
