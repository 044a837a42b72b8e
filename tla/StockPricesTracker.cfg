SPECIFICATION Spec
CONSTANTS
  SolPools = {"stockSol"}
  UsdcPools = {"stockUsdc"}
  ReferencePool = "solUsdc"
  Slots = {1, 2}
  TxIndexes = {0, 1}
  Times = {0, 1, 3}
  MaxAge = 1
  MaxSlotLag = 0
  MaxFacts = 3
INVARIANTS PositionsAreLatest LiquidityIsNewest ConvertedByThePast PricedInContext
