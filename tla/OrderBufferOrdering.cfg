SPECIFICATION FairSpec
CONSTANTS
  Modes = {"Ordered", "StreamingOrdered", "Unordered", "MicroBatch"}
  Slots = {0, 1, 2}
  TxIndexes = {0, 1, 2}
  MaxArrivals = 4
  OrderTimeout = 1
  MicroWindow = 2
INVARIANTS OutputInOrder Accounted NeverTwice PendingMatchesBuffer
PROPERTIES DeliverySpec WindowInOrder HeldIsEmitted
