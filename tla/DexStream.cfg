SPECIFICATION FairSpec
CONSTANTS
  Settings <- AllSettings
  QueueSize = 2
  RequestQueueSize = 1
  BaseDelay = 1
  MaxDelay = 3
  MaxStreams = 2
INVARIANTS OneStream NoSilentLoss FeedEndsInStatus CleanEnd Backoff
PROPERTIES SilentAfterEnd HeldGetsOut CallsReturn FilterReachesServer
