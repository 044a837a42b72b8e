SPECIFICATION FairSpec
CONSTANTS
  Settings <- OneCall
  QueueSize = 1
  RequestQueueSize = 1
  BaseDelay = 1
  MaxDelay = 3
  MaxStreams = 1
INVARIANTS StopIsReported
