SPECIFICATION MCSpec
CONSTANTS
  EntryCount = 3
  Workers = {a, b}
  Hosts = {x, y}
  NoHost = NoHost
  PerHost = 1
  RetryCount = 1
  MaxPages = 2
INVARIANTS TypeOK SlotsMatchRequests LoopNeverExhausted ResultsAligned
PROPERTY AllCollected
