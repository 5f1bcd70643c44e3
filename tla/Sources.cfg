SPECIFICATION Spec
CONSTANTS
  Sources <- MCSources_All
  MaxHops = 2
  Nesting = 2
  Newest = 4
  MaxLost = 1
  MaxItems = 2
INVARIANT Fetched
INVARIANT CanaryPredicts
INVARIANT OneEntryPerWork
