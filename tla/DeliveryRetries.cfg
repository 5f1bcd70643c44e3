CONSTANTS
  w1 = w1
  w2 = w2
  a = a
  b = b
  c = c
  x = x
  y = y
  Works = {w1}
  Keys = {a, b}
  NoKey = NoKey
  Backends = {x, y}
  ConfiguredSets <- OneOrBoth
  Suppressed <- NothingMuted
  Hidden = {}
  Jobs = {crawler}
  MaxFaults = 2
SPECIFICATION FairSpec
PROPERTIES OutboxDrains DailyDrains DailyInOrder
