CONSTANTS
  w1 = w1
  w2 = w2
  a = a
  b = b
  c = c
  x = x
  y = y
  Works = {w1, w2}
  Keys = {a, b}
  NoKey = NoKey
  Backends = {x, y}
  ConfiguredSets <- OneOrBoth
  Suppressed <- OneEventMuted
  Hidden = {w2}
  Jobs = {crawler}
  MaxFaults = 1
SPECIFICATION Spec
INVARIANTS TypeOK DailyQueueUnique UpdatesOnRecord OkMeansDelivered
PROPERTY OutboxKept
