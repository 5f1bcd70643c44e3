CONSTANTS
  w1 = w1
  w2 = w2
  a = a
  b = b
  c = c
  x = x
  y = y
  Works = {w1}
  Keys = {a, b}
  NoKey = NoKey
  Backends = {x}
  ConfiguredSets = {{x}}
  Suppressed <- NothingMuted
  Hidden = {}
  Jobs = {crawler, operator}
  MaxFaults = 1
SPECIFICATION Spec
PROPERTY AtLeastOnce
