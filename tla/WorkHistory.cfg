CONSTANTS
  w1 = w1
  w2 = w2
  a = a
  b = b
  c = c
  Works = {w1}
  Keys = {a, b, c}
  NoKey = NoKey
  Retention <- KeepOne
  DefaultRetention = 2
  Crawlers = {crawler}
  Operators = {operator}
SPECIFICATION Spec
INVARIANTS TypeOK EntriesWellFormed LatestIsInBacklog ReadBounded
PROPERTY UnreadTakenByOperator
SYMMETRY Symmetric
