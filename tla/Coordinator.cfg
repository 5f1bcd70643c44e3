SPECIFICATION MCSpec
CONSTANTS
  Triggers = {t1, t2, t3, t4}
INVARIANTS
  TypeOK
PROPERTIES
  ImplementsSerialRuns
  QueuedDuringRunIsServed
  LockIsFreedAgain
