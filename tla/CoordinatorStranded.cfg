SPECIFICATION MCSpec
CONSTANTS
  Triggers = {t1, t2, t3}
INVARIANTS
  NoTriggerStranded
