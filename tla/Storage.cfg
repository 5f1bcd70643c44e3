SPECIFICATION MCSpec
CONSTANTS
  Docs = {d1, d2}
  Absent = Absent
  Torn = Torn
  Jobs = {j1, j2}
  NoJob = NoJob
  Environments = {prod, test}
  Savers = {s1, s2}
  States <- MCStates
  NoState = NoState
  Nothing = Nothing
  ShadowId <- MCShadowId
SYMMETRY Symmetry
INVARIANTS TypeOK AckedSurvives MirrorsState
PROPERTIES ImplementsRegister OnlyTheHolderChanges OthersUntouched
