CONSTANTS
  w1 = w1
  w2 = w2
  w3 = w3
  Works = {w1, w2, w3}
  NoWork = NoWork
  GroupIds = {1, 2}
  Jobs = {job}
  MaxOptions = 1
  MaxPending = 1
SPECIFICATION Spec
INVARIANTS TypeOK GroupsDisjoint MembersWereWatched AllOrNothing RemovedStaysGone
SYMMETRY AnyWork
