SPECIFICATION Spec
CONSTANTS
  Threads = {a, b}
  Urls = {u1, u2, u3}
  Tokens = {t1, t2}
  Nobody = Nobody
  Deployments <- MCDeployments
  MaxSize = 2
  MaxOptions = 2
SYMMETRY Symmetry
INVARIANTS TypeOK AnsweredUnlessTroubled UsedSessionIsGone RecentOptionsStay
