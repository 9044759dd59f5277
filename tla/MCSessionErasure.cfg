SPECIFICATION Spec
CONSTANTS
  None = None
  Users = {u1, u2}
  Tokens = {t1, t2, t3}
  SessionTTL = 1
  IndexTTL = 2
INVARIANTS
  ErasureEndsSessions
SYMMETRY Symmetry
CHECK_DEADLOCK FALSE
