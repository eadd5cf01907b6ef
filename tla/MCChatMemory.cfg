CONSTANTS
  Turns = {t1, t2, t3}
  Users = {u1, u2}
  Keys = {k1, k2}
  Erasures = {e1}
  QueueCapacity = 1
  TTL = 1
  MaxNow = 2
  None = None
SPECIFICATION Spec
CHECK_DEADLOCK FALSE
SYMMETRY Symmetry
INVARIANTS ServedIsFresh ErasureHolds
