CONSTANTS
  Agent = {a}
  StartReqs = {s1, s2}
  StopReqs = {t1, t2}
  DeleteReqs = {d1}
  StatusReqs = {p1}
  NoReq = none
  Serial = FALSE
  MaxPid = 2
  MaxCrash = 1
SPECIFICATION Spec
CHECK_DEADLOCK FALSE
INVARIANTS
  StopMeansDead
  LockHeldByStart
PROPERTY RowsChangeByRule
SYMMETRY RequestSymmetry
