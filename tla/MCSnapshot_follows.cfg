SPECIFICATION Spec
CONSTANTS
  a1 = a1
  c1 = c1
  c2 = c2
  d1 = d1
  d2 = d2
  s1 = s1
  Agent = {a1}
  Create = {c1, c2}
  Delete = {d1, d2}
  Start = {s1}
  Target <- MCTarget
  NoRecord = norecord
  Nobody = nobody
  MaxAttempts = 2
  MaxSlow = 0
  MaxCrash = 0
INVARIANT SnapshotFollows
CHECK_DEADLOCK FALSE
