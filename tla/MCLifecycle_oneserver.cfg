CONSTANTS
  Agent = {a}
  StartReqs = {s1, s2}
  StopReqs = {}
  DeleteReqs = {}
  StatusReqs = {}
  NoReq = none
  Serial = FALSE
  MaxPid = 2
  MaxCrash = 0
SPECIFICATION Spec
CHECK_DEADLOCK FALSE
INVARIANT OneServerPerAgent
