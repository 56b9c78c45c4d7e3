CONSTANTS
  Agent = {a}
  StartReqs = {s1, s2}
  StopReqs = {t1, t2}
  DeleteReqs = {d1}
  StatusReqs = {}
  NoReq = none
  Serial = TRUE
  MaxPid = 2
  MaxCrash = 2
SPECIFICATION LiveSpec
CHECK_DEADLOCK FALSE
INVARIANTS
  NoServerLost
  IdleRowsHaveNoServer
  RunningIsKnown
PROPERTIES
  RequestsEnd
  ImplementsService
