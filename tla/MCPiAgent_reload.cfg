CONSTANTS
  Exec = {e1, e2}
  Reload = {l1, l2}
  Main = main
  NoReq = none
  MaxProc = 3
  MaxText = 1
SYMMETRY TaskSymmetry
SPECIFICATION Spec
CONSTRAINT ThreeRequests
CHECK_DEADLOCK FALSE
INVARIANTS
  BusyHasOwner
  NoLeakedPi
  NoPiHasACause
  ShutdownLeavesNoPi
PROPERTY ImplementsStream
