CONSTANTS
  Exec = {e1, e2, e3}
  Reload = {}
  Main = main
  NoReq = none
  MaxProc = 1
  MaxText = 1
SYMMETRY ExecSymmetry
SPECIFICATION Spec
CHECK_DEADLOCK FALSE
INVARIANTS
  TypeOK
  MutualExclusion
  ForeignOutputOnlyFromAbandoned
  PromptUnderOwnModel
