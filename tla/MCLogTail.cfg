SPECIFICATION LiveSpec
CONSTANTS
  Viewer = {v1}
  TailLen = 1
  MaxSize = 3
  MaxDog = 2
  MaxCrash = 1
INVARIANTS
  GapOnlyBehindTail
  TwiceOnlyAfterWide
  RepeatsBounded
PROPERTY GrowthArrives
CHECK_DEADLOCK FALSE
