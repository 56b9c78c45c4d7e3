SPECIFICATION LiveSpec
CONSTANTS
  Edit = {e1, e2}
  NoJob = nojob
  MaxAttempts = 2
  MaxStarts = 2
  MaxCrash = 1
PROPERTY ImplementsPromise
 
INVARIANT NoPiMeansReloadDue
PROPERTY JobsSettle
CHECK_DEADLOCK FALSE
