SPECIFICATION LiveSpec
CONSTANTS
  Chiboo = {c1, c2}
  Name = {n1, n2}
  CreateReqs = {r1, r2}
  PostReqs = {p1}
  DropReqs = {d1}
  RemoveReqs = {x1}
  Nobody = nobody
  PortEnd = 1
  MaxPort = 2
  Attempts = 2
  Slug <- SharedSlug
PROPERTY ImplementsDirectory
INVARIANT LockHeldByWriter
INVARIANT RetryOnlyOrphans
INVARIANT OrphansExplained
PROPERTY RequestsEnd
CHECK_DEADLOCK FALSE
