SPECIFICATION Spec
CONSTANTS
  Chiboo = {c1, c2}
  Name = {n1, n2}
  CreateReqs = {r1, r2}
  PostReqs = {}
  DropReqs = {}
  RemoveReqs = {}
  Nobody = nobody
  PortEnd = 1
  MaxPort = 2
  Attempts = 2
  Slug <- SharedSlug
INVARIANT EveryAgentHasChiboo
SYMMETRY Symmetry
CHECK_DEADLOCK FALSE
