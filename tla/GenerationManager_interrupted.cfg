SPECIFICATION FairSpec
CONSTANTS
  Reqs = {}
  AssetFirst = {}
  Batches = {}
  Instances = {i1}
  Callers = {c1, c2}
  MaxGen = 2
PROPERTY
  InterruptedResumed
CHECK_DEADLOCK FALSE
