SPECIFICATION FairSpec
CONSTANTS
  Reqs = {r1}
  AssetFirst = {r1}
  Batches = {b1}
  Instances = {}
  Callers = {c1, c2}
  MaxGen = 2
PROPERTY
  ReloadsSettle
CHECK_DEADLOCK FALSE
