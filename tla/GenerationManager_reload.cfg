SPECIFICATION Spec
CONSTANTS
  Reqs = {r1}
  AssetFirst = {r1}
  Batches = {}
  Instances = {i1}
  Callers = {c1, c2, c3}
  MaxGen = 3
SYMMETRY Symmetry
INVARIANTS
  TypeOK
  ActiveServes
  FreshReload
  ResumeAlone
  IdleStopSpares
CHECK_DEADLOCK FALSE
