SPECIFICATION Spec
CONSTANTS
  i1 = i1  i2 = i2
  Instances = {i1}
  Program <- DoWait
  MaxRetries = 0
  MaxConcurrent = 1
  Controls = {"terminate", "restart"}
  Recreated = {}
  MaxRuns = 2
  MaxEvents = 1
  MaxExits = 0
PROPERTY
  TerminatedStays
CHECK_DEADLOCK FALSE
