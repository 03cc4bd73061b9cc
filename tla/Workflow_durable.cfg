SPECIFICATION FairSpec
CONSTANTS
  i1 = i1  i2 = i2
  Instances = {i1, i2}
  Program <- DoSleepWait
  MaxRetries = 1
  MaxConcurrent = 1
  Controls = {"skipSleep"}
  Recreated = {}
  MaxRuns = 3
  MaxEvents = 2
  MaxExits = 2
INVARIANTS
  
  StepsCounted
  EventsArrive
PROPERTY
  InstanceEnds
CHECK_DEADLOCK FALSE
