SPECIFICATION FairSpec
CONSTANTS
  i1 = i1  i2 = i2
  Instances = {i1}
  Program <- DoSleepWait
  MaxRetries = 0
  MaxConcurrent = 1
  Controls = {"pause", "resume", "terminate", "skipSleep", "restart", "restartFrom", "restartMissing"}
  Recreated = {i1}
  MaxRuns = 3
  MaxEvents = 1
  MaxExits = 0
INVARIANTS
  RegistriesLive

  
CHECK_DEADLOCK FALSE
