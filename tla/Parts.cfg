SPECIFICATION PartsSpec
CONSTANTS
  MaxChunks = 4
  Window = 2
  MaxMessages = 2
  Fetches = {"f"}
  Handlers = {"h"}
  BindingCalls = {"b"}
  Last = 2
  SlowDocker = FALSE
  f1 = f1
  Calls = {"c"}
  Firings = {f1}
  MaxAlarmRetries = 1
  MaxExecs = 2
  MaxBlocks = 1
  MaxSets = 1
  MaxActs = 1
  MaxOps = 1
  LoaderCalls = {"x", "y"}
  MaxPoints = 2
INVARIANTS
  EventsDelivered
  NobodyLeftWorking
  
PROPERTIES
  BodyIsChannel
  ReplacementSpared
  PartsSettle
  ObjectServes
  LoaderServes
CHECK_DEADLOCK FALSE
