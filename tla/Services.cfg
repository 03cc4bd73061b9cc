SPECIFICATION ServicesSpec
CONSTANTS
  f1 = f1
  Calls = {"c"}
  Firings = {f1}
  MaxAlarmRetries = 1
  MaxExecs = 2
  MaxBlocks = 1
  MaxSets = 2
  MaxActs = 1
  MaxOps = 1
  MaxSteps = 3
  Keys = {1, 2}
  Requests = {1, 2}
  KvKeys = {1, 2}
  Prefixed = {1, 2}
  PageSize = 1
  MaxTime = 2
  Tasks = {"a", "b"}
  Migrators = {"m", "n"}
  Migrations = {1, 2}
  Traces = {1, 2}
  Parents = {1}
  MaxPosted = 2
  Cap = 1
  Batch = 1
  MaxBuffer = 1
  MaxUpsets = 2
  CliAnytime = FALSE
  Visits = {"u", "w"}
  Classes = {1, 2}
  MaxEdits = 1
  MaxGens = 3
  Patterns <- SomePatterns
  MaxRouteEdits = 1
  MaxDiskChanges = 1
  MaxRuleEdits = 1
  MaxFetches = 2
  MaxMinutes = 1
  MaxRestarts = 2
  Callers = {1}
  MaxSubrequests = 1
  MaxCalls = 2
  MaxTargetGens = 2
  Names = {"p", "q"}
  Makers = {"a", "b"}
  MaxTokens = 2
  MaxNow = 1
  PageLimit = 1
  Addresses = {"me", "you"}
  Copied = {"you"}
  MaxRows = 2
  SourceFiles = {"e", "a", "lib"}
  MainFile = "e"
  Outside = {"lib"}
  Extra = {"lib"}
  MaxSaves = 3
  Clients = {"s", "t"}
  MaxAccepted = 1
  MaxTexts = 1
  MaxInstances = 2
  Cells <- SomeCells
  ListPrefixes <- SomePrefixes
  PageOf = 1
  MaxChanged = 1
  Payloads <- SomePayloads
  MaxChunks = 2
  MaxSize = 2
  MaxUploaded = 3
INVARIANTS
  
  
  
  TransactionsWhole
  
  ViteServes
  
  AssetsTrue
  CronFires
  
  
  MailKept
  EditsNoticed
  SocketsHeld

  
CHECK_DEADLOCK FALSE
