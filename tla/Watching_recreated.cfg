SPECIFICATION WatchSpec
CONSTANTS
  SourceFiles = {"e", "a", "lib"}
  MainFile = "e"
  Outside = {"lib"}
  Extra = {}
  MaxSaves = 3
INVARIANT
  RecreatedNoticed
CHECK_DEADLOCK FALSE
