SPECIFICATION ContainerSpec
CONSTANTS
  Last = 3
  SlowDocker = FALSE
PROPERTY
  ReplacementSpared
CHECK_DEADLOCK FALSE
