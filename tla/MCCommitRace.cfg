SPECIFICATION Spec
CONSTANTS
  N = 1
  MayRace = {"link"}
PROPERTIES
  ConcurrentChangeKept
CHECK_DEADLOCK FALSE
