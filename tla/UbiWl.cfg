SPECIFICATION Spec
CONSTANTS
  N = 5
  UBI_WL_THRESHOLD = 2
  ST_PROTECTION = 4
  U_PROTECTION = 3
  LT_PROTECTION = 2
  UBI_MAX_ERASECOUNTER = 7
  TORTURE_CYCLES = 1
  BEB_RSVD_LEVEL = 1
  MaxFaults = 1
  MaxCalls = 4
  Scenarios <- MCScenarios
CHECK_DEADLOCK FALSE
INVARIANTS TypeOK OnePlace UsedIsOwned FreeRemains ScrubDone StackBounded PicksInWindow
