SPECIFICATION Spec
CONSTANTS
  SEQ = 4
  TIMEOUT_COUNT = 1
  ARP_TIMEOUT_COUNT = 2
  Ports = {1, 2}
  MaxSessions = 2
  Cells = 10
  Scenarios <- MCScenarios
INVARIANTS TypeOK DoneIsWhole AlwaysWoken WaitingIsCurrent
PROPERTIES Completes GivesUp
