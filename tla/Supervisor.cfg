\* Four clients, two runs of the script.
CONSTANTS
  MaxClients = 4
  MaxRuns = 2
  Attempts = 2
SPECIFICATION Spec
CHECK_DEADLOCK FALSE
INVARIANTS ModesAgree ExitLeavesNothing
PROPERTIES AsrOnlyWithHa FailOpen
