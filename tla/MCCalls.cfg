CONSTANTS
  only = only
  a = a
  b = b
  Run = {only}
  Agent = {a, b}
  RunOf <- OneRun
  Width = 2
  MaxCost = 1
  CallLimit = 1
  RunLimit = 1
  ExperimentLimit = 2
  MaxRetries = 1
  MaxToolIters = 2
  Window = 2
  MaxTurns = 2
  MaxExecutions = 2
SPECIFICATION FairSpec
INVARIANTS OvershootBound UncountedBound RefusalStops CompletedAccounts OneStepRemembered
PROPERTY RunEnds
CHECK_DEADLOCK FALSE
