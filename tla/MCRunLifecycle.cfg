CONSTANTS
  w1 = w1
  o1 = o1
  o2 = o2
  Worker <- MCWorker
  Operator <- MCOperator
  HostOf <- MCHostOf
  r1 = r1
  r2 = r2
  Run <- MCRun
  Config = {c1}
  Forced = FALSE
  DiskFails = TRUE
  NoRun = NoRun
  NoConfig = NoConfig
  NoProc = NoProc
  NoRow = NoRow
SPECIFICATION Spec
INVARIANTS TypeOK SoleExecutor ZombieHidesNoOutcome CompletedIsFlushed
SYMMETRY MCSymmetry
CHECK_DEADLOCK FALSE
