CONSTANTS
  x = x
  y = y
  Candidate = {x, y}
  Threshold = 2
  ActivationRound = 3
  BusCap = 8
  SubMax = 10
  RejectThreshold = 1
  PlannerSignals = {}
  ExecutorSignals = {"ready_for_verification"}
  StarPlanningMax = 2
  StarExecMax = 3
  StarVerifyMax = 2
  MeshMaxRounds = 9
  MeshOrder <- MCMeshOrder
  MeshConsensus = {FALSE}
  DebateMaxRounds = 4
  HierMaxRounds = 4
SPECIFICATION FairSpec
INVARIANTS TypeOK WithinLimits NeverAsksTwice SuccessIsFresh HumanHasTheLastWord SilenceNeverWins
PROPERTY Terminates
CHECK_DEADLOCK FALSE
