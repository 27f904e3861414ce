CONSTANTS
  SubMax = 2
  RejectThreshold = 2
  PlannerSignals = {}
  ExecutorSignals = {"stuck"}
  StarPlanningMax = 1
  StarExecMax = 1
  StarVerifyMax = 1
  MeshMaxRounds = 2
  MeshOrder <- MCMeshOrder
  MeshConsensus = {FALSE}
  DebateMaxRounds = 2
  HierMaxRounds = 2
  PlanningMaxIter = 2
  ExecMaxIter = 2
  VerifyMaxIter = 2
  UseGuards = FALSE
  MinDwell = 1
  Cooldown = 1
  MaxPerRun = 3
  MaxPerPhase = 2
  StuckDwellCap = 1
  RouterMode = "oracle"
  OracleTable <- MCOracle
  ReasonMentions <- MCMentions
  MaxIter = 12
  MaxTicks = 9
  HistoryTail = 1
  HumanMode = "advise"
  HumanTopologies <- MCHuman
SPECIFICATION FairSpec
INVARIANTS HistoryConsistent
