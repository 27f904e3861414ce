CONSTANTS
  SubMax = 2
  RejectThreshold = 2
  PlannerSignals = {}
  ExecutorSignals = {"stuck"}
  StarPlanningMax = 1
  StarExecMax = 1
  StarVerifyMax = 1
  MeshMaxRounds = 2
  MeshOrder <- MCMeshOrder
  MeshConsensus = {FALSE}
  DebateMaxRounds = 2
  HierMaxRounds = 2
  PlanningMaxIter = 2
  ExecMaxIter = 2
  VerifyMaxIter = 2
  UseGuards = TRUE
  MinDwell = 1
  Cooldown = 2
  MaxPerRun = 3
  MaxPerPhase = 2
  StuckDwellCap = 1
  RouterMode = "rule"
  OracleTable <- MCOracle
  ReasonMentions <- MCMentions
  MaxIter = 6
  MaxTicks = 5
  HistoryTail = 2
  HumanMode = "advise"
  HumanTopologies <- MCHuman
SPECIFICATION FairSpec
INVARIANTS AdviceFollowed
