CONSTANTS
  SubMax = 2
  RejectThreshold = 2
  PlannerSignals = {}
  ExecutorSignals = {"stuck"}
  StarPlanningMax = 1
  StarExecMax = 1
  StarVerifyMax = 1
  MeshMaxRounds = 2
  MeshOrder <- MCMeshOrder
  MeshConsensus = {FALSE}
  DebateMaxRounds = 2
  HierMaxRounds = 2
  PlanningMaxIter = 2
  ExecMaxIter = 2
  VerifyMaxIter = 2
  UseGuards = TRUE
  MinDwell = 1
  Cooldown = 1
  MaxPerRun = 2
  MaxPerPhase = 1
  StuckDwellCap = 1
  RouterMode = "rule"
  OracleTable <- MCOracle
  ReasonMentions <- MCMentions
  MaxIter = 6
  MaxTicks = 5
  HistoryTail = 1
  HumanMode = "override"
  HumanTopologies <- MCHuman
SPECIFICATION FairSpec
PROPERTIES PhaseMonotonic
