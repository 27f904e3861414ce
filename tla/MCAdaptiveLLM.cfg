CONSTANTS
  SubMax = 2
  RejectThreshold = 2
  PlannerSignals = {}
  ExecutorSignals = {"ready_for_verification"}
  StarPlanningMax = 1
  StarExecMax = 1
  StarVerifyMax = 1
  MeshMaxRounds = 2
  MeshOrder <- MCMeshOrder
  MeshConsensus = {FALSE}
  DebateMaxRounds = 2
  HierMaxRounds = 2
  PlanningMaxIter = 2
  ExecMaxIter = 2
  VerifyMaxIter = 2
  UseGuards = TRUE
  MinDwell = 0
  Cooldown = 2
  MaxPerRun = 2
  MaxPerPhase = 2
  StuckDwellCap = 1
  RouterMode = "llm"
  OracleTable <- MCOracle
  ReasonMentions <- MCMentionsCounter
  MaxIter = 5
  MaxTicks = 4
  HistoryTail = 2
  HumanMode = "off"
  HumanTopologies <- MCHuman
SPECIFICATION FairSpec
PROPERTIES ControlSpec Terminates
