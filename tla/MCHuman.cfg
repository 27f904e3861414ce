CONSTANTS
  Role = {"reviewer", "peer"}
  ConfiguredRole = "peer"
  MaxInteractions = 2
  MaxId = 2
  MaxRequests = 3
  MaxExecutions = 2
SPECIFICATION FairSpec
INVARIANTS NoCrossTalk OneAnswerPerId EatenBound LogIsFirst
PROPERTIES LoggedForGood RequestSettles
CHECK_DEADLOCK FALSE
