SPECIFICATION RerunSpec
CONSTANTS
  Items = {"a", "b", "c"}
  NoItem = "no item"
  Type <- AgentTypes
  Action <- AgentActions
  Dependencies <- BOnA
  Rank <- RankABC
  MaxPosts = 2
  MaxFaults = 1
  FaultKinds = {"crash"}
  AllowChoices <- EveryFlag
PROPERTIES AcceptedCreatesComplete
