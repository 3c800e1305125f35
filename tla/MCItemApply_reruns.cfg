SPECIFICATION RerunSpec
CONSTANTS
  Items = {"a", "b", "c", "d", "e"}
  NoItem = "no item"
  Type <- RerunsTypes
  Action <- RerunsActions
  Dependencies <- RerunsDeps
  Rank <- RankABCDE
  MaxPosts = 4
  MaxFaults = 3
  FaultKinds = {"crash", "timeout", "drop"}
  AllowChoices <- EveryFlag
INVARIANTS DependencyOrder UpdateIsTracked SuccessIsVerified
PROPERTIES RerunsSucceed AcceptedCreatesComplete
