SPECIFICATION FairSpec
CONSTANTS
  Items = {"a", "b", "c", "d"}
  NoItem = "no item"
  Type <- ItemsTypes
  Action <- ItemsActions
  Dependencies <- BOnA_D
  Rank <- RankABCD
  MaxPosts = 3
  MaxFaults = 2
  FaultKinds = {"crash", "timeout", "drop", "reject", "foreign"}
  AllowChoices <- AnyFlags
INVARIANTS IInv WriteAhead AtMostOneCreate DataAgentProvenance
PROPERTIES CompletedIsFinal IntentBeforeMutation ImplementsLedger
