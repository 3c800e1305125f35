SPECIFICATION FairSpec
CONSTANTS
  Cases <- MCCases
  Budgets <- MCBudgets
  Items = {1, 2}
  Symbolic = {2}
  MaxRevision = 2
  FirstLive = {{2}}
CHECK_DEADLOCK FALSE
INVARIANTS PlanInv WrittenIsAccepted
PROPERTIES ApprovedContentOnly ApprovalConverges
