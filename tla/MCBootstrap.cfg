SPECIFICATION FairSpec
CONSTANTS
  MaxSpaces = 3
  Budgets <- MCBudgets
  FirstSpaces <- MCFirstSpaces
  Grants <- MCGrants
  Targets = {1}
  MaxPrincipals = 2
  SpaceGrants <- MCSpaceGrants
  IdentityGrants <- MCIdentityGrants
INVARIANTS
  BootstrapInv
  SentOnce
  ItemsOnReadyWorkspace
PROPERTIES BootstrapConverges
