SPECIFICATION Spec
CONSTANTS
  Resources = {1, 2, 3, 4}
  Plans <- MCPlans
  Grants <- AnyGrants
  Shaky = {3, 4}
  MaxCopies = 2
  MaxEdits = 1
  MaxFaults = 3
INVARIANTS
  NeverRepeated
  ConnectivityOrder
  ResourceInv
PROPERTIES
  Converges
