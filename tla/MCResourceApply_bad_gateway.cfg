SPECIFICATION Spec
CONSTANTS
  Resources = {1, 2, 3, 4}
  Plans <- OnePlan
  Grants <- AllGrants
  Shaky = {1, 3}
  MaxCopies = 2
  MaxEdits = 0
  MaxFaults = 1
INVARIANTS
  NeverRepeated
