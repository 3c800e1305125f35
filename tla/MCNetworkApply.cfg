SPECIFICATION Spec
CONSTANTS
  Plans <- MCPlans
  Tagged = {"policy", "firewall", "shares"}
  MaxEdits = 1
  MaxFaults = 3
INVARIANTS
  NeverLockedOut
  AppliedOnce
  NetworkInv
PROPERTIES
  ReplacesApproved
  Converges
