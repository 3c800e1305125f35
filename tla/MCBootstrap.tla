---------------------------- MODULE MCBootstrap ----------------------------
(* One workspace to begin with or none, room for one the plan makes and one *)
(* somebody else makes; one workspace the identity is given a role in.      *)
EXTENDS Bootstrap

ASSUME SpacesSuffice == \A b \in Budgets : 1 + 1 + b.edits <= MaxSpaces
ASSUME PrincipalsSuffice == \A b \in Budgets : 1 + b.edits <= MaxPrincipals

MCBudgets == {[faults |-> 2, edits |-> 0], [faults |-> 1, edits |-> 1]}

(* Nothing; to be described and put on its capacity; as desired.            *)
MCFirstSpaces ==
  {Gone,
   [meta |-> "described", cap |-> "other", prog |-> "Completed"],
   [meta |-> "desired", cap |-> "desired", prog |-> "Completed"]}

(* Every safeguard, or none but the permission to provision the identity.   *)
MCGrants ==
  {[space |-> Safeguards, identity |-> {"provision", "assign"}],
   [space |-> {}, identity |-> {"provision"}]}
MCSpaceGrants == {g.space : g \in MCGrants}
MCIdentityGrants == {g.identity : g \in MCGrants}
=============================================================================
