-------------------------- MODULE WorkspaceIdentity --------------------------
(***************************************************************************)
(* The identity of the deployment's workspace and the roles it is given in *)
(* other workspaces (src/src/fabric/workspace-identity.ts under the        *)
(* checkpoint of src/src/workspace-identity-apply.ts).  Provisioning is a  *)
(* long-running operation; roles can only be planned once the identity is  *)
(* there, so a plan that provisions it is followed by another.             *)
(*                                                                         *)
(* An assignment for the identity with another role, another principal     *)
(* type or another application ID is one of role "other".                  *)
(***************************************************************************)
EXTENDS ApplyRun, FiniteSets

CONSTANTS
  IdentityGrants, \* sets of safeguards a run may be given
  Targets,       \* workspaces the identity may be given a role in
  MaxPrincipals  \* bound: identities the workspace may have had

ASSUME IdentityBounds ==
  IdentityGrants \subseteq SUBSET {"provision", "assign"} /\ Targets \subseteq Nat /\ MaxPrincipals \in Nat \ {0}

VARIABLES
  asked,         \* the manifest: targets of the roles asked for
  identity,      \* the workspace's identity, 0 for none
  operation,     \* the provisioning operation Fabric runs
  roles,         \* the assignments of each target workspace
  identityLate,  \* requests the service may yet execute
  provisionCp,   \* checkpoint.workspaceIdentity.provision
  roleCp,        \* checkpoint.workspaceIdentity.roleAssignments
  approvedIdentity, currentIdentity,  \* the approved plan, and that of this run
  who,           \* the identity in hand
  settled,       \* targets done with
  resuming,      \* an earlier run left a record
  identityFlags, \* the safeguards of the run
  provisioned,   \* identities the requests of this plan made
  given          \* role assignments the requests of this plan made, per target

identityService == <<identity, operation, roles, identityLate, provisioned, given>>
identityCp      == <<provisionCp, roleCp>>
identityPlans   == <<asked, approvedIdentity>>
identityReads   == <<currentIdentity, identityFlags>>
identityRun     == <<who, settled, resuming>>
identityVars == <<identityService, identityCp, identityPlans, identityReads, identityRun>>

Principals == 1..MaxPrincipals
NoOne == 0
Assignment == [id : Nat, who : Principals, role : {"asked", "other"}]
NoProvision == [phase |-> "none", who |-> NoOne]
NoRole == [phase |-> "none", id |-> 0]

Pending(request, t, p) == [request |-> request, target |-> t, who |-> p]

Managed(t, p) == {a \in roles[t] : a.who = p}
Fits(a, p) == a.who = p /\ a.role = "asked"
TheOnly(S) == CHOOSE a \in S : TRUE

(* planRoleAssignment.                                                      *)
PlanRole(t) ==
  LET managed == Managed(t, identity)
      action == IF identity = NoOne THEN "blocked"
                ELSE CASE managed = {} -> "create"
                       [] Cardinality(managed) = 1 /\ Fits(TheOnly(managed), identity) -> "no-op"
                       [] OTHER -> "blocked"
  IN  [action |-> action, managed |-> managed]

(* WorkspaceIdentityAdapter.plan.                                           *)
PlanIdentity ==
  LET plans == [t \in asked |-> PlanRole(t)]
      some(action) == \E t \in asked : plans[t].action = action
      action == CASE identity = NoOne   -> "create"
                  [] identity # NoOne /\ some("blocked") -> "blocked"
                  [] identity # NoOne /\ ~some("blocked") /\ some("create") -> "update"
                  [] OTHER              -> "no-op"
  IN  [action |-> action, who |-> identity, roles |-> plans]

ProvisionsIdentity == approvedIdentity.action = "create"
RolesAwaitReplan == ProvisionsIdentity /\ asked # {}

IdentityInit ==
  /\ asked \in SUBSET Targets
  /\ identity \in {NoOne, 1}
  /\ operation = "none"
  /\ roles \in [Targets -> {{}, {[id |-> 0, who |-> 1, role |-> "asked"]}}]
  /\ identity = NoOne \/ asked = {} => \A t \in Targets : roles[t] = {}
  /\ approvedIdentity = PlanIdentity /\ currentIdentity = approvedIdentity
  /\ identityLate = {} /\ provisioned = 0 /\ given = [t \in Targets |-> 0]
  /\ provisionCp = NoProvision /\ roleCp = [t \in Targets |-> NoRole]
  /\ who = NoOne /\ settled = {} /\ resuming = FALSE /\ identityFlags = {}
-----------------------------------------------------------------------------
RecordProvision(phase, p) == provisionCp' = [phase |-> phase, who |-> p] /\ UNCHANGED roleCp
RecordRole(t, phase, id) ==
  roleCp' = [roleCp EXCEPT ![t] = [phase |-> phase, id |-> id]] /\ UNCHANGED provisionCp
KeepIdentity == UNCHANGED identityCp

ReadIdentityPlan ==
  /\ currentIdentity' = PlanIdentity
  /\ identityFlags' \in IdentityGrants
  /\ who' = NoOne /\ settled' = {} /\ resuming' = FALSE
  /\ UNCHANGED <<identityPlans, identityCp, identityService>>

IdentityPending == provisionCp.phase # "none" \/ \E t \in Targets : roleCp[t].phase # "none"

IdentityUnsettled ==
  \/ provisionCp.phase \notin {"none", "verified"}
  \/ \E t \in Targets : roleCp[t].phase \notin {"none", "verified"}

(* assertWorkspaceIdentityHasNotDrifted: with nothing pending the plans     *)
(* must agree; else whatever the checkpoint does not account for must.      *)
\* Mutant: the plans must agree whatever is pending.
IdentityDriftedAlways == currentIdentity # approvedIdentity
IdentityDrifted ==
  IF ~IdentityPending
  THEN currentIdentity # approvedIdentity
  ELSE /\ provisionCp.phase = "none"
       /\ \/ currentIdentity.who # approvedIdentity.who
          \/ \E t \in asked : /\ roleCp[t].phase = "none"
                              /\ currentIdentity.roles[t] # approvedIdentity.roles[t]

(* preflightWorkspaceIdentity.                                              *)
IdentityPreflighted ==
  /\ approvedIdentity.action # "blocked"
  /\ ~IdentityDrifted
  /\ IF ProvisionsIdentity
     THEN "provision" \in identityFlags
     ELSE \A t \in asked : approvedIdentity.roles[t].action = "create" => "assign" \in identityFlags

PreflightIdentity ==
  /\ pc = "identity preflight"
  /\ IF IdentityPreflighted THEN Goto("workspace") ELSE Fail
  /\ UNCHANGED <<identityVars>> /\ NoFault

(* applyWorkspaceIdentity: provision, take an interrupted provisioning up,  *)
(* or make sure the approved identity is still the one.                     *)
ApplyWorkspaceIdentity ==
  /\ pc = "identity"
  /\ IF ~IdentityPreflighted THEN Fail ELSE
       Goto(IF ~ProvisionsIdentity THEN "verify identity"
            ELSE CASE provisionCp.phase = "none"       -> "provision"
                   [] provisionCp.phase = "submitting" -> "find identity"
                   [] provisionCp.phase = "accepted"   -> "operation"
                   [] provisionCp.phase = "verified"   -> "verify provisioned")
  /\ resuming' = IdentityPending
  /\ UNCHANGED <<who, settled, identityCp, identityPlans, identityReads, identityService>>
  /\ NoFault
-----------------------------------------------------------------------------
(* provisionIdentity.                                                       *)
SendProvision ==
  /\ pc = "provision"
  /\ RecordProvision("submitting", NoOne)
  /\ Goto("provision sent")
  /\ UNCHANGED <<identityPlans, identityReads, identityRun, identityService>> /\ NoFault

NewPrincipal == identity' = identity + 1 /\ identity < MaxPrincipals

(* Fabric provisions at once, or begins to.                                 *)
ProvisionNow ==
  /\ identity = NoOne /\ NewPrincipal
  /\ provisioned' = provisioned + 1 /\ UNCHANGED operation
ProvisionLater ==
  /\ identity = NoOne /\ operation # "running"
  /\ operation' = "running" /\ UNCHANGED <<identity, provisioned>>

(* 200 leaves the record as it is, 202 adds the operation to it.            *)
ProvisionAnswered ==
  /\ pc = "provision sent"
  /\ \/ ProvisionNow /\ who' = identity' /\ Goto("read provisioned") /\ KeepIdentity
     \/ ProvisionLater /\ RecordProvision("accepted", NoOne) /\ Goto("operation") /\ UNCHANGED who
  /\ UNCHANGED <<settled, resuming, identityPlans, identityReads, roles, identityLate, given>>
  /\ NoFault

ProvisionRejected ==
  /\ pc = "provision sent"
  /\ RecordProvision("none", NoOne)
  /\ IF identity = NoOne THEN Fault ELSE NoFault
  /\ Fail
  /\ UNCHANGED <<identityPlans, identityReads, identityRun, identityService>>

ProvisionOutOfHand ==
  \/ (ProvisionNow \/ ProvisionLater) /\ UNCHANGED identityLate /\ Fault
  \/ /\ identityLate' = identityLate \cup {Pending("provision", 0, NoOne)}
     /\ UNCHANGED <<identity, operation, provisioned>> /\ Fault
  \/ UNCHANGED <<identity, operation, provisioned, identityLate>> /\ Loss

ProvisionLost ==
  /\ pc = "provision sent"
  /\ ProvisionOutOfHand
  /\ Fail /\ KeepIdentity
  /\ UNCHANGED <<identityPlans, identityReads, identityRun, roles, given>>

ReadIdentity == UNCHANGED <<identityPlans, identityReads, identityService>> /\ NoFault

(* waitForOperation ends when the operation does.                           *)
AwaitProvision ==
  /\ pc = "operation" /\ operation # "running"
  /\ IF operation = "succeeded" THEN Goto("read provisioned") ELSE Fail
  /\ KeepIdentity /\ UNCHANGED identityRun /\ ReadIdentity

(* resumeProvision without an operation: what is there is adopted, what is  *)
(* not there is not asked for again.                                        *)
FindIdentity ==
  /\ pc = "find identity"
  /\ IF identity = NoOne THEN Fail /\ UNCHANGED who
                         ELSE Goto("read provisioned") /\ who' = identity
  /\ KeepIdentity /\ UNCHANGED <<settled, resuming>> /\ ReadIdentity

Provisioned == IF RolesAwaitReplan THEN "replan" ELSE "identity done"

(* verifyIdentity, against the identity the reply named if it named one.    *)
ReadProvisioned ==
  /\ pc = "read provisioned"
  /\ IF identity # NoOne /\ who \in {NoOne, identity}
     THEN /\ RecordProvision("verified", identity) /\ who' = identity
          /\ Goto(IF resuming THEN "verify provisioned" ELSE Provisioned)
     ELSE Fail /\ KeepIdentity /\ UNCHANGED who
  /\ UNCHANGED <<settled, resuming>> /\ ReadIdentity

(* A provisioning of an earlier run is read back once more.                 *)
VerifyProvisioned ==
  /\ pc = "verify provisioned"
  /\ IF identity = provisionCp.who
     THEN Goto(Provisioned) /\ who' = identity
     ELSE Fail /\ UNCHANGED who
  /\ KeepIdentity /\ UNCHANGED <<settled, resuming>> /\ ReadIdentity
-----------------------------------------------------------------------------
(* The roles of an identity that was there when the plan was approved.      *)
VerifyIdentity ==
  /\ pc = "verify identity"
  /\ IF identity = approvedIdentity.who THEN Goto("roles") /\ who' = identity
                                        ELSE Fail /\ UNCHANGED who
  /\ KeepIdentity /\ UNCHANGED <<settled, resuming>> /\ ReadIdentity

RoleTurn(t) == t \in asked \ settled /\ \A u \in asked \ settled : t <= u
SettleRole(t) == Goto("roles") /\ settled' = settled \cup {t}

(* verifyRoleAssignment: the assignment of this ID, for this identity.      *)
RoleIsThere(t, id) == \E a \in roles[t] : a.id = id /\ Fits(a, who)

VerifyPlannedRole(t) ==
  /\ pc = "roles" /\ RoleTurn(t)
  /\ approvedIdentity.roles[t].action = "no-op"
  /\ IF RoleIsThere(t, TheOnly(approvedIdentity.roles[t].managed).id)
     THEN SettleRole(t) ELSE Fail /\ UNCHANGED settled
  /\ KeepIdentity /\ UNCHANGED <<who, resuming>> /\ ReadIdentity

ResumedRole(t) ==
  IF roleCp[t].phase = "submitting"
  THEN LET managed == Managed(t, who)
       IN  IF Cardinality(managed) = 1 /\ Fits(TheOnly(managed), who)
           THEN {TheOnly(managed).id} ELSE {}
  ELSE {id \in {roleCp[t].id} : RoleIsThere(t, id)}

ResumeRole(t) ==
  /\ pc = "roles" /\ RoleTurn(t)
  /\ approvedIdentity.roles[t].action = "create" /\ roleCp[t].phase # "none"
  /\ \/ \E id \in ResumedRole(t) : RecordRole(t, "verified", id) /\ SettleRole(t)
     \/ ResumedRole(t) = {} /\ Fail /\ KeepIdentity /\ UNCHANGED settled
  /\ UNCHANGED <<who, resuming>> /\ ReadIdentity

\* Mutant: a role that was sent and not found is sent again.
SendRoleAgain(t) ==
  /\ pc = "roles" /\ RoleTurn(t)
  /\ approvedIdentity.roles[t].action = "create" /\ roleCp[t].phase \in {"none", "submitting"}
  /\ RecordRole(t, "submitting", 0)
  /\ Goto("role sent")
  /\ UNCHANGED <<identityPlans, identityReads, identityRun, identityService>> /\ NoFault

SendRole(t) ==
  /\ pc = "roles" /\ RoleTurn(t)
  /\ approvedIdentity.roles[t].action = "create" /\ roleCp[t].phase = "none"
  /\ RecordRole(t, "submitting", 0)
  /\ Goto("role sent")
  /\ UNCHANGED <<identityPlans, identityReads, identityRun, identityService>> /\ NoFault

(* Fabric adds the assignment, under an ID of its own.                      *)
NewRoleId(t) == 1 + given[t] + IF edited THEN 1 ELSE 0
GiveRole(t, p) ==
  /\ roles' = [roles EXCEPT ![t] = @ \cup {[id |-> NewRoleId(t), who |-> p, role |-> "asked"]}]
  /\ given' = [given EXCEPT ![t] = @ + 1]

RoleAnswered(t) ==
  /\ pc = "role sent" /\ RoleTurn(t)
  /\ GiveRole(t, who)
  /\ RecordRole(t, "accepted", NewRoleId(t))
  /\ Goto("role created")
  /\ UNCHANGED <<identityRun, identityPlans, identityReads, identity, operation, identityLate,
                 provisioned>> /\ NoFault

ClearRole(t) == RecordRole(t, "none", 0)

RoleRejected(t) ==
  /\ pc = "role sent" /\ RoleTurn(t)
  /\ ClearRole(t)
  /\ Fail /\ Fault
  /\ UNCHANGED <<identityPlans, identityReads, identityRun, identityService>>

RoleLost(t) ==
  /\ pc = "role sent" /\ RoleTurn(t)
  /\ \/ GiveRole(t, who) /\ UNCHANGED identityLate /\ Fault
     \/ /\ identityLate' = identityLate \cup {Pending("role", t, who)}
        /\ UNCHANGED <<roles, given>> /\ Fault
     \/ UNCHANGED <<roles, given, identityLate>> /\ Loss
  /\ Fail /\ KeepIdentity
  /\ UNCHANGED <<identityPlans, identityReads, identityRun, identity, operation, provisioned>>

VerifyRole(t) ==
  /\ pc = "role created" /\ RoleTurn(t)
  /\ IF RoleIsThere(t, roleCp[t].id)
     THEN RecordRole(t, "verified", roleCp[t].id) /\ SettleRole(t)
     ELSE Fail /\ KeepIdentity /\ UNCHANGED settled
  /\ UNCHANGED <<who, resuming>> /\ ReadIdentity

RolesDone ==
  /\ pc = "roles" /\ settled = asked
  /\ Goto("identity done")
  /\ KeepIdentity /\ UNCHANGED identityRun /\ ReadIdentity
-----------------------------------------------------------------------------
FinishProvision ==
  /\ operation = "running"
  /\ \/ /\ identity = NoOne /\ NewPrincipal
        /\ operation' = "succeeded" /\ provisioned' = provisioned + 1 /\ NoFault
     \/ operation' = "failed" /\ UNCHANGED <<identity, provisioned>>
        /\ IF identity = NoOne THEN Loss ELSE NoFault
  /\ UNCHANGED <<roles, identityLate, given, identityCp, identityPlans, identityReads, identityRun,
                 pc>>

ExecuteIdentityLate(l) ==
  /\ l \in identityLate /\ identityLate' = identityLate \ {l}
  /\ IF l.request = "provision"
     THEN /\ ProvisionNow \/ ProvisionLater \/ (identity # NoOne /\ UNCHANGED <<identity, operation, provisioned>>)
          /\ UNCHANGED <<roles, given>>
     ELSE GiveRole(l.target, l.who) /\ UNCHANGED <<identity, operation, provisioned>>
  /\ UNCHANGED <<identityCp, identityPlans, identityReads, identityRun, pc>> /\ NoFault

(* Somebody else replaces the identity, or edits its roles.                 *)
EditIdentity ==
  /\ Foreign
  /\ \/ NewPrincipal /\ UNCHANGED roles
     \/ \E t \in Targets, p \in 1..identity, role \in {"asked", "other"} :
          roles' = [roles EXCEPT ![t] = @ \cup {[id |-> NewRoleId(t), who |-> p, role |-> role]}]
          /\ UNCHANGED identity
     \/ (\E t \in Targets : roles[t] # {} /\ roles' = [roles EXCEPT ![t] = {}]) /\ UNCHANGED identity
  /\ UNCHANGED <<operation, identityLate, provisioned, given, identityCp, identityPlans,
                 identityReads, identityRun, pc>>

AskIdentity ==
  \/ SendProvision \/ ProvisionAnswered \/ ProvisionRejected \/ ProvisionLost
  \/ \E t \in asked : SendRole(t) \/ RoleAnswered(t) \/ RoleRejected(t) \/ RoleLost(t)
ApplyIdentity ==
  \/ PreflightIdentity \/ ApplyWorkspaceIdentity \/ AwaitProvision \/ FindIdentity
  \/ ReadProvisioned \/ VerifyProvisioned \/ VerifyIdentity \/ RolesDone
  \/ \E t \in asked : VerifyPlannedRole(t) \/ ResumeRole(t) \/ VerifyRole(t)
IdentityServes == FinishProvision \/ \E l \in identityLate : ExecuteIdentityLate(l)
-----------------------------------------------------------------------------
IdentityTypeOK ==
  /\ asked \subseteq Targets
  /\ identity \in Principals \cup {NoOne}
  /\ operation \in {"none", "running", "succeeded", "failed"}
  /\ \A t \in Targets : roles[t] \subseteq Assignment
  /\ provisionCp \in [phase : {"none", "submitting", "accepted", "verified"},
                     who : Principals \cup {NoOne}]
  /\ roleCp \in [Targets -> [phase : {"none", "submitting", "accepted", "verified"}, id : Nat]]
  /\ who \in Principals \cup {NoOne} /\ settled \subseteq asked /\ resuming \in BOOLEAN
  /\ provisioned \in Nat /\ given \in [Targets -> Nat]

(* Under one approved plan the identity is provisioned at most once and     *)
(* each role given at most once, whatever became of the replies ("ambiguous *)
(* recovery state; it will not be redispatched").                           *)
IdentityOnce == provisioned <= 1 /\ \A t \in Targets : given[t] <= 1

(* What this plan's requests gave, or may yet give, is in the checkpoint.   *)
IdentityTracked ==
  \A t \in Targets :
    given[t] > 0 \/ (\E l \in identityLate : l.request = "role" /\ l.target = t) =>
      roleCp[t].phase # "none"

(* A run that is through with the identity leaves it with exactly one       *)
(* assignment in every target asked for, if nobody else interferes.         *)
IdentityDoneIsTrue ==
  pc = "identity done" /\ ~edited /\ ~ProvisionsIdentity =>
    \A t \in asked : \E a \in roles[t] : Managed(t, identity) = {a} /\ Fits(a, identity)
=============================================================================
