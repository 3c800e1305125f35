----------------------------- MODULE Bootstrap -----------------------------
(***************************************************************************)
(* The beginning of a run of applyApprovedPlan (src/src/apply.ts): the     *)
(* workspace, then its identity, then, and only if neither was made by     *)
(* this plan in a way that leaves items planned against nothing, the       *)
(* items.  A run that made them succeeds early and asks for a fresh plan,  *)
(* which the operator approves.                                            *)
(*                                                                         *)
(* Gateways and network protection, applied around these steps, are in     *)
(* ResourceApply and NetworkApply; here they are one step that may fail.   *)
(***************************************************************************)
EXTENDS WorkspaceApply, WorkspaceIdentity

CONSTANT Grants  \* the safeguards a run may be given together: [space, identity]

VARIABLES
  managesIdentity,  \* the manifest has a workspaceIdentity section
  touched           \* items were touched under this plan

composition == <<managesIdentity, touched>>
vars == <<spaceVars, identityVars, composition, runVars>>

Init ==
  /\ RunInit /\ SpaceInit /\ IdentityInit
  /\ managesIdentity \in BOOLEAN /\ touched = FALSE
  /\ approvedSpace.action = "create" \/ ~managesIdentity => identity = NoOne /\ asked = {}

Ended == {"idle", "replan required", "succeeded"}

(* main.ts plans afresh and applyApprovedPlan begins.  The identity of a    *)
(* workspace that is yet to be made is not looked at.                       *)
Start ==
  /\ pc \in Ended
  /\ ReadSpacePlan /\ ReadIdentityPlan
  /\ [space |-> spaceFlags', identity |-> identityFlags'] \in Grants
  /\ Goto(IF CreatesSpace \/ ~managesIdentity THEN "workspace" ELSE "identity preflight")
  /\ UNCHANGED <<composition>> /\ NoFault

\* Mutant: a created workspace is taken for granted.
WorkspaceResolvedAtOnce ==
  /\ pc = "workspace done"
  /\ Goto(IF managesIdentity /\ ~CreatesSpace THEN "identity" ELSE "items")
  /\ UNCHANGED <<spaceVars, identityVars, composition>> /\ NoFault

(* requiresItemReplan after the workspace.                                  *)
WorkspaceResolved ==
  /\ pc = "workspace done"
  /\ Goto(CASE CreatesSpace -> "replan"
            [] ~CreatesSpace /\ managesIdentity -> "identity"
            [] OTHER -> "items")
  /\ UNCHANGED <<spaceVars, identityVars, composition>> /\ NoFault

IdentityResolved ==
  /\ pc = "identity done"
  /\ Goto("items")
  /\ UNCHANGED <<spaceVars, identityVars, composition>> /\ NoFault

(* Gateways of a run that stops for a fresh plan.                           *)
StopForReplan ==
  /\ pc = "replan"
  /\ \/ Goto("replan required") /\ NoFault
     \/ Fail /\ Fault
  /\ UNCHANGED <<spaceVars, identityVars, composition>>

(* Recovery, stages and network; ItemApply.                                 *)
ApplyItems ==
  /\ pc = "items"
  /\ touched' = TRUE
  /\ \/ Goto("succeeded") /\ NoFault
     \/ Fail /\ Fault
  /\ UNCHANGED <<spaceVars, identityVars, managesIdentity>>

(* The runner dies between two requests, or gives up waiting.               *)
Crash ==
  /\ pc \notin Ended \cup {"provision sent", "role sent"}
  /\ \A q \in SpaceRequests : pc # SpaceSent(q)
  /\ Fail /\ Fault
  /\ UNCHANGED <<spaceVars, identityVars, composition>>

(* The operator approves a fresh plan, with a checkpoint of its own: when   *)
(* the run asked for it, or when the state drifted and nothing is pending.  *)
NewPlan ==
  /\ \/ pc = "replan required"
     \/ /\ pc = "idle" /\ spaceCp.phase \in {"none", "completed"} /\ ~IdentityUnsettled
        /\ approvedSpace # PlanWorkspace \/ approvedIdentity # PlanIdentity
  /\ spacesLate = {} /\ identityLate = {}
  /\ approvedSpace' = PlanWorkspace /\ approvedIdentity' = PlanIdentity
  /\ spaceCp' = NoRecord /\ provisionCp' = NoProvision /\ roleCp' = [t \in Targets |-> NoRole]
  /\ created' = 0 /\ assigned' = 0 /\ seen' = FALSE /\ provisioned' = 0
  /\ given' = [t \in Targets |-> 0] /\ touched' = FALSE
  /\ pc' = "idle"
  /\ UNCHANGED <<spaces, spacesLate, wanted, spaceRun, spaceReads, blind, asked, identity, operation,
                 roles, identityLate, identityReads, identityRun, managesIdentity>>
  /\ NoFault

Workspace == (AskSpace \/ ApplySpace) /\ UNCHANGED <<identityVars, composition>>
Identity == (AskIdentity \/ ApplyIdentity) /\ UNCHANGED <<spaceVars, composition>>
Fabric ==
  \/ SpaceServes /\ UNCHANGED <<identityVars, composition>>
  \/ IdentityServes /\ UNCHANGED <<spaceVars, composition>>
Others ==
  \/ (\E w \in Ids : EditSpace(w)) /\ UNCHANGED <<identityVars, composition>>
  \/ managesIdentity /\ EditIdentity /\ UNCHANGED <<spaceVars, composition>>
Steps == WorkspaceResolved \/ IdentityResolved \/ StopForReplan \/ ApplyItems

Run == Workspace \/ Identity \/ Steps

Next == Start \/ NewPlan \/ Run \/ Crash \/ Fabric \/ Others

Spec == Init /\ [][Next]_vars

Granted == spaceFlags' = Safeguards /\ identityFlags' = {"provision", "assign"}

(* The operator reruns with every safeguard granted now and then and, asked *)
(* for a fresh plan, approves one; a run goes on, and Fabric gets to what   *)
(* it has accepted.                                                         *)
FairSpec ==
  /\ Spec
  /\ WF_vars(Run) /\ WF_vars(Fabric)
  /\ SF_vars(Start /\ Granted) /\ SF_vars(NewPlan)
-----------------------------------------------------------------------------
(* The invariant of the two bootstraps: types; every request that may still *)
(* take effect has its record; and what the record of the identity calls    *)
(* done is there.                                                           *)
BootstrapInv ==
  /\ SpaceTypeOK /\ WorkspaceTracked
  /\ IdentityTypeOK /\ IdentityTracked /\ IdentityDoneIsTrue

(* Over all reruns no workspace, capacity assignment, identity or role is   *)
(* asked for twice, and no PATCH is sent over what cannot be seen.          *)
SentOnce == WorkspaceOnce /\ PatchNotBlind /\ IdentityOnce

(* Items are only touched in a workspace that is as the manifest asks, by a *)
(* plan that neither made it nor provisioned the identity whose roles it    *)
(* waits for: what such a plan says of its items was blocked at planning.   *)
ItemsOnReadyWorkspace ==
  /\ touched => ~CreatesSpace /\ (managesIdentity => ~RolesAwaitReplan)
  /\ pc = "items" /\ ~edited =>
       /\ approvedSpace.observed.id = wid /\ VerifiedSpace(wid)
       /\ managesIdentity => identity # NoOne

(* Runs and fresh plans get to the items, unless a request is lost for      *)
(* good, Fabric fails what it accepted, or somebody else interferes.        *)
BootstrapConverges ==
  approvedSpace.action # "blocked" /\ [](~lost /\ ~edited) => <>(pc = "succeeded")
=============================================================================
