-------------------------------- MODULE Plan --------------------------------
(***************************************************************************)
(* A plan, from the manifest to its application: how it is written and     *)
(* read, and what becomes of it between the sources, its approval and its  *)
(* application; one of the two at a time.  What the other stands at is     *)
(* fixed, and satisfies its properties.                                    *)
(***************************************************************************)
EXTENDS PlanArtifact, PlanApproval

VARIABLE part  \* "artifact" or "approval"
vars == <<part, planVars, runVars, approvalVars>>

NothingYet == [items |-> {}]
Init ==
  /\ \/ part = "artifact" /\ PlanInit
     \/ part = "approval" /\ stage = "declared" /\ plan = NoPlanYet /\ declared = NothingYet /\ seen = NothingYet
  /\ RunInit /\ ApprovalInit
  /\ part = "artifact" => budget.faults = 0

Of(p, step, others) == part = p /\ step /\ UNCHANGED others /\ UNCHANGED part
OfArtifact(step) == Of("artifact", step, <<runVars, approvalVars>>)
OfApproval(step) == Of("approval", step, planVars)
Next == OfArtifact(PlanNext) \/ OfApproval(ApprovalNext)

Spec == Init /\ [][Next]_vars

(* A run goes on until it ends; a plan is made, approved and applied again  *)
(* and again, and a checkpoint of no more use is set aside.                 *)
FairSpec ==
  /\ Spec /\ WF_vars(OfApproval(ReadApproval \/ ApplyApproval))
  /\ SF_vars(OfApproval(StartPlan)) /\ SF_vars(OfApproval(StartApply))
  /\ SF_vars(OfApproval(Approve)) /\ SF_vars(OfApproval(DiscardCheckpoint))

(* What a run plans is one state of the checkout, what the checkpoint calls *)
(* completed was completed as its plan says, a result is settled by every   *)
(* run that ends; and a plan is cautious: stages in order, nothing written  *)
(* on what is blocked, no access closed on what is not approved.            *)
PlanInv ==
  /\ ApprovalTypeOK /\ PlannedIsSnapshot /\ CompletedAsPlanned /\ ResultSettled
  /\ PlanIsCautious

(* If plans are made, approved and applied again and again, the workspace   *)
(* is as the sources are, whatever runs were killed, failed or overtaken by *)
(* edits on the way.                                                        *)
ApprovalConverges ==
  part = "approval" => <>[](\A i \in Items : live[i] = [meta |-> dir[i], body |-> dir[i]])
=============================================================================
