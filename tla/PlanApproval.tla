---------------------------- MODULE PlanApproval ----------------------------
(***************************************************************************)
(* From the sources to an approved plan and its application: the action in *)
(* mode plan and in mode apply (src/src/main.ts), which loads the manifest *)
(* and the items' directories file by file (src/src/manifest.ts), plans,   *)
(* and, in mode apply, compares with the plan somebody has approved.  How  *)
(* an item is written and recovered is ItemApply's: here it is three steps.*)
(* A hash is as good as what it is taken of.                               *)
(***************************************************************************)
EXTENDS ApplyRun, FiniteSets

CONSTANTS
  Items,        \* in the order of their stages
  Symbolic,     \* those whose files are not hashed as such: Report, DataAgent
  MaxRevision,  \* bound: on the revisions of a directory
  FirstLive     \* which of the items somebody else has made before, to choose from

ASSUME ApprovalAssumption ==
  /\ IsFiniteSet(Items) /\ Items # {} /\ Items = 1..Cardinality(Items) /\ Symbolic \subseteq Items
  /\ MaxRevision \in Nat \ {0}
  /\ FirstLive \subseteq SUBSET Items

VARIABLES
  manifest,      \* the manifest file: a revision
  dir,           \* each item's directory: a revision
  live,          \* each item in the workspace: the revisions of its metadata and of its body
  mode,          \* of the run: "plan" or "apply"
  at,            \* the item a loop of the run has come to
  loaded,        \* what the run has read of the sources
  current,       \* the plan the run has made of it
  approved,      \* the plan the run applies
  planFile,      \* the plan written last
  approvedFile,  \* the approved plan: its text, and the hash it states
  checkpoint,    \* its plan, completed and pending items
  resultFile,    \* the plan it names, and its status
  between,       \* history: the directories between the two passes over them
  reverted,      \* history: a directory has gone back to an earlier revision
  killed,        \* history: the run that applied last was killed
  completedAs    \* history: what a completed item was when it was completed

sourceVars == <<manifest, dir>>
files == <<planFile, approvedFile, checkpoint, resultFile>>
memory == <<mode, at, loaded, current, approved>>
historyVars == <<between, reverted, killed, completedAs>>
approvalVars == <<sourceVars, live, memory, files, historyVars>>

Revisions == 1..MaxRevision
Absent == [meta |-> 0, body |-> 0]
Theirs == [meta |-> MaxRevision + 1, body |-> MaxRevision + 1]
NoPlan == [manifest |-> 0]
NoCheckpoint == [plan |-> NoPlan, done |-> {}, pending |-> {}]
Nothing == [manifest |-> 0, hash |-> [i \in Items |-> 0], meta |-> [i \in Items |-> 0], body |-> [i \in Items |-> 0]]

(* effectiveItemHashes: a plan is bound to what was read, and to the files. *)
ContentHash(i) ==
  [hash |-> IF i \in Symbolic THEN 0 ELSE loaded.hash[i], meta |-> loaded.meta[i], body |-> loaded.body[i]]
Definition(content) == [meta |-> content.meta, body |-> content.body]
(* What an adapter's plan says of an item.                                  *)
PlanItem(i, there) ==
  LET wanted == Definition(ContentHash(i))
  IN  [content |-> ContentHash(i), observed |-> there,
       action |-> IF there = Absent THEN "create" ELSE IF there = wanted THEN "no-op" ELSE "update"]

(* buildPlan and rehashPlan: all but the time it was made.                  *)
PlanOf(items) == [manifest |-> loaded.manifest, items |-> items]

ApprovalInit ==
  /\ manifest = 1 /\ dir = [i \in Items |-> 1]
  /\ \E theirs \in FirstLive : live = [i \in Items |-> IF i \in theirs THEN Theirs ELSE Absent]
  /\ mode = "plan" /\ at = 1 /\ loaded = Nothing /\ current = NoPlan /\ approved = NoPlan
  /\ planFile = NoPlan /\ approvedFile = [text |-> NoPlan, hash |-> NoPlan]
  /\ checkpoint = NoCheckpoint /\ resultFile = [plan |-> NoPlan, status |-> "none"]
  /\ between = dir /\ reverted = FALSE /\ killed = FALSE /\ completedAs = [i \in Items |-> Absent]
-----------------------------------------------------------------------------
ReadsSources == UNCHANGED <<sourceVars, live, mode, current, approved, files, reverted, killed, completedAs>> /\ NoFault
Applies == UNCHANGED <<sourceVars, mode, loaded, current, approved, planFile, approvedFile, between, reverted, killed>> /\ NoFault

(* A loop over the items goes on to the next, or the run to its next step.  *)
Loop(again, after) == IF at + 1 \in Items THEN at' = at + 1 /\ Goto(again) ELSE at' = 1 /\ Goto(after)

(* The handlers of an error: the result file is settled by whoever catches  *)
(* it, once.                                                                *)
Settled == IF mode = "apply" /\ resultFile.status = "in_progress"
           THEN [resultFile EXCEPT !.status = "failed"] ELSE resultFile
Throw == pc' = "idle" /\ at' = 1 /\ resultFile' = Settled

StartPlan ==
  /\ pc = "idle" /\ Goto("manifest") /\ at' = 1
  /\ mode' = "plan" /\ loaded' = Nothing /\ current' = NoPlan /\ approved' = NoPlan
  /\ UNCHANGED <<sourceVars, live, files, historyVars>> /\ NoFault

(* loadApprovedPlan: the hash is that of the text.                          *)
HashMatches == approvedFile.text # NoPlan /\ approvedFile.hash = approvedFile.text
(* assertCheckpointMatchesPlan.                                             *)
CheckpointMatches(plan) == checkpoint = NoCheckpoint \/ checkpoint.plan = plan

(* A run that is refused its checkpoint leaves every file as it was;        *)
(* otherwise initializeApplyArtifacts.                                      *)
StartApply ==
  /\ pc = "idle" /\ HashMatches /\ CheckpointMatches(approvedFile.text)
  /\ Goto("manifest") /\ at' = 1 /\ mode' = "apply"
  /\ loaded' = Nothing /\ current' = NoPlan /\ approved' = approvedFile.text
  /\ checkpoint' = [checkpoint EXCEPT !.plan = approvedFile.text]
  /\ resultFile' = [plan |-> approvedFile.text, status |-> "in_progress"]
  /\ killed' = FALSE
  /\ UNCHANGED <<sourceVars, live, planFile, approvedFile, between, reverted, completedAs>> /\ NoFault

(* loadManifest: the text, and then every directory twice.                  *)
ReadManifest ==
  /\ pc = "manifest" /\ Goto("hash") /\ loaded' = [loaded EXCEPT !.manifest = manifest]
  /\ UNCHANGED <<at, between>> /\ ReadsSources
HashItem ==
  /\ pc = "hash" /\ Loop("hash", "metadata") /\ loaded' = [loaded EXCEPT !.hash[at] = dir[at]]
  /\ between' = IF at + 1 \in Items THEN between ELSE dir
  /\ ReadsSources
ReadMetadata ==
  /\ pc = "metadata" /\ Loop("metadata", "body") /\ loaded' = [loaded EXCEPT !.meta[at] = dir[at]]
  /\ UNCHANGED between /\ ReadsSources
ReadBody ==
  /\ pc = "body" /\ Loop("body", "recheck") /\ loaded' = [loaded EXCEPT !.body[at] = dir[at]]
  /\ UNCHANGED between /\ ReadsSources

\* Mutant: the directories are not hashed a second time.
RecheckNone == TRUE
(* assertItemContentUnchanged.                                              *)
Recheck == loaded.hash[at] = dir[at]
RecheckItem ==
  /\ pc = "recheck"
  /\ IF Recheck THEN Loop("recheck", "observe") /\ UNCHANGED resultFile ELSE Throw
  /\ UNCHANGED <<loaded, sourceVars, live, mode, current, approved, planFile, approvedFile, checkpoint, historyVars>>
  /\ NoFault

(* enrichPlanWithFabric: the items are looked up one by one.                *)
ObserveItem ==
  /\ pc = "observe" /\ Loop("observe", "write plan")
  /\ LET seen == PlanItem(at, live[at])
         before == IF at = 1 THEN [i \in Items |-> PlanItem(i, Absent)] ELSE current.items
     IN  current' = PlanOf([before EXCEPT ![at] = seen])
  /\ UNCHANGED <<sourceVars, live, mode, loaded, approved, files, historyVars>> /\ NoFault

(* writePlan, in either mode.                                               *)
WritePlan ==
  /\ pc = "write plan" /\ planFile' = current
  /\ Goto(IF mode = "plan" THEN "idle" ELSE "identity")
  /\ UNCHANGED <<sourceVars, live, memory, approvedFile, checkpoint, resultFile, historyVars>> /\ NoFault
-----------------------------------------------------------------------------
\* Mutant: what was approved is known by the hash of its files alone.
SameFiles(i) == approved.items[i].content.hash = current.items[i].content.hash
(* comparableItemSource.                                                    *)
SameSource(i) == approved.items[i].content = current.items[i].content
(* comparableItemState.                                                     *)
SameState(i, seen) == SameSource(i) /\ approved.items[i].observed = seen.observed /\ approved.items[i].action = seen.action

(* assertPlanIdentity and preflightBeforeRecovery.                          *)
Approvable ==
  /\ approved.manifest = current.manifest
  /\ \A i \in Items :
       IF i \in checkpoint.done THEN SameSource(i) /\ current.items[i].action = "no-op"
       ELSE IF i \in checkpoint.pending THEN SameSource(i)
       ELSE SameState(i, current.items[i])
PreflightApproved ==
  /\ pc = "identity"
  /\ IF Approvable THEN Goto("recover") /\ UNCHANGED <<at, resultFile>> ELSE Throw
  /\ UNCHANGED <<live, checkpoint, completedAs>> /\ Applies

Wanted(i) == Definition(ContentHash(i))
Complete(i) ==
  /\ checkpoint' = [checkpoint EXCEPT !.done = @ \cup {i}, !.pending = @ \ {i}]
  /\ completedAs' = [completedAs EXCEPT ![i] = live'[i]]

\* Mutant: an update that was recorded is taken for one that was sent.
UntouchedNever(i) == FALSE
(* Nothing became of the update recorded: it is sent again.                 *)
Untouched(i) == approved.items[i].action = "update" /\ live[i] = approved.items[i].observed
(* The reconciliation of what the checkpoint calls pending; a create of     *)
(* which nothing is seen may yet come.                                      *)
RecoverItem ==
  /\ pc = "recover"
  /\ CASE at \notin checkpoint.pending ->
            Loop("recover", "verify") /\ UNCHANGED <<live, checkpoint, resultFile, completedAs>>
       [] at \in checkpoint.pending /\ (live[at] = Wanted(at) \/ Untouched(at)) ->
            /\ Loop("recover", "verify") /\ live' = [live EXCEPT ![at] = Wanted(at)]
            /\ Complete(at) /\ UNCHANGED resultFile
       [] OTHER -> Throw /\ UNCHANGED <<live, checkpoint, completedAs>>
  /\ Applies

(* verifyCheckpointedItems.                                                 *)
VerifyCompleted ==
  /\ pc = "verify"
  /\ IF at \in checkpoint.done /\ live[at] # Wanted(at) THEN Throw
     ELSE Loop("verify", "items") /\ UNCHANGED resultFile
  /\ UNCHANGED <<live, checkpoint, completedAs>> /\ Applies

(* assertFreshItemHasNotDrifted, and the record before the mutation.        *)
BeginItem ==
  /\ pc = "items"
  /\ IF at \in checkpoint.done THEN Loop("items", "succeed") /\ UNCHANGED <<checkpoint, resultFile>>
     ELSE IF ~SameState(at, PlanItem(at, live[at])) THEN Throw /\ UNCHANGED checkpoint
     ELSE IF approved.items[at].action = "no-op"
          THEN Goto("verify item") /\ UNCHANGED <<at, checkpoint, resultFile>>
     ELSE /\ Goto("write item") /\ checkpoint' = [checkpoint EXCEPT !.pending = @ \cup {at}]
          /\ UNCHANGED <<at, resultFile>>
  /\ UNCHANGED <<live, completedAs>> /\ Applies

(* createDesiredItem and updateDesiredItem send what was loaded.            *)
WriteItem ==
  /\ pc = "write item" /\ live' = [live EXCEPT ![at] = Wanted(at)] /\ Goto("verify item")
  /\ UNCHANGED <<at, checkpoint, resultFile, completedAs>> /\ Applies
VerifyWritten ==
  /\ pc = "verify item"
  /\ UNCHANGED live
  /\ IF live[at] = Wanted(at) THEN Complete(at) /\ Loop("items", "succeed") /\ UNCHANGED resultFile
     ELSE Throw /\ UNCHANGED <<checkpoint, completedAs>>
  /\ Applies

Succeed ==
  /\ pc = "succeed" /\ Goto("idle") /\ resultFile' = [resultFile EXCEPT !.status = "succeeded"]
  /\ UNCHANGED <<at, live, checkpoint, completedAs>> /\ Applies

OnlyEnds == /\ pc # "idle" /\ Fault
            /\ UNCHANGED <<sourceVars, live, mode, loaded, current, approved, approvedFile, checkpoint>>
            /\ UNCHANGED <<between, reverted, completedAs>>
(* A file that cannot be read, an answer that does not come: the handler of *)
(* run, or of applyApprovedPlan.                                            *)
RunThrows == OnlyEnds /\ Throw /\ UNCHANGED <<planFile, killed>>

(* The process is killed; a plan being written is left cut off.             *)
CrashApproval ==
  /\ OnlyEnds /\ pc' = "idle" /\ at' = 1 /\ UNCHANGED resultFile
  /\ planFile' = IF pc = "write plan" THEN NoPlan ELSE planFile
  /\ killed' = (killed \/ mode = "apply")
-----------------------------------------------------------------------------
OnlyFiles == UNCHANGED <<sourceVars, live, memory, historyVars>> /\ UNCHANGED pc
(* Somebody reviews the plan written last, and approves it.                 *)
Approve ==
  /\ pc = "idle" /\ planFile # NoPlan /\ approvedFile # [text |-> planFile, hash |-> planFile]
  /\ approvedFile' = [text |-> planFile, hash |-> planFile]
  /\ UNCHANGED <<planFile, checkpoint, resultFile>> /\ OnlyFiles /\ NoFault
(* The approved file is not what was approved: its hash stays.              *)
ReplaceText ==
  /\ pc = "idle" /\ Foreign /\ planFile # approvedFile.text
  /\ approvedFile' = [approvedFile EXCEPT !.text = planFile]
  /\ UNCHANGED <<planFile, checkpoint, resultFile>> /\ OnlyFiles
(* The checkpoint of another plan is set aside; so is one whose completed   *)
(* items were changed since, planned anew they may give the same plan, and  *)
(* one with a create of which nothing is seen, once that was looked into.   *)
DiscardCheckpoint ==
  /\ pc = "idle" /\ approvedFile.text # NoPlan
  /\ \/ ~CheckpointMatches(approvedFile.text)
     \/ \E i \in checkpoint.done : live[i] # completedAs[i]
     \/ \E i \in checkpoint.pending : live[i] = Absent
  /\ checkpoint' = NoCheckpoint
  /\ UNCHANGED <<planFile, approvedFile, resultFile>> /\ OnlyFiles /\ NoFault

EditManifest ==
  /\ Foreign /\ manifest' = 3 - manifest
  /\ UNCHANGED <<pc, dir, live, memory, files, historyVars>>
(* A directory gets a new revision, or an earlier one back.                 *)
EditSource(i) ==
  /\ Foreign
  /\ \/ dir[i] < MaxRevision /\ dir' = [dir EXCEPT ![i] = @ + 1] /\ UNCHANGED reverted
     \/ dir[i] > 1 /\ dir' = [dir EXCEPT ![i] = @ - 1] /\ reverted' = TRUE
  /\ UNCHANGED <<pc, manifest, live, memory, files, between, killed, completedAs>>
EditLive(i) ==
  /\ Foreign /\ live[i] # Theirs /\ live' = [live EXCEPT ![i] = Theirs]
  /\ UNCHANGED <<pc, sourceVars, memory, files, historyVars>>

ReadApproval ==
  \/ ReadManifest \/ HashItem \/ ReadMetadata \/ ReadBody \/ RecheckItem \/ ObserveItem \/ WritePlan
ApplyApproval ==
  \/ PreflightApproved \/ RecoverItem \/ VerifyCompleted \/ BeginItem \/ WriteItem \/ VerifyWritten \/ Succeed
Operator == StartPlan \/ StartApply \/ Approve \/ DiscardCheckpoint
ApprovalDisturbed ==
  \/ RunThrows \/ CrashApproval \/ ReplaceText \/ EditManifest
  \/ \E i \in Items : EditSource(i) \/ EditLive(i)
ApprovalNext == ReadApproval \/ ApplyApproval \/ Operator \/ ApprovalDisturbed
-----------------------------------------------------------------------------
Contents == [meta : 0..MaxRevision + 1, body : 0..MaxRevision + 1]
Reads == [manifest : 0..2, hash : [Items -> 0..MaxRevision], meta : [Items -> 0..MaxRevision], body : [Items -> 0..MaxRevision]]
(* The plans there may be, and the files that name them.                    *)
IsPlan(plan) ==
  \/ plan = NoPlan
  \/ /\ plan.manifest \in {1, 2} /\ DOMAIN plan.items = Items
     /\ \A i \in Items : /\ Definition(plan.items[i].content) \in Contents
                         /\ plan.items[i].content.hash = 0 <=> i \in Symbolic
                         /\ plan.items[i].observed \in Contents
                         /\ plan.items[i].action \in {"create", "update", "no-op"}
ApprovalTypeOK ==
  /\ manifest \in {1, 2} /\ dir \in [Items -> Revisions] /\ live \in [Items -> Contents]
  /\ mode \in {"plan", "apply"} /\ at \in Items /\ loaded \in Reads
  /\ IsPlan(approved) /\ IsPlan(planFile) /\ IsPlan(approvedFile.text) /\ IsPlan(approvedFile.hash)
  /\ IsPlan(checkpoint.plan) /\ checkpoint.done \subseteq Items /\ checkpoint.pending \subseteq Items
  /\ checkpoint.done \cap checkpoint.pending = {}
  /\ resultFile.status \in {"none", "in_progress", "succeeded", "failed"}

(* A plan describes one state of the checkout, not the files of one edit    *)
(* and the files of another, unless an edit was taken back meanwhile.       *)
PlannedIsSnapshot ==
  pc = "write plan" /\ ~reverted =>
    \A i \in Items : Definition(current.items[i].content) = [meta |-> between[i], body |-> between[i]]

(* What the checkpoint calls completed was completed as its plan says.      *)
CompletedAsPlanned ==
  \A i \in checkpoint.done : completedAs[i] = Definition(checkpoint.plan.items[i].content)

(* A result is in progress only while a run is, or if one was killed; and   *)
(* it names the plan that is being applied.                                 *)
ResultSettled ==
  /\ pc = "idle" /\ mode = "apply" /\ resultFile.status = "in_progress" => killed
  /\ pc # "idle" /\ mode = "apply" => resultFile = [plan |-> approved, status |-> "in_progress"]

(* Whatever the sources go through while a run reads them, what a run       *)
(* writes is what the plan with the approved hash was made of.              *)
ApprovedContentOnly ==
  [][\A i \in Items : (WriteItem \/ RecoverItem) /\ i = at /\ live'[i] # live[i] =>
       live'[i] = Definition(approvedFile.hash.items[i].content)]_approvalVars
=============================================================================
