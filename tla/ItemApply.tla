------------------------------ MODULE ItemApply ------------------------------
(***************************************************************************)
(* The checkpointed life of the items of one approved plan, as             *)
(* applyApprovedPlan (src/src/apply.ts) runs it: recovery of what earlier  *)
(* runs left pending, preflight, then the deployment stages, against a     *)
(* Fabric service that answers late, ambiguously or not at all.  A run may *)
(* be killed between any two steps; the checkpoint file, the requests on   *)
(* the wire and the service survive, and the operator reruns the same      *)
(* plan.                                                                   *)
(*                                                                         *)
(* One step is one Fabric read, one request dispatched, one reply taken,   *)
(* or one checkpoint write: the points where another actor, a crash or a   *)
(* late request may interleave.                                            *)
(***************************************************************************)
EXTENDS Integers

CONSTANTS
  Items,        \* logical ids of the plan
  NoItem,       \* "no item in hand"
  Type,         \* item -> Fabric item type
  Action,       \* item -> action the approved plan gives it
  Dependencies, \* item -> items it depends on
  Rank,         \* item -> position in plan.stages, flattened
  MaxPosts,     \* bound: create requests of one item
  MaxFaults,    \* bound: crashes, lost replies, rejections, foreign edits
  FaultKinds,   \* the kinds of fault this instance admits
  AllowChoices  \* the allow-* flag sets a run may be started with

(* Types whose adapter records the physical ID before it reads the item     *)
(* back, those that read it back first, and those created as an empty shell *)
(* that is then staged.                                                     *)
AckFirstTypes   == {"Lakehouse", "Eventhouse", "KQLDatabase", "Warehouse",
                    "SparkCustomPool"}
VerifyFirstTypes == {"Notebook", "Ontology", "SparkJobDefinition",
                     "DataPipeline", "SemanticModel", "Report", "Eventstream"}
ShellTypes      == {"DataAgent", "ApacheAirflowJob"}
ItemTypes       == AckFirstTypes \cup VerifyFirstTypes \cup ShellTypes
Actions         == {"create", "update", "delete", "no-op", "absent"}
AllFaults       == {"crash", "timeout", "drop", "reject", "foreign"}

ASSUME ItemsAssumption ==
  /\ NoItem \notin Items
  /\ Type \in [Items -> ItemTypes]
  /\ Action \in [Items -> Actions]

Removes(i) == Action[i] \in {"delete", "absent"}
Creates(i) == Action[i] = "create"
Updates(i) == Action[i] = "update"

(* plan.stages, as buildDeploymentStages (graph.ts) orders them: what is to *)
(* be present in the order of its dependencies, then what is to be absent,  *)
(* dependents first.  Nothing present depends on anything absent            *)
(* (validateDependencies).  PlanProofs proves of the stages of every plan   *)
(* that they are in this order (StagesOrdered).                             *)
ASSUME OrderAssumption ==
  /\ Rank \in [Items -> Nat]
  /\ \A i, j \in Items : Rank[i] = Rank[j] => i = j
  /\ Dependencies \in [Items -> SUBSET Items]
  /\ \A i, j \in Items : ~Removes(i) /\ Removes(j) => Rank[i] < Rank[j]
  /\ \A i \in Items : \A d \in Dependencies[i] :
       IF Removes(i) THEN Removes(d) => Rank[i] < Rank[d]
                     ELSE ~Removes(d) /\ Rank[d] < Rank[i]
ASSUME BoundAssumption ==
  /\ MaxPosts \in Nat
  /\ MaxFaults \in Nat
  /\ FaultKinds \subseteq AllFaults
  /\ AllowChoices \subseteq SUBSET Actions

VARIABLES
  live,     \* what Fabric shows under each item's name: physical ID, content
  fate,     \* what became of each create request of each item
  wire,     \* update, staging and delete requests Fabric has yet to handle
  cp,       \* the checkpoint file: one entry per item
  result,   \* status in the result file
  pc,       \* phase of the running apply, "idle" when no process runs
  todo,     \* items the current phase has yet to visit
  plan,     \* the current plan, read from Fabric when the run started
  allow,    \* the allow-* flags of this run
  verified, \* items this run has recovered or read back (trustedResumes)
  cur,      \* item in hand
  at,       \* the next thing the run does with it
  target,   \* physical ID (or create request) the run works with
  call,     \* the write the run waits for, and its answer so far
  faults    \* faults so far

fabricVars == <<live, fate, wire>>
fileVars   == <<cp, result>>
runVars    == <<pc, todo, plan, allow, verified>>
handVars   == <<cur, at, target, call>>
vars == <<fabricVars, fileVars, runVars, handVars, faults>>

(* Physical IDs: 0 is the item the plan was approved against, n > 0 the one *)
(* create request n made, -1 one another actor made.                        *)
ApprovedId == 0
ForeignId  == -1
Posts == 1..MaxPosts
Ids   == ForeignId..MaxPosts

Contents == {"absent", "approved", "partial", "shell", "desired", "foreign"}
Fates    == {"unsent", "wire", "dropped", "rejected", "running", "failed",
             "created201", "created202"}
Created  == {"created201", "created202"}
NoCall   == [ticket |-> 0, answer |-> "-"]
Absent   == [id |-> ApprovedId, content |-> "absent"]

CpPhases == {"none", "pendingCreate", "pendingOperation", "pendingUpdate",
             "pendingDelete", "completed"}
Entry(phase, id) == [phase |-> phase, id |-> id, ref |-> "-", base |-> "absent"]
NoEntry == Entry("none", ApprovedId)

(* An accepted create: by its operation, or by the hash of the shell it made.*)
Accepted(id, ref, base) ==
  [phase |-> "pendingOperation", id |-> id, ref |-> ref, base |-> base]

(* What must be finished before an item is touched: to be present, what it  *)
(* depends on; to be absent, all that is to be present, and what depends on *)
(* it.                                                                      *)
Predecessors ==
  [i \in Items |->
     IF Removes(i) THEN {j \in Items : ~Removes(j) \/ i \in Dependencies[j]}
                   ELSE Dependencies[i]]

(* The state the reviewer approved: what planning saw.                      *)
Approved(i) ==
  CASE Action[i] \in {"create", "absent"} -> Absent
    [] Action[i] \in {"update", "delete"} -> [id |-> ApprovedId, content |-> "approved"]
    [] OTHER                              -> [id |-> ApprovedId, content |-> "desired"]

(* Reading an item back against its desired state.                          *)
Desired(i, id, state) ==
  IF Removes(i) THEN state.content = "absent"
                ELSE state.id = id /\ state.content = "desired"

(* A completed item must be a no-op of the current plan, under the physical *)
(* ID the checkpoint recorded.                                              *)
IsCompletedItemCurrentNoOp(i, state) == Desired(i, cp[i].id, state)

\* Mutant: an update interrupted between its two requests is not recognised.
HasRecoveryProofApprovedOnly(i, state) == state = Approved(i) /\ Type[i] # "Lakehouse"

(* The proof under which an interrupted update may be run again: the exact  *)
(* approved state, or approved definition under already updated metadata.   *)
HasRecoveryProof(i, state) ==
  /\ state.id = ApprovedId
  /\ \/ Type[i] \in (VerifyFirstTypes \cup ShellTypes)
        /\ state.content \in {"approved", "partial"}
     \/ Type[i] = "SparkCustomPool" /\ state.content = "approved"

(* Definition adapters PATCH metadata and then stage the definition; the    *)
(* others have a single PATCH.                                              *)
TwoPhaseUpdate(i) == Type[i] \notin AckFirstTypes

Fault(kind) ==
  /\ kind \in FaultKinds
  /\ faults < MaxFaults
  /\ faults' = faults + 1

-----------------------------------------------------------------------------
Init ==
  /\ live = [i \in Items |-> Approved(i)]
  /\ fate = [i \in Items |-> [n \in Posts |-> "unsent"]]
  /\ wire = {}
  /\ cp = [i \in Items |-> NoEntry]
  /\ result = "none"
  /\ pc = "idle"
  /\ todo = {}
  /\ plan = [i \in Items |-> Approved(i)]
  /\ allow = {}
  /\ verified = {}
  /\ cur = NoItem /\ at = "-" /\ target = ApprovedId /\ call = NoCall
  /\ faults = 0

(* How a step ends: the run stops, moves to another step of the item in     *)
(* hand, or is done with the item.                                          *)
Stop ==
  /\ pc' = "idle"
  /\ todo' = {} /\ verified' = {}
  /\ plan' = [i \in Items |-> Approved(i)]
  /\ allow' = {}
  /\ cur' = NoItem /\ at' = "-" /\ target' = ApprovedId /\ call' = NoCall

Fail == Stop /\ result' = "failed"

Goto(step, id) ==
  /\ at' = step /\ target' = id /\ call' = NoCall
  /\ UNCHANGED <<cur, result, runVars>>

(* An error while an accepted create is resumed is reconciled against the   *)
(* live state; anywhere else it ends the run.                               *)
Throw ==
  IF pc = "operations" THEN Goto("reconcile", target) ELSE Fail

(* Only a terminally failed operation may also be reconciled by the run     *)
(* that dispatched the create.                                              *)
ThrowOperationFailed ==
  IF Creates(cur) THEN Goto("reconcileFailed", target) ELSE Fail

FinishItem(i) ==
  /\ todo' = todo \ {i}
  /\ verified' = verified \cup {i}
  /\ cur' = NoItem /\ at' = "-" /\ target' = ApprovedId /\ call' = NoCall
  /\ UNCHANGED <<pc, plan, allow, result>>

CompleteItem(i, id) ==
  /\ cp' = [cp EXCEPT ![i] = Entry("completed", id)]
  /\ FinishItem(i)

-----------------------------------------------------------------------------
(* Starting a run, and the phases every run goes through.                   *)

(* main.ts plans afresh, then applyApprovedPlan opens the result file.      *)
StartRun ==
  /\ pc = "idle"
  /\ pc' = "preflight"
  /\ result' = "in_progress"
  /\ plan' = live
  /\ allow' \in AllowChoices
  /\ verified' = {}
  /\ UNCHANGED <<fabricVars, cp, todo, handVars, faults>>

(* assertApplyActionAuthorized: read-only actions need no flag.             *)
Authorized(i) == Action[i] \in allow \cup {"no-op", "absent"}

InPhase(phase) == {i \in Items : cp[i].phase = phase}

(* preflightBeforeRecovery: nothing at all is touched unless every item is  *)
(* authorized and is where the checkpoint and the approved plan put it.     *)
PreflightBeforeRecoveryOk ==
  \A i \in Items :
    /\ Authorized(i)
    /\ cp[i].phase = "completed" => IsCompletedItemCurrentNoOp(i, plan[i])
    /\ cp[i].phase = "none" => plan[i] = Approved(i)

(* preflightPlan: the same, once recovery has settled what was pending.     *)
PreflightPlanOk ==
  \A i \in Items :
    IF cp[i].phase = "completed"
      THEN i \in verified \/ IsCompletedItemCurrentNoOp(i, plan[i])
      ELSE plan[i] = Approved(i) /\ Authorized(i)

EnterPhase(phase, items) ==
  /\ pc' = phase
  /\ todo' = items
  /\ UNCHANGED <<fabricVars, fileVars, plan, allow, verified, handVars, faults>>

Refuse == Fail /\ UNCHANGED <<fabricVars, cp, faults>>

Preflight ==
  /\ pc = "preflight"
  /\ IF PreflightBeforeRecoveryOk
       THEN EnterPhase("updates", InPhase("pendingUpdate"))
       ELSE Refuse

NextPhase ==
  /\ todo = {} /\ cur = NoItem
  /\ \/ pc = "updates" /\ EnterPhase("deletes", InPhase("pendingDelete"))
     \/ pc = "deletes" /\ EnterPhase("creates", InPhase("pendingCreate"))
     \/ pc = "creates" /\ EnterPhase("operations", InPhase("pendingOperation"))
     \/ pc = "operations" /\ IF PreflightPlanOk
                               THEN EnterPhase("verify", InPhase("completed"))
                               ELSE Refuse
     \/ pc = "verify" /\ EnterPhase("stages", Items)

(* Every item has had its turn: the result file is finalized.               *)
Succeed ==
  /\ pc = "stages" /\ todo = {} /\ cur = NoItem
  /\ pc' = "idle"
  /\ result' = "succeeded"
  /\ plan' = [i \in Items |-> Approved(i)] /\ allow' = {}
  /\ UNCHANGED <<fabricVars, cp, todo, verified, handVars, faults>>

\* Mutant: the stages of what is to be absent are not reversed.
IsNextUnreversed(i) ==
  /\ cur = NoItem
  /\ i \in todo
  /\ \A j \in todo : IF Removes(i) /\ Removes(j) THEN Rank[i] >= Rank[j] ELSE Rank[i] <= Rank[j]

(* Items are visited in the order of plan.stages.                           *)
IsNext(i) ==
  /\ cur = NoItem
  /\ i \in todo
  /\ \A j \in todo : Rank[i] <= Rank[j]

TakeUp(i, step, id) ==
  /\ cur' = i /\ at' = step /\ target' = id
  /\ UNCHANGED <<fabricVars, fileVars, runVars, call, faults>>

-----------------------------------------------------------------------------
(* Recovery of what earlier runs left behind.                               *)

ReconcilePendingUpdate(i) ==
  /\ pc = "updates" /\ IsNext(i)
  /\ IF HasRecoveryProof(i, live[i]) THEN TakeUp(i, "update", ApprovedId)
     ELSE IF Desired(i, cp[i].id, live[i]) THEN TakeUp(i, "verify", cp[i].id)
     ELSE Refuse

(* verifyApprovedIdentity reads by physical ID: gone, unchanged, or changed.*)
ApprovedIdentity(i) ==
  IF live[i].content = "absent" \/ live[i].id # ApprovedId THEN "absent"
  ELSE IF live[i] = Approved(i) THEN "unchanged" ELSE "changed"

ReconcilePendingDelete(i) ==
  /\ pc = "deletes" /\ IsNext(i)
  /\ CASE ApprovedIdentity(i) = "unchanged" -> TakeUp(i, "deleteSend", ApprovedId)
       [] ApprovedIdentity(i) = "absent"    -> TakeUp(i, "verify", ApprovedId)
       [] OTHER                             -> Refuse

\* Mutants: a create nobody saw is sent again; shells are adopted by name.
ReconcilePendingCreateResends(i) ==
  /\ pc = "creates" /\ IsNext(i)
  /\ CASE live[i].content = "desired" -> TakeUp(i, "adopt", live[i].id)
       [] live[i].content = "absent"  -> TakeUp(i, "post", ApprovedId)
       [] OTHER                       -> Refuse
ReconcilePendingCreateAdopts(i) ==
  /\ pc = "creates" /\ IsNext(i)
  /\ IF live[i].content = "desired" THEN TakeUp(i, "adopt", live[i].id) ELSE Refuse

(* A create that may or may not have happened is never sent again: either   *)
(* the item is there as desired, or the run refuses.  Shell types have no   *)
(* proof that a same-name item is theirs.                                   *)
ReconcilePendingCreate(i) ==
  /\ pc = "creates" /\ IsNext(i)
  /\ IF Type[i] \notin ShellTypes /\ live[i].content = "desired"
       THEN TakeUp(i, "adopt", live[i].id)
       ELSE Refuse

ResumePendingOperation(i) ==
  /\ pc = "operations" /\ IsNext(i)
  /\ TakeUp(i, IF cp[i].ref = "shell" THEN "shellCheck" ELSE "poll", cp[i].id)

\* Mutant: the checkpoint is believed without reading the item.
VerifyCheckpointedItemTrusting(i) ==
  /\ pc = "verify" /\ IsNext(i)
  /\ todo' = todo \ {i}
  /\ UNCHANGED <<fabricVars, fileVars, pc, plan, allow, verified, handVars, faults>>

(* verifyCheckpointedItems                                                  *)
VerifyCheckpointedItem(i) ==
  /\ pc = "verify" /\ IsNext(i)
  /\ IF Desired(i, cp[i].id, live[i])
       THEN FinishItem(i) /\ UNCHANGED <<fabricVars, cp, faults>>
       ELSE Refuse

-----------------------------------------------------------------------------
(* The stage loop: an item an earlier run completed is passed over; any     *)
(* other is read again and must still be exactly as approved.               *)

FirstStep(i) ==
  CASE Creates(i)           -> "create"
    [] Updates(i)           -> "update"
    [] Action[i] = "delete" -> "delete"
    [] OTHER                -> "verify"

\* Mutant: what an earlier run completed is begun again.
SkipCompletedNever(i) ==
  /\ pc = "stages" /\ IsNext(i)
  /\ cp[i].phase = "completed"
  /\ TakeUp(i, FirstStep(i), ApprovedId)

SkipCompleted(i) ==
  /\ pc = "stages" /\ IsNext(i)
  /\ cp[i].phase = "completed"
  /\ todo' = todo \ {i}
  /\ UNCHANGED <<fabricVars, fileVars, pc, plan, allow, verified, handVars, faults>>

BeginItem(i) ==
  /\ pc = "stages" /\ IsNext(i)
  /\ cp[i].phase # "completed"
  /\ IF live[i] = Approved(i)    \* assertFreshItemHasNotDrifted
       THEN TakeUp(i, FirstStep(i), ApprovedId)
       ELSE Refuse

-----------------------------------------------------------------------------
(* Creating.                                                                *)

\* Mutant: the POST goes out before the intent is in the file.
RecordCreateIntentLate(i) ==
  /\ cur = i /\ at = "create"
  /\ Goto("post", target)
  /\ UNCHANGED <<fabricVars, cp, faults>>

RecordCreateIntent(i) ==
  /\ cur = i /\ at = "create"
  /\ cp' = [cp EXCEPT ![i] = Entry("pendingCreate", ApprovedId)]
  /\ Goto("post", target)
  /\ UNCHANGED <<fabricVars, faults>>

DispatchCreate(i) ==
  /\ cur = i /\ at = "post"
  /\ \E n \in Posts :
       /\ fate[i][n] = "unsent"
       /\ \A m \in Posts : m < n => fate[i][m] # "unsent"
       /\ fate' = [fate EXCEPT ![i][n] = "wire"]
       /\ Goto("created?", n)
  /\ UNCHANGED <<live, wire, cp, faults>>

(* 201, 202 or a definitive rejection; any other outcome is Ambiguous.      *)
TakeCreateReply(i) ==
  /\ cur = i /\ at = "created?"
  /\ CASE fate[i][target] = "created201" ->
            Goto("known", target) /\ UNCHANGED <<cp>>
       [] fate[i][target] \in {"running", "failed", "created202"} ->
            /\ cp' = [cp EXCEPT ![i] = Accepted(target, "operation", "absent")]
            /\ Goto("poll", target)
       [] fate[i][target] = "rejected" ->
            cp' = [cp EXCEPT ![i] = NoEntry] /\ Fail
       [] OTHER -> FALSE
  /\ UNCHANGED <<fabricVars, faults>>

(* waitForOperation                                                         *)
PollOperation(i) ==
  /\ cur = i /\ at = "poll"
  /\ \/ fate[i][target] = "created202" /\ Goto("known", target)
     \/ fate[i][target] = "failed" /\ ThrowOperationFailed
  /\ UNCHANGED <<fabricVars, cp, faults>>

(* The physical ID is known.  A resumed shell must still be untouched.      *)
LearnCreated(i) ==
  /\ cur = i /\ at = "known"
  /\ CASE Type[i] \in AckFirstTypes -> Goto("ack", target)
       [] Type[i] \in VerifyFirstTypes -> Goto("verify", target)
       [] OTHER ->
            Goto(IF pc = "operations" THEN "untouched?"
                 ELSE IF Type[i] = "ApacheAirflowJob" \/ fate[i][target] = "created201"
                   THEN "shellProof"
                 ELSE "stage", target)
  /\ UNCHANGED <<fabricVars, cp, faults>>

AcknowledgeMutation(i) ==
  /\ cur = i /\ at = "ack"
  /\ cp' = [cp EXCEPT ![i] = Entry("completed", target)]
  /\ Goto("verify", target)
  /\ UNCHANGED <<fabricVars, faults>>

\* Mutant: the shell is staged under the create intent alone.
RecordShellProofSkipped(i) ==
  /\ cur = i /\ at = "shellProof"
  /\ Goto("stage", target)
  /\ UNCHANGED <<fabricVars, cp, faults>>

RecordShellProof(i) ==
  /\ cur = i /\ at = "shellProof"
  /\ IF live[i].id = target /\ live[i].content # "absent"
       THEN /\ cp' = [cp EXCEPT ![i] = Accepted(target, "shell", live[i].content)]
            /\ Goto("stage", target)
       ELSE Fail /\ UNCHANGED cp
  /\ UNCHANGED <<fabricVars, faults>>

\* Mutant: no adapter recognises its own finished definition.
CheckShellUntouchedOnly(i) ==
  /\ cur = i /\ at \in {"shellCheck", "untouched?"}
  /\ LET baseline == IF at = "shellCheck" THEN cp[i].base ELSE "shell"
     IN IF live[i].id = target /\ live[i].content = baseline THEN Goto("stage", target) ELSE Throw
  /\ UNCHANGED <<fabricVars, cp, faults>>

(* Resuming a shell: by the recorded hash after a 201, by the service       *)
(* defaults after a 202.  Only the Airflow adapter also recognises its own  *)
(* finished definition.                                                     *)
CheckShell(i) ==
  /\ cur = i /\ at \in {"shellCheck", "untouched?"}
  /\ LET baseline == IF at = "shellCheck" THEN cp[i].base ELSE "shell"
     IN IF live[i].id # target \/ live[i].content = "absent" THEN Throw
        ELSE IF Type[i] = "ApacheAirflowJob" /\ live[i].content = "desired"
          THEN Goto("verify", target)
        ELSE IF live[i].content = baseline THEN Goto("stage", target)
        ELSE Throw
  /\ UNCHANGED <<fabricVars, cp, faults>>
-----------------------------------------------------------------------------
(* Reading back, and settling an operation that ended in an error.          *)

VerifyItem(i) ==
  /\ cur = i /\ at = "verify"
  /\ IF Desired(i, target, live[i])
       THEN CompleteItem(i, target)
       ELSE Throw /\ UNCHANGED cp
  /\ UNCHANGED <<fabricVars, faults>>

VerifyAdopted(i) ==
  /\ cur = i /\ at = "adopt"
  /\ IF Desired(i, target, live[i])
       THEN CompleteItem(i, target)
       ELSE Fail /\ UNCHANGED cp
  /\ UNCHANGED <<fabricVars, faults>>

(* The run that sent the create refuses only a DataAgent; resuming also     *)
(* refuses an Airflow job and an ID other than the recorded one.            *)
MayAdopt(i) ==
  IF pc = "operations"
    THEN /\ Type[i] \notin ShellTypes
         /\ cp[i].phase = "completed" => cp[i].id = live[i].id
    ELSE Type[i] # "DataAgent"

(* The catch blocks of resumePendingOperations and                          *)
(* reconcileInitialTerminalCreate.                                          *)
ReconcileFailedCreate(i) ==
  /\ cur = i /\ at \in {"reconcile", "reconcileFailed"}
  /\ CASE live[i].content = "desired" /\ MayAdopt(i) ->
            Goto("adopt", live[i].id) /\ UNCHANGED cp
       [] at = "reconcileFailed" /\ live[i].content = "absent" ->
            cp' = [cp EXCEPT ![i] = NoEntry] /\ Fail
       [] OTHER -> Fail /\ UNCHANGED cp
  /\ UNCHANGED <<fabricVars, faults>>

-----------------------------------------------------------------------------
(* Updating, staging and deleting.                                          *)

Awaited(r) ==
  /\ cur = r.item
  /\ at = (CASE r.kind = "patch" -> "patched?" [] r.kind = "stage" -> "staged?"
              [] OTHER -> "deleted?")
  /\ r.ticket = call.ticket

(* A run leaves a request on the wire only through a fault, so the number   *)
(* of faults so far tells its requests from those of the runs before it.    *)
Send(i, kind, step) ==
  /\ wire' = wire \cup {[item |-> i, kind |-> kind, id |-> target, ticket |-> faults]}
  /\ at' = step
  /\ call' = [ticket |-> faults, answer |-> "-"]
  /\ UNCHANGED <<live, fate, fileVars, runVars, cur, target, faults>>

\* Mutant: the PATCH goes out before the intent is in the file.
RecordUpdateIntentLate(i) ==
  /\ cur = i /\ at = "update"
  /\ Goto("patchSend", target)
  /\ UNCHANGED <<fabricVars, cp, faults>>

RecordUpdateIntent(i) ==
  /\ cur = i /\ at = "update"
  /\ cp' = [cp EXCEPT ![i] = Entry("pendingUpdate", target)]
  /\ Goto("patchSend", target)
  /\ UNCHANGED <<fabricVars, faults>>

DispatchPatch(i) == cur = i /\ at = "patchSend" /\ Send(i, "patch", "patched?")

TakePatchReply(i) ==
  /\ cur = i /\ at = "patched?"
  /\ \/ call.answer = "ok" /\ UNCHANGED cp
        /\ Goto(IF TwoPhaseUpdate(i) THEN "stage"
                ELSE IF pc = "stages" THEN "ack" ELSE "verify", target)
     \/ call.answer = "rejected" /\ cp' = [cp EXCEPT ![i] = NoEntry] /\ Fail
  /\ UNCHANGED <<fabricVars, faults>>

DispatchStage(i) == cur = i /\ at = "stage" /\ Send(i, "stage", "staged?")

(* Three adapters drop the update intent when the definition is rejected    *)
(* after the metadata was updated; the others keep it.                      *)
ForgetsRejectedStage(i) ==
  Updates(i) /\ Type[i] \in {"Ontology", "ApacheAirflowJob", "DataAgent"}

TakeStageReply(i) ==
  /\ cur = i /\ at = "staged?"
  /\ \/ call.answer = "ok" /\ Goto("verify", target) /\ UNCHANGED cp
     \/ call.answer = "rejected" /\ ForgetsRejectedStage(i)
        /\ cp' = [cp EXCEPT ![i] = NoEntry] /\ Fail
     \/ call.answer = "rejected" /\ ~ForgetsRejectedStage(i) /\ Throw /\ UNCHANGED cp
     \/ call.answer = "failed" /\ ThrowOperationFailed /\ UNCHANGED cp
  /\ UNCHANGED <<fabricVars, faults>>

VerifyBeforeDelete(i) ==
  /\ cur = i /\ at = "delete"
  /\ CASE ApprovedIdentity(i) = "unchanged" -> Goto("deleteIntent", target)
       [] ApprovedIdentity(i) = "absent"    -> Goto("verify", target)
       [] OTHER                             -> Fail
  /\ UNCHANGED <<fabricVars, cp, faults>>

RecordDeleteIntent(i) ==
  /\ cur = i /\ at = "deleteIntent"
  /\ cp' = [cp EXCEPT ![i] = Entry("pendingDelete", target)]
  /\ Goto("deleteSend", target)
  /\ UNCHANGED <<fabricVars, faults>>

DispatchDelete(i) == cur = i /\ at = "deleteSend" /\ Send(i, "delete", "deleted?")

TakeDeleteReply(i) ==
  /\ cur = i /\ at = "deleted?"
  /\ \/ call.answer = "ok" /\ Goto("verify", target)
     \/ call.answer = "rejected" /\ Fail
  /\ UNCHANGED <<fabricVars, cp, faults>>

(* A timeout, a 5xx, a 408 or a 429: the request may or may not have been   *)
(* handled, and may yet be.  A request that got lost ends no other way.     *)
Waiting == at \in {"created?", "poll", "patched?", "staged?", "deleted?"}

Lost(i) ==
  IF at \in {"created?", "poll"} THEN fate[i][target] = "dropped"
  ELSE call.answer = "-" /\ \A r \in wire : ~Awaited(r)

\* Mutant: a time-out is taken for a rejection.
AmbiguousIsRejection(i) ==
  /\ cur = i /\ Waiting
  /\ Fault("timeout")
  /\ cp' = [cp EXCEPT ![i] = NoEntry]
  /\ Fail /\ UNCHANGED fabricVars

Ambiguous(i) ==
  /\ cur = i /\ Waiting
  /\ Fault("timeout")
  /\ Throw
  /\ UNCHANGED <<fabricVars, cp>>

TimeOut(i) ==
  /\ cur = i /\ Waiting /\ Lost(i)
  /\ Throw
  /\ UNCHANGED <<fabricVars, cp, faults>>

Crash ==
  /\ pc # "idle"
  /\ Fault("crash")
  /\ Stop
  /\ UNCHANGED <<fabricVars, fileVars>>

-----------------------------------------------------------------------------
(* Fabric and other actors.                                                 *)

Serve == UNCHANGED <<fileVars, runVars, cur, at, target>>

(* Display names are unique: a create that loses the race is a conflict.    *)
NewContent(i) == IF Type[i] \in ShellTypes THEN "shell" ELSE "desired"

FabricCreates(i, n, outcome) ==
  /\ live[i] = Absent
  /\ live' = [live EXCEPT ![i] = [id |-> n, content |-> NewContent(i)]]
  /\ fate' = [fate EXCEPT ![i][n] = outcome]
  /\ UNCHANGED faults

FabricRefuses(i, n, outcome) ==
  /\ IF live[i] # Absent THEN UNCHANGED faults ELSE Fault("reject")
  /\ fate' = [fate EXCEPT ![i][n] = outcome]
  /\ UNCHANGED live

HandleCreate(i, n) ==
  /\ fate[i][n] = "wire"
  /\ \/ FabricCreates(i, n, "created201")
     \/ FabricRefuses(i, n, "rejected")
     \/ /\ fate' = [fate EXCEPT ![i][n] = "running"]
        /\ UNCHANGED <<live, faults>>
     \/ /\ Fault("drop")
        /\ fate' = [fate EXCEPT ![i][n] = "dropped"]
        /\ UNCHANGED live
  /\ UNCHANGED <<wire, call>> /\ Serve

FinishOperation(i, n) ==
  /\ fate[i][n] = "running"
  /\ \/ FabricCreates(i, n, "created202")
     \/ FabricRefuses(i, n, "failed")
  /\ UNCHANGED <<wire, call>> /\ Serve

(* What a write leaves behind on the item it addresses.  A two-phase PATCH  *)
(* leaves the definition, and any foreign edit of it, as it was.            *)
Written(r, state) ==
  CASE r.kind = "delete" -> Absent
    [] r.kind = "patch" /\ TwoPhaseUpdate(r.item) ->
         [id |-> state.id,
          content |-> IF state.content = "approved" THEN "partial" ELSE state.content]
    [] OTHER -> [id |-> state.id, content |-> "desired"]

Addresses(r, state) == state.content # "absent" /\ state.id = r.id

Answer(r, what) ==
  /\ wire' = wire \ {r}
  /\ call' = IF Awaited(r) THEN [ticket |-> call.ticket, answer |-> what] ELSE call

(* A DELETE of an item that is gone counts as done; any other request for   *)
(* a missing item is a 404, a definitive rejection.                         *)
HandleWrite(r) ==
  /\ r \in wire
  /\ \/ /\ Addresses(r, live[r.item])
        /\ live' = [live EXCEPT ![r.item] = Written(r, live[r.item])]
        /\ Answer(r, "ok") /\ UNCHANGED faults
     \/ /\ ~Addresses(r, live[r.item])
        /\ Answer(r, IF r.kind = "delete" THEN "ok" ELSE "rejected")
        /\ UNCHANGED <<live, faults>>
     \/ Fault("reject") /\ Answer(r, "rejected") /\ UNCHANGED live
     \/ /\ r.kind = "stage" /\ Fault("reject")
        /\ Answer(r, "failed") /\ UNCHANGED live
     \/ /\ Fault("drop")
        /\ wire' = wire \ {r} /\ UNCHANGED <<live, call>>
  /\ UNCHANGED fate /\ Serve

(* A portal user or another pipeline edits, removes or creates an item of   *)
(* the same name.                                                           *)
ForeignChange(i) ==
  /\ Fault("foreign")
  /\ \/ /\ live[i].content \notin {"absent", "foreign"}
        /\ live' = [live EXCEPT ![i] = [id |-> live[i].id, content |-> "foreign"]]
     \/ live[i].content # "absent" /\ live' = [live EXCEPT ![i] = Absent]
     \/ /\ live[i] = Absent
        /\ \E c \in {"desired", "foreign"} :
             live' = [live EXCEPT ![i] = [id |-> ForeignId, content |-> c]]
  /\ UNCHANGED <<fate, wire, fileVars, runVars, handVars>>

-----------------------------------------------------------------------------
Recover(i) ==
  \/ ReconcilePendingUpdate(i) \/ ReconcilePendingDelete(i)
  \/ ReconcilePendingCreate(i) \/ ResumePendingOperation(i)
  \/ VerifyCheckpointedItem(i)

CreateStep(i) ==
  \/ RecordCreateIntent(i) \/ DispatchCreate(i) \/ TakeCreateReply(i)
  \/ PollOperation(i) \/ LearnCreated(i) \/ AcknowledgeMutation(i)
  \/ RecordShellProof(i) \/ CheckShell(i) \/ ReconcileFailedCreate(i)

WriteStep(i) ==
  \/ RecordUpdateIntent(i) \/ DispatchPatch(i) \/ TakePatchReply(i)
  \/ DispatchStage(i) \/ TakeStageReply(i)
  \/ VerifyBeforeDelete(i) \/ RecordDeleteIntent(i) \/ DispatchDelete(i)
  \/ TakeDeleteReply(i) \/ TimeOut(i)

ItemStep(i) ==
  \/ Recover(i) \/ SkipCompleted(i) \/ BeginItem(i)
  \/ CreateStep(i) \/ WriteStep(i) \/ VerifyItem(i) \/ VerifyAdopted(i)

Process == Preflight \/ NextPhase \/ Succeed \/ \E i \in Items : ItemStep(i)

Fabric ==
  \/ \E i \in Items, n \in Posts : HandleCreate(i, n) \/ FinishOperation(i, n)
  \/ \E r \in wire : HandleWrite(r)

Disturb == Crash \/ \E i \in Items : Ambiguous(i) \/ ForeignChange(i)

Next == StartRun \/ Process \/ Fabric \/ Disturb

Spec == Init /\ [][Next]_vars

(* A run that is not killed keeps taking steps, and a request is answered   *)
(* or given up at the client's deadline.                                    *)
FairSpec == Spec /\ WF_vars(Process) /\ WF_vars(Fabric)

(* The operator reruns the action for as long as it has not succeeded.      *)
RerunSpec == FairSpec /\ WF_vars(StartRun)

-----------------------------------------------------------------------------
Phases == {"idle", "preflight", "updates", "deletes", "creates", "operations",
           "verify", "stages"}
Steps == {"-", "create", "post", "created?", "poll", "known", "ack", "shellProof",
          "shellCheck", "untouched?", "verify", "adopt", "reconcile",
          "reconcileFailed", "update", "patchSend", "patched?", "stage",
          "staged?", "delete", "deleteIntent", "deleteSend", "deleted?"}
States  == [id : Ids, content : Contents]
Entries == [phase : CpPhases, id : Ids, ref : {"-", "operation", "shell"},
            base : Contents]
Requests == [item : Items, kind : {"patch", "stage", "delete"}, id : Ids,
             ticket : 0..MaxFaults]

(* Every variable has its type: in particular a step that waits for a       *)
(* create always knows which request it waits for.                          *)
TypeOK ==
  /\ live \in [Items -> States]
  /\ fate \in [Items -> [Posts -> Fates]]
  /\ wire \subseteq Requests
  /\ cp \in [Items -> Entries]
  /\ result \in {"none", "in_progress", "failed", "succeeded"}
  /\ pc \in Phases
  /\ todo \subseteq Items /\ verified \subseteq Items
  /\ plan \in [Items -> States]
  /\ allow \subseteq Actions
  /\ cur \in Items \cup {NoItem}
  /\ at \in Steps
  /\ target \in Ids
  /\ call \in [ticket : 0..MaxFaults, answer : {"-", "ok", "rejected", "failed"}]
  /\ faults \in 0..MaxFaults

(* A create request that, for all the deployment can know, may still        *)
(* produce an item, or whose item is there.                                 *)
Outstanding(i, n) ==
  \/ fate[i][n] \in {"wire", "dropped", "running"}
  \/ fate[i][n] \in Created /\ live[i].id = n

(* No create is ever orphaned: while a request may still produce an item,   *)
(* or its item exists, the checkpoint file has an entry for that item, at   *)
(* whatever step the process is killed.                                     *)
WriteAhead ==
  \A i \in Items : (\E n \in Posts : Outstanding(i, n)) => cp[i].phase # "none"

(* Reruns never send a second create while the first may still succeed or   *)
(* did: at most one create request per item is outstanding.                 *)
AtMostOneCreate ==
  \A i \in Items : \A m, n \in Posts :
    Outstanding(i, m) /\ Outstanding(i, n) => m = n

(* An item is touched only when everything it depends on is finished, and   *)
(* removed only when everything to be present is finished and what depended *)
(* on it is gone, whatever kinds of entry earlier runs left behind.         *)
DependencyOrder ==
  \A i \in Items : cp[i].phase # "none" \/ (cur = i /\ pc = "stages") =>
    \A d \in Predecessors[i] : cp[d].phase = "completed"

(* A run that reports success has itself read back every item of the plan,  *)
(* the ones earlier runs completed included.                                *)
SuccessIsVerified ==
  result = "succeeded" =>
    /\ verified = Items
    /\ \A i \in Items : cp[i].phase = "completed"

(* A completed entry is final: no recovery path, rejection or rerun clears  *)
(* it or gives it another physical ID.                                      *)
CompletedIsFinal ==
  [][\A i \in Items : cp[i].phase = "completed" => cp'[i] = cp[i]]_vars

(* Every item is preflighted before the first mutation: whenever a request  *)
(* goes out, every item of the plan is authorized, and every item not yet   *)
(* begun was exactly as approved when the run read it.                      *)
Dispatches ==
  \/ wire' \ wire # {}
  \/ \E i \in Items, n \in Posts : fate[i][n] = "unsent" /\ fate'[i][n] = "wire"
MutationsArePreflighted ==
  [][Dispatches => \A i \in Items :
       Authorized(i) /\ (cp[i].phase = "none" => plan[i] = Approved(i))]_vars

(* An update or delete of an item goes out only under its recorded intent;  *)
(* a definition is staged on a created item only under its recorded proof.  *)
IntentBeforeMutation ==
  [][\A r \in wire' \ wire : cp[r.item].phase =
       (CASE Updates(r.item)         -> "pendingUpdate"
          [] Action[r.item] = "delete" -> "pendingDelete"
          [] OTHER                   -> "pendingOperation")]_vars

(* A shell is completed only with proof that this plan's own create request *)
(* made it: never because an item of the same name looks right.             *)
ProvenShell(type) ==
  \A i \in Items :
    Creates(i) /\ Type[i] = type /\ cp[i].phase = "completed" => cp[i].id \in Posts
DataAgentProvenance == ProvenShell("DataAgent")

(* While an update has left an item between its approved and its desired    *)
(* state, the checkpoint holds the intent that lets a rerun finish it.      *)
UpdateIsTracked ==
  \A i \in Items : Updates(i) /\ live[i].content = "partial" =>
    cp[i].phase = "pendingUpdate"

(* Kills, time-outs and lost requests only delay a deployment: reruns of    *)
(* the same plan eventually succeed, unless one of its creates was lost     *)
(* before Fabric answered it.                                               *)
Unanswered == \E i \in Items : cp[i].phase = "pendingCreate"
RerunsSucceed == <>(result = "succeeded" \/ []Unanswered)

(* README.md:489: a create whose operation or physical ID was checkpointed  *)
(* is resumed, and reruns complete it.                                      *)
AcceptedCreatesComplete ==
  \A i \in Items : cp[i].phase = "pendingOperation" ~> cp[i].phase = "completed"
=============================================================================
