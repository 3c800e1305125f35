-------------------------- MODULE ItemApplyTheorems --------------------------
(***************************************************************************)
(* What the checkpoint of an apply promises, as theorems: the safety       *)
(* properties, what a step may never do, and that ItemApply implements     *)
(* CreateLedger.                                                           *)
(***************************************************************************)
EXTENDS ItemApplyProofs, FiniteSetTheorems

USE DEF Ids, Posts, ApprovedId, ForeignId

(* No create is ever orphaned: a create that may still produce an item, or did, has an*)
(* entry in the checkpoint file (apply.ts, onCreateSubmitting before the POST).*)
THEOREM WriteAheadCorrect == Spec => []WriteAhead
<1>1. IInv => WriteAhead
  BY DEF IInv
<1> QED BY <1>1, InvariantCorrect, PTL

(* No rerun sends a second create while an earlier one may still succeed or did*)
(* (apply.ts, reconcilePendingCreates and resumePendingOperations).          *)
THEOREM AtMostOneCreateCorrect == Spec => []AtMostOneCreate
<1>1. IInv => AtMostOneCreate
  BY DEF IInv
<1> QED BY <1>1, InvariantCorrect, PTL

(* An item is worked on only when what must come before it is completed: the *)
(* dependencies of what is to be present; for a removal, everything to be    *)
(* present and the removal of what depends on it (the stage loop of          *)
(* applyApprovedPlan, over the stages of graph.ts).                          *)
THEOREM DependencyOrderCorrect == Spec => []DependencyOrder
<1>1. IInv => DependencyOrder
  BY DEF IInv
<1> QED BY <1>1, InvariantCorrect, PTL

(* A run that reports success has read back every item itself (verifyCheckpointedItems*)
(* and the read-backs of the stage loop).                                    *)
THEOREM SuccessIsVerifiedCorrect == Spec => []SuccessIsVerified
<1>1. IInv => SuccessIsVerified
  BY DEF IInv
<1> QED BY <1>1, InvariantCorrect, PTL

-----------------------------------------------------------------------------
(* Steps.                                                                   *)

(* The steps that write the entry of an item that is not completed.          *)
WritingSteps == {"create", "update", "deleteIntent", "ack", "created?", "shellProof",
                 "patched?", "staged?", "reconcileFailed"}

(* No step touches a completed entry: every write to the file comes from a step*)
(* whose entry is not completed, or repeats the ID that is there.            *)
LEMMA CompletedStep ==
  ASSUME IInv, Next, NEW i \in Items, cp[i].phase = "completed"
  PROVE  cp'[i] = cp[i]
<1> USE ItemsAssumption
<1>0. /\ cp \in [Items -> Entries] /\ cp[i] = Entry("completed", cp[i].id)
      /\ cur = i => at \notin WritingSteps
      /\ cur = i /\ at \in {"verify", "adopt"} => cp[i].id = target
  BY DEF IInv, TypeOK, EntryInv, HandInv, WritingSteps
<1>1. CASE cp' = cp
  BY <1>1
<1>2. ASSUME NEW j \in Items, cur = j, NEW e, cp' = [cp EXCEPT ![j] = e],
             at \in WritingSteps
      PROVE  cp'[i] = cp[i]
  BY <1>0, <1>2
<1>3. ASSUME NEW j \in Items, VerifyItem(j) \/ VerifyAdopted(j) PROVE cp'[i] = cp[i]
  <2>1. CASE CompleteItem(j, target)
    BY <1>0, <1>3, <2>1 DEF VerifyItem, VerifyAdopted, CompleteItem
  <2>2. CASE cp' = cp
    BY <2>2
  <2> QED BY <1>3, <2>1, <2>2 DEF VerifyItem, VerifyAdopted
<1>4. ASSUME NEW j \in Items, CreateStep(j) PROVE cp'[i] = cp[i]
  <2>1. CASE RecordCreateIntent(j) \/ AcknowledgeMutation(j)
    BY <1>2, <2>1 DEF WritingSteps, RecordCreateIntent, AcknowledgeMutation
  <2>2. CASE TakeCreateReply(j)
    BY <1>1, <1>2, <2>2 DEF WritingSteps, TakeCreateReply
  <2>3. CASE RecordShellProof(j)
    BY <1>1, <1>2, <2>3 DEF WritingSteps, RecordShellProof
  <2>4. CASE ReconcileFailedCreate(j)
    BY <1>1, <1>2, <2>4 DEF WritingSteps, ReconcileFailedCreate
  <2>5. CASE DispatchCreate(j) \/ PollOperation(j) \/ LearnCreated(j) \/ CheckShell(j)
    BY <1>1, <2>5 DEF DispatchCreate, PollOperation, LearnCreated, CheckShell
  <2> QED BY <1>4, <2>1, <2>2, <2>3, <2>4, <2>5 DEF CreateStep
<1>5. ASSUME NEW j \in Items, WriteStep(j) PROVE cp'[i] = cp[i]
  <2>1. CASE RecordUpdateIntent(j) \/ RecordDeleteIntent(j)
    BY <1>2, <2>1 DEF WritingSteps, RecordUpdateIntent, RecordDeleteIntent
  <2>2. CASE TakePatchReply(j) \/ TakeStageReply(j)
    BY <1>1, <1>2, <2>2 DEF WritingSteps, TakePatchReply, TakeStageReply
  <2>3. CASE DispatchPatch(j) \/ DispatchStage(j) \/ DispatchDelete(j)
    BY <1>1, <2>3 DEF DispatchPatch, DispatchStage, DispatchDelete, Send, fileVars
  <2>4. CASE VerifyBeforeDelete(j) \/ TakeDeleteReply(j) \/ TimeOut(j)
    BY <1>1, <2>4 DEF VerifyBeforeDelete, TakeDeleteReply, TimeOut
  <2> QED BY <1>5, <2>1, <2>2, <2>3, <2>4 DEF WriteStep
<1>6. ASSUME NEW j \in Items, Recover(j) \/ SkipCompleted(j) \/ BeginItem(j) PROVE cp'[i] = cp[i]
  <2>1. Recover(j) => cp' = cp
    BY DEF Recover, ReconcilePendingUpdate, ReconcilePendingDelete,
       ReconcilePendingCreate,
       ResumePendingOperation, VerifyCheckpointedItem, TakeUp, Refuse, fileVars
  <2>2. SkipCompleted(j) \/ BeginItem(j) => cp' = cp
    BY DEF SkipCompleted, BeginItem, TakeUp, Refuse, fileVars
  <2> QED BY <1>1, <1>6, <2>1, <2>2
<1>7. CASE StartRun \/ Preflight \/ NextPhase \/ Succeed
  BY <1>1, <1>7 DEF StartRun, Preflight, NextPhase, Succeed, EnterPhase, Refuse,
     fileVars
<1>8. ASSUME NEW j \in Items, NEW n \in Posts, HandleCreate(j, n) \/ FinishOperation(j, n)
      PROVE  cp'[i] = cp[i]
  BY <1>1, <1>8 DEF HandleCreate, FinishOperation, Serve, fileVars
<1>9. ASSUME NEW r \in wire, HandleWrite(r) PROVE cp'[i] = cp[i]
  BY <1>1, <1>9 DEF HandleWrite, Serve, fileVars
<1>10. ASSUME NEW j \in Items, Ambiguous(j) \/ ForeignChange(j) PROVE cp'[i] = cp[i]
  BY <1>1, <1>10 DEF Ambiguous, ForeignChange, fileVars
<1>11. CASE Crash
  BY <1>1, <1>11 DEF Crash, fileVars
<1> QED BY <1>3, <1>4, <1>5, <1>6, <1>7, <1>8, <1>9, <1>10, <1>11
  DEF Next, Process, ItemStep, Fabric, Disturb

(* The entry under which a request may leave.                                *)
SentUnder(r) == cp[r.item].phase =
       (CASE Updates(r.item)         -> "pendingUpdate"
          [] Action[r.item] = "delete" -> "pendingDelete"
          [] OTHER                   -> "pendingOperation")

(* A request leaves for the item in hand, under its entry.                   *)
LEMMA SendStep ==
  ASSUME IInv, NEW i \in Items,
         DispatchPatch(i) \/ DispatchStage(i) \/ DispatchDelete(i),
         NEW r \in wire' \ wire
  PROVE  r.item = i /\ SentUnder(r)
<1>1. cur = i /\ cur # NoItem /\ r.item = i
  BY ItemsAssumption DEF DispatchPatch, DispatchStage, DispatchDelete, Send
<1>2. CASE DispatchPatch(i)
  BY <1>1, <1>2 DEF DispatchPatch, SentUnder, IInv, CursorInv, UpdateSteps, HandInv,
     Updates
<1>3. CASE DispatchStage(i)
  BY <1>1, <1>3 DEF DispatchStage, SentUnder, IInv, CursorInv, HandInv, Creates, Updates
<1>4. CASE DispatchDelete(i)
  BY <1>1, <1>4 DEF DispatchDelete, SentUnder, IInv, CursorInv, DeleteSteps, HandInv,
     Updates
<1> QED BY <1>1, <1>2, <1>3, <1>4

(* A step writes at most one entry of the file.                              *)
OneEntryChanges ==
  cp' = cp \/ \E i \in Items : \A j \in Items : j # i => cp'[j] = cp[j]

(* A step of the run either reads and writes the file, or sends one request. *)
LEMMA StepKinds ==
  ASSUME IInv, Next
  PROVE  \/ UNCHANGED fabricVars /\ OneEntryChanges
         \/ \E i \in Items : \/ DispatchPatch(i) \/ DispatchStage(i) \/ DispatchDelete(i)
                            \/ DispatchCreate(i)
         \/ Fabric \/ \E i \in Items : ForeignChange(i)
<1> USE DEF OneEntryChanges
<1>1. CASE StartRun \/ Preflight \/ NextPhase \/ Succeed \/ Crash
  BY <1>1 DEF StartRun, Preflight, NextPhase, Succeed, Crash, EnterPhase, Refuse,
     fileVars
<1>2. ASSUME NEW i \in Items, Recover(i) \/ SkipCompleted(i) \/ BeginItem(i)
      PROVE  UNCHANGED fabricVars /\ UNCHANGED cp
  <2>1. Recover(i) => UNCHANGED fabricVars /\ UNCHANGED cp
    BY DEF Recover, ReconcilePendingUpdate, ReconcilePendingDelete,
       ReconcilePendingCreate,
       ResumePendingOperation, VerifyCheckpointedItem, TakeUp, Refuse, fileVars
  <2>2. SkipCompleted(i) \/ BeginItem(i) => UNCHANGED fabricVars /\ UNCHANGED cp
    BY DEF SkipCompleted, BeginItem, TakeUp, Refuse, fileVars
  <2> QED BY <1>2, <2>1, <2>2
<1>3. ASSUME NEW i \in Items, CreateStep(i)
      PROVE  (UNCHANGED fabricVars /\ OneEntryChanges) \/ DispatchCreate(i)
  <2>1. CASE PollOperation(i) \/ LearnCreated(i) \/ CheckShell(i)
    BY <2>1 DEF PollOperation, LearnCreated, CheckShell
  <2>2. CASE RecordCreateIntent(i) \/ AcknowledgeMutation(i)
    BY <2>2, ItemsAssumption DEF RecordCreateIntent, AcknowledgeMutation, IInv, TypeOK
  <2>3. CASE TakeCreateReply(i)
    BY <2>3, ItemsAssumption DEF TakeCreateReply, IInv, TypeOK
  <2>4. CASE RecordShellProof(i)
    BY <2>4, ItemsAssumption DEF RecordShellProof, IInv, TypeOK
  <2>5. CASE ReconcileFailedCreate(i)
    BY <2>5, ItemsAssumption DEF ReconcileFailedCreate, IInv, TypeOK
  <2> QED BY <1>3, <2>1, <2>2, <2>3, <2>4, <2>5 DEF CreateStep
<1>4. ASSUME NEW i \in Items, WriteStep(i)
      PROVE  \/ UNCHANGED fabricVars /\ OneEntryChanges
             \/ DispatchPatch(i) \/ DispatchStage(i) \/ DispatchDelete(i)
  <2>1. CASE RecordUpdateIntent(i) \/ RecordDeleteIntent(i)
    BY <2>1, ItemsAssumption DEF RecordUpdateIntent, RecordDeleteIntent, IInv, TypeOK
  <2>2. CASE TakePatchReply(i) \/ TakeStageReply(i)
    BY <2>2, ItemsAssumption DEF TakePatchReply, TakeStageReply, IInv, TypeOK
  <2>3. CASE VerifyBeforeDelete(i) \/ TakeDeleteReply(i) \/ TimeOut(i)
    BY <2>3 DEF VerifyBeforeDelete, TakeDeleteReply, TimeOut
  <2> QED BY <1>4, <2>1, <2>2, <2>3 DEF WriteStep
<1>5. ASSUME NEW i \in Items, VerifyItem(i) \/ VerifyAdopted(i) \/ Ambiguous(i)
      PROVE  UNCHANGED fabricVars /\ OneEntryChanges
  BY <1>5, ItemsAssumption DEF VerifyItem, VerifyAdopted, Ambiguous, CompleteItem,
     IInv, TypeOK
<1> QED BY <1>1, <1>2, <1>3, <1>4, <1>5
  DEF Next, Process, ItemStep, Disturb

(* Only the run sends requests.                                              *)
LEMMA OutsideSendsNothing ==
  ASSUME IInv, Fabric \/ \E i \in Items : ForeignChange(i)
  PROVE  wire' \subseteq wire /\ ~Dispatches
<1>1. \A i \in Items, n \in Posts : fate[i][n] = "unsent" => fate'[i][n] # "wire"
  BY OutsideOnly DEF OnlyCloses
<1>2. wire' \subseteq wire
  BY DEF Fabric, HandleCreate, FinishOperation, HandleWrite, Answer, ForeignChange
<1> QED BY <1>1, <1>2 DEF Dispatches

(* The steps that send a request.                                            *)
LEMMA Dispatching ==
  ASSUME IInv, Next, Dispatches
  PROVE  \E i \in Items : DispatchPatch(i) \/ DispatchStage(i) \/ DispatchDelete(i) \/ DispatchCreate(i)
<1>1. ~UNCHANGED fabricVars
  BY DEF Dispatches, fabricVars
<1> QED BY <1>1, StepKinds, OutsideSendsNothing

(* Completed entries are final: nothing a run, a rerun or Fabric does changes one.*)
THEOREM CompletedIsFinalCorrect == Spec => CompletedIsFinal
<1>1. IInv /\ [Next]_vars => [\A i \in Items : cp[i].phase = "completed" => cp'[i] = cp[i]]_vars
  BY CompletedStep
<1> QED BY <1>1, InvariantCorrect, PTL DEF Spec, CompletedIsFinal

(* A PATCH, a staged definition or a DELETE leaves only under its own entry in the*)
(* checkpoint file (onCreateSubmitting, recordPendingUpdate, onDeleteSubmitting).*)
THEOREM IntentBeforeMutationCorrect == Spec => IntentBeforeMutation
<1> DEFINE Logged == \A r \in wire' \ wire : SentUnder(r)
<1>1. IInv /\ [Next]_vars => [Logged]_vars
  <2> SUFFICES ASSUME IInv, Next, NEW r \in wire' \ wire PROVE SentUnder(r)
    OBVIOUS
  <2>1. PICK i \in Items : DispatchPatch(i) \/ DispatchStage(i) \/ DispatchDelete(i) \/ DispatchCreate(i)
    BY Dispatching DEF Dispatches
  <2>2. ~DispatchCreate(i)
    BY DEF DispatchCreate
  <2> QED BY <2>1, <2>2, SendStep
<1>2. IntentBeforeMutation <=> [][\A r \in wire' \ wire : SentUnder(r)]_vars
  BY DEF IntentBeforeMutation, SentUnder
<1> QED BY <1>1, <1>2, InvariantCorrect, PTL DEF Spec

(* Nothing is sent before every item of the plan is authorized and was seen where the*)
(* plan puts it (preflightBeforeRecovery).                                   *)
THEOREM MutationsArePreflightedCorrect == Spec => MutationsArePreflighted
<1> DEFINE Ok == \A i \in Items : Authorized(i) /\ (cp[i].phase = "none" => plan[i] = Approved(i))
<1>1. IInv /\ [Next]_vars => [Dispatches => Ok]_vars
  <2> SUFFICES ASSUME IInv, Next, Dispatches PROVE Ok
    OBVIOUS
  <2>1. PICK i \in Items : DispatchPatch(i) \/ DispatchStage(i) \/ DispatchDelete(i) \/ DispatchCreate(i)
    BY Dispatching
  <2>2. cur # NoItem
    BY <2>1, ItemsAssumption DEF DispatchPatch, DispatchStage, DispatchDelete,
       DispatchCreate
  <2> QED BY <2>2, InHand DEF IInv, PreflightInv
<1> QED BY <1>1, InvariantCorrect, PTL DEF Spec, MutationsArePreflighted

-----------------------------------------------------------------------------
(* Provenance.                                                              *)

(* An item that this plan creates as a Data Agent.                           *)
Agent(i) == Creates(i) /\ Type[i] = "DataAgent"

(* Nobody works on an agent but under the ID its own create request gave it, and*)
(* no path that finds an item by its name leads to one.                      *)
AgentInv ==
  \A i \in Items : Agent(i) =>
    /\ cp[i].phase = "completed" => cp[i].id \in Posts
    /\ cur = i => at \notin {"adopt", "ack"}
    /\ cur = i /\ at \in {"stage", "staged?", "verify"} => target \in Posts

(* A step that leaves the entry alone, and the item in hand or drops it.     *)
LEMMA AgentIdle ==
  ASSUME AgentInv, cp' = cp, cur' = NoItem \/ UNCHANGED <<cur, at, target>>
  PROVE  AgentInv'
BY ItemsAssumption DEF AgentInv, Agent

(* Steps at which an agent may not be, and those that use its ID.            *)
AgentMayGo(i, step, id) ==
  Agent(i) => step \notin {"adopt", "ack"} /\ (step \in {"stage", "staged?", "verify"} => id \in Posts)

(* The item in hand moves on, or the run ends.                               *)
LEMMA AgentMoves ==
  ASSUME IInv, AgentInv, NEW i \in Items, cur = i, cp' = cp,
         Fail \/ Throw \/ ThrowOperationFailed
           \/ \E step \in Steps, id \in Ids : Goto(step, id) /\ AgentMayGo(i, step, id)
  PROVE  AgentInv'
<1>1. CASE Fail
  BY <1>1, AgentIdle DEF Fail, Stop
<1>2. ASSUME NEW step, NEW id, Goto(step, id), AgentMayGo(i, step, id) PROVE AgentInv'
  BY <1>2 DEF Goto, AgentMayGo, AgentInv, Agent
<1>3. CASE Throw
  BY <1>1, <1>2, <1>3 DEF Throw, AgentMayGo
<1>4. CASE ThrowOperationFailed
  BY <1>1, <1>2, <1>4 DEF ThrowOperationFailed, AgentMayGo
<1> QED BY <1>1, <1>2, <1>3, <1>4

(* The same, when the entry of the item in hand is written but not completed. *)
LEMMA AgentRecorded ==
  ASSUME IInv, AgentInv, NEW i \in Items, cur = i,
         NEW e, e.phase # "completed", cp' = [cp EXCEPT ![i] = e],
         Fail \/ \E step \in Steps, id \in Ids : Goto(step, id) /\ AgentMayGo(i, step, id)
  PROVE  AgentInv'
<1> USE ItemsAssumption
<1>0. cp \in [Items -> Entries]
  BY DEF IInv, TypeOK
<1>1. CASE Fail
  BY <1>0, <1>1 DEF Fail, Stop, AgentInv, Agent
<1>2. ASSUME NEW step, NEW id, Goto(step, id), AgentMayGo(i, step, id) PROVE AgentInv'
  BY <1>0, <1>2 DEF Goto, AgentMayGo, AgentInv, Agent
<1> QED BY <1>1, <1>2

(* Taking up an agent: a pending create is refused, an operation is resumed. *)
LEMMA AgentTakenUp ==
  ASSUME IInv, AgentInv, NEW i \in Items, Recover(i) \/ SkipCompleted(i) \/ BeginItem(i)
  PROVE  AgentInv'
<1> USE ItemsAssumption
<1>1. ASSUME NEW step, NEW id, TakeUp(i, step, id), Agent(i) => step \notin {"adopt", "ack", "verify", "stage", "staged?"}
      PROVE  AgentInv'
  BY <1>1 DEF TakeUp, fileVars, AgentInv, Agent
<1>2. CASE Refuse
  BY <1>2, AgentIdle DEF Refuse, Fail, Stop
<1>3. /\ pc = "updates" => ~Agent(i)
      /\ pc = "deletes" => ~Agent(i)
  <2>1. ASSUME pc \in {"updates", "deletes"}, IsNext(i) PROVE ~Agent(i)
    <3>1. cp[i].phase \in Visits[pc]
      BY <2>1 DEF IInv, PendingInv, IsNext
    <3> QED BY <2>1, <3>1 DEF IInv, EntryInv, Visits, Agent, Creates, Updates
  <2>2. IsNext(i) \/ pc \notin {"updates", "deletes"}
    BY DEF Recover, SkipCompleted, BeginItem, ReconcilePendingUpdate, ReconcilePendingDelete,
       ReconcilePendingCreate, ResumePendingOperation, VerifyCheckpointedItem
  <2> QED BY <2>1, <2>2
<1>4. CASE ReconcilePendingUpdate(i) \/ ReconcilePendingDelete(i)
  BY <1>1, <1>2, <1>3, <1>4 DEF ReconcilePendingUpdate, ReconcilePendingDelete
<1>5. CASE ReconcilePendingCreate(i)
  BY <1>1, <1>2, <1>5 DEF ReconcilePendingCreate, Agent, ShellTypes
<1>6. CASE ResumePendingOperation(i)
  BY <1>1, <1>6 DEF ResumePendingOperation
<1>7. CASE VerifyCheckpointedItem(i)
  BY <1>2, <1>7, AgentIdle DEF VerifyCheckpointedItem, FinishItem
<1>8. CASE SkipCompleted(i)
  BY <1>8, AgentIdle DEF SkipCompleted, fileVars, handVars
<1>9. CASE BeginItem(i)
  BY <1>1, <1>2, <1>9 DEF BeginItem, FirstStep, Agent
<1> QED BY <1>4, <1>5, <1>6, <1>7, <1>8, <1>9 DEF Recover

(* The steps of a create: an agent is never acknowledged before it was read, nor*)
(* adopted when its operation failed.                                        *)
LEMMA AgentCreated ==
  ASSUME IInv, AgentInv, NEW i \in Items, CreateStep(i)
  PROVE  AgentInv'
<1> USE ItemsAssumption
<1>0. /\ cur = i /\ cur # NoItem
      /\ at \in {"poll", "known", "shellProof", "shellCheck", "untouched?"} => target \in Posts
      /\ cp \in [Items -> Entries]
  BY DEF CreateStep, RecordCreateIntent, DispatchCreate, TakeCreateReply, PollOperation,
     LearnCreated, AcknowledgeMutation, RecordShellProof, CheckShell, ReconcileFailedCreate,
     IInv, RequestInv, TypeOK
<1>a. target \in Ids /\ \A id \in Posts : id \in Ids
  BY BoundAssumption DEF IInv, TypeOK
<1>b. NoEntry.phase # "completed" /\ Entry("pendingCreate", ApprovedId).phase # "completed"
      /\ \A id, ref, base : Accepted(id, ref, base).phase # "completed"
  BY DEF NoEntry, Entry, Accepted
<1>4. CASE RecordCreateIntent(i)
  <2>1. AgentMayGo(i, "post", target)
    BY DEF AgentMayGo
  <2> QED BY <1>0, <1>a, <1>b, <1>4, <2>1, AgentRecorded DEF RecordCreateIntent, Steps
<1>5. CASE DispatchCreate(i)
  <2>1. \A n : AgentMayGo(i, "created?", n)
    BY DEF AgentMayGo
  <2> QED BY <1>0, <1>a, <1>5, <2>1, AgentMoves DEF DispatchCreate, Steps
<1>6. CASE TakeCreateReply(i)
  <2>1. AgentMayGo(i, "known", target) /\ AgentMayGo(i, "poll", target)
    BY DEF AgentMayGo
  <2>2. CASE cp' = cp
    BY <1>0, <1>a, <1>6, <2>1, <2>2, AgentMoves DEF TakeCreateReply, Steps
  <2>3. CASE cp' # cp
    BY <1>0, <1>a, <1>b, <1>6, <2>1, <2>3, AgentRecorded DEF TakeCreateReply, Steps
  <2> QED BY <2>2, <2>3
<1>7. CASE PollOperation(i)
  <2>1. AgentMayGo(i, "known", target)
    BY DEF AgentMayGo
  <2> QED BY <1>0, <1>a, <1>7, <2>1, AgentMoves DEF PollOperation, Steps
<1>8. CASE LearnCreated(i)
  <2>1. /\ Type[i] \in AckFirstTypes => AgentMayGo(i, "ack", target)
        /\ AgentMayGo(i, "verify", target) /\ AgentMayGo(i, "untouched?", target)
        /\ AgentMayGo(i, "shellProof", target) /\ AgentMayGo(i, "stage", target)
    BY <1>0, <1>8 DEF LearnCreated, AgentMayGo, Agent, AckFirstTypes
  <2> QED BY <1>0, <1>a, <1>8, <2>1, AgentMoves DEF LearnCreated, Steps
<1>9. CASE AcknowledgeMutation(i)
  <2>1. ~Agent(i)
    BY <1>9 DEF AcknowledgeMutation, AgentInv
  <2> QED BY <1>0, <1>9, <2>1 DEF AcknowledgeMutation, Goto, AgentInv, Agent
<1>10. CASE RecordShellProof(i)
  <2>1. AgentMayGo(i, "stage", target)
    BY <1>0, <1>10 DEF RecordShellProof, AgentMayGo
  <2>2. CASE cp' = cp
    BY <1>0, <1>a, <1>10, <2>1, <2>2, AgentMoves DEF RecordShellProof, Steps
  <2>3. CASE cp' # cp
    BY <1>0, <1>a, <1>b, <1>10, <2>1, <2>3, AgentRecorded DEF RecordShellProof, Steps
  <2> QED BY <2>2, <2>3
<1>11. CASE CheckShell(i)
  <2>1. AgentMayGo(i, "stage", target) /\ AgentMayGo(i, "verify", target)
    BY <1>0, <1>11 DEF CheckShell, AgentMayGo
  <2> QED BY <1>0, <1>a, <1>11, <2>1, AgentMoves DEF CheckShell, Steps
<1>12. CASE ReconcileFailedCreate(i)
  <2>1. live[i].id \in Ids /\ (MayAdopt(i) => AgentMayGo(i, "adopt", live[i].id))
    BY DEF MayAdopt, AgentMayGo, Agent, ShellTypes, IInv, TypeOK, States
  <2>2. CASE cp' = cp
    BY <1>0, <1>12, <2>1, <2>2, AgentMoves DEF ReconcileFailedCreate, Steps
  <2>3. CASE cp' # cp
    BY <1>0, <1>b, <1>12, <2>1, <2>3, AgentRecorded DEF ReconcileFailedCreate, Steps
  <2> QED BY <2>2, <2>3
<1> QED BY <1>4, <1>5, <1>6, <1>7, <1>8, <1>9, <1>10, <1>11, <1>12 DEF CreateStep

(* The other writes: an agent is staged and read back under the same ID.     *)
LEMMA AgentWritten ==
  ASSUME IInv, AgentInv, NEW i \in Items,
         WriteStep(i) \/ VerifyItem(i) \/ VerifyAdopted(i) \/ Ambiguous(i)
  PROVE  AgentInv'
<1> USE ItemsAssumption
<1>0. /\ cur = i /\ cur # NoItem /\ cp \in [Items -> Entries]
      /\ at \in UpdateSteps \cup DeleteSteps => ~Agent(i)
  BY DEF WriteStep, RecordUpdateIntent, DispatchPatch, TakePatchReply, DispatchStage,
     TakeStageReply, VerifyBeforeDelete, RecordDeleteIntent, DispatchDelete, TakeDeleteReply,
     TimeOut, VerifyItem, VerifyAdopted, Ambiguous, IInv, CursorInv, TypeOK, Agent, Creates, Updates
<1>4. ASSUME at \in UpdateSteps \cup DeleteSteps, WriteStep(i) PROVE AgentInv'
  <2>1. ~Agent(i) /\ \A j \in Items : j # i => cp'[j] = cp[j]
    BY <1>0, <1>4 DEF WriteStep, RecordUpdateIntent, DispatchPatch, TakePatchReply, DispatchStage,
       TakeStageReply, VerifyBeforeDelete, RecordDeleteIntent, DispatchDelete, TakeDeleteReply,
       TimeOut, Send, fileVars
  <2>2. cur' = cur \/ cur' = NoItem
    BY <1>4 DEF WriteStep, RecordUpdateIntent, DispatchPatch, TakePatchReply, DispatchStage,
       TakeStageReply, VerifyBeforeDelete, RecordDeleteIntent, DispatchDelete, TakeDeleteReply,
       TimeOut, Send, Goto, Throw, ThrowOperationFailed, Fail, Stop
  <2> QED BY <1>0, <2>1, <2>2 DEF AgentInv, Agent
<1>5. CASE DispatchStage(i)
  BY <1>0, <1>5 DEF DispatchStage, Send, fileVars, AgentInv, Agent
<1>6. CASE TakeStageReply(i)
  <2>1. AgentMayGo(i, "verify", target) /\ target \in Ids /\ NoEntry.phase # "completed"
    BY <1>0, <1>6 DEF TakeStageReply, AgentInv, AgentMayGo, IInv, TypeOK, NoEntry, Entry
  <2>2. CASE cp' = cp
    BY <1>0, <1>6, <2>1, <2>2, AgentMoves DEF TakeStageReply, Steps
  <2>3. CASE cp' # cp
    BY <1>0, <1>6, <2>1, <2>3, AgentRecorded DEF TakeStageReply
  <2> QED BY <2>2, <2>3
<1>7. CASE TimeOut(i) \/ Ambiguous(i)
  BY <1>0, <1>7, AgentMoves DEF TimeOut, Ambiguous
<1>8. CASE VerifyItem(i) \/ VerifyAdopted(i)
  <2>1. CASE CompleteItem(i, target)
    <3>1. Agent(i) => target \in Posts
      BY <1>0, <1>8 DEF VerifyItem, VerifyAdopted, AgentInv
    <3>2. cp' = [cp EXCEPT ![i] = Entry("completed", target)] /\ cur' = NoItem
      BY <2>1 DEF CompleteItem, FinishItem
    <3> QED BY <1>0, <3>1, <3>2 DEF AgentInv, Agent, Entry
  <2>2. CASE (Throw \/ Fail) /\ cp' = cp
    BY <1>0, <2>2, AgentMoves
  <2> QED BY <1>8, <2>1, <2>2 DEF VerifyItem, VerifyAdopted
<1> QED BY <1>4, <1>5, <1>6, <1>7, <1>8 DEF WriteStep, UpdateSteps, DeleteSteps,
     RecordUpdateIntent, DispatchPatch, TakePatchReply, VerifyBeforeDelete, RecordDeleteIntent,
     DispatchDelete, TakeDeleteReply

(* Every step keeps it.                                                      *)
LEMMA AgentNext == IInv /\ AgentInv /\ [Next]_vars => AgentInv'
<1> SUFFICES ASSUME IInv, AgentInv, [Next]_vars PROVE AgentInv' OBVIOUS
<1>1. CASE StartRun \/ Preflight \/ NextPhase \/ Succeed \/ Crash
  BY <1>1, AgentIdle DEF StartRun, Preflight, NextPhase, Succeed, Crash, EnterPhase, Refuse,
     Fail, Stop, fileVars, handVars
<1>2. CASE Fabric \/ \E i \in Items : ForeignChange(i)
  BY <1>2, AgentIdle DEF Fabric, HandleCreate, FinishOperation, HandleWrite, ForeignChange,
     Serve, fileVars, handVars
<1>3. CASE UNCHANGED vars
  BY <1>3, AgentIdle DEF vars, fileVars, handVars
<1> QED BY <1>1, <1>2, <1>3, AgentTakenUp, AgentCreated, AgentWritten
  DEF Next, Process, ItemStep, Disturb

(* A Data Agent is completed only under the ID that a create request of this plan*)
(* gave it (data-agent.ts, resumeCreate and reconcileFailedCreate).          *)
THEOREM DataAgentProvenanceCorrect == Spec => []DataAgentProvenance
<1>1. Init => AgentInv
  BY ItemsAssumption DEF Init, AgentInv, NoEntry, Entry
<1>2. AgentInv => DataAgentProvenance
  BY DEF AgentInv, Agent, DataAgentProvenance, ProvenShell
<1> QED BY <1>1, <1>2, AgentNext, InvariantCorrect, PTL DEF Spec

-----------------------------------------------------------------------------
(* Interrupted updates.                                                     *)

(* A definition that is neither the approved one nor half updated never     *)
(* becomes either again.                                                    *)
MovedOn(i) == live[i].content \notin {"approved", "partial"}

(* What has no intent has not been touched, and no PATCH of it is out; every*)
(* request addresses the item that was approved.                            *)
NotForgotten ==
  \A i \in Items : Updates(i) =>
    /\ MovedOn(i) \/ live[i].id = ApprovedId
    /\ \A r \in wire : r.item = i => r.id = ApprovedId
    /\ cp[i].phase # "pendingUpdate" => MovedOn(i) \/
         (live[i].content = "approved" /\ \A r \in wire : r.item = i => r.kind # "patch")

(* What the run in hand sends addresses that item too; if it is refused, the*)
(* item is no longer there.                                                 *)
HandKnows(i) ==
  /\ at \in UpdateSteps \cup {"stage", "staged?"} => target = ApprovedId
  /\ at \in {"patched?", "staged?"} /\ call.answer = "rejected" => MovedOn(i)
  /\ at = "patched?" /\ call.answer = "ok" /\ ~TwoPhaseUpdate(i) => MovedOn(i)
  /\ at = "ack" => MovedOn(i)
TrackedInv == NotForgotten /\ \A i \in Items : Updates(i) /\ cur = i => HandKnows(i)

(* A step of the run itself: it may write an intent, or withdraw one where  *)
(* nothing is left of the approved definition.                              *)
LEMMA TrackedMoves ==
  ASSUME TrackedInv, UNCHANGED <<live, wire>>,
         \A i \in Items : Updates(i) =>
           cp'[i].phase = cp[i].phase \/ cp'[i].phase = "pendingUpdate" \/ MovedOn(i),
         \A i \in Items : Updates(i) /\ cur' = i => HandKnows(i)'
  PROVE  TrackedInv'
BY DEF TrackedInv, NotForgotten, MovedOn, Updates

(* Nothing is in hand after it, or what was.                                *)
LEMMA TrackedIdle ==
  ASSUME TrackedInv, UNCHANGED <<live, wire, cp>>, cur' = NoItem \/ UNCHANGED <<cur, at, target, call>>
  PROVE  TrackedInv'
<1>1. \A i \in Items : Updates(i) /\ cur' = i => HandKnows(i)'
  BY ItemsAssumption DEF TrackedInv, HandKnows, MovedOn, TwoPhaseUpdate
<1> QED BY <1>1, TrackedMoves

(* The steps at which something is known of an item to be updated.          *)
KnownSteps == UpdateSteps \cup {"stage", "staged?", "ack"}

(* Taking up an item.                                                       *)
LEMMA TrackedTakenUp ==
  ASSUME IInv, TrackedInv, NEW i \in Items, Recover(i) \/ SkipCompleted(i) \/ BeginItem(i)
  PROVE  TrackedInv'
<1> USE ItemsAssumption
<1>1. ASSUME NEW step, NEW id, TakeUp(i, step, id), step \notin KnownSteps \/ (step = "update" /\ id = ApprovedId)
      PROVE  TrackedInv'
  BY <1>1, TrackedMoves DEF TakeUp, fabricVars, fileVars, HandKnows, KnownSteps, UpdateSteps
<1>2. CASE Refuse
  BY <1>2, TrackedIdle DEF Refuse, Fail, Stop, fabricVars
<1>4. CASE ReconcilePendingUpdate(i) \/ ReconcilePendingDelete(i)
  BY <1>1, <1>2, <1>4 DEF ReconcilePendingUpdate, ReconcilePendingDelete, KnownSteps, UpdateSteps
<1>5. CASE ReconcilePendingCreate(i)
  BY <1>1, <1>2, <1>5 DEF ReconcilePendingCreate, KnownSteps, UpdateSteps
<1>6. CASE ResumePendingOperation(i)
  BY <1>1, <1>6 DEF ResumePendingOperation, KnownSteps, UpdateSteps
<1>7. CASE VerifyCheckpointedItem(i)
  BY <1>2, <1>7, TrackedIdle DEF VerifyCheckpointedItem, FinishItem, fabricVars
<1>8. CASE SkipCompleted(i)
  BY <1>8, TrackedIdle DEF SkipCompleted, fabricVars, fileVars, handVars
<1>9. CASE BeginItem(i)
  BY <1>1, <1>2, <1>9 DEF BeginItem, FirstStep, KnownSteps, UpdateSteps
<1> QED BY <1>4, <1>5, <1>6, <1>7, <1>8, <1>9 DEF Recover

(* A step on an item that is not to be updated.                             *)
LEMMA TrackedElsewhere ==
  ASSUME TrackedInv, NEW i \in Items, ~Updates(i), UNCHANGED <<live, wire>>,
         cp' = cp \/ \E e : cp' = [cp EXCEPT ![i] = e], cp \in [Items -> Entries], cur' \in {i, NoItem}
  PROVE  TrackedInv'
<1>1. \A j \in Items : Updates(j) => cp'[j] = cp[j] /\ cur' # j
  BY ItemsAssumption
<1> QED BY <1>1, TrackedMoves

(* Where an item in hand may be sent.                                       *)
LEMMA CurAfter ==
  ASSUME NEW i \in Items, cur = i,
         Fail \/ Throw \/ ThrowOperationFailed \/ (\E step, id : Goto(step, id)) \/ (\E id : CompleteItem(i, id))
  PROVE  cur' \in {i, NoItem}
BY DEF Fail, Stop, Throw, ThrowOperationFailed, Goto, CompleteItem, FinishItem

(* The steps of a create, and the acknowledgement of an update.             *)
LEMMA TrackedCreated ==
  ASSUME IInv, TrackedInv, NEW i \in Items, CreateStep(i)
  PROVE  TrackedInv'
<1> USE ItemsAssumption
<1>0. /\ cur = i /\ cur # NoItem /\ cp \in [Items -> Entries] /\ UNCHANGED <<live, wire>>
      /\ at = "ack" \/ at \in CreateSteps
  BY DEF CreateStep, RecordCreateIntent, DispatchCreate, TakeCreateReply, PollOperation,
     LearnCreated, AcknowledgeMutation, RecordShellProof, CheckShell, ReconcileFailedCreate,
     IInv, TypeOK, CreateSteps, fabricVars
<1>1. /\ cp' = cp \/ \E e : cp' = [cp EXCEPT ![i] = e]
      /\ cur' \in {i, NoItem}
  <2>1. CASE RecordCreateIntent(i) \/ DispatchCreate(i) \/ AcknowledgeMutation(i)
    BY <1>0, <2>1, CurAfter DEF RecordCreateIntent, DispatchCreate, AcknowledgeMutation
  <2>2. CASE TakeCreateReply(i)
    BY <1>0, <2>2, CurAfter DEF TakeCreateReply
  <2>3. CASE PollOperation(i) \/ LearnCreated(i)
    BY <1>0, <2>3, CurAfter DEF PollOperation, LearnCreated
  <2>4. CASE RecordShellProof(i) \/ CheckShell(i)
    BY <1>0, <2>4, CurAfter DEF RecordShellProof, CheckShell
  <2>5. CASE ReconcileFailedCreate(i)
    BY <1>0, <2>5, CurAfter DEF ReconcileFailedCreate
  <2> QED BY <2>1, <2>2, <2>3, <2>4, <2>5 DEF CreateStep
<1>2. CASE ~Updates(i)
  BY <1>0, <1>1, <1>2, TrackedElsewhere
<1>3. CASE Updates(i)
  <2>1. at = "ack" /\ MovedOn(i)
    BY <1>0, <1>3 DEF IInv, CursorInv, TrackedInv, HandKnows, Creates, Updates
  <2>2. AcknowledgeMutation(i)
    BY <2>1 DEF CreateStep, RecordCreateIntent, DispatchCreate, TakeCreateReply, PollOperation,
       LearnCreated, RecordShellProof, CheckShell, ReconcileFailedCreate
  <2>3. cp' = [cp EXCEPT ![i] = Entry("completed", target)] /\ Goto("verify", target)
    BY <2>2 DEF AcknowledgeMutation
  <2>4. \A j \in Items : Updates(j) => cp'[j].phase = cp[j].phase \/ MovedOn(j)
    BY <1>0, <2>1, <2>3
  <2>5. \A j \in Items : cur' = j => HandKnows(j)'
    BY <2>3 DEF Goto, HandKnows, UpdateSteps
  <2> QED BY <1>0, <2>4, <2>5, TrackedMoves
<1> QED BY <1>2, <1>3

(* The replies to a PATCH and to a definition, and the read-back.           *)
LEMMA TrackedAnswered ==
  ASSUME IInv, TrackedInv, NEW i \in Items,
         \/ RecordUpdateIntent(i) \/ TakePatchReply(i) \/ TakeStageReply(i)
         \/ VerifyBeforeDelete(i) \/ RecordDeleteIntent(i) \/ TakeDeleteReply(i)
         \/ TimeOut(i) \/ Ambiguous(i) \/ VerifyItem(i) \/ VerifyAdopted(i)
  PROVE  TrackedInv'
<1> USE ItemsAssumption
<1>0. /\ cur = i /\ cur # NoItem /\ cp \in [Items -> Entries] /\ UNCHANGED <<live, wire>>
  BY DEF RecordUpdateIntent, TakePatchReply, TakeStageReply, VerifyBeforeDelete, RecordDeleteIntent,
     TakeDeleteReply, TimeOut, Ambiguous, VerifyItem, VerifyAdopted, IInv, TypeOK, fabricVars
<1>a. \A e : e.phase = "pendingUpdate" \/ MovedOn(i) =>
        (cp' = [cp EXCEPT ![i] = e] => \A j \in Items : Updates(j) =>
           cp'[j].phase = cp[j].phase \/ cp'[j].phase = "pendingUpdate" \/ MovedOn(j))
  BY <1>0
<1>b. cp' = cp => \A j \in Items : cp'[j].phase = cp[j].phase
  OBVIOUS
<1>c. ASSUME Fail \/ (\E step, id : Goto(step, id) /\ step \notin KnownSteps) PROVE \A j \in Items : cur' = j => HandKnows(j)'
  BY <1>c DEF Fail, Stop, Goto, HandKnows, KnownSteps, UpdateSteps
<1>d. Throw \/ ThrowOperationFailed => Fail \/ \E step, id : Goto(step, id) /\ step \notin KnownSteps
  BY DEF Throw, ThrowOperationFailed, KnownSteps, UpdateSteps
<1>e. Updates(i) => HandKnows(i)
  BY <1>0 DEF TrackedInv
<1>f. /\ at \in UpdateSteps => Updates(i)
      /\ at \in DeleteSteps => ~Updates(i)
      /\ at \in {"stage", "staged?"} => Creates(i) \/ Updates(i)
  BY <1>0 DEF IInv, CursorInv, Updates
<1>1. CASE RecordUpdateIntent(i)
  <2>1. cp' = [cp EXCEPT ![i] = Entry("pendingUpdate", target)] /\ Goto("patchSend", target) /\ target = ApprovedId
    BY <1>1, <1>e, <1>f DEF RecordUpdateIntent, HandKnows, UpdateSteps
  <2>2. \A j \in Items : cur' = j => HandKnows(j)'
    BY <2>1 DEF Goto, HandKnows, NoCall
  <2>3. Entry("pendingUpdate", target).phase = "pendingUpdate"
    BY DEF Entry
  <2> QED BY <1>0, <1>a, <2>1, <2>2, <2>3, TrackedMoves
<1>2. CASE TakePatchReply(i)
  <2>0. at = "patched?" /\ Updates(i) /\ target = ApprovedId
    BY <1>2, <1>e, <1>f DEF TakePatchReply, HandKnows, UpdateSteps
  <2>1. CASE call.answer = "rejected" /\ cp' = [cp EXCEPT ![i] = NoEntry] /\ Fail
    <3>1. MovedOn(i)
      BY <1>e, <2>0, <2>1 DEF HandKnows
    <3> QED BY <1>0, <1>a, <1>c, <2>1, <3>1, TrackedMoves
  <2>2. CASE call.answer = "ok" /\ cp' = cp
             /\ Goto(IF TwoPhaseUpdate(i) THEN "stage" ELSE IF pc = "stages" THEN "ack" ELSE "verify", target)
    <3>1. TwoPhaseUpdate(i) \/ MovedOn(i)
      BY <1>e, <2>0, <2>2 DEF HandKnows
    <3>2. \A j \in Items : cur' = j => HandKnows(j)'
      BY <1>0, <2>0, <2>2, <3>1 DEF Goto, HandKnows, NoCall, MovedOn
    <3> QED BY <1>0, <1>b, <2>2, <3>2, TrackedMoves
  <2> QED BY <1>2, <2>1, <2>2 DEF TakePatchReply
<1>3. CASE TakeStageReply(i)
  <2>1. CASE call.answer = "rejected" /\ ForgetsRejectedStage(i) /\ cp' = [cp EXCEPT ![i] = NoEntry] /\ Fail
    <3>1. MovedOn(i)
      BY <1>3, <1>e, <2>1 DEF HandKnows, TakeStageReply, ForgetsRejectedStage
    <3> QED BY <1>0, <1>a, <1>c, <2>1, <3>1, TrackedMoves
  <2>2. CASE (Goto("verify", target) \/ Throw \/ ThrowOperationFailed) /\ cp' = cp
    <3>1. "verify" \notin KnownSteps
      BY DEF KnownSteps, UpdateSteps
    <3> QED BY <1>0, <1>b, <1>c, <1>d, <2>2, <3>1, TrackedMoves
  <2> QED BY <1>3, <2>1, <2>2 DEF TakeStageReply
<1>4. CASE VerifyBeforeDelete(i) \/ RecordDeleteIntent(i) \/ TakeDeleteReply(i)
  <2>1. ~Updates(i)
    BY <1>4, <1>f DEF VerifyBeforeDelete, RecordDeleteIntent, TakeDeleteReply, DeleteSteps
  <2>2. cp' = cp \/ \E e : cp' = [cp EXCEPT ![i] = e]
    BY <1>4 DEF VerifyBeforeDelete, RecordDeleteIntent, TakeDeleteReply
  <2>3. cur' \in {i, NoItem}
    BY <1>0, <1>4, CurAfter DEF VerifyBeforeDelete, RecordDeleteIntent, TakeDeleteReply
  <2> QED BY <1>0, <2>1, <2>2, <2>3, TrackedElsewhere
<1>5. CASE TimeOut(i) \/ Ambiguous(i)
  BY <1>0, <1>b, <1>c, <1>d, <1>5, TrackedMoves DEF TimeOut, Ambiguous
<1>6. CASE VerifyItem(i) \/ VerifyAdopted(i)
  <2>1. CASE CompleteItem(i, target) /\ Desired(i, target, live[i])
    <3>1. cp' = [cp EXCEPT ![i] = Entry("completed", target)] /\ cur' = NoItem
      BY <2>1 DEF CompleteItem, FinishItem
    <3>2. Updates(i) => MovedOn(i)
      BY <2>1 DEF Desired, Removes, Updates, MovedOn
    <3>3. \A j \in Items : Updates(j) => cp'[j].phase = cp[j].phase \/ MovedOn(j)
      BY <1>0, <3>1, <3>2
    <3> QED BY <1>0, <3>1, <3>3, TrackedMoves
  <2>2. CASE (Throw \/ Fail) /\ cp' = cp
    BY <1>0, <1>b, <1>c, <1>d, <2>2, TrackedMoves
  <2> QED BY <1>6, <2>1, <2>2 DEF VerifyItem, VerifyAdopted
<1> QED BY <1>1, <1>2, <1>3, <1>4, <1>5, <1>6

(* A request of the item in hand leaves, under its intent.                  *)
LEMMA TrackedSent ==
  ASSUME IInv, TrackedInv, NEW i \in Items, DispatchPatch(i) \/ DispatchStage(i) \/ DispatchDelete(i)
  PROVE  TrackedInv'
<1> USE ItemsAssumption
<1>1. PICK kind, step :
        /\ Send(i, kind, step) /\ cur = i
        /\ <<kind, step, at>> \in {<<"patch", "patched?", "patchSend">>, <<"stage", "staged?", "stage">>,
                                  <<"delete", "deleted?", "deleteSend">>}
  BY DEF DispatchPatch, DispatchStage, DispatchDelete
<1>2. /\ Updates(i) => HandKnows(i)
      /\ kind = "patch" => cp[i].phase = "pendingUpdate"
      /\ kind = "delete" => ~Updates(i)
  BY <1>1 DEF TrackedInv, IInv, HandInv, CursorInv, DeleteSteps, Updates
<1>3. Updates(i) => target = ApprovedId
  BY <1>1, <1>2 DEF HandKnows, UpdateSteps
<1>4. NotForgotten'
  <2> DEFINE sent == [item |-> i, kind |-> kind, id |-> target, ticket |-> faults]
  <2>1. wire' = wire \cup {sent} /\ live' = live /\ cp' = cp
    BY <1>1 DEF Send, fileVars
  <2> SUFFICES ASSUME NEW j \in Items, Updates(j)
               PROVE  /\ MovedOn(j)' \/ live'[j].id = ApprovedId
                      /\ \A r \in wire' : r.item = j => r.id = ApprovedId
                      /\ cp'[j].phase # "pendingUpdate" => MovedOn(j)' \/
                           (live'[j].content = "approved" /\ \A r \in wire' : r.item = j => r.kind # "patch")
    BY DEF NotForgotten, Updates
  <2>2. sent.item = j => sent.id = ApprovedId /\ (sent.kind # "patch" \/ cp[j].phase = "pendingUpdate")
    BY <1>2, <1>3
  <2> QED BY <2>1, <2>2 DEF TrackedInv, NotForgotten, MovedOn
<1>5. \A j \in Items : Updates(j) /\ cur' = j => HandKnows(j)'
  BY <1>1, <1>3 DEF Send, HandKnows
<1> QED BY <1>4, <1>5 DEF TrackedInv, Updates

(* Fabric handles a request, and no request is refused but because its item *)
(* is gone.                                                                 *)
LEMMA TrackedHandled ==
  ASSUME IInv, TrackedInv, "reject" \notin FaultKinds, NEW r \in wire, HandleWrite(r)
  PROVE  TrackedInv'
<1> USE ItemsAssumption
<1>0. /\ cp' = cp /\ wire' = wire \ {r} /\ UNCHANGED <<cur, at, target>>
      /\ live \in [Items -> States] /\ r \in Requests /\ r.item \in Items
  BY DEF HandleWrite, Answer, Serve, fileVars, IInv, TypeOK, Requests
<1>1. ~Fault("reject")
  BY DEF Fault
<1>2. \/ live' = [live EXCEPT ![r.item] = Written(r, live[r.item])] /\ Answer(r, "ok")
      \/ /\ ~Addresses(r, live[r.item]) /\ live' = live
         /\ Answer(r, IF r.kind = "delete" THEN "ok" ELSE "rejected")
      \/ live' = live /\ call' = call
  BY <1>1 DEF HandleWrite
<1>3. ASSUME NEW j \in Items, Updates(j)
      PROVE  /\ MovedOn(j) => MovedOn(j)'
             /\ MovedOn(j)' \/ live'[j].id = live[j].id
             /\ live'[j] = live[j] \/ MovedOn(j)' \/ (r.item = j /\ r.kind = "patch")
  <2>1. live'[j] = live[j] \/ (r.item = j /\ live'[j] = Written(r, live[j]))
    BY <1>0, <1>2
  <2>2. CASE live'[j] = Written(r, live[j]) /\ r.item = j
    <3>1. r.kind = "delete" => MovedOn(j)'
      BY <2>2 DEF Written, Absent, MovedOn
    <3>2. r.kind = "patch" /\ TwoPhaseUpdate(r.item) => live'[j].id = live[j].id /\ (MovedOn(j) => MovedOn(j)')
      BY <2>2 DEF Written, MovedOn
    <3>3. r.kind # "delete" /\ ~(r.kind = "patch" /\ TwoPhaseUpdate(r.item)) => MovedOn(j)'
      BY <2>2 DEF Written, MovedOn
    <3> QED BY <2>2, <3>1, <3>2, <3>3
  <2> QED BY <2>1, <2>2 DEF MovedOn
<1>4. NotForgotten'
  <2> SUFFICES ASSUME NEW j \in Items, Updates(j)
               PROVE  /\ MovedOn(j)' \/ live'[j].id = ApprovedId
                      /\ \A q \in wire' : q.item = j => q.id = ApprovedId
                      /\ cp'[j].phase # "pendingUpdate" => MovedOn(j)' \/
                           (live'[j].content = "approved" /\ \A q \in wire' : q.item = j => q.kind # "patch")
    BY DEF NotForgotten, Updates
  <2> QED BY <1>0, <1>3 DEF TrackedInv, NotForgotten
<1>5. ASSUME NEW j \in Items, Updates(j), cur = j PROVE HandKnows(j)'
  <2>0. HandKnows(j) /\ (MovedOn(j) => MovedOn(j)') /\ (TwoPhaseUpdate(j)' <=> TwoPhaseUpdate(j))
    BY <1>3, <1>5 DEF TrackedInv, TwoPhaseUpdate
  <2>1. CASE call' = call
    BY <1>0, <2>0, <2>1 DEF HandKnows
  <2>2. CASE call' # call
    <3>1. Awaited(r) /\ r.item = j
      BY <1>2, <1>5, <2>2 DEF Answer, Awaited
    <3>2. at \in {"patched?", "staged?"} => r.kind # "delete" /\ r.id = ApprovedId
      BY <1>5, <3>1 DEF Awaited, TrackedInv, NotForgotten
    <3>3. at = "patched?" => r.kind = "patch"
      BY <3>1, <1>0 DEF Awaited, Requests
    <3>4. CASE ~Addresses(r, live[j]) /\ live' = live
      <4>1. at \in {"patched?", "staged?"} => MovedOn(j)
        BY <1>5, <3>2, <3>4 DEF Addresses, MovedOn, TrackedInv, NotForgotten
      <4> QED BY <1>0, <2>0, <4>1 DEF HandKnows
    <3>5. CASE live' = [live EXCEPT ![r.item] = Written(r, live[r.item])] /\ Answer(r, "ok")
      <4>1. call'.answer = "ok"
        BY <3>1, <3>5 DEF Answer
      <4>2. at = "patched?" /\ ~TwoPhaseUpdate(j) => MovedOn(j)'
        BY <1>0, <3>1, <3>3, <3>5 DEF Written, MovedOn
      <4> QED BY <1>0, <2>0, <4>1, <4>2 DEF HandKnows
    <3> QED BY <1>2, <2>2, <3>1, <3>4, <3>5
  <2> QED BY <2>1, <2>2
<1> QED BY <1>0, <1>4, <1>5 DEF TrackedInv, Updates

(* Creates, and what other actors do, leave nothing half updated.           *)
LEMMA TrackedOutside ==
  ASSUME IInv, TrackedInv, NEW i \in Items,
         ForeignChange(i) \/ \E n \in Posts : HandleCreate(i, n) \/ FinishOperation(i, n)
  PROVE  TrackedInv'
<1> USE ItemsAssumption
<1>0. /\ UNCHANGED <<wire, cp, cur, at, target, call>> /\ live \in [Items -> States]
  BY DEF ForeignChange, HandleCreate, FinishOperation, Serve, fileVars, handVars, IInv, TypeOK
<1>1. \A j \in Items : live'[j] = live[j] \/ MovedOn(j)'
  <2>1. CASE ForeignChange(i)
    BY <1>0, <2>1 DEF ForeignChange, MovedOn, Absent
  <2>2. CASE \E n \in Posts : HandleCreate(i, n) \/ FinishOperation(i, n)
    BY <1>0, <2>2 DEF HandleCreate, FinishOperation, FabricCreates, FabricRefuses, MovedOn, NewContent
  <2> QED BY <2>1, <2>2
<1>2. \A j \in Items : MovedOn(j) => MovedOn(j)'
  BY <1>1 DEF MovedOn
<1>3. NotForgotten'
  BY <1>0, <1>1, <1>2 DEF TrackedInv, NotForgotten, Updates
<1>4. \A j \in Items : Updates(j) /\ cur' = j => HandKnows(j)'
  BY <1>0, <1>2 DEF TrackedInv, HandKnows, TwoPhaseUpdate
<1> QED BY <1>3, <1>4 DEF TrackedInv, Updates

(* Every step keeps it.                                                     *)
LEMMA TrackedNext == "reject" \notin FaultKinds /\ IInv /\ TrackedInv /\ [Next]_vars => TrackedInv'
<1> SUFFICES ASSUME "reject" \notin FaultKinds, IInv, TrackedInv, [Next]_vars PROVE TrackedInv'
  OBVIOUS
<1>1. CASE StartRun \/ Preflight \/ NextPhase \/ Succeed \/ Crash
  BY <1>1, TrackedIdle DEF StartRun, Preflight, NextPhase, Succeed, Crash, EnterPhase, Refuse,
     Fail, Stop, fabricVars, fileVars, handVars
<1>2. CASE Fabric
  BY <1>2, TrackedHandled, TrackedOutside DEF Fabric
<1>3. CASE UNCHANGED vars
  BY <1>3, TrackedIdle DEF vars, fabricVars, fileVars, handVars
<1>4. ASSUME NEW i \in Items, ItemStep(i) PROVE TrackedInv'
  BY <1>4, TrackedTakenUp, TrackedCreated, TrackedSent, TrackedAnswered DEF ItemStep, WriteStep
<1>5. ASSUME NEW i \in Items, Ambiguous(i) \/ ForeignChange(i) PROVE TrackedInv'
  BY <1>5, TrackedAnswered, TrackedOutside
<1> QED BY <1>1, <1>2, <1>3, <1>4, <1>5 DEF Next, Process, Disturb

(* An update that stopped half-way is always recorded (apply.ts,            *)
(* recordPendingUpdate), unless a request was refused: whatever is killed,  *)
(* lost, late or edited by others.                                          *)
THEOREM UpdateIsTrackedCorrect ==
  ASSUME "reject" \notin FaultKinds PROVE Spec => []UpdateIsTracked
<1>1. Init => TrackedInv
  BY ItemsAssumption DEF Init, TrackedInv, NotForgotten, MovedOn, Approved, Updates, Absent, NoEntry, Entry
<1>2. TrackedInv => UpdateIsTracked
  BY DEF TrackedInv, NotForgotten, MovedOn, UpdateIsTracked
<1>3. IInv /\ TrackedInv /\ [Next]_vars => TrackedInv'
  BY TrackedNext
<1> QED BY <1>1, <1>2, <1>3, InvariantCorrect, PTL DEF Spec

-----------------------------------------------------------------------------
(* The ledger.                                                              *)

(* An item with a create request that may still produce it, or did.          *)
Open(i) == \E n \in Posts : Outstanding(i, n)

(* The ledger counts one open create exactly when there is one.              *)
LEMMA OpenCount ==
  ASSUME IInv, NEW i \in Items
  PROVE  LedgerOpen[i] = IF Open(i) THEN 1 ELSE 0
<1> DEFINE S == {n \in Posts : Outstanding(i, n)}
<1>1. CASE ~Open(i)
  <2>1. S = {}
    BY <1>1 DEF Open
  <2> QED BY <1>1, <2>1, FS_EmptySet DEF LedgerOpen
<1>2. CASE Open(i)
  <2>1. PICK n \in Posts : Outstanding(i, n)
    BY <1>2 DEF Open
  <2>2. S = {n}
    BY <2>1 DEF IInv, AtMostOneCreate
  <2> QED BY <1>2, <2>2, FS_Singleton DEF LedgerOpen
<1> QED BY <1>1, <1>2

(* The same, after a step that kept the invariant.                           *)
LEMMA OpenCountNext ==
  ASSUME IInv', NEW i \in Items
  PROVE  LedgerOpen'[i] = IF Open(i)' THEN 1 ELSE 0
<1> DEFINE S == {n \in Posts : Outstanding(i, n)'}
<1>1. CASE ~Open(i)'
  <2>1. S = {}
    BY <1>1 DEF Open
  <2> QED BY <1>1, <2>1, FS_EmptySet DEF LedgerOpen
<1>2. CASE Open(i)'
  <2>1. PICK n \in Posts : Outstanding(i, n)'
    BY <1>2 DEF Open
  <2>2. S = {n}
    BY <2>1 DEF IInv, AtMostOneCreate
  <2> QED BY <1>2, <2>2, FS_Singleton DEF LedgerOpen
<1> QED BY <1>1, <1>2

(* Nothing is announced or open at the start.                                *)
LEMMA LedgerInit == Init => Ledger!Init
<1> SUFFICES ASSUME Init PROVE Ledger!Init OBVIOUS
<1>1. IInv
  BY TypeInit, InvariantInit
<1>2. \A i \in Items : ~Open(i)
  BY DEF Init, Open, Outstanding, Created
<1>3. LedgerOpen = [i \in Items |-> 0]
  BY <1>1, <1>2, OpenCount DEF LedgerOpen
<1>4. LedgerPhase = [i \in Items |-> "none"]
  BY DEF Init, LedgerPhase, NoEntry, Entry
<1> QED BY <1>3, <1>4 DEF Ledger!Init

(* The variables of the ledger.                                              *)
ledgerVars == <<LedgerPhase, LedgerOpen>>

(* A write to the file announces, withdraws or completes: it announces when nothing*)
(* is open and the dependencies are done, and withdraws when nothing is left open.*)
LEMMA CheckpointStep ==
  ASSUME IInv, IInv', Next, UNCHANGED <<live, fate>>, NEW i \in Items,
         \A j \in Items : j # i => cp'[j] = cp[j]
  PROVE  [Ledger!Next]_ledgerVars
<1>1. LedgerOpen' = LedgerOpen
  BY DEF LedgerOpen, Outstanding
<1>2. /\ \A j \in Items : j # i => LedgerPhase'[j] = LedgerPhase[j]
      /\ LedgerPhase' \in [Items -> {"none", "announced", "completed"}]
      /\ LedgerPhase \in [Items -> {"none", "announced", "completed"}]
      /\ LedgerPhase' = [LedgerPhase EXCEPT ![i] = LedgerPhase'[i]]
  BY DEF LedgerPhase
<1>3. \A j \in Items : /\ LedgerPhase[j] = "completed" <=> cp[j].phase = "completed"
                       /\ LedgerPhase[j] = "none" <=> cp[j].phase = "none"
                       /\ LedgerPhase'[j] = "completed" <=> cp'[j].phase = "completed"
                       /\ LedgerPhase'[j] = "none" <=> cp'[j].phase = "none"
  BY DEF LedgerPhase
<1>4. cp'[i].phase # "none" => Ledger!PredecessorsDone(i)
  <2> SUFFICES ASSUME cp'[i].phase # "none", NEW d \in Predecessors[i] PROVE LedgerPhase[d] = "completed"
    BY DEF Ledger!PredecessorsDone
  <2>1. d \in Items /\ d # i
    BY PredecessorsFirst
  <2>2. cp'[d].phase = "completed"
    BY DEF IInv, DependencyOrder
  <2> QED BY <1>3, <2>1, <2>2
<1>5. cp[i].phase = "none" \/ cp'[i].phase = "none" => LedgerOpen[i] = 0
  <2>1. cp[i].phase = "none" => ~Open(i)
    BY DEF IInv, WriteAhead, Open
  <2>2. cp'[i].phase = "none" => ~Open(i)
    BY DEF IInv, WriteAhead, Open, Outstanding
  <2> QED BY <2>1, <2>2, OpenCount
<1>6. cp[i].phase = "completed" => cp'[i] = cp[i]
  BY CompletedStep
<1>7. CASE LedgerPhase'[i] = LedgerPhase[i]
  BY <1>1, <1>2, <1>7 DEF ledgerVars
<1>8. CASE LedgerPhase[i] = "none" /\ LedgerPhase'[i] = "announced"
  BY <1>1, <1>2, <1>3, <1>4, <1>5, <1>8 DEF Ledger!Next, Ledger!Announce
<1>9. CASE LedgerPhase[i] = "announced" /\ LedgerPhase'[i] = "none"
  BY <1>1, <1>2, <1>3, <1>5, <1>9 DEF Ledger!Next, Ledger!Withdraw
<1>10. CASE LedgerPhase[i] # "completed" /\ LedgerPhase'[i] = "completed"
  BY <1>1, <1>2, <1>3, <1>4, <1>10 DEF Ledger!Next, Ledger!Complete
<1> QED BY <1>2, <1>3, <1>6, <1>7, <1>8, <1>9, <1>10

(* The POST of a create is the ledger's Send.                                *)
LEMMA DispatchStep ==
  ASSUME IInv, IInv', NEW i \in Items, DispatchCreate(i)
  PROVE  Ledger!Next
<1>0. cur = i /\ cur # NoItem /\ cp[i].phase = "pendingCreate" /\ ~Open(i)
  BY ItemsAssumption DEF DispatchCreate, IInv, HandInv, RequestInv, Open
<1>1. LedgerPhase' = LedgerPhase /\ LedgerPhase[i] = "announced"
  BY <1>0 DEF DispatchCreate, LedgerPhase
<1>2. PICK n \in Posts : fate' = [fate EXCEPT ![i][n] = "wire"]
  BY DEF DispatchCreate
<1>3. Open(i)' /\ \A j \in Items : j # i => (Open(j)' <=> Open(j))
  <2>1. /\ fate'[i][n] = "wire"
        /\ \A j \in Items : j # i => fate'[j] = fate[j]
        /\ live' = live
    BY <1>2 DEF IInv, TypeOK, DispatchCreate
  <2> QED BY <2>1 DEF Open, Outstanding
<1>4. /\ LedgerOpen[i] = 0
      /\ LedgerOpen'[i] = 1
      /\ \A j \in Items : j # i => LedgerOpen'[j] = LedgerOpen[j]
  BY <1>0, <1>3, OpenCount, OpenCountNext
<1>5. LedgerOpen' = [LedgerOpen EXCEPT ![i] = 1]
  BY <1>4 DEF LedgerOpen
<1> QED BY <1>1, <1>4, <1>5 DEF Ledger!Next, Ledger!Send

(* Fabric and other actors settle at most one open create.                   *)
LEMMA OutsideStep ==
  ASSUME IInv, IInv', UNCHANGED cp, NEW i \in Items,
         \A j \in Items : j # i => (Open(j)' <=> Open(j)),
         Open(i)' => Open(i)
  PROVE  [Ledger!Next]_ledgerVars
<1>1. LedgerPhase' = LedgerPhase
  BY DEF LedgerPhase
<1>2. \A j \in Items : j # i => LedgerOpen'[j] = LedgerOpen[j]
  BY OpenCount, OpenCountNext
<1>3. CASE Open(i)' \/ ~Open(i)
  <2>1. LedgerOpen'[i] = LedgerOpen[i]
    BY <1>3, OpenCount, OpenCountNext
  <2>2. LedgerOpen' = LedgerOpen
    BY <1>2, <2>1 DEF LedgerOpen
  <2> QED BY <1>1, <2>2 DEF ledgerVars
<1>4. CASE Open(i) /\ ~Open(i)'
  <2>1. LedgerOpen[i] = 1 /\ LedgerOpen'[i] = 0
    BY <1>4, OpenCount, OpenCountNext
  <2>2. LedgerOpen' = [LedgerOpen EXCEPT ![i] = 0]
    BY <1>2, <2>1 DEF LedgerOpen
  <2> QED BY <1>1, <2>1, <2>2 DEF Ledger!Next, Ledger!Settle
<1> QED BY <1>3, <1>4

(* Every step is a step of the ledger, or leaves it alone.                   *)
LEMMA LedgerNext ==
  ASSUME IInv, IInv', [Next]_vars
  PROVE  [Ledger!Next]_ledgerVars
<1>1. ASSUME UNCHANGED <<live, fate, cp>> PROVE [Ledger!Next]_ledgerVars
  BY <1>1 DEF ledgerVars, LedgerPhase, LedgerOpen, Outstanding
<1>2. CASE UNCHANGED vars
  BY <1>1, <1>2 DEF vars, fabricVars, fileVars
<1>3. CASE Next /\ UNCHANGED fabricVars /\ OneEntryChanges
  BY <1>1, <1>3, CheckpointStep DEF fabricVars, OneEntryChanges
<1>4. ASSUME NEW i \in Items, DispatchPatch(i) \/ DispatchStage(i) \/ DispatchDelete(i)
      PROVE  [Ledger!Next]_ledgerVars
  BY <1>1, <1>4 DEF DispatchPatch, DispatchStage, DispatchDelete, Send, fileVars
<1>5. ASSUME NEW i \in Items, DispatchCreate(i) PROVE [Ledger!Next]_ledgerVars
  BY <1>5, DispatchStep
<1>6. CASE Fabric \/ \E i \in Items : ForeignChange(i)
  <2>1. PICK i \in Items : OnlyCloses(i)
    BY <1>6, OutsideOnly
  <2>2. /\ UNCHANGED cp
        /\ \A j \in Items : j # i => (Open(j)' <=> Open(j))
        /\ Open(i)' => Open(i)
    BY <1>6, <2>1, OutsideOnly DEF OnlyCloses, Open, fileVars
  <2> QED BY <2>2, OutsideStep
<1> QED BY <1>2, <1>3, <1>4, <1>5, <1>6, StepKinds

(* The apply run implements the ledger: every step of a run, of Fabric or of another*)
(* actor is a step of CreateLedger or leaves it alone.                       *)
THEOREM ImplementsLedgerCorrect == Spec => ImplementsLedger
<1>1. Init => Ledger!Init
  BY LedgerInit
<1>2. IInv /\ IInv' /\ [Next]_vars => [Ledger!Next]_<<LedgerPhase, LedgerOpen>>
  BY LedgerNext DEF ledgerVars
<1> QED BY <1>1, <1>2, InvariantCorrect, PTL DEF Spec, ImplementsLedger, Ledger!Spec
=============================================================================
