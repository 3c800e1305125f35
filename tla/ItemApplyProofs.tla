--------------------------- MODULE ItemApplyProofs ---------------------------
(***************************************************************************)
(* The inductive invariant of ItemApply, proved for every set of items,    *)
(* every plan and any number of faults.                                    *)
(*                                                                         *)
(* A step of a run has one of a few shapes: it moves the item in hand on,  *)
(* writes the entry of that item, completes it, forgets it, or ends the    *)
(* run.  A lemma says for each shape what an action has to bring for the   *)
(* invariant to survive; the lemmas on the actions bring it, one step per  *)
(* action.                                                                 *)
(***************************************************************************)
EXTENDS ItemApplyInvariant, TLAPS

USE DEF Ids, Posts, ApprovedId, ForeignId

-----------------------------------------------------------------------------
(* Types.                                                                   *)

(* Every entry the callbacks write is an entry of the checkpoint.            *)
LEMMA EntryType ==
  /\ NoEntry \in Entries
  /\ \A p \in CpPhases, id \in Ids : Entry(p, id) \in Entries
  /\ \A id \in Ids, ref \in {"operation", "shell"}, base \in Contents :
       Accepted(id, ref, base) \in Entries
  BY BoundAssumption DEF Entries, Entry, NoEntry, Accepted, CpPhases, Contents

(* The approved state is a state.                                            *)
LEMMA TypeApproved == \A i \in Items : Approved(i) \in States
  BY ItemsAssumption, BoundAssumption DEF Approved, Absent, States, Contents

(* The initial state is typed.                                               *)
LEMMA TypeInit == Init => TypeOK
<1> SUFFICES ASSUME Init PROVE TypeOK OBVIOUS
<1>1. live \in [Items -> States] /\ plan \in [Items -> States]
  BY TypeApproved DEF Init
<1>2. fate \in [Items -> [Posts -> Fates]]
  BY BoundAssumption DEF Init, Fates
<1>3. cp \in [Items -> Entries]
  BY EntryType DEF Init
<1>4. call \in [ticket : 0..MaxFaults, answer : {"-", "ok", "rejected", "failed"}]
  BY BoundAssumption DEF Init, NoCall
<1> QED
  BY <1>1, <1>2, <1>3, <1>4, BoundAssumption DEF Init, TypeOK, Phases, Steps, Actions

(* Every step keeps the types.                                               *)
LEMMA TypeNext == TypeOK /\ [Next]_vars => TypeOK'
<1> SUFFICES ASSUME TypeOK, [Next]_vars PROVE TypeOK' OBVIOUS
<1> USE BoundAssumption, ItemsAssumption
<1>1. CASE StartRun
  BY <1>1 DEF StartRun, TypeOK, fabricVars, handVars, Phases
<1>2. CASE Preflight
  BY <1>2, TypeApproved DEF Preflight, EnterPhase, Refuse, Fail, Stop, TypeOK,
     fabricVars, fileVars, handVars, Phases, Steps, InPhase, NoCall
<1>3. CASE NextPhase
  BY <1>3, TypeApproved DEF NextPhase, EnterPhase, Refuse, Fail, Stop, TypeOK,
     fabricVars, fileVars, handVars, Phases, Steps, InPhase, NoCall
<1>4. CASE Succeed
  BY <1>4, TypeApproved DEF Succeed, TypeOK, fabricVars, handVars, Phases
<1>5. ASSUME NEW i \in Items, Recover(i) \/ SkipCompleted(i) \/ BeginItem(i) PROVE TypeOK'
  <2>1. cp[i].id \in Ids /\ live[i].id \in Ids
    BY DEF TypeOK, States, Entries
  <2>2. ASSUME NEW step \in Steps, NEW id \in Ids, TakeUp(i, step, id) PROVE TypeOK'
    BY <2>2 DEF TakeUp, TypeOK, fabricVars, fileVars, runVars
  <2>3. CASE Refuse
    BY <2>3, TypeApproved DEF Refuse, Fail, Stop, TypeOK, fabricVars, Phases, Steps,
       NoCall
  <2>4. CASE \/ ReconcilePendingUpdate(i) \/ ReconcilePendingDelete(i)
             \/ ReconcilePendingCreate(i) \/ ResumePendingOperation(i)
    BY <2>1, <2>2, <2>3, <2>4 DEF ReconcilePendingUpdate, ReconcilePendingDelete,
       ReconcilePendingCreate, ResumePendingOperation, Steps
  <2>5. CASE BeginItem(i)
    BY <2>1, <2>2, <2>3, <2>5 DEF BeginItem, FirstStep, Steps
  <2>6. CASE SkipCompleted(i) \/ VerifyCheckpointedItem(i)
    BY <2>3, <2>6 DEF SkipCompleted, VerifyCheckpointedItem, FinishItem, TypeOK,
       fabricVars, fileVars, runVars, handVars, Steps, NoCall
  <2> QED BY <1>5, <2>4, <2>5, <2>6 DEF Recover
<1>6. ASSUME NEW i \in Items, CreateStep(i) PROVE TypeOK'
  <2>1. CASE RecordCreateIntent(i) \/ AcknowledgeMutation(i)
    BY <1>6, <2>1, EntryType DEF RecordCreateIntent, AcknowledgeMutation, Goto, TypeOK,
       fabricVars, runVars, Steps, NoCall, CpPhases
  <2>2. CASE DispatchCreate(i)
    BY <2>2 DEF DispatchCreate, Goto, TypeOK, runVars, Steps, NoCall, Fates
  <2>3. CASE TakeCreateReply(i)
    <3>1. cp' \in [Items -> Entries]
      <4>1. /\ cp \in [Items -> Entries] /\ NoEntry \in Entries
            /\ Accepted(target, "operation", "absent") \in Entries
        BY EntryType DEF TypeOK, Contents
      <4> QED BY <2>3, <4>1 DEF TakeCreateReply
    <3> QED
      BY <2>3, <3>1, TypeApproved DEF TakeCreateReply, TypeOK, Goto, Fail, Stop,
         fabricVars, runVars, Phases, Steps, NoCall
  <2>4. CASE PollOperation(i) \/ LearnCreated(i) \/ CheckShell(i)
    BY <2>4, TypeApproved DEF PollOperation, LearnCreated, CheckShell,
       ThrowOperationFailed, Throw, TypeOK, Goto, Fail, Stop, fabricVars, runVars,
       Phases, Steps, NoCall
  <2>5. CASE RecordShellProof(i)
    <3>1. live[i].content \in Contents /\ target \in Ids /\ cp \in [Items -> Entries]
      BY DEF TypeOK, States
    <3>2. Accepted(target, "shell", live[i].content) \in Entries
      BY <3>1, EntryType
    <3>3. cp' \in [Items -> Entries]
      BY <2>5, <3>1, <3>2 DEF RecordShellProof
    <3> QED
      BY <2>5, <3>3, TypeApproved DEF RecordShellProof, TypeOK, Goto, Fail, Stop,
         fabricVars, runVars, Phases, Steps, NoCall
  <2>6. CASE ReconcileFailedCreate(i)
    <3>1. live[i].id \in Ids
      BY DEF TypeOK, States
    <3>2. cp' \in [Items -> Entries]
      BY <2>6, EntryType DEF ReconcileFailedCreate, TypeOK
    <3>3. CASE UNCHANGED cp
      BY <2>6, <3>1, <3>3, TypeApproved DEF ReconcileFailedCreate, TypeOK, Goto, Fail,
         Stop, fabricVars, runVars, Phases, Steps, NoCall
    <3>4. CASE Fail
      BY <2>6, <3>2, <3>4, TypeApproved DEF ReconcileFailedCreate, TypeOK, Fail, Stop,
         fabricVars, Phases, Steps, NoCall
    <3> QED BY <2>6, <3>3, <3>4 DEF ReconcileFailedCreate
  <2> QED  BY <1>6, <2>1, <2>2, <2>3, <2>4, <2>5, <2>6 DEF CreateStep
<1>7. ASSUME NEW i \in Items, WriteStep(i) PROVE TypeOK'
  <2>1. CASE RecordUpdateIntent(i) \/ RecordDeleteIntent(i)
    <3>1. /\ cp \in [Items -> Entries] /\ target \in Ids
          /\ Entry("pendingUpdate", target) \in Entries
          /\ Entry("pendingDelete", target) \in Entries
      BY EntryType DEF TypeOK, CpPhases
    <3>2. cp' \in [Items -> Entries]
      BY <2>1, <3>1 DEF RecordUpdateIntent, RecordDeleteIntent
    <3> QED
      BY <2>1, <3>2 DEF RecordUpdateIntent, RecordDeleteIntent, Goto, TypeOK,
         fabricVars, runVars, Steps, NoCall
  <2>2. CASE DispatchPatch(i) \/ DispatchStage(i) \/ DispatchDelete(i)
    BY <2>2 DEF DispatchPatch, DispatchStage, DispatchDelete, Send, TypeOK, fileVars,
       runVars, Steps, Requests
  <2>3. CASE TakePatchReply(i)
    <3>1. cp' \in [Items -> Entries]
      BY <2>3, EntryType DEF TakePatchReply, TypeOK
    <3> QED
      BY <2>3, <3>1, TypeApproved DEF TakePatchReply, TypeOK, Goto, Fail, Stop,
         fabricVars, runVars, Phases, Steps, NoCall
  <2>4. CASE TakeStageReply(i)
    BY <2>4, TypeApproved, EntryType DEF TakeStageReply, Throw, ThrowOperationFailed,
       TypeOK, Goto, Fail, Stop, fabricVars, runVars, Phases, Steps, NoCall
  <2>5. CASE VerifyBeforeDelete(i) \/ TakeDeleteReply(i) \/ TimeOut(i)
    BY <2>5, TypeApproved DEF VerifyBeforeDelete, TakeDeleteReply, TimeOut, Throw,
       TypeOK, Goto, Fail, Stop, fabricVars, runVars, Phases, Steps, NoCall
  <2> QED  BY <1>7, <2>1, <2>2, <2>3, <2>4, <2>5 DEF WriteStep
<1>8. ASSUME NEW i \in Items, VerifyItem(i) \/ VerifyAdopted(i) PROVE TypeOK'
  <2>1. cp \in [Items -> Entries] /\ Entry("completed", target) \in Entries
    BY EntryType DEF TypeOK, CpPhases
  <2>2. cp' \in [Items -> Entries]
    BY <1>8, <2>1 DEF VerifyItem, VerifyAdopted, CompleteItem
  <2> QED
    BY <1>8, <2>2, TypeApproved DEF VerifyItem, VerifyAdopted, CompleteItem,
       FinishItem, Throw,
       Goto, Fail, Stop, TypeOK, fabricVars, runVars, Phases, Steps, NoCall
<1>9. ASSUME NEW i \in Items, NEW n \in Posts, HandleCreate(i, n) \/ FinishOperation(i, n)
      PROVE  TypeOK'
  <2>1. live' \in [Items -> States]
    <3>1. live \in [Items -> States] /\ [id |-> n, content |-> NewContent(i)] \in States
      BY DEF TypeOK, NewContent, States, Contents
    <3> QED
      BY <1>9, <3>1 DEF HandleCreate, FinishOperation, FabricCreates, FabricRefuses
  <2>2. fate' \in [Items -> [Posts -> Fates]]
    <3>1. fate \in [Items -> [Posts -> Fates]]
      BY DEF TypeOK
    <3>2. PICK f \in Fates : fate' = [fate EXCEPT ![i][n] = f]
      BY <1>9 DEF HandleCreate, FinishOperation, FabricCreates, FabricRefuses, Fates
    <3> QED BY <3>1, <3>2
  <2>3. faults' \in 0..MaxFaults
    BY <1>9 DEF HandleCreate, FinishOperation, FabricCreates, FabricRefuses, TypeOK,
       Fault
  <2> QED
    BY <1>9, <2>1, <2>2, <2>3 DEF HandleCreate, FinishOperation, Serve, TypeOK,
       fileVars, runVars
<1>10. ASSUME NEW r \in wire, HandleWrite(r) PROVE TypeOK'
  <2>1. r.item \in Items /\ Written(r, live[r.item]) \in States
    BY <1>10 DEF TypeOK, Requests, Written, Absent, States, Contents
  <2>2. live' \in [Items -> States]
    BY <1>10, <2>1 DEF HandleWrite, TypeOK
  <2>3. faults' \in 0..MaxFaults
    BY <1>10 DEF HandleWrite, TypeOK, Fault
  <2>4. call' \in [ticket : 0..MaxFaults, answer : {"-", "ok", "rejected", "failed"}]
    BY <1>10 DEF HandleWrite, Answer, TypeOK
  <2>5. wire' \subseteq Requests
    BY <1>10 DEF HandleWrite, Answer, TypeOK
  <2> QED
    BY <1>10, <2>2, <2>3, <2>4, <2>5 DEF HandleWrite, Serve, TypeOK, fileVars, runVars
<1>11. CASE Crash
  BY <1>11, TypeApproved DEF Crash, Fault, Stop, TypeOK, fabricVars, fileVars, Phases,
     Steps, NoCall
<1>12. ASSUME NEW i \in Items, Ambiguous(i) PROVE TypeOK'
  BY <1>12, TypeApproved DEF Ambiguous, Fault, Throw, Goto, Fail, Stop, TypeOK,
     fabricVars, runVars, Phases, Steps, NoCall
<1>13. ASSUME NEW i \in Items, ForeignChange(i) PROVE TypeOK'
  <2>1. live' \in [Items -> States]
    <3>1. /\ live \in [Items -> States] /\ Absent \in States
          /\ [id |-> live[i].id, content |-> "foreign"] \in States
          /\ \A c \in {"desired", "foreign"} : [id |-> ForeignId, content |-> c] \in States
      BY DEF TypeOK, Absent, States, Contents
    <3>2. PICK s \in States : live' = [live EXCEPT ![i] = s]
      BY <1>13, <3>1 DEF ForeignChange
    <3> QED BY <3>1, <3>2
  <2> QED BY <1>13, <2>1 DEF ForeignChange, Fault, TypeOK, fileVars, runVars, handVars
<1>14. CASE UNCHANGED vars
  BY <1>14 DEF TypeOK, vars, fabricVars, fileVars, runVars, handVars
<1> QED
  BY <1>1, <1>2, <1>3, <1>4, <1>5, <1>6, <1>7, <1>8, <1>9, <1>10, <1>11, <1>12, <1>13,
     <1>14
  DEF Next, Process, ItemStep, Fabric, Disturb

(* Type correctness: in every run and every rerun each variable of the model has its*)
(* type; in particular a run that waits for a create knows which request it waits for.*)
THEOREM TypeCorrect == Spec => []TypeOK
<1>1. Init => TypeOK
  BY TypeInit
<1>2. TypeOK /\ [Next]_vars => TypeOK'
  BY TypeNext
<1> QED BY <1>1, <1>2, PTL DEF Spec

-----------------------------------------------------------------------------
(* The shapes of steps.                                                     *)

(* The parts of the invariant that speak of the item in hand, after a step.  *)
HandParts == TypeOK' /\ CursorInv' /\ HandInv' /\ RequestInv'

(* What must be finished before an item comes before it in the stages.       *)
LEMMA PredecessorsFirst ==
  \A i \in Items : \A d \in Predecessors[i] :
    d \in Items /\ d # i /\ Rank[d] < Rank[i] /\ Rank[d] \in Nat /\ Rank[i] \in Nat
<1> SUFFICES ASSUME NEW i \in Items, NEW d \in Predecessors[i]
             PROVE  d \in Items /\ Rank[d] < Rank[i] /\ Rank[d] \in Nat /\ Rank[i] \in Nat
  OBVIOUS
<1>1. CASE Removes(i)
  <2>1. d \in Items /\ (~Removes(d) \/ i \in Dependencies[d])
    BY <1>1 DEF Predecessors
  <2>2. CASE ~Removes(d)
    BY <1>1, <2>1, <2>2, OrderAssumption
  <2>3. CASE Removes(d)
    BY <1>1, <2>1, <2>3, OrderAssumption
  <2> QED BY <2>2, <2>3
<1>2. CASE ~Removes(i)
  <2>1. d \in Dependencies[i]
    BY <1>2 DEF Predecessors
  <2> QED BY <1>2, <2>1, OrderAssumption
<1> QED BY <1>1, <1>2

(* What holds while an item is in hand: the run is in a phase that visits items,*)
(* and what must come before the item is finished.                           *)
LEMMA InHand ==
  ASSUME IInv, cur # NoItem
  PROVE  /\ cur \in Items /\ cur \in todo
         /\ pc \in {"updates", "deletes", "creates", "operations", "stages"}
         /\ at \in StepsOf[pc]
         /\ result # "succeeded"
         /\ \A d \in Predecessors[cur] : cp[d].phase = "completed"
  BY BoundAssumption, ItemsAssumption
  DEF IInv, TypeOK, CursorInv, HandInv, ProgressInv, DependencyOrder, StepsOf, Phases

(* A step that only moves the item in hand to its next step.                 *)
LEMMA MoveOn ==
  ASSUME IInv, cur # NoItem, HandParts,
         UNCHANGED <<live, fate, cp, cur, result, runVars>>
  PROVE  IInv'
<1>1. LiveInv' /\ EntryInv' /\ PendingInv' /\ PreflightInv' /\ ProgressInv'
  BY DEF IInv, LiveInv, EntryInv, PendingInv, PreflightInv, ProgressInv, Authorized,
     runVars
<1>2. OperationInv' /\ WriteAhead' /\ AtMostOneCreate'
  BY DEF IInv, OperationInv, WriteAhead, AtMostOneCreate, Outstanding, OnlyOpen
<1>3. DependencyOrder' /\ SuccessIsVerified'
  BY DEF IInv, DependencyOrder, SuccessIsVerified, runVars
<1> QED BY <1>1, <1>2, <1>3 DEF IInv, HandParts

(* A checkpoint write for the item in hand: an intent, an accepted create, or the*)
(* acknowledged physical ID.                                                 *)
LEMMA Recorded ==
  ASSUME IInv, cur # NoItem, HandParts, OperationInv',
         UNCHANGED <<live, fate, cur, result, runVars>>,
         NEW e \in Entries,
         cp' = [cp EXCEPT ![cur] = e],
         cp[cur].phase # "completed",
         e.phase # "none",
         e.phase = "pendingUpdate" => Updates(cur),
         e.phase = "pendingDelete" => Action[cur] = "delete",
         e.phase \in {"pendingCreate", "pendingOperation"} => Creates(cur),
         e.phase = "completed" => e = Entry("completed", e.id)
  PROVE  IInv'
<1> USE ItemsAssumption
<1>0. cur \in Items /\ cp'[cur] = e /\ \A i \in Items : i # cur => cp'[i] = cp[i]
  BY InHand DEF IInv, TypeOK
<1>1. LiveInv' /\ EntryInv' /\ PendingInv'
  BY <1>0 DEF IInv, LiveInv, EntryInv, PendingInv, runVars
<1>2. PreflightInv'
  BY <1>0 DEF IInv, PreflightInv, Authorized, runVars
<1>3. ProgressInv'
  BY <1>0, InHand DEF IInv, ProgressInv, runVars
<1>4. WriteAhead' /\ AtMostOneCreate'
  BY <1>0 DEF IInv, WriteAhead, AtMostOneCreate, Outstanding
<1>5. DependencyOrder'
  BY <1>0, InHand, PredecessorsFirst DEF IInv, DependencyOrder, runVars
<1>6. SuccessIsVerified'
  BY <1>0, InHand DEF IInv, SuccessIsVerified, runVars
<1> QED BY <1>1, <1>2, <1>3, <1>4, <1>5, <1>6 DEF IInv, HandParts

(* The end of a run, by failure or by a kill, that leaves the file alone.    *)
LEMMA Stopped ==
  ASSUME IInv, TypeOK', Stop, UNCHANGED <<fabricVars, cp>>,
         result' = "failed" \/ (result' = result /\ pc # "idle")
  PROVE  IInv'
<1>0. result' # "succeeded"
  BY DEF IInv, ProgressInv
<1>1. LiveInv' /\ CursorInv' /\ EntryInv'  /\ HandInv' /\ RequestInv' /\ PreflightInv'
  BY DEF IInv, Stop, LiveInv, CursorInv, EntryInv, HandInv, RequestInv, PreflightInv,
     fabricVars
<1>2. PendingInv'
  BY DEF IInv, Stop, PendingInv, Settled, Visits
<1>3. ProgressInv' /\ SuccessIsVerified'
  BY <1>0 DEF Stop, ProgressInv, SuccessIsVerified
<1>4. OperationInv' /\ WriteAhead' /\ AtMostOneCreate'
  BY DEF IInv, OperationInv, WriteAhead, AtMostOneCreate, Outstanding, OnlyOpen,
     fabricVars
<1>5. DependencyOrder'
  BY DEF IInv, DependencyOrder, Stop
<1> QED BY <1>1, <1>2, <1>3, <1>4, <1>5 DEF IInv

(* A definitive rejection: the intent is taken back, and nothing is left of it.*)
LEMMA Forgotten ==
  ASSUME IInv, TypeOK', Fail, UNCHANGED fabricVars, cur # NoItem,
         cp' = [cp EXCEPT ![cur] = NoEntry],
         cp[cur].phase # "completed",
         \A n \in Posts : ~Outstanding(cur, n)
  PROVE  IInv'
<1> USE ItemsAssumption DEF Fail
<1>0. /\ cur \in Items
      /\ cp'[cur].phase = "none"
      /\ \A i \in Items : i # cur => cp'[i] = cp[i]
  BY InHand DEF IInv, TypeOK, NoEntry, Entry
<1>1. LiveInv' /\ CursorInv' /\ HandInv' /\ RequestInv' /\ PreflightInv'
  BY DEF IInv, Stop, LiveInv, CursorInv, HandInv, RequestInv, PreflightInv, fabricVars
<1>2. PendingInv' /\ EntryInv'
  BY <1>0 DEF IInv, Stop, PendingInv, EntryInv, Settled, Visits
<1>3. ProgressInv' /\ SuccessIsVerified'
  BY DEF Stop, ProgressInv, SuccessIsVerified
<1>4. OperationInv'
  BY <1>0 DEF IInv, OperationInv, Outstanding, OnlyOpen, fabricVars
<1>5. WriteAhead' /\ AtMostOneCreate'
  BY <1>0 DEF IInv, WriteAhead, AtMostOneCreate, Outstanding, fabricVars
<1>6. DependencyOrder'
  BY <1>0, PredecessorsFirst DEF IInv, DependencyOrder, Stop
<1> QED BY <1>1, <1>2, <1>3, <1>4, <1>5, <1>6 DEF IInv

(* Completing the item in hand.                                              *)
LEMMA Finished ==
  ASSUME IInv, TypeOK', cur # NoItem, NEW id \in Ids, CompleteItem(cur, id),
         UNCHANGED fabricVars,
         cp[cur].phase = "completed" => cp[cur].id = id
  PROVE  IInv'
<1> USE ItemsAssumption DEF CompleteItem, FinishItem
<1>0. /\ cur \in Items
      /\ cp'[cur] = Entry("completed", id)
      /\ cp'[cur].phase = "completed"
      /\ cp'[cur].id = id
      /\ \A i \in Items : i # cur => cp'[i] = cp[i]
  BY InHand DEF IInv, TypeOK, Entry
<1>1. LiveInv' /\ CursorInv' /\ HandInv' /\ RequestInv'
  BY DEF IInv, LiveInv, CursorInv, HandInv, RequestInv, fabricVars
<1>2. PendingInv'
  BY <1>0, InHand DEF IInv, PendingInv, Settled, Visits, CpPhases
<1>3. EntryInv'
  BY <1>0 DEF IInv, EntryInv, Entry
<1>4. ProgressInv'
  BY <1>0, InHand DEF IInv, ProgressInv
<1>5. SuccessIsVerified'
  BY InHand DEF SuccessIsVerified
<1>6. OperationInv'
  BY <1>0 DEF IInv, OperationInv, Outstanding, OnlyOpen, fabricVars
<1>7. WriteAhead' /\ AtMostOneCreate'
  BY <1>0 DEF IInv, WriteAhead, AtMostOneCreate, Outstanding, fabricVars
<1>8. DependencyOrder'
  BY <1>0, InHand, PredecessorsFirst DEF IInv, DependencyOrder
<1>9. PreflightInv'
  BY <1>0 DEF IInv, PreflightInv, Authorized
<1> QED BY <1>1, <1>2, <1>3, <1>4, <1>5, <1>6, <1>7, <1>8, <1>9 DEF IInv

(* Taking up the next item of a phase; in the stages, every item before it is done.*)
LEMMA TookUp ==
  ASSUME IInv, TypeOK', NEW i \in Items, IsNext(i), NEW step \in Steps, NEW id \in Ids,
         TakeUp(i, step, id), CursorInv', HandInv', RequestInv'
  PROVE  IInv'
<1> USE ItemsAssumption DEF TakeUp, IsNext
<1>1. LiveInv' /\ EntryInv' /\ PreflightInv'
  BY DEF IInv, LiveInv, EntryInv, PreflightInv, Authorized, runVars, fabricVars,
     fileVars
<1>2. PendingInv' /\ ProgressInv'
  BY DEF IInv, TypeOK, PendingInv, ProgressInv, runVars, fabricVars, fileVars
<1>3. OperationInv' /\ WriteAhead' /\ AtMostOneCreate'
  BY DEF IInv, OperationInv, WriteAhead, AtMostOneCreate, Outstanding, OnlyOpen,
     fabricVars, fileVars
<1>4. SuccessIsVerified'
  BY DEF IInv, SuccessIsVerified, runVars, fileVars
<1>5. DependencyOrder'
  <2>1. cp' = cp /\ pc' = pc /\ todo' = todo
    BY DEF fileVars, runVars
  <2>2. ASSUME pc = "stages", NEW d \in Predecessors[i] PROVE cp[d].phase = "completed"
    <3>1. d \in Items /\ Rank[d] < Rank[i] /\ Rank[d] \in Nat /\ Rank[i] \in Nat
      BY PredecessorsFirst
    <3>2. d \notin todo
      BY <3>1
    <3> QED BY <2>2, <3>1, <3>2 DEF IInv, ProgressInv
  <2> QED BY <2>1, <2>2 DEF IInv, DependencyOrder
<1> QED BY <1>1, <1>2, <1>3, <1>4, <1>5 DEF IInv

(* A phase begins.                                                           *)
LEMMA Entered ==
  ASSUME IInv, TypeOK', NEW phase \in Phases \ {"idle", "preflight"}, NEW items,
         EnterPhase(phase, items),
         cur = NoItem, PendingInv', PreflightInv', ProgressInv', pc # "idle"
  PROVE  IInv'
<1> USE ItemsAssumption DEF EnterPhase
<1>1. LiveInv' /\ EntryInv' /\ CursorInv' /\ HandInv' /\ RequestInv'
  BY DEF IInv, LiveInv, EntryInv, CursorInv, HandInv, RequestInv, fabricVars, fileVars,
     handVars
<1>2. OperationInv' /\ WriteAhead' /\ AtMostOneCreate'
  BY DEF IInv, OperationInv, WriteAhead, AtMostOneCreate, Outstanding, OnlyOpen,
     fabricVars, fileVars
<1>3. DependencyOrder'
  BY DEF IInv, TypeOK, DependencyOrder, fileVars, handVars
<1>4. SuccessIsVerified'
  BY DEF IInv, SuccessIsVerified, ProgressInv, fileVars
<1> QED BY <1>1, <1>2, <1>3, <1>4 DEF IInv

(* A step outside the run may settle create requests of one item; it never opens*)
(* one, and never changes what is settled.                                   *)
OnlyCloses(i) ==
  /\ \A j \in Items, n \in Posts :
       /\ Outstanding(j, n)' => Outstanding(j, n)
       /\ InFlight(j, n)' => InFlight(j, n)
       /\ fate[j][n] \in {"unsent"} \cup Created => fate'[j][n] = fate[j][n]
       /\ fate[j][n] \in {"running", "failed"} => fate'[j][n] \in {"running", "failed"} \cup Created
  /\ \A j \in Items, n \in Posts : j # i => (Outstanding(j, n)' <=> Outstanding(j, n))

(* A step of Fabric or of another actor.                                     *)
LEMMA World ==
  ASSUME IInv, TypeOK', LiveInv', UNCHANGED <<fileVars, runVars, cur, at, target>>,
         NEW i \in Items, OnlyCloses(i)
  PROVE  IInv'
<1> USE ItemsAssumption DEF fileVars, runVars, OnlyCloses
<1>1. /\ EntryInv'
      /\ PreflightInv'
      /\ CursorInv'
      /\ HandInv'
      /\ PendingInv'
      /\ ProgressInv'
  BY DEF IInv, EntryInv, PreflightInv, Authorized, CursorInv, HandInv, PendingInv,
     ProgressInv
<1>2. OperationInv'
  BY DEF IInv, OperationInv, OnlyOpen, Created
<1>3. WriteAhead' /\ AtMostOneCreate'
  BY DEF IInv, WriteAhead, AtMostOneCreate
<1>4. RequestInv'
  <2>1. cur # NoItem => cur \in Items
    BY DEF IInv, TypeOK
  <2> QED BY <2>1 DEF IInv, RequestInv, OnlyOpen, NoneInFlight, Created
<1>5. DependencyOrder' /\ SuccessIsVerified'
  BY DEF IInv, DependencyOrder, SuccessIsVerified
<1> QED BY <1>1, <1>2, <1>3, <1>4, <1>5 DEF IInv

(* An error: reconciled while an operation is resumed, the end of the run otherwise.*)
LEMMA Thrown ==
  ASSUME IInv, TypeOK', cur # NoItem, Throw, UNCHANGED <<fabricVars, cp>>
  PROVE  IInv'
<1>1. CASE pc = "operations"
  <2>1. CursorInv' /\ HandInv' /\ RequestInv'
    BY <1>1, InHand DEF IInv, Throw, Goto, CursorInv, HandInv, RequestInv, StepsOf,
       CreateSteps, UpdateSteps, DeleteSteps, runVars
  <2> QED BY <1>1, <2>1, MoveOn DEF HandParts, Throw, Goto, fabricVars
<1>2. CASE pc # "operations"
  BY <1>2, Stopped DEF Throw, Fail
<1> QED BY <1>1, <1>2

(* An operation that ended in failure.                                       *)
LEMMA ThrownFailed ==
  ASSUME IInv, TypeOK', cur # NoItem, ThrowOperationFailed, UNCHANGED <<fabricVars, cp>>,
         Creates(cur) => cp[cur].phase = "pendingOperation" /\ NoneInFlight(cur)
  PROVE  IInv'
<1>1. CASE Creates(cur)
  <2>1. CursorInv' /\ HandInv' /\ RequestInv'
    BY <1>1, InHand DEF IInv, ThrowOperationFailed, Goto, CursorInv, HandInv,
       RequestInv, StepsOf, CreateSteps, UpdateSteps, DeleteSteps, runVars,
       NoneInFlight, InFlight, fabricVars, Steps
  <2> QED BY <1>1, <2>1, MoveOn DEF HandParts, ThrowOperationFailed, Goto, fabricVars
<1>2. CASE ~Creates(cur)
  BY <1>2, Stopped DEF ThrowOperationFailed, Fail
<1> QED BY <1>1, <1>2

-----------------------------------------------------------------------------
(* The actions of a run.                                                    *)

(* Starting a run, its phases and its success.                               *)
LEMMA RunSteps ==
  ASSUME IInv, TypeOK', StartRun \/ Preflight \/ NextPhase \/ Succeed
  PROVE  IInv'
<1> USE ItemsAssumption
<1>1. CASE StartRun
  <2>1. cur = NoItem
    BY <1>1 DEF IInv, CursorInv, StartRun, StepsOf
  <2>2. LiveInv' /\ EntryInv' /\ CursorInv' /\ HandInv' /\ RequestInv' /\ PreflightInv'
    BY <1>1, <2>1 DEF StartRun, IInv, LiveInv, EntryInv, CursorInv, HandInv,
       RequestInv, PreflightInv, fabricVars, handVars
  <2>3. PendingInv' /\ ProgressInv' /\ SuccessIsVerified'
    BY <1>1, <2>1 DEF StartRun, IInv, PendingInv, ProgressInv, SuccessIsVerified,
       Settled, Visits
  <2>4. OperationInv' /\ WriteAhead' /\ AtMostOneCreate' /\ DependencyOrder'
    BY <1>1, <2>1 DEF StartRun, IInv, OperationInv, WriteAhead, AtMostOneCreate,
       Outstanding, OnlyOpen, DependencyOrder, fabricVars, handVars
  <2> QED BY <2>2, <2>3, <2>4 DEF IInv
<1>2. CASE Preflight
  <2>1. cur = NoItem
    BY <1>2 DEF IInv, CursorInv, Preflight, StepsOf
  <2>2. CASE PreflightBeforeRecoveryOk
    <3>1. EnterPhase("updates", InPhase("pendingUpdate"))
      BY <1>2, <2>2 DEF Preflight
    <3>2. PendingInv' /\ PreflightInv' /\ ProgressInv'
      BY <1>2, <2>2, <3>1 DEF Preflight, EnterPhase, PendingInv, PreflightInv,
         PreflightBeforeRecoveryOk, Authorized, ProgressInv,
         IInv, InPhase, Settled, Visits, fileVars, handVars
    <3> QED BY <1>2, <2>1, <3>1, <3>2, Entered DEF Phases, Preflight
  <2>3. CASE ~PreflightBeforeRecoveryOk
    BY <1>2, <2>3, Stopped DEF Preflight, Refuse, Fail
  <2> QED BY <2>2, <2>3
<1>3. CASE NextPhase
  <2>0. /\ cur = NoItem
        /\ todo = {}
        /\ pc # "idle"
        /\ \A i \in Items : cp[i].phase \in CpPhases
    BY <1>3 DEF NextPhase, IInv, TypeOK, Entries
  <2>1. CASE pc = "updates" /\ EnterPhase("deletes", InPhase("pendingDelete"))
    <3>1. PendingInv' /\ PreflightInv' /\ ProgressInv'
      BY <2>0, <2>1 DEF EnterPhase, PendingInv, PreflightInv, ProgressInv, Authorized,
         IInv, InPhase, Settled, Visits, fileVars, handVars
    <3> QED BY <2>0, <2>1, <3>1, Entered DEF Phases
  <2>2. CASE pc = "deletes" /\ EnterPhase("creates", InPhase("pendingCreate"))
    <3>1. PendingInv' /\ PreflightInv' /\ ProgressInv'
      BY <2>0, <2>2 DEF EnterPhase, PendingInv, PreflightInv, ProgressInv, Authorized,
         IInv, InPhase, Settled, Visits, fileVars, handVars
    <3> QED BY <2>0, <2>2, <3>1, Entered DEF Phases
  <2>3. CASE pc = "creates" /\ EnterPhase("operations", InPhase("pendingOperation"))
    <3>1. PendingInv' /\ PreflightInv' /\ ProgressInv'
      BY <2>0, <2>3 DEF EnterPhase, PendingInv, PreflightInv, ProgressInv, Authorized,
         IInv, InPhase, Settled, Visits, fileVars, handVars
    <3> QED BY <2>0, <2>3, <3>1, Entered DEF Phases
  <2>4. CASE pc = "operations" /\ EnterPhase("verify", InPhase("completed"))
    <3>1. PendingInv' /\ PreflightInv' /\ ProgressInv'
      BY <2>0, <2>4 DEF EnterPhase, PendingInv, PreflightInv, ProgressInv, Authorized,
         IInv, InPhase, Settled, Visits, fileVars, handVars
    <3> QED BY <2>0, <2>4, <3>1, Entered DEF Phases
  <2>5. CASE pc = "verify" /\ EnterPhase("stages", Items)
    <3>1. PendingInv' /\ PreflightInv' /\ ProgressInv'
      BY <2>0, <2>5 DEF EnterPhase, PendingInv, PreflightInv, ProgressInv, Authorized,
         IInv, Settled, Visits, fileVars, handVars
    <3> QED BY <2>0, <2>5, <3>1, Entered DEF Phases
  <2>6. CASE Refuse
    BY <2>0, <2>6, Stopped DEF Refuse, Fail
  <2> QED BY <1>3, <2>1, <2>2, <2>3, <2>4, <2>5, <2>6 DEF NextPhase
<1>4. CASE Succeed
  <2>1. \A i \in Items : cp[i].phase = "completed" /\ i \in verified
    BY <1>4 DEF Succeed, IInv, ProgressInv
  <2>2. LiveInv' /\ EntryInv' /\ CursorInv' /\ HandInv' /\ RequestInv' /\ PreflightInv'
    BY <1>4 DEF Succeed, IInv, LiveInv, EntryInv, CursorInv, HandInv, RequestInv,
       PreflightInv, fabricVars, handVars
  <2>3. PendingInv' /\ ProgressInv' /\ SuccessIsVerified'
    BY <1>4, <2>1 DEF Succeed, IInv, TypeOK, PendingInv, ProgressInv,
       SuccessIsVerified, Settled, Visits
  <2>4. OperationInv' /\ WriteAhead' /\ AtMostOneCreate' /\ DependencyOrder'
    BY <1>4 DEF Succeed, IInv, OperationInv, WriteAhead, AtMostOneCreate, Outstanding,
       OnlyOpen, DependencyOrder, fabricVars, handVars
  <2> QED BY <2>2, <2>3, <2>4 DEF IInv
<1> QED BY <1>1, <1>2, <1>3, <1>4

(* Taking up, passing over and beginning items.                              *)
LEMMA RecoverSteps ==
  ASSUME IInv, TypeOK', NEW i \in Items, Recover(i) \/ SkipCompleted(i) \/ BeginItem(i)
  PROVE  IInv'
<1> USE ItemsAssumption
<1>00. ApprovedId \in Ids
  BY BoundAssumption
<1>0. /\ cp[i].id \in Ids /\ live[i].id \in Ids /\ cp[i].phase \in CpPhases
      /\ Action[i] \in Actions /\ ApprovedId \in Ids
  BY <1>00 DEF IInv, TypeOK, Entries, States
<1>1. CASE Refuse
  <2>1. pc # "idle"
    BY DEF Recover, SkipCompleted, BeginItem, ReconcilePendingUpdate,
       ReconcilePendingDelete, ReconcilePendingCreate, ResumePendingOperation,
       VerifyCheckpointedItem
  <2> QED BY <1>1, <2>1, Stopped DEF Refuse, Fail
<1>2. CASE ReconcilePendingUpdate(i) /\ ~Refuse
  <2>1. cp[i].phase = "pendingUpdate" /\ Updates(i)
    BY <1>2 DEF ReconcilePendingUpdate, IsNext, IInv, PendingInv, Visits, EntryInv
  <2>2. PICK step \in {"update", "verify"}, id \in Ids : TakeUp(i, step, id)
    BY <1>0, <1>2 DEF ReconcilePendingUpdate
  <2>3. CursorInv' /\ HandInv' /\ RequestInv'
    BY <1>2, <2>1, <2>2 DEF ReconcilePendingUpdate, IsNext, TakeUp, CursorInv, HandInv,
       RequestInv, StepsOf, CreateSteps, UpdateSteps, DeleteSteps, runVars, fileVars
  <2> QED BY <1>2, <2>2, <2>3, TookUp DEF Steps, ReconcilePendingUpdate
<1>3. CASE ReconcilePendingDelete(i) /\ ~Refuse
  <2>1. cp[i].phase = "pendingDelete" /\ Action[i] = "delete"
    BY <1>3 DEF ReconcilePendingDelete, IsNext, IInv, PendingInv, Visits, EntryInv
  <2>2. PICK step \in {"deleteSend", "verify"} : TakeUp(i, step, ApprovedId)
    BY <1>3 DEF ReconcilePendingDelete
  <2>3. CursorInv' /\ HandInv' /\ RequestInv'
    BY <1>3, <2>1, <2>2 DEF ReconcilePendingDelete, IsNext, TakeUp, CursorInv, HandInv,
       RequestInv, StepsOf, CreateSteps, UpdateSteps, DeleteSteps, runVars, fileVars
  <2> QED BY <1>3, <2>2, <2>3, <1>0, TookUp DEF Steps, ReconcilePendingDelete
<1>4. CASE ReconcilePendingCreate(i) /\ ~Refuse
  <2>1. cp[i].phase = "pendingCreate" /\ Creates(i)
    BY <1>4 DEF ReconcilePendingCreate, IsNext, IInv, PendingInv, Visits, EntryInv
  <2>2. TakeUp(i, "adopt", live[i].id)
    BY <1>4 DEF ReconcilePendingCreate
  <2>3. CursorInv' /\ HandInv' /\ RequestInv'
    BY <1>4, <2>1, <2>2 DEF ReconcilePendingCreate, IsNext, TakeUp, CursorInv, HandInv,
       RequestInv, StepsOf, CreateSteps, UpdateSteps, DeleteSteps, runVars, fileVars
  <2> QED BY <1>0, <1>4, <2>2, <2>3, TookUp DEF Steps, ReconcilePendingCreate
<1>5. CASE ResumePendingOperation(i)
  <2>1. cp[i].phase = "pendingOperation" /\ Creates(i)
    BY <1>5 DEF ResumePendingOperation, IsNext, IInv, PendingInv, Visits, EntryInv
  <2>2. /\ cp[i].id \in Posts
        /\ fate[i][cp[i].id] \in {"running", "failed"} \cup Created
        /\ OnlyOpen(i, cp[i].id)
        /\ cp[i].ref = "shell" => fate[i][cp[i].id] \in Created
    BY <2>1 DEF IInv, OperationInv
  <2>3. PICK step \in {"shellCheck", "poll"} : /\ TakeUp(i, step, cp[i].id)
                                               /\ (step = "shellCheck" => cp[i].ref = "shell")
    BY <1>5 DEF ResumePendingOperation
  <2>4. CursorInv' /\ HandInv'
    BY <1>5, <2>1, <2>3 DEF ResumePendingOperation, IsNext, TakeUp, CursorInv, HandInv,
       StepsOf, CreateSteps, UpdateSteps, DeleteSteps, runVars, fileVars
  <2>5. RequestInv'
    BY <2>2, <2>3 DEF TakeUp, RequestInv, OnlyOpen, Outstanding, fabricVars, fileVars
  <2> QED BY <1>0, <1>5, <2>3, <2>4, <2>5, TookUp DEF Steps, ResumePendingOperation
<1>6. CASE VerifyCheckpointedItem(i) /\ ~Refuse
  <2>1. cp[i].phase = "completed"
    BY <1>6 DEF VerifyCheckpointedItem, IsNext, IInv, PendingInv, Visits
  <2>2. /\ at = "-"
        /\ cur = NoItem
        /\ cur' = NoItem
        /\ at' = "-"
        /\ UNCHANGED fabricVars
        /\ cp' = cp
        /\ result' = result
        /\ UNCHANGED <<pc, plan, allow>> /\ pc = "verify"
        /\ todo' = todo \ {i} /\ verified' = verified \cup {i}
    BY <1>6 DEF VerifyCheckpointedItem, FinishItem, IsNext, IInv, CursorInv
  <2>3. LiveInv' /\ EntryInv' /\ PreflightInv' /\ CursorInv' /\ HandInv' /\ RequestInv'
    BY <2>2 DEF IInv, LiveInv, EntryInv, PreflightInv, Authorized, CursorInv, HandInv,
       RequestInv, fabricVars
  <2>4. PendingInv' /\ ProgressInv'
    BY <2>1, <2>2 DEF IInv, TypeOK, PendingInv, ProgressInv, Settled, Visits, CpPhases
  <2>5. OperationInv' /\ WriteAhead' /\ AtMostOneCreate' /\ DependencyOrder'
    BY <2>2 DEF IInv, OperationInv, WriteAhead, AtMostOneCreate, Outstanding, OnlyOpen,
       DependencyOrder, fabricVars
  <2>6. SuccessIsVerified'
    BY <2>2 DEF IInv, ProgressInv, SuccessIsVerified
  <2> QED BY <2>3, <2>4, <2>5, <2>6 DEF IInv
<1>7. CASE SkipCompleted(i)
  <2>1. LiveInv' /\ EntryInv' /\ PreflightInv' /\ CursorInv' /\ HandInv' /\ RequestInv'
    BY <1>7 DEF SkipCompleted, IsNext, IInv, LiveInv, EntryInv, PreflightInv,
       Authorized, CursorInv, HandInv, RequestInv, fabricVars, fileVars, handVars
  <2>2. PendingInv' /\ ProgressInv' /\ SuccessIsVerified'
    BY <1>7 DEF SkipCompleted, IsNext, IInv, TypeOK, PendingInv, ProgressInv,
       SuccessIsVerified, Settled, Visits, CpPhases, fileVars, handVars
  <2>3. OperationInv' /\ WriteAhead' /\ AtMostOneCreate' /\ DependencyOrder'
    BY <1>7 DEF SkipCompleted, IsNext, IInv, OperationInv, WriteAhead, AtMostOneCreate,
       Outstanding, OnlyOpen, DependencyOrder, fabricVars, fileVars, handVars
  <2> QED BY <2>1, <2>2, <2>3 DEF IInv
<1>8. CASE BeginItem(i) /\ ~Refuse
  <2>1. cp[i].phase = "none"
    BY <1>0, <1>8 DEF BeginItem, IsNext, IInv, PendingInv, Settled, CpPhases
  <2>2. TakeUp(i, FirstStep(i), ApprovedId)
    BY <1>8 DEF BeginItem
  <2>3. FirstStep(i) \in Steps
    BY DEF FirstStep, Steps
  <2>4. CursorInv' /\ HandInv' /\ RequestInv'
    BY <1>8, <2>1, <2>2, <2>3 DEF BeginItem, IsNext, FirstStep, Creates, Updates,
       TakeUp, CursorInv, HandInv, RequestInv, StepsOf, CreateSteps, UpdateSteps,
       DeleteSteps, runVars, fileVars
  <2> QED BY <1>8, <2>2, <2>3, <2>4, <1>0, TookUp DEF BeginItem
<1> QED
  BY <1>1, <1>2, <1>3, <1>4, <1>5, <1>6, <1>7, <1>8 DEF Recover,
     ReconcilePendingUpdate, ReconcilePendingDelete, ReconcilePendingCreate,
     VerifyCheckpointedItem, BeginItem

(* Creating an item, or resuming its creation.                               *)
LEMMA CreateStepsKeep ==
  ASSUME IInv, TypeOK', NEW i \in Items, CreateStep(i)
  PROVE  IInv'
<1> USE ItemsAssumption
<1>0. /\ cur = i
      /\ cur # NoItem
      /\ target \in Ids
      /\ cp[i] \in Entries
      /\ live[i] \in States
      /\ fate[i] \in [Posts -> Fates]
  BY DEF CreateStep, RecordCreateIntent, DispatchCreate, TakeCreateReply,
     PollOperation, LearnCreated,
     AcknowledgeMutation, RecordShellProof, CheckShell, ReconcileFailedCreate, IInv, TypeOK
<1>1. CASE RecordCreateIntent(i)
  <2> USE DEF RecordCreateIntent, Goto
  <2>1. /\ pc = "stages" /\ Creates(i) /\ cp[i].phase = "none"
        /\ \A n \in Posts : ~Outstanding(i, n)
    BY <1>0, <1>1, InHand DEF StepsOf, CreateSteps, IInv, CursorInv, HandInv, WriteAhead
  <2>2. /\ cp'[i] = Entry("pendingCreate", ApprovedId)
        /\ \A j \in Items : j # i => cp'[j] = cp[j]
    BY <1>1 DEF IInv, TypeOK
  <2>3. CursorInv' /\ HandInv'
    BY <1>0, <1>1, <2>1, <2>2 DEF IInv, CursorInv, HandInv, StepsOf, CreateSteps,
       UpdateSteps, DeleteSteps, Steps, runVars, Entry
  <2>4. RequestInv' /\ OperationInv'
    BY <1>0, <1>1, <2>1, <2>2 DEF IInv, RequestInv, OperationInv, Outstanding,
       OnlyOpen, fabricVars, Entry
  <2>5. Entry("pendingCreate", ApprovedId) \in Entries
    BY <1>1, <2>2 DEF TypeOK
  <2> QED
    BY <1>0, <1>1, <2>1, <2>3, <2>4, <2>5, Recorded DEF HandParts, fabricVars, Entry
<1>2. CASE DispatchCreate(i)
  <2> USE DEF DispatchCreate, Goto
  <2>0. PICK n \in Posts : /\ fate[i][n] = "unsent"
                           /\ fate' = [fate EXCEPT ![i][n] = "wire"]
                           /\ target' = n
    BY <1>2
  <2>1. /\ Creates(i)
        /\ cp[i].phase = "pendingCreate"
        /\ pc = "stages"
        /\ at' = "created?"
        /\ \A m \in Posts : ~Outstanding(i, m)
    BY <1>0, <1>2, InHand DEF IInv, CursorInv, CreateSteps, HandInv, RequestInv, StepsOf
  <2>2. /\ fate'[i][n] = "wire"
        /\ \A j \in Items, m \in Posts : j # i \/ m # n => fate'[j][m] = fate[j][m]
    BY <2>0 DEF IInv, TypeOK
  <2>3. UNCHANGED <<live, cp, cur, result, runVars>>
    BY <1>2
  <2>4. CursorInv' /\ HandInv'
    BY <1>0, <1>2, <2>1 DEF IInv, CursorInv, HandInv, StepsOf, CreateSteps,
       UpdateSteps, DeleteSteps, Steps, runVars
  <2>5. \A j \in Items, m \in Posts : j # i \/ m # n => Outstanding(j, m)' = Outstanding(j, m)
    BY <2>2, <2>3 DEF Outstanding
  <2>6. RequestInv' /\ OperationInv'
    BY <1>0, <2>0, <2>1, <2>2, <2>3, <2>5 DEF IInv, OperationInv, RequestInv, OnlyOpen,
       NoneInFlight, InFlight, CreateSteps, Created
  <2>7. WriteAhead' /\ AtMostOneCreate'
    BY <2>1, <2>2, <2>3, <2>5 DEF IInv, WriteAhead, AtMostOneCreate
  <2>8. LiveInv' /\ EntryInv' /\ PendingInv' /\ PreflightInv' /\ ProgressInv'
    BY <2>3 DEF IInv, LiveInv, EntryInv, PendingInv, PreflightInv, Authorized,
       ProgressInv, runVars
  <2>9. DependencyOrder' /\ SuccessIsVerified'
    BY <2>3 DEF IInv, DependencyOrder, SuccessIsVerified, runVars
  <2> QED BY <2>4, <2>6, <2>7, <2>8, <2>9 DEF IInv
<1>3. CASE TakeCreateReply(i)
  <2> USE DEF TakeCreateReply
  <2>1. /\ Creates(i)
        /\ cp[i].phase = "pendingCreate"
        /\ pc = "stages"
        /\ target \in Posts
        /\ OnlyOpen(i, target)
    BY <1>0, <1>3, InHand DEF IInv, CursorInv, CreateSteps, HandInv, RequestInv, StepsOf
  <2>2. CASE fate[i][target] = "created201"
    <3>1. CursorInv' /\ HandInv' /\ RequestInv'
      BY <1>0, <1>3, <2>1, <2>2 DEF Goto, IInv, CursorInv, HandInv, RequestInv,
         OnlyOpen, Outstanding, Created, StepsOf, CreateSteps, UpdateSteps,
         DeleteSteps, Steps, runVars, fabricVars
    <3> QED BY <1>0, <1>3, <2>2, <3>1, MoveOn DEF HandParts, Goto, fabricVars
  <2>3. CASE fate[i][target] \in {"running", "failed", "created202"}
    <3>1. /\ cp' = [cp EXCEPT ![i] = Accepted(target, "operation", "absent")]
          /\ Goto("poll", target)
      BY <1>3, <2>3
    <3>2. /\ cp'[i] = Accepted(target, "operation", "absent")
          /\ \A j \in Items : j # i => cp'[j] = cp[j]
      BY <3>1 DEF IInv, TypeOK
    <3>3. CursorInv' /\ HandInv'
      BY <1>0, <1>3, <2>1, <3>1, <3>2 DEF Goto, IInv, CursorInv, HandInv, StepsOf,
         CreateSteps, UpdateSteps, DeleteSteps, Steps, runVars, Accepted
    <3>4. RequestInv' /\ OperationInv'
      BY <1>0, <1>3, <2>1, <2>3, <3>1, <3>2 DEF Goto, IInv, RequestInv, OperationInv,
         Outstanding, OnlyOpen, Created, fabricVars, Accepted
    <3>5. Accepted(target, "operation", "absent") \in Entries
      BY <3>2 DEF TypeOK
    <3> QED
      BY <1>0, <1>3, <2>1, <3>1, <3>3, <3>4, <3>5, Recorded DEF HandParts, Goto,
         fabricVars, Accepted
  <2>4. CASE fate[i][target] = "rejected"
    <3>1. \A n \in Posts : ~Outstanding(i, n)
      BY <2>1, <2>4 DEF OnlyOpen, Outstanding, Created
    <3> QED BY <1>0, <1>3, <2>1, <2>4, <3>1, Forgotten
  <2> QED BY <1>3, <2>2, <2>3, <2>4
<1>4. CASE PollOperation(i)
  <2>1. /\ Creates(i)
        /\ cp[i].phase = "pendingOperation"
        /\ target \in Posts
        /\ OnlyOpen(i, target)
        /\ pc \in {"operations", "stages"}
    BY <1>0, <1>4, InHand DEF PollOperation, IInv, CursorInv, CreateSteps, HandInv,
       RequestInv, StepsOf
  <2>2. CASE fate[i][target] = "created202" /\ Goto("known", target)
    <3>1. CursorInv' /\ HandInv' /\ RequestInv'
      BY <1>0, <1>4, <2>1, <2>2 DEF PollOperation, Goto, IInv, CursorInv, HandInv,
         RequestInv, OnlyOpen, Outstanding, Created, StepsOf, CreateSteps, UpdateSteps,
         DeleteSteps, Steps, runVars, fabricVars
    <3> QED
      BY <1>0, <1>4, <2>2, <3>1, MoveOn DEF PollOperation, HandParts, Goto, fabricVars
  <2>3. CASE fate[i][target] = "failed" /\ ThrowOperationFailed
    <3>1. NoneInFlight(i)
      BY <2>1, <2>3 DEF OnlyOpen, Outstanding, NoneInFlight, InFlight
    <3> QED BY <1>0, <1>4, <2>1, <2>3, <3>1, ThrownFailed DEF PollOperation
  <2> QED BY <1>4, <2>2, <2>3 DEF PollOperation
<1>5. CASE LearnCreated(i)
  <2>1. /\ Creates(i) /\ cp[i].phase \in {"pendingCreate", "pendingOperation"}
        /\ target \in Posts /\ OnlyOpen(i, target)
        /\ fate[i][target] \in Created
        /\ fate[i][target] = "created202" => cp[i].phase = "pendingOperation"
        /\ pc \in {"operations", "stages"} /\ (pc = "operations" => cp[i].phase = "pendingOperation")
    BY <1>0, <1>5, InHand DEF LearnCreated, IInv, CursorInv, CreateSteps, HandInv,
       RequestInv, StepsOf
  <2>2. PICK step \in {"ack", "verify", "untouched?", "shellProof", "stage"} :
          /\ Goto(step, target)
          /\ step = "untouched?" => pc = "operations"
          /\ step \in {"shellProof", "stage"} => pc # "operations"
          /\ step = "stage" => fate[i][target] # "created201"
    BY <1>5 DEF LearnCreated
  <2>3. NoneInFlight(i)
    BY <2>1 DEF OnlyOpen, Outstanding, NoneInFlight, InFlight, Created
  <2>4. CursorInv' /\ HandInv'
    BY <1>0, <1>5, <2>1, <2>2 DEF LearnCreated, Goto, IInv, CursorInv, HandInv,
       Created, StepsOf, CreateSteps, UpdateSteps, DeleteSteps, Steps, runVars,
       fabricVars
  <2>5. RequestInv'
    BY <1>0, <1>5, <2>1, <2>2, <2>3 DEF LearnCreated, Goto, RequestInv, OnlyOpen,
       Outstanding, NoneInFlight, InFlight, fabricVars
  <2> QED
    BY <1>0, <1>5, <2>2, <2>4, <2>5, MoveOn DEF LearnCreated, HandParts, Goto,
       fabricVars
<1>6. CASE AcknowledgeMutation(i)
  <2> USE DEF AcknowledgeMutation, Goto
  <2>1. /\ pc \in {"operations", "stages"}
        /\ pc = "operations" =>
             cp[i].phase \in {"pendingOperation", "completed"} /\ Creates(i)
    BY <1>0, <1>6, InHand DEF StepsOf, IInv, CursorInv, HandInv
  <2>2. cp'[i] = Entry("completed", target) /\ \A j \in Items : j # i => cp'[j] = cp[j]
    BY <1>6 DEF IInv, TypeOK
  <2>3. CursorInv' /\ HandInv'
    BY <1>0, <1>6, <2>1, <2>2 DEF IInv, CursorInv, HandInv, StepsOf, CreateSteps,
       UpdateSteps, DeleteSteps, Steps, runVars, Entry
  <2>4. RequestInv' /\ OperationInv'
    BY <1>0, <1>6, <2>1, <2>2 DEF IInv, RequestInv, OperationInv, Outstanding,
       OnlyOpen, fabricVars, Entry
  <2>5. Entry("completed", target) \in Entries
    BY <1>6, <2>2 DEF TypeOK
  <2>6. cp[i].phase # "completed"
    BY <1>0, <1>6 DEF IInv, HandInv
  <2> QED
    BY <1>0, <1>6, <2>3, <2>4, <2>5, <2>6, Recorded DEF HandParts, fabricVars, Entry
<1>7. CASE RecordShellProof(i)
  <2> USE DEF RecordShellProof
  <2>1. /\ Creates(i) /\ cp[i].phase \in {"pendingCreate", "pendingOperation"}
        /\ target \in Posts /\ OnlyOpen(i, target)
        /\ fate[i][target] \in Created
        /\ pc = "stages"
    BY <1>0, <1>7, InHand DEF IInv, CursorInv, CreateSteps, HandInv, RequestInv, StepsOf
  <2>2. CASE live[i].id = target /\ live[i].content # "absent"
    <3>1. /\ cp' = [cp EXCEPT ![i] = Accepted(target, "shell", live[i].content)]
          /\ Goto("stage", target)
      BY <1>7, <2>2
    <3>2. /\ cp'[i] = Accepted(target, "shell", live[i].content)
          /\ \A j \in Items : j # i => cp'[j] = cp[j]
      BY <3>1 DEF IInv, TypeOK
    <3>3. CursorInv' /\ HandInv'
      BY <1>0, <1>7, <2>1, <3>1, <3>2 DEF Goto, IInv, CursorInv, HandInv, StepsOf,
         CreateSteps, UpdateSteps, DeleteSteps, Steps, runVars, Accepted
    <3>4. RequestInv' /\ OperationInv'
      BY <1>0, <1>7, <2>1, <3>1, <3>2 DEF Goto, IInv, RequestInv, OperationInv,
         Outstanding, OnlyOpen, Created, NoneInFlight, InFlight, fabricVars, Accepted
    <3>5. Accepted(target, "shell", live[i].content) \in Entries
      BY <3>2 DEF TypeOK
    <3> QED
      BY <1>0, <1>7, <2>1, <3>1, <3>3, <3>4, <3>5, Recorded DEF HandParts, Goto,
         fabricVars, Accepted
  <2>3. CASE ~(live[i].id = target /\ live[i].content # "absent")
    BY <1>7, <2>3, Stopped DEF Fail
  <2> QED BY <2>2, <2>3
<1>8. CASE CheckShell(i)
  <2> USE DEF CheckShell
  <2>1. /\ Creates(i)
        /\ cp[i].phase = "pendingOperation"
        /\ target \in Posts
        /\ OnlyOpen(i, target)
        /\ fate[i][target] \in Created
        /\ pc = "operations"
    BY <1>0, <1>8, InHand DEF IInv, CursorInv, CreateSteps, HandInv, RequestInv, StepsOf
  <2>2. NoneInFlight(i)
    BY <2>1 DEF OnlyOpen, Outstanding, NoneInFlight, InFlight, Created
  <2>3. CASE Goto("verify", target) \/ Goto("stage", target)
    <3>1. CursorInv' /\ HandInv'
      BY <1>0, <1>8, <2>1, <2>3 DEF Goto, IInv, CursorInv, HandInv, StepsOf,
         CreateSteps, UpdateSteps, DeleteSteps, Steps, runVars
    <3>2. RequestInv'
      BY <1>0, <1>8, <2>2, <2>3 DEF Goto, RequestInv, NoneInFlight, InFlight, fabricVars
    <3> QED BY <1>0, <1>8, <2>3, <3>1, <3>2, MoveOn DEF HandParts, Goto, fabricVars
  <2>4. CASE Throw
    BY <1>0, <1>8, <2>4, Thrown
  <2> QED BY <1>8, <2>3, <2>4
<1>9. CASE ReconcileFailedCreate(i)
  <2> USE DEF ReconcileFailedCreate
  <2>1. /\ Creates(i) /\ pc \in {"operations", "stages"}
        /\ pc = "stages" => at = "reconcileFailed"
        /\ at = "reconcileFailed" => cp[i].phase = "pendingOperation" /\ NoneInFlight(i)
    BY <1>0, <1>9, InHand DEF IInv, CursorInv, CreateSteps, HandInv, RequestInv, StepsOf
  <2>2. CASE MayAdopt(i) /\ Goto("adopt", live[i].id) /\ UNCHANGED cp
    <3>1. CursorInv' /\ HandInv' /\ RequestInv'
      BY <1>0, <1>9, <2>1, <2>2 DEF Goto, MayAdopt, IInv, CursorInv, HandInv,
         RequestInv, StepsOf, CreateSteps, UpdateSteps, DeleteSteps, Steps, runVars
    <3> QED BY <1>0, <1>9, <2>2, <3>1, MoveOn DEF HandParts, Goto, fabricVars
  <2>3. CASE /\ at = "reconcileFailed"
             /\ live[i].content = "absent"
             /\ cp' = [cp EXCEPT ![i] = NoEntry]
             /\ Fail
    <3>1. \A n \in Posts : ~Outstanding(i, n)
      <4>1. live[i].id = 0
        BY <2>3 DEF IInv, LiveInv
      <4> QED BY <2>1, <2>3, <4>1 DEF NoneInFlight, InFlight, Outstanding
    <3> QED BY <1>0, <1>9, <2>1, <2>3, <3>1, Forgotten
  <2>4. CASE Fail /\ UNCHANGED cp
    BY <1>9, <2>4, Stopped DEF Fail
  <2> QED BY <1>9, <2>2, <2>3, <2>4
<1> QED BY <1>1, <1>2, <1>3, <1>4, <1>5, <1>6, <1>7, <1>8, <1>9 DEF CreateStep

(* The steps of an update, a deletion or a staging fit the item in hand.     *)
LEMMA Moves ==
  ASSUME IInv, TypeOK', cur # NoItem, NEW step \in Steps, at' = step, cur' = cur,
         step \in {"patchSend", "patched?", "stage", "staged?", "ack", "verify",
                   "deleteIntent", "deleteSend", "deleted?"},
         UNCHANGED <<live, fate, result, runVars>>,
         \A i \in Items : i # cur => cp'[i] = cp[i],
         step \in StepsOf[pc],
         step \in UpdateSteps => Updates(cur),
         step \in DeleteSteps => Action[cur] = "delete",
         step \in {"stage", "staged?"} => (Creates(cur) /\ NoneInFlight(cur)) \/ Updates(cur),
         pc # "stages" => cp'[cur].phase = cp[cur].phase,
         step = "deleteIntent" => cp'[cur].phase = "none",
         step \in {"stage", "staged?"} =>
           cp'[cur].phase = IF Creates(cur) THEN "pendingOperation" ELSE "pendingUpdate",
         step \in {"patchSend", "patched?"} => cp'[cur].phase = "pendingUpdate",
         step \in {"deleteSend", "deleted?"} => cp'[cur].phase = "pendingDelete",
         step \in {"ack", "verify"} => cp'[cur].phase # "completed"
  PROVE  HandParts
<1> USE ItemsAssumption
<1>1. CursorInv'
  BY InHand DEF IInv, CursorInv, CreateSteps, UpdateSteps, DeleteSteps, Steps, runVars
<1>2. HandInv'
  BY InHand DEF IInv, HandInv, runVars
<1>3. RequestInv'
  <2>1. Updates(cur) => NoneInFlight(cur)
    BY InHand DEF Updates, Creates, IInv, OperationInv, NoneInFlight, InFlight
  <2> QED BY <2>1 DEF RequestInv, NoneInFlight, InFlight
<1> QED BY <1>1, <1>2, <1>3 DEF HandParts

(* Updating, staging and deleting.                                           *)
LEMMA WriteStepsKeep ==
  ASSUME IInv, TypeOK', NEW i \in Items, WriteStep(i)
  PROVE  IInv'
<1> USE ItemsAssumption
<1>0. /\ cur = i
      /\ cur # NoItem
      /\ target \in Ids
      /\ cp[i] \in Entries
      /\ live[i] \in States
      /\ at \in StepsOf[pc]
      /\ cp \in [Items -> Entries]
      /\ pc \in {"updates", "deletes", "creates", "operations", "stages"}
  BY InHand DEF WriteStep, RecordUpdateIntent, DispatchPatch, TakePatchReply,
     DispatchStage, TakeStageReply,
     VerifyBeforeDelete, RecordDeleteIntent, DispatchDelete, TakeDeleteReply, TimeOut, IInv, TypeOK
<1>1. CASE RecordUpdateIntent(i)
  <2> USE DEF RecordUpdateIntent, Goto
  <2>1. /\ Updates(i)
        /\ cp[i].phase # "completed"
        /\ pc \in {"updates", "stages"}
        /\ (pc = "updates" => cp[i].phase = "pendingUpdate")
    BY <1>0, <1>1 DEF IInv, CursorInv, UpdateSteps, HandInv, StepsOf
  <2>2. /\ cp'[i] = Entry("pendingUpdate", target)
        /\ \A j \in Items : j # i => cp'[j] = cp[j]
    BY <1>0, <1>1
  <2>3. HandParts
    BY <1>0, <1>1, <2>1, <2>2, Moves DEF fabricVars, Steps, StepsOf, UpdateSteps,
       DeleteSteps, Entry
  <2>4. OperationInv'
    BY <1>0, <1>1, <2>1, <2>2 DEF IInv, OperationInv, Outstanding, OnlyOpen,
       fabricVars, Entry
  <2>5. Entry("pendingUpdate", target) \in Entries
    BY <1>1, <2>2 DEF TypeOK
  <2> QED BY <1>0, <1>1, <2>1, <2>3, <2>4, <2>5, Recorded DEF fabricVars, Entry
<1>2. CASE DispatchPatch(i) \/ DispatchStage(i) \/ DispatchDelete(i)
  <2> USE DEF DispatchPatch, DispatchStage, DispatchDelete, Send
  <2>1. UNCHANGED <<live, fate, cp, cur, result, runVars>>
    BY <1>2 DEF fileVars
  <2>2. at' \in Steps
    BY DEF TypeOK
  <2>3. HandParts
    BY <1>0, <1>2, <2>1, <2>2, Moves DEF IInv, CursorInv, HandInv, RequestInv, StepsOf,
       CreateSteps, UpdateSteps, DeleteSteps, Steps, Creates, Updates
  <2> QED BY <1>0, <2>1, <2>3, MoveOn
<1>3. CASE TakePatchReply(i)
  <2> USE DEF TakePatchReply
  <2>1. /\ Updates(i)
        /\ ~Creates(i)
        /\ cp[i].phase = "pendingUpdate"
        /\ pc \in {"updates", "stages"}
    BY <1>0, <1>3 DEF IInv, CursorInv, UpdateSteps, HandInv, StepsOf, Updates, Creates
  <2>2. CASE /\ UNCHANGED cp
             /\ \/ Goto("stage", target) \/ Goto("verify", target)
                \/ pc = "stages" /\ Goto("ack", target)
    <3>1. /\ UNCHANGED <<live, fate, cp, cur, result, runVars>>
          /\ at' \in {"stage", "ack", "verify"}
          /\ at' = "ack" => pc = "stages"
      BY <1>3, <2>2 DEF Goto, fabricVars
    <3>2. HandParts
      BY <1>0, <2>1, <3>1, Moves DEF StepsOf, UpdateSteps, DeleteSteps, Steps
    <3> QED BY <1>0, <3>1, <3>2, MoveOn
  <2>3. CASE cp' = [cp EXCEPT ![i] = NoEntry] /\ Fail
    <3>1. \A n \in Posts : ~Outstanding(i, n)
      BY <2>1 DEF IInv, OperationInv, Outstanding, Created
    <3> QED BY <1>0, <1>3, <2>1, <2>3, <3>1, Forgotten
  <2> QED BY <1>3, <2>2, <2>3
<1>4. CASE TakeStageReply(i)
  <2> USE DEF TakeStageReply
  <2>1. /\ Creates(i) \/ Updates(i)
        /\ cp[i].phase = IF Creates(i) THEN "pendingOperation" ELSE "pendingUpdate"
        /\ NoneInFlight(i)
        /\ pc \in {"updates", "operations", "stages"}
    BY <1>0, <1>4 DEF IInv, CursorInv, UpdateSteps, HandInv, RequestInv, StepsOf
  <2>2. CASE Goto("verify", target) /\ UNCHANGED cp
    <3>1. UNCHANGED <<live, fate, cp, cur, result, runVars>> /\ at' = "verify"
      BY <1>4, <2>2 DEF Goto, fabricVars
    <3>2. HandParts
      BY <1>0, <2>1, <3>1, Moves DEF StepsOf, UpdateSteps, DeleteSteps, Steps
    <3> QED BY <1>0, <3>1, <3>2, MoveOn
  <2>3. CASE ForgetsRejectedStage(i) /\ cp' = [cp EXCEPT ![i] = NoEntry] /\ Fail
    <3>1. ~Creates(i)
      BY <2>3 DEF ForgetsRejectedStage, Updates, Creates
    <3>2. \A n \in Posts : ~Outstanding(i, n)
      BY <3>1 DEF IInv, OperationInv, Outstanding, Created
    <3> QED BY <1>0, <1>4, <2>1, <2>3, <3>1, <3>2, Forgotten
  <2>4. CASE Throw /\ UNCHANGED cp
    BY <1>0, <1>4, <2>4, Thrown
  <2>5. CASE ThrowOperationFailed /\ UNCHANGED cp
    BY <1>0, <1>4, <2>1, <2>5, ThrownFailed
  <2> QED BY <1>4, <2>2, <2>3, <2>4, <2>5
<1>5. CASE VerifyBeforeDelete(i)
  <2> USE DEF VerifyBeforeDelete
  <2>1. Action[i] = "delete" /\ cp[i].phase = "none" /\ pc = "stages"
    BY <1>0, <1>5 DEF IInv, CursorInv, DeleteSteps, HandInv, StepsOf
  <2>2. CASE Goto("deleteIntent", target) \/ Goto("verify", target)
    <3>1. UNCHANGED <<live, fate, cp, cur, result, runVars>> /\ at' \in {"deleteIntent", "verify"}
      BY <1>5, <2>2 DEF Goto, fabricVars
    <3>2. HandParts
      BY <1>0, <2>1, <3>1, Moves DEF StepsOf, UpdateSteps, DeleteSteps, Steps
    <3> QED BY <1>0, <3>1, <3>2, MoveOn
  <2>3. CASE Fail
    BY <1>5, <2>3, Stopped DEF Fail
  <2> QED BY <1>5, <2>2, <2>3
<1>6. CASE RecordDeleteIntent(i)
  <2> USE DEF RecordDeleteIntent, Goto
  <2>1. Action[i] = "delete" /\ cp[i].phase = "none" /\ pc = "stages"
    BY <1>0, <1>6 DEF IInv, CursorInv, DeleteSteps, HandInv, StepsOf
  <2>2. /\ cp'[i] = Entry("pendingDelete", target)
        /\ \A j \in Items : j # i => cp'[j] = cp[j]
    BY <1>0, <1>6
  <2>3. HandParts
    BY <1>0, <1>6, <2>1, <2>2, Moves DEF fabricVars, Steps, StepsOf, UpdateSteps,
       DeleteSteps, Entry
  <2>4. OperationInv'
    BY <1>0, <1>6, <2>1, <2>2 DEF IInv, OperationInv, Outstanding, OnlyOpen,
       fabricVars, Entry
  <2>5. Entry("pendingDelete", target) \in Entries
    BY <1>6, <2>2 DEF TypeOK
  <2> QED BY <1>0, <1>6, <2>1, <2>3, <2>4, <2>5, Recorded DEF fabricVars, Entry
<1>7. CASE TakeDeleteReply(i)
  <2> USE DEF TakeDeleteReply
  <2>1. /\ Action[i] = "delete"
        /\ cp[i].phase = "pendingDelete"
        /\ pc \in {"deletes", "stages"}
    BY <1>0, <1>7 DEF IInv, CursorInv, DeleteSteps, HandInv, StepsOf
  <2>2. CASE Goto("verify", target)
    <3>1. UNCHANGED <<live, fate, cp, cur, result, runVars>> /\ at' = "verify"
      BY <1>7, <2>2 DEF Goto, fabricVars
    <3>2. HandParts
      BY <1>0, <2>1, <3>1, Moves DEF StepsOf, UpdateSteps, DeleteSteps, Steps
    <3> QED BY <1>0, <3>1, <3>2, MoveOn
  <2>3. CASE Fail
    BY <1>7, <2>3, Stopped DEF Fail
  <2> QED BY <1>7, <2>2, <2>3
<1>8. CASE TimeOut(i)
  BY <1>0, <1>8, Thrown DEF TimeOut
<1> QED BY <1>1, <1>2, <1>3, <1>4, <1>5, <1>6, <1>7, <1>8 DEF WriteStep

(* Reading an item back.                                                     *)
LEMMA VerifyStepsKeep ==
  ASSUME IInv, TypeOK', NEW i \in Items, VerifyItem(i) \/ VerifyAdopted(i)
  PROVE  IInv'
<1>0. /\ cur = i
      /\ cur # NoItem
      /\ target \in Ids
      /\ pc # "idle"
      /\ (cp[i].phase = "completed" => cp[i].id = target)
  BY ItemsAssumption, InHand DEF VerifyItem, VerifyAdopted, IInv, TypeOK, HandInv
<1>1. CASE CompleteItem(i, target)
  BY <1>0, <1>1, Finished DEF VerifyItem, VerifyAdopted
<1>2. CASE Throw /\ UNCHANGED cp
  BY <1>0, <1>2, Thrown DEF VerifyItem, VerifyAdopted
<1>3. CASE Fail /\ UNCHANGED cp
  BY <1>0, <1>3, Stopped DEF VerifyItem, VerifyAdopted, Fail
<1> QED BY <1>1, <1>2, <1>3 DEF VerifyItem, VerifyAdopted

-----------------------------------------------------------------------------
(* Fabric and other actors, and the invariant.                              *)

(* What Fabric and other actors do.                                          *)
LEMMA OutsideOnly ==
  ASSUME IInv, Fabric \/ \E i \in Items : ForeignChange(i)
  PROVE  /\ UNCHANGED <<fileVars, runVars, cur, at, target>>
         /\ LiveInv'
         /\ \E i \in Items : OnlyCloses(i)
<1> USE ItemsAssumption
<1>1. ASSUME NEW i \in Items, NEW n \in Posts, HandleCreate(i, n) \/ FinishOperation(i, n)
      PROVE  UNCHANGED <<fileVars, runVars, cur, at, target>> /\ LiveInv' /\ OnlyCloses(i)
  <2>1. UNCHANGED <<fileVars, runVars, cur, at, target>>
    BY <1>1 DEF HandleCreate, FinishOperation, Serve
  <2>2. /\ fate[i][n] \in {"wire", "running"}
        /\ fate'[i][n] \in Fates \ {"unsent", "wire"}
        /\ fate[i][n] = "running" => fate'[i][n] \in {"running", "failed"} \cup Created
        /\ \A j \in Items, m \in Posts : j # i \/ m # n => fate'[j][m] = fate[j][m]
    <3>1. PICK f \in Fates \ {"unsent", "wire"} :
            /\ fate' = [fate EXCEPT ![i][n] = f]
            /\ fate[i][n] = "wire" \/ (fate[i][n] = "running" /\ f \in {"failed"} \cup Created)
      BY <1>1 DEF HandleCreate, FinishOperation, FabricCreates, FabricRefuses, Fates,
         Created
    <3>2. fate \in [Items -> [Posts -> Fates]]
      BY DEF IInv, TypeOK
    <3> QED BY <3>1, <3>2
  <2>3. \/ live' = live
        \/ /\ live' = [live EXCEPT ![i] = [id |-> n, content |-> NewContent(i)]]
           /\ fate'[i][n] \in Created
    <3>1. ASSUME NEW f \in Created, FabricCreates(i, n, f)
          PROVE  /\ live' = [live EXCEPT ![i] = [id |-> n, content |-> NewContent(i)]]
                 /\ fate'[i][n] \in Created
      BY <3>1 DEF FabricCreates, IInv, TypeOK
    <3>2. UNCHANGED live \/ \E f \in Created : FabricCreates(i, n, f)
      BY <1>1 DEF HandleCreate, FinishOperation, FabricRefuses, Created
    <3> QED BY <3>1, <3>2
  <2>4. /\ \A j \in Items : j # i => live'[j] = live[j]
        /\ live'[i] = live[i] \/ (live'[i].id = n /\ live'[i].content = NewContent(i))
    BY <2>3 DEF IInv, TypeOK
  <2>5. LiveInv'
    BY <2>4 DEF IInv, LiveInv, NewContent
  <2>6. OnlyCloses(i)
    <3>1. \A m \in Posts : (Outstanding(i, m)' => Outstanding(i, m)) /\ (InFlight(i, m)' => InFlight(i, m))
      BY <2>2, <2>4 DEF Outstanding, InFlight, Created
    <3>2. \A j \in Items, m \in Posts : j # i =>
            (Outstanding(j, m)' <=> Outstanding(j, m)) /\ (InFlight(j, m)' <=> InFlight(j, m))
      BY <2>2, <2>4 DEF Outstanding, InFlight
    <3> QED BY <2>2, <3>1, <3>2 DEF OnlyCloses, Created
  <2> QED BY <2>1, <2>5, <2>6
<1>2. ASSUME NEW r \in wire, HandleWrite(r)
      PROVE  /\ UNCHANGED <<fileVars, runVars, cur, at, target>> /\ LiveInv'
             /\ \E i \in Items : OnlyCloses(i)
  <2>1. UNCHANGED <<fileVars, runVars, cur, at, target, fate>>
    BY <1>2 DEF HandleWrite, Serve
  <2>2. r.item \in Items /\ live \in [Items -> States]
    BY DEF IInv, TypeOK, Requests
  <2>3. /\ \A j \in Items : j # r.item => live'[j] = live[j]
        /\ \A j \in Items : \/ live'[j] = live[j] \/ live'[j] = Absent
                             \/ (live'[j].id = live[j].id /\ live'[j].content # "absent")
    <3>1. \/ live' = live
          \/ /\ live' = [live EXCEPT ![r.item] = Written(r, live[r.item])]
             /\ live[r.item].content # "absent"
      BY <1>2 DEF HandleWrite, Addresses
    <3>2. \A j \in Items : j # r.item => live'[j] = live[j]
      BY <2>2, <3>1
    <3>3. \/ live'[r.item] = live[r.item] \/ live'[r.item] = Absent
          \/ (live'[r.item].id = live[r.item].id /\ live'[r.item].content # "absent")
      BY <2>2, <3>1 DEF Written
    <3>4. ASSUME NEW j \in Items
          PROVE  \/ live'[j] = live[j] \/ live'[j] = Absent
                 \/ (live'[j].id = live[j].id /\ live'[j].content # "absent")
      BY <3>2, <3>3
    <3> QED BY <3>2, <3>4
  <2>4. LiveInv'
    BY <2>3 DEF IInv, LiveInv, Absent
  <2>5. OnlyCloses(r.item)
    BY <2>1, <2>3 DEF OnlyCloses, Outstanding, InFlight, Absent
  <2> QED BY <2>1, <2>2, <2>4, <2>5
<1>3. ASSUME NEW i \in Items, ForeignChange(i)
      PROVE  UNCHANGED <<fileVars, runVars, cur, at, target>> /\ LiveInv' /\ OnlyCloses(i)
  <2>1. UNCHANGED <<fileVars, runVars, cur, at, target, fate>>
    BY <1>3 DEF ForeignChange, handVars
  <2>2. live \in [Items -> States]
    BY DEF IInv, TypeOK
  <2>3. /\ \A j \in Items : j # i => live'[j] = live[j]
        /\ \A j \in Items : \/ live'[j] = live[j] \/ live'[j] = Absent
                             \/ (live'[j].id = live[j].id /\ live'[j].content # "absent")
                             \/ (live'[j].id = ForeignId /\ live'[j].content # "absent")
    <3>1. \/ live' = [live EXCEPT ![i] = [id |-> live[i].id, content |-> "foreign"]]
          \/ live' = [live EXCEPT ![i] = Absent]
          \/ \E c \in {"desired", "foreign"} :
               live' = [live EXCEPT ![i] = [id |-> ForeignId, content |-> c]]
      BY <1>3 DEF ForeignChange
    <3>2. \A j \in Items : j # i => live'[j] = live[j]
      BY <2>2, <3>1
    <3>3. \/ live'[i] = Absent
          \/ (live'[i].id \in {live[i].id, ForeignId} /\ live'[i].content # "absent")
      BY <2>2, <3>1
    <3>4. ASSUME NEW j \in Items
          PROVE  \/ live'[j] = live[j] \/ live'[j] = Absent
                 \/ (live'[j].id = live[j].id /\ live'[j].content # "absent")
                 \/ (live'[j].id = ForeignId /\ live'[j].content # "absent")
      BY <3>2, <3>3
    <3> QED BY <3>2, <3>4
  <2>4. LiveInv'
    BY <2>3 DEF IInv, LiveInv, Absent
  <2>5. OnlyCloses(i)
    BY <2>1, <2>3 DEF OnlyCloses, Outstanding, InFlight, Absent
  <2> QED BY <2>1, <2>4, <2>5
<1> QED BY <1>1, <1>2, <1>3 DEF Fabric

(* The invariant holds when nothing has run.                                 *)
LEMMA InvariantInit == ASSUME Init, TypeOK PROVE IInv
<1> USE ItemsAssumption DEF Init
<1>1. /\ LiveInv
      /\ CursorInv
      /\ EntryInv
      /\ HandInv
      /\ RequestInv
      /\ PreflightInv
      /\ ProgressInv
      /\ SuccessIsVerified
  BY DEF LiveInv, CursorInv, EntryInv, HandInv, RequestInv, PreflightInv, ProgressInv,
     SuccessIsVerified, NoEntry, Entry, Approved, Absent
<1>2. PendingInv
  BY DEF PendingInv, NoEntry, Entry, Settled, Visits
<1>3. OperationInv /\ WriteAhead /\ AtMostOneCreate
  BY DEF OperationInv, WriteAhead, AtMostOneCreate, Outstanding, NoEntry, Entry, Created
<1>4. DependencyOrder
  BY DEF DependencyOrder, NoEntry, Entry
<1> QED BY <1>1, <1>2, <1>3, <1>4 DEF IInv

(* Every step keeps the invariant.                                           *)
LEMMA InvariantNext == ASSUME IInv, TypeOK', [Next]_vars PROVE IInv'
<1>1. CASE StartRun \/ Preflight \/ NextPhase \/ Succeed
  BY <1>1, RunSteps
<1>2. ASSUME NEW i \in Items, Recover(i) \/ SkipCompleted(i) \/ BeginItem(i) PROVE IInv'
  BY <1>2, RecoverSteps
<1>3. ASSUME NEW i \in Items, CreateStep(i) PROVE IInv'
  BY <1>3, CreateStepsKeep
<1>4. ASSUME NEW i \in Items, WriteStep(i) PROVE IInv'
  BY <1>4, WriteStepsKeep
<1>5. ASSUME NEW i \in Items, VerifyItem(i) \/ VerifyAdopted(i) PROVE IInv'
  BY <1>5, VerifyStepsKeep
<1>6. CASE Fabric \/ \E i \in Items : ForeignChange(i)
  BY <1>6, OutsideOnly, World
<1>7. CASE Crash
  BY <1>7, Stopped DEF Crash, fileVars
<1>8. ASSUME NEW i \in Items, Ambiguous(i) PROVE IInv'
  BY <1>8, Thrown, ItemsAssumption DEF Ambiguous
<1>9. CASE UNCHANGED vars
  <2> USE <1>9 DEF vars, fabricVars, fileVars, runVars, handVars
  <2>1. LiveInv' /\ CursorInv' /\ EntryInv' /\ PendingInv' /\ HandInv' /\ ProgressInv'
    BY DEF IInv, LiveInv, CursorInv, EntryInv, PendingInv, HandInv, ProgressInv
  <2>2. OperationInv' /\ RequestInv' /\ PreflightInv'
    BY DEF IInv, OperationInv, RequestInv, PreflightInv, Authorized, OnlyOpen,
       Outstanding, NoneInFlight, InFlight
  <2>3. WriteAhead' /\ AtMostOneCreate' /\ DependencyOrder' /\ SuccessIsVerified'
    BY DEF IInv, WriteAhead, AtMostOneCreate, Outstanding, DependencyOrder,
       SuccessIsVerified
  <2> QED BY <2>1, <2>2, <2>3 DEF IInv
<1> QED BY <1>1, <1>2, <1>3, <1>4, <1>5, <1>6, <1>7, <1>8, <1>9
  DEF Next, Process, ItemStep, Disturb

(* The inductive invariant holds in every state of every sequence of runs, kills,*)
(* late answers and foreign edits.                                           *)
THEOREM InvariantCorrect == Spec => []IInv
<1>1. Init => IInv
  BY TypeInit, InvariantInit
<1>2. IInv /\ [Next]_vars => IInv'
  <2> SUFFICES ASSUME IInv, [Next]_vars PROVE IInv'
    OBVIOUS
  <2>1. TypeOK'
    BY TypeNext DEF IInv
  <2> QED BY <2>1, InvariantNext
<1> QED BY <1>1, <1>2, PTL DEF Spec
=============================================================================
