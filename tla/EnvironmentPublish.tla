------------------------- MODULE EnvironmentPublish -------------------------
(***************************************************************************)
(* An Environment (src/src/fabric/environment.ts) is staged, published and *)
(* read back.  A marker in the staged Spark settings, the hash of the      *)
(* approved definition, is published with it and then removed from staging *)
(* again; it tells later what was published.  apply.ts checkpoints the     *)
(* phases of an update, and finishes an interrupted create as an update    *)
(* without phases.                                                         *)
(*                                                                         *)
(* The reads of one verification are one reading of the Environment.  That *)
(* it may be deleted and made again under its name is left to ItemApply.   *)
(***************************************************************************)
EXTENDS ApplyRun

CONSTANTS
  FirstEnvironments,  \* the Environment to begin with: one of these
  MaxVersions         \* bound: how often it is published

VARIABLES
  usesMarker,     \* the approved definition manages the Spark settings
  approvedEnv,    \* what the plan saw
  environment,    \* the Environment
  envOperation,   \* its long-running create, or the publish under way and of what
  envLate,        \* requests the service may yet execute
  envCp,          \* the item's record in the checkpoint
  mode,           \* "create" or "update" as approved, "resume" a create, else "plain": no phases
  target          \* the published version before, or to be verified

envPlan == <<usesMarker, approvedEnv>>
envService == <<environment, envOperation, envLate>>
envVars == <<envPlan, envService, envCp, mode, target>>

Requests == {"create", "patch", "stage", "publish", "clean"}

NoEnvironment == [meta |-> "none", staged |-> "none", marked |-> FALSE, published |-> "none",
                  pubMarked |-> FALSE, state |-> "None", version |-> 0]
Missing(e) == e.meta = "none"
Contents == {"none", "old", "desired", "foreign"}
Environments == [meta : Contents, staged : Contents, marked : BOOLEAN, published : Contents,
                 pubMarked : BOOLEAN, state : {"None", "Running", "Success", "Failed"}, version : Nat]

(* The marker is found only on what it was put on.                          *)
ASSUME EnvironmentBounds ==
  /\ MaxVersions \in Nat /\ FirstEnvironments \subseteq Environments
  /\ \A e \in FirstEnvironments :
       /\ Missing(e) => e = NoEnvironment
       /\ (e.marked => e.staged = "desired") /\ (e.pubMarked => e.published = "desired")

(* getPublishedDefinitionState: the marker speaks for the whole definition; *)
(* without it the external libraries are compared.                          *)
Published(e) == IF usesMarker THEN e.pubMarked ELSE e.published = "desired"

StagedAsDesired(e) == e.meta = "desired" /\ e.staged = "desired"
Converged(e) == StagedAsDesired(e) /\ ~e.marked /\ e.state = "Success" /\ Published(e)

(* EnvironmentAdapter.plan.                                                 *)
PlanEnvironment(e) ==
  CASE Missing(e)             -> "create"
    [] ~Missing(e) /\ e.state = "Running" -> "blocked"
    [] Converged(e)           -> "no-op"
    [] OTHER                  -> "update"

(* observedStateHash: no marker, and what is published only if plan asked.  *)
Observed(e) ==
  LET asked == StagedAsDesired(e) /\ ~e.marked /\ e.state = "Success"
  IN  [e EXCEPT !.marked = FALSE,
                !.published = IF asked THEN @ ELSE "none",
                !.pubMarked = asked /\ @]

NoOperation == [state |-> "none", staged |-> "none", marked |-> FALSE]
Creating(state) == [NoOperation EXCEPT !.state = state]
NoEnvRecord == [kind |-> "none", phase |-> "none", saw |-> NoEnvironment]
ApprovedAction == PlanEnvironment(approvedEnv)

EnvironmentInit ==
  /\ usesMarker \in BOOLEAN
  /\ environment \in FirstEnvironments
  /\ ~usesMarker => ~environment.marked /\ ~environment.pubMarked
  /\ approvedEnv = environment
  /\ envOperation = NoOperation /\ envLate = {}
  /\ envCp = NoEnvRecord /\ mode = "none" /\ target = 0
-----------------------------------------------------------------------------

(* hasEnvironmentRecoveryProof: as approved; staged as desired; or as an    *)
(* update found it.                                                         *)
RecoveryProof(e, record) ==
  \/ Observed(e) = Observed(approvedEnv)
  \/ StagedAsDesired(e) /\ e.marked = usesMarker
  \/ /\ record.kind = "update" /\ record.phase \in {"metadata-submitting", "metadata-updated"}
     /\ e.meta = "desired"
     /\ <<e.staged, e.marked, e.state, e.version>> =
          <<record.saw.staged, record.saw.marked, record.saw.state, record.saw.version>>

OnlyReadsEnvironment == UNCHANGED <<envPlan, envService>> /\ NoFault
KeepEnvRecord == UNCHANGED envCp
EnvironmentDone == envCp.kind = "done"

FreshStep ==
  CASE ApprovedAction = "create" -> "begin environment"
    [] ApprovedAction = "update" -> "read baseline"
    [] ApprovedAction = "no-op"  -> "verify environment"
RerunStep ==
  CASE EnvironmentDone                     -> "verify environment"
    [] envCp.kind = "operation"            -> "resume create"
    [] envCp.kind \in {"create", "update"} -> "recover environment"

(* The drift check for an item without a record; else recovery.  By then    *)
(* Fabric shows a publish it has begun.                                     *)
Unshown == envOperation.state = "publishing" /\ environment.state # "Running"
StartEnvironment ==
  /\ pc \in {"idle", "succeeded"} /\ ~Unshown
  /\ target' = 0
  /\ IF envCp.kind = "none"
     THEN IF Observed(environment) = Observed(approvedEnv) /\ ApprovedAction # "blocked"
          THEN Goto(FreshStep) /\ mode' = (IF ApprovedAction = "no-op" THEN "plain" ELSE ApprovedAction)
          ELSE Fail /\ mode' = "none"
     ELSE Goto(RerunStep) /\ mode' = (IF envCp.kind = "operation" THEN "resume" ELSE "plain")
  /\ KeepEnvRecord /\ OnlyReadsEnvironment

(* reconcilePendingCreates and reconcilePendingUpdates.                     *)
RecoverEnvironment ==
  /\ pc = "recover environment"
  /\ CASE PlanEnvironment(environment) = "no-op" -> Goto("verify environment") /\ mode' = "plain"
       [] PlanEnvironment(environment) = "update" /\ RecoveryProof(environment, envCp) ->
            IF envCp.kind = "update" THEN Goto("read baseline") /\ mode' = "update"
                                     ELSE Goto("patch") /\ mode' = "plain"
       [] OTHER -> Fail /\ UNCHANGED mode
  /\ KeepEnvRecord /\ UNCHANGED target /\ OnlyReadsEnvironment

(* An error: what is left to be tried when a create was under way, in       *)
(* reconcileInitialTerminalCreate or the catch of resumePendingOperations.  *)
EnvironmentError(operationFailed) ==
  IF mode = "resume" \/ (mode = "create" /\ operationFailed)
  THEN Goto("reconcile environment") ELSE Fail

ReconcileEnvironment ==
  /\ pc = "reconcile environment"
  /\ CASE PlanEnvironment(environment) = "create" ->
            Fail /\ UNCHANGED mode /\ envCp' = IF envOperation.state = "failed" THEN NoEnvRecord ELSE envCp
       [] PlanEnvironment(environment) = "update" /\ RecoveryProof(environment, NoEnvRecord) ->
            Goto("patch") /\ mode' = "plain" /\ KeepEnvRecord
       [] PlanEnvironment(environment) = "no-op" ->
            Goto("verify environment") /\ mode' = "plain" /\ KeepEnvRecord
       [] OTHER -> Fail /\ UNCHANGED mode /\ KeepEnvRecord
  /\ target' = 0 /\ OnlyReadsEnvironment
-----------------------------------------------------------------------------
(* What a request does once Fabric executes it.                             *)
Staged(e) == [e EXCEPT !.staged = "desired", !.marked = usesMarker]
Effect(request, e) ==
  CASE request = "create" -> [NoEnvironment EXCEPT !.meta = "desired", !.staged = "desired", !.marked = usesMarker]
    [] request = "patch"  -> [e EXCEPT !.meta = "desired"]
    [] request = "stage"  -> Staged(e)
    [] request = "clean"  -> [e EXCEPT !.marked = FALSE]

(* onUpdateCheckpoint; a plain update has none.                             *)
Phase(phase) ==
  envCp' = IF mode = "update" THEN [envCp EXCEPT !.phase = phase] ELSE envCp

BeginCreate ==
  /\ pc = "begin environment"
  /\ envCp' = [NoEnvRecord EXCEPT !.kind = "create"]
  /\ Goto("create")
  /\ UNCHANGED <<mode, target>> /\ OnlyReadsEnvironment

ReadBaseline ==
  /\ pc = "read baseline"
  /\ envCp' = [kind |-> "update", phase |-> "metadata-submitting", saw |-> environment]
  /\ Goto("patch")
  /\ UNCHANGED <<mode, target>> /\ OnlyReadsEnvironment

CreateAnswered ==
  /\ pc = "create" /\ Missing(environment)
  /\ \/ /\ environment' = Effect("create", environment) /\ UNCHANGED envOperation
        /\ KeepEnvRecord /\ Goto("read version")
     \/ /\ envOperation' = Creating("creating") /\ UNCHANGED environment
        /\ envCp' = [NoEnvRecord EXCEPT !.kind = "operation"] /\ Goto("await create")
  /\ UNCHANGED <<envPlan, envLate, mode, target>> /\ NoFault

\* Mutant: it is published before it is staged.
UpdateAnsweredUnstaged ==
  /\ \/ pc = "patch" /\ Phase("metadata-updated") /\ Goto("read version")
     \/ pc = "clean" /\ Phase("marker-cleaned") /\ Goto("verify environment")
  /\ environment' = Effect(pc, environment)
  /\ UNCHANGED <<envPlan, envOperation, envLate, mode, target>> /\ NoFault
UpdateAnswered ==
  /\ \/ pc = "patch" /\ Phase("metadata-updated") /\ Goto("stage")
     \/ pc = "stage" /\ Phase("definition-staged") /\ Goto("read version")
     \/ pc = "clean" /\ Phase("marker-cleaned") /\ Goto("verify environment")
  /\ environment' = Effect(pc, environment)
  /\ UNCHANGED <<envPlan, envOperation, envLate, mode, target>> /\ NoFault

ReadVersion ==
  /\ pc = "read version"
  /\ target' = environment.version /\ Goto("publish")
  /\ KeepEnvRecord /\ UNCHANGED mode /\ OnlyReadsEnvironment

(* Fabric takes one publish at a time, of what is staged just then.         *)
Begin ==
  /\ envOperation.state # "publishing" /\ environment.version < MaxVersions
  /\ UNCHANGED environment
  /\ envOperation' = [state |-> "publishing", staged |-> environment.staged, marked |-> environment.marked]

PublishAnswered ==
  /\ pc = "publish" /\ Begin
  /\ Goto("await publish") /\ KeepEnvRecord
  /\ UNCHANGED <<envPlan, envLate, mode, target>> /\ NoFault

(* A definitive rejection; the one of the PATCH removes the record of an    *)
(* update.  If an earlier attempt changed something, or still may, that     *)
(* record is missed.                                                        *)
AnEarlierAttempt ==
  /\ pc = "patch" /\ mode = "update"
  /\ \/ envLate # {} \/ envOperation.state = "publishing"
     \/ Observed(environment) # Observed(approvedEnv)

ClearsRecord(request) == request = "create" \/ (request = "patch" /\ mode = "update")
EnvironmentRejected ==
  /\ pc \in Requests
  /\ EnvironmentError(FALSE)
  /\ envCp' = IF ClearsRecord(pc) THEN NoEnvRecord ELSE envCp
  /\ IF AnEarlierAttempt THEN Loss ELSE Fault
  /\ UNCHANGED <<envPlan, envService, mode, target>>

(* No answer: executed, executed later, or never.  A create that was lost   *)
(* is not repeated; a definition, a publish or the removal of the marker    *)
(* that comes when it is no longer expected leaves staging and publish in   *)
(* disagreement.                                                            *)
EnvironmentUnanswered ==
  /\ pc \in Requests
  /\ \/ /\ pc = "publish" /\ Begin /\ UNCHANGED envLate /\ Fault
     \/ /\ pc # "publish" /\ (pc = "create" => Missing(environment))
        /\ environment' = Effect(pc, environment) /\ UNCHANGED <<envOperation, envLate>> /\ Fault
     \/ /\ envLate' = envLate \cup {pc} /\ UNCHANGED <<environment, envOperation>>
        /\ IF pc \in {"stage", "publish", "clean"} THEN Loss ELSE Fault
     \/ /\ UNCHANGED envService /\ IF pc = "create" THEN Loss ELSE Fault
  /\ EnvironmentError(FALSE) \/ Fail
  /\ KeepEnvRecord /\ UNCHANGED <<envPlan, mode, target>>
-----------------------------------------------------------------------------
(* waitForOperation of the create, by the run that sent it.                 *)
AwaitCreate ==
  /\ pc = "await create"
  /\ \/ envOperation.state = "created" /\ Goto("read version") /\ NoFault
     \/ envOperation.state = "failed" /\ EnvironmentError(TRUE) /\ NoFault
     \/ envOperation.state = "creating" /\ EnvironmentError(FALSE) /\ Fault
  /\ KeepEnvRecord /\ UNCHANGED <<envPlan, envService, mode, target>>

(* EnvironmentAdapter.resumeCreate.                                         *)
AfterResumedCreate(e) ==
  IF Converged(e) THEN "verify environment"
  ELSE IF e.state = "Running" \/ ~StagedAsDesired(e) \/ e.marked # usesMarker THEN "error"
  ELSE IF usesMarker /\ e.state = "Success" /\ e.pubMarked THEN "check marker"
  ELSE "read version"

ResumeEnvironmentCreate ==
  /\ pc = "resume create"
  /\ target' = environment.version
  /\ \/ /\ envOperation.state \notin {"creating", "failed"}
        /\ LET step == AfterResumedCreate(environment)
           IN  IF step = "error" THEN EnvironmentError(FALSE) ELSE Goto(step)
        /\ NoFault
     \/ envOperation.state = "failed" /\ EnvironmentError(TRUE) /\ NoFault
     \/ envOperation.state = "creating" /\ EnvironmentError(FALSE) /\ Fault
  /\ KeepEnvRecord /\ UNCHANGED <<envPlan, envService, mode>>

(* waitForPublish: a version other than the one before.  A failure may well *)
(* be the one of the publish before.                                        *)
AwaitPublish ==
  /\ pc = "await publish"
  /\ \/ /\ environment.state = "Success" /\ environment.version # target
        /\ target' = environment.version /\ Goto("verify published") /\ NoFault
     \/ /\ environment.state = "Failed" /\ \E op \in BOOLEAN : EnvironmentError(op)
        /\ UNCHANGED target /\ IF Unshown THEN Loss ELSE NoFault
     \/ /\ environment.state = "Running"
        /\ EnvironmentError(FALSE) /\ UNCHANGED target /\ Fault
  /\ KeepEnvRecord /\ UNCHANGED <<envPlan, envService, mode>>

\* Mutant: what is published is not read back.
VerifiesStaging(e, marked) ==
  /\ StagedAsDesired(e) /\ e.marked = marked
  /\ e.state = "Success" /\ (target # 0 => e.version = target)

(* verifyDeploymentState, with the marker still staged and without.         *)
Verifies(e, marked) ==
  /\ StagedAsDesired(e) /\ e.marked = marked
  /\ e.state = "Success" /\ (target # 0 => e.version = target)
  /\ Published(e)

VerifyPublished ==
  /\ pc = "verify published"
  /\ IF Verifies(environment, usesMarker)
     THEN Phase("published") /\ Goto(IF usesMarker THEN "check marker" ELSE "verify environment")
     ELSE KeepEnvRecord /\ EnvironmentError(FALSE)
  /\ UNCHANGED <<mode, target>> /\ OnlyReadsEnvironment

(* cleanupDeploymentMarker, to its PATCH.                                   *)
CheckMarker ==
  /\ pc = "check marker"
  /\ IF environment.marked /\ environment.staged = "desired"
     THEN Goto("clean") ELSE EnvironmentError(FALSE)
  /\ KeepEnvRecord /\ UNCHANGED <<mode, target>> /\ OnlyReadsEnvironment

VerifyEnvironment ==
  /\ pc = "verify environment"
  /\ IF Verifies(environment, FALSE)
     THEN Goto("succeeded") /\ envCp' = [NoEnvRecord EXCEPT !.kind = "done"]
     ELSE EnvironmentError(FALSE) /\ KeepEnvRecord
  /\ UNCHANGED <<mode, target>> /\ OnlyReadsEnvironment

CrashEnvironment ==
  /\ pc \notin {"idle", "succeeded"} \cup Requests
  /\ Fail /\ Fault
  /\ UNCHANGED envVars
-----------------------------------------------------------------------------
(* Fabric finishes what it has accepted, as it was when it was accepted.    *)
FinishCreate ==
  /\ envOperation.state = "creating"
  /\ \/ /\ envOperation' = Creating("created") /\ environment' = Effect("create", environment) /\ NoFault
     \/ /\ envOperation' = Creating("failed") /\ UNCHANGED environment /\ Fault
  /\ UNCHANGED <<envPlan, envLate, envCp, mode, target, pc>>

(* The state it shows lags behind.                                          *)
ShowPublish ==
  /\ Unshown
  /\ environment' = [environment EXCEPT !.state = "Running"]
  /\ UNCHANGED <<envPlan, envOperation, envLate, envCp, mode, target, pc>> /\ NoFault

FinishPublish ==
  /\ envOperation.state = "publishing"
  /\ envOperation' = NoOperation
  /\ \/ /\ environment' = [environment EXCEPT !.state = "Success", !.version = @ + 1,
             !.published = envOperation.staged, !.pubMarked = envOperation.marked]
        /\ NoFault
     \/ /\ environment' = [environment EXCEPT !.state = "Failed"] /\ Fault
  /\ UNCHANGED <<envPlan, envLate, envCp, mode, target, pc>>

ExecuteEnvironmentLate ==
  /\ \E request \in envLate :
       /\ envLate' = envLate \ {request}
       /\ IF request = "publish" THEN Begin
          ELSE /\ request = "create" => Missing(environment)
               /\ request # "create" => ~Missing(environment)
               /\ environment' = Effect(request, environment) /\ UNCHANGED envOperation
  /\ UNCHANGED <<envPlan, envCp, mode, target, pc>> /\ NoFault

(* Somebody else stages something, under the marker or not, renames it or   *)
(* publishes what is staged.                                                *)
EditEnvironment ==
  /\ Foreign /\ ~Missing(environment)
  /\ \/ /\ \E marked \in {FALSE, environment.marked} :
             environment' = [environment EXCEPT !.staged = "foreign", !.marked = marked]
        /\ UNCHANGED envOperation
     \/ environment' = [environment EXCEPT !.meta = "foreign"] /\ UNCHANGED envOperation
     \/ Begin
  /\ UNCHANGED <<envPlan, envLate, envCp, mode, target, pc>>

AskEnvironment ==
  \/ BeginCreate \/ ReadBaseline \/ CreateAnswered \/ UpdateAnswered \/ PublishAnswered
  \/ EnvironmentRejected \/ EnvironmentUnanswered
ReadEnvironment ==
  \/ RecoverEnvironment \/ ReconcileEnvironment \/ ReadVersion \/ AwaitCreate
  \/ ResumeEnvironmentCreate \/ AwaitPublish \/ VerifyPublished \/ CheckMarker \/ VerifyEnvironment
EnvironmentService == FinishCreate \/ ShowPublish \/ FinishPublish \/ ExecuteEnvironmentLate
EnvironmentNext == StartEnvironment \/ AskEnvironment \/ ReadEnvironment \/ EnvironmentService
                   \/ EditEnvironment \/ CrashEnvironment
EnvironmentSpec == RunInit /\ EnvironmentInit /\ [][EnvironmentNext]_<<runVars, envVars>>
-----------------------------------------------------------------------------
EnvironmentTypeOK ==
  /\ environment \in Environments
  /\ envOperation.state \in {"none", "creating", "created", "failed", "publishing"}
  /\ envLate \subseteq Requests
  /\ envCp.kind \in {"none", "create", "operation", "update", "done"}
  /\ envCp.phase \in {"none", "metadata-submitting", "metadata-updated", "definition-staged",
                      "published", "marker-cleaned"}
  /\ mode \in {"none", "create", "update", "resume", "plain"} /\ target \in Nat
  /\ usesMarker \in BOOLEAN

(* An item is recorded as completed only when what is published is the      *)
(* approved definition, although requests came late and somebody else       *)
(* staged or published something meanwhile.  Only what somebody staged      *)
(* under the marker, and then published, is taken for it.                   *)
DoneMeansPublished ==
  [][~EnvironmentDone /\ envCp'.kind = "done" =>
       \/ environment.published = "desired"
       \/ environment.published = "foreign" /\ usesMarker /\ edited]_envVars

(* Whatever has been done to the Environment is in the checkpoint: one      *)
(* without a record is as it was approved.                                  *)
ChangesAreTracked ==
  ~edited /\ ~lost /\ envCp.kind = "none" => Observed(environment) = Observed(approvedEnv)

(* Nothing is published but what was approved, unless somebody else staged  *)
(* something: no recovery publishes a definition that it found by chance.   *)
PublishesApproved ==
  ~edited /\ envOperation.state = "publishing" => envOperation.staged = "desired"
=============================================================================
