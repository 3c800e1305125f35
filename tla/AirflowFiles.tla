---------------------------- MODULE AirflowFiles ----------------------------
(***************************************************************************)
(* An Apache Airflow Job (src/src/fabric/apache-airflow.ts) is created as  *)
(* a shell, gets its definition and then its files, one by one, and last a *)
(* ledger that says which files the deployment owns.  apply.ts checkpoints *)
(* the create up to the shell and the update up to the definition; what    *)
(* became of the files only the job itself can tell.                       *)
(***************************************************************************)
EXTENDS ApplyRun

CONSTANTS
  Plugins, Dags,   \* the paths of the managed files, in the order of their names
  Bundle,          \* those that the approved bundle contains
  FirstJobs        \* the job to begin with: one of these

VARIABLES
  approvedJob,   \* what the plan saw
  airflow,       \* the job: metadata, definition, files and ledger
  airflowOp,     \* the long-running create of the shell
  airflowLate,   \* requests the service may yet execute
  airflowCp,     \* the item's record in the checkpoint
  airflowMode,   \* "create", "resume", "update" or "verify"
  found,         \* the job as it was when the files were compared
  handled        \* the files dealt with since

airflowService == <<airflow, airflowOp, airflowLate>>
airflowVars == <<approvedJob, airflowService, airflowCp, airflowMode, found, handled>>

Paths == Plugins \cup Dags
AirflowJobs == [meta : {"none", "old", "desired"}, definition : {"none", "shell", "old", "desired", "foreign"},
         file : [Paths -> {"absent", "old", "desired", "foreign"}], ledger : [Paths -> {"none", "old", "desired"}]]
NoJob == [meta |-> "none", definition |-> "none",
          file |-> [f \in Paths |-> "absent"], ledger |-> [f \in Paths |-> "none"]]
NoJobRecord == [kind |-> "none", saw |-> "none", phase |-> "none"]

ASSUME AirflowBounds ==
  /\ Plugins \subseteq Nat /\ Dags \subseteq Nat /\ Plugins \cap Dags = {} /\ Bundle \subseteq Paths
  /\ FirstJobs \subseteq AirflowJobs /\ \A j \in FirstJobs : j.meta = "none" => j = NoJob

NewLedger == [f \in Paths |-> IF f \in Bundle THEN "desired" ELSE "none"]

(* planFileOperation; "forget" deletes what is absent already.              *)
FileAction(f, j) ==
  LET desired == f \in Bundle   owned == j.ledger[f]   content == j.file[f]
  IN  CASE ~desired /\ owned = "none"                  -> "none"
        [] ~desired /\ owned # "none" /\ content = "absent" -> "forget"
        [] ~desired /\ owned # "none" /\ content = owned    -> "delete"
        [] desired /\ content = "absent"               -> "create"
        [] desired /\ content = "desired" /\ owned = "none"    -> "adopt"
        [] desired /\ content = "desired" /\ owned = "desired" -> "no-op"
        [] desired /\ content = "desired" /\ owned = "old"     -> "update"
        [] desired /\ content = owned /\ owned = "old"         -> "update"
        [] OTHER                                       -> "blocked"

Concerns(f, j) == FileAction(f, j) # "none"
BlockedFile(j) == \E f \in Paths : FileAction(f, j) = "blocked"
FilesMatch(j) == \A f \in Paths : FileAction(f, j) \in {"none", "no-op"}

(* ApacheAirflowAdapter.plan.                                               *)
PlanAirflow(j) ==
  CASE j.meta = "none"   -> "create"
    [] j.meta # "none" /\ BlockedFile(j) -> "blocked"
    [] j.meta = "desired" /\ j.definition = "desired" /\ FilesMatch(j) -> "no-op"
    [] OTHER             -> "update"

(* observedStateHash: files that are neither desired nor owned do not count. *)
ObservedJob(j) ==
  [j EXCEPT !.file = [f \in Paths |-> IF Concerns(f, j) THEN j.file[f] ELSE "absent"]]

ApprovedAirflow == PlanAirflow(approvedJob)

AirflowInit ==
  /\ airflow \in FirstJobs /\ approvedJob = airflow
  /\ airflowOp = "none" /\ airflowLate = {}
  /\ airflowCp = NoJobRecord /\ airflowMode = "none"
  /\ found = airflow /\ handled = {}
-----------------------------------------------------------------------------
(* hasSafeApacheAirflowFileProgress: each file is as approved or as wanted. *)
\* Mutant: what has been uploaded is no progress.
SafeFileProgressNone(j) ==
  \A f \in Paths : j.file[f] = approvedJob.file[f]
SafeFileProgress(j) ==
  \A f \in Paths :
    LET action == FileAction(f, approvedJob)   seen == j.file[f]
    IN  /\ Concerns(f, j) => action # "none"
        /\ action \in {"create", "adopt"} => seen \in {"absent", "desired"}
        /\ action = "update" => seen \in {approvedJob.file[f], "desired"}
        /\ action \in {"delete", "forget"} /\ Concerns(f, j) => seen \in {"absent", approvedJob.file[f]}
        /\ action = "no-op" => seen = "desired"
        /\ action # "blocked"

(* hasApacheAirflowRecoveryProof.                                           *)
AirflowProof(j) ==
  \/ ObservedJob(j) = ObservedJob(approvedJob)
  \/ /\ j.meta = "desired" /\ j.definition \in {airflowCp.saw, "desired"}
     /\ SafeFileProgress(j)

OnlyReadsAirflow == UNCHANGED <<approvedJob, airflowService>> /\ NoFault
KeepFiles == UNCHANGED <<found, handled>>
AirflowDone == airflowCp.kind = "done"

FreshAirflowStep ==
  CASE ApprovedAirflow = "create" -> "create airflow"
    [] ApprovedAirflow = "update" -> "airflow baseline"
    [] ApprovedAirflow = "no-op"  -> "verify airflow"
RerunAirflowStep ==
  CASE airflowCp.kind = "done"                    -> "verify airflow"
    [] airflowCp.kind \in {"operation", "proof"}  -> "resume airflow"
    [] airflowCp.kind = "update"                  -> "recover airflow"

(* isCheckpointUpdateIntent: submitting a definition goes with the hash of  *)
(* the parts it preserves, which only reports and semantic models record.   *)
Readable(record) == ~(record.kind = "update" /\ record.phase = "submitting")

(* The drift check, or recovery.  A create without a proof is refused, and  *)
(* so is a checkpoint that cannot be read.                                  *)
StartAirflow ==
  /\ pc \in {"idle", "succeeded"}
  /\ CASE airflowCp.kind = "none" ->
            IF ObservedJob(airflow) = ObservedJob(approvedJob) /\ ApprovedAirflow # "blocked"
            THEN Goto(FreshAirflowStep)
                 /\ airflowMode' = (IF ApprovedAirflow = "no-op" THEN "verify" ELSE ApprovedAirflow)
            ELSE Fail /\ airflowMode' = "none"
       [] airflowCp.kind = "create" \/ ~Readable(airflowCp) -> Fail /\ airflowMode' = "none"
       [] OTHER -> Goto(RerunAirflowStep)
                   /\ airflowMode' = (IF RerunAirflowStep = "resume airflow" THEN "resume" ELSE "verify")
  /\ UNCHANGED airflowCp /\ KeepFiles /\ OnlyReadsAirflow

RecoverAirflow ==
  /\ pc = "recover airflow"
  /\ LET action == PlanAirflow(airflow)
     IN  \/ action = "update" /\ AirflowProof(airflow) /\ Goto("airflow baseline") /\ airflowMode' = "update"
         \/ action = "no-op" /\ Goto("verify airflow") /\ UNCHANGED airflowMode
         \/ (action = "update" => ~AirflowProof(airflow)) /\ action # "no-op" /\ Fail /\ UNCHANGED airflowMode
  /\ UNCHANGED airflowCp /\ KeepFiles /\ OnlyReadsAirflow
-----------------------------------------------------------------------------
Shell(definition) == [NoJob EXCEPT !.meta = "desired", !.definition = definition]
JobEffect(request, j) ==
  CASE request = "create airflow" -> Shell("shell")
    [] request = "patch airflow"  -> [j EXCEPT !.meta = "desired"]
    [] request = "stage airflow"  -> [j EXCEPT !.definition = "desired"]
    [] request = "write ledger"   -> [j EXCEPT !.ledger = NewLedger]
JobRequests == {"create airflow", "patch airflow", "stage airflow", "write ledger"}

(* onCreateSubmitting comes with the request.                               *)
CreateShell ==
  /\ pc = "create airflow" /\ airflow.meta = "none"
  /\ \/ /\ airflow' = Shell("shell") /\ UNCHANGED airflowOp
        /\ airflowCp' = [NoJobRecord EXCEPT !.kind = "create"] /\ Goto("read shell")
     \/ /\ airflowOp' = "creating" /\ UNCHANGED airflow
        /\ airflowCp' = [NoJobRecord EXCEPT !.kind = "operation"] /\ Goto("await shell")
  /\ UNCHANGED <<approvedJob, airflowLate, airflowMode>> /\ KeepFiles /\ NoFault

AwaitShell ==
  /\ pc = "await shell"
  /\ \/ airflowOp = "created" /\ Goto("read shell") /\ NoFault
     \/ airflowOp = "failed" /\ Goto("reconcile airflow") /\ NoFault
     \/ airflowOp = "creating" /\ Fail /\ Fault
  /\ UNCHANGED <<approvedJob, airflowService, airflowCp, airflowMode>> /\ KeepFiles

(* The proof that the shell is this deployment's.                           *)
ReadShell ==
  /\ pc = "read shell"
  /\ airflowCp' = [NoJobRecord EXCEPT !.kind = "proof", !.saw = airflow.definition]
  /\ Goto("stage airflow")
  /\ UNCHANGED airflowMode /\ KeepFiles /\ OnlyReadsAirflow

(* A create answered at once has no proof until its shell is read.          *)
ReadShellFails ==
  /\ pc = "read shell"
  /\ Fail /\ IF airflowCp.kind = "create" THEN Loss ELSE Fault
  /\ UNCHANGED airflowVars

(* The operation failed: reconcileInitialTerminalCreate, or the catch of    *)
(* resumePendingOperations, which adopts no Airflow job.                    *)
ReconcileAirflow ==
  /\ pc = "reconcile airflow"
  /\ LET action == PlanAirflow(airflow)
     IN  /\ airflowCp' = IF action = "create" THEN NoJobRecord ELSE airflowCp
         /\ IF action = "no-op" /\ airflowMode = "create" THEN Goto("verify airflow") ELSE Fail
  /\ UNCHANGED airflowMode /\ KeepFiles /\ OnlyReadsAirflow

(* ApacheAirflowAdapter.resumeCreate.                                       *)
AfterResumedShell(j) ==
  IF j.definition = "desired" THEN "compare files"
  ELSE IF j.definition = (IF airflowCp.kind = "proof" THEN airflowCp.saw ELSE "shell") THEN "stage airflow"
  ELSE "error"

ResumeAirflow ==
  /\ pc = "resume airflow"
  /\ \/ /\ airflowCp.kind = "operation" => airflowOp = "created"
        /\ LET step == AfterResumedShell(airflow)
           IN  IF airflow.meta # "desired" \/ step = "error" THEN Fail ELSE Goto(step)
        /\ NoFault
     \/ airflowCp.kind = "operation" /\ airflowOp = "failed" /\ Goto("reconcile airflow") /\ NoFault
     \/ airflowCp.kind = "operation" /\ airflowOp = "creating" /\ Fail /\ Fault
  /\ UNCHANGED <<approvedJob, airflowService, airflowCp, airflowMode>> /\ KeepFiles

(* update reads the definition it is about to replace.                      *)
AirflowBaseline ==
  /\ pc = "airflow baseline"
  /\ airflowCp' = [kind |-> "update", saw |-> airflow.definition, phase |-> "metadata"] /\ Goto("patch airflow")
  /\ UNCHANGED airflowMode /\ KeepFiles /\ OnlyReadsAirflow

AirflowAnswered ==
  /\ \/ /\ pc = "patch airflow" /\ Goto("stage airflow")
        /\ airflowCp' = [airflowCp EXCEPT !.phase = "submitting"]
     \/ /\ pc = "stage airflow" /\ Goto("compare files")
        /\ airflowCp' = IF airflowMode = "update" THEN [airflowCp EXCEPT !.saw = "desired", !.phase = "staged"] ELSE airflowCp
     \/ pc = "write ledger" /\ Goto("verify airflow") /\ UNCHANGED airflowCp
  /\ airflow' = JobEffect(pc, airflow)
  /\ UNCHANGED <<approvedJob, airflowOp, airflowLate, airflowMode>> /\ KeepFiles /\ NoFault

(* onCreateRejected, onUpdateRejected: an update without a record whose     *)
(* changes are there, or on their way, needs a new plan.                    *)
ClearsJob == \/ pc = "create airflow"
             \/ pc \in {"patch airflow", "stage airflow"} /\ airflowMode = "update"
AirflowRejected ==
  /\ pc \in JobRequests
  /\ Fail /\ airflowCp' = IF ClearsJob THEN NoJobRecord ELSE airflowCp
  /\ IF ClearsJob /\ (airflowLate # {} \/ ObservedJob(airflow) # ObservedJob(approvedJob)) THEN Loss ELSE Fault
  /\ UNCHANGED <<approvedJob, airflowService, airflowMode>> /\ KeepFiles

AirflowUnanswered ==
  /\ pc \in JobRequests
  /\ \/ airflow' = JobEffect(pc, airflow) /\ UNCHANGED airflowLate
     \/ airflowLate' = airflowLate \cup {[verb |-> pc, file |-> 0]} /\ UNCHANGED airflow
     \/ UNCHANGED <<airflow, airflowLate>>
  /\ pc = "create airflow" => airflow.meta = "none"
  /\ airflowCp' = IF pc = "create airflow" THEN [NoJobRecord EXCEPT !.kind = "create"] ELSE airflowCp
  /\ Fail /\ IF pc = "create airflow" \/ ~Readable(airflowCp) THEN Loss ELSE Fault
  /\ UNCHANGED <<approvedJob, airflowOp, airflowMode>> /\ KeepFiles
-----------------------------------------------------------------------------
(* reconcileFiles: the files are compared again, not taken from the plan.   *)
CompareFiles ==
  /\ pc = "compare files"
  /\ found' = airflow /\ handled' = {}
  /\ IF BlockedFile(airflow) THEN Fail ELSE Goto("files")
  /\ UNCHANGED <<airflowCp, airflowMode>> /\ OnlyReadsAirflow

Uploads == {f \in Paths : FileAction(f, found) \in {"create", "update"}}
Removals == {f \in Paths : FileAction(f, found) = "delete"}

(* compareUploadOperations, compareDeleteOperations: one group first.       *)
Before(f, g, first) ==
  \/ f \in first /\ g \notin first
  \/ (f \in first <=> g \in first) /\ f < g
FirstOf(f, files, first) == f \in files /\ \A g \in files \ {f} : Before(f, g, first)

PutFile(f) == FirstOf(f, Uploads \ handled, Plugins)
DeleteFile(f) == Uploads \subseteq handled /\ FirstOf(f, Removals \ handled, Dags)
WithFile(f, j) == [j EXCEPT !.file[f] = IF f \in Bundle THEN "desired" ELSE "absent"]

FileAnswered(f) ==
  /\ pc = "files" /\ (PutFile(f) \/ DeleteFile(f))
  /\ airflow' = WithFile(f, airflow) /\ handled' = handled \cup {f}
  /\ UNCHANGED <<approvedJob, airflowOp, airflowLate, airflowCp, airflowMode, found, pc>> /\ NoFault

FileUnanswered(f) ==
  /\ pc = "files" /\ (PutFile(f) \/ DeleteFile(f))
  /\ \/ airflow' = WithFile(f, airflow) /\ UNCHANGED airflowLate
     \/ airflowLate' = airflowLate \cup {[verb |-> "file", file |-> f]} /\ UNCHANGED airflow
     \/ UNCHANGED <<airflow, airflowLate>>
  /\ Fail /\ Fault
  /\ UNCHANGED <<approvedJob, airflowOp, airflowCp, airflowMode>> /\ KeepFiles

FilesHandled ==
  /\ pc = "files" /\ Uploads \cup Removals \subseteq handled
  /\ Goto("write ledger")
  /\ UNCHANGED <<airflowCp, airflowMode>> /\ KeepFiles /\ OnlyReadsAirflow

VerifyAirflow ==
  /\ pc = "verify airflow"
  /\ IF PlanAirflow(airflow) = "no-op"
     THEN Goto("succeeded") /\ airflowCp' = [NoJobRecord EXCEPT !.kind = "done"]
     ELSE Fail /\ UNCHANGED airflowCp
  /\ UNCHANGED airflowMode /\ KeepFiles /\ OnlyReadsAirflow

CrashAirflow ==
  /\ pc \notin {"idle", "succeeded"} \cup JobRequests
  /\ Fail /\ IF airflowCp.kind = "create" THEN Loss ELSE Fault
  /\ UNCHANGED airflowVars
-----------------------------------------------------------------------------
FinishShell ==
  /\ airflowOp = "creating"
  /\ \/ airflowOp' = "created" /\ airflow' = Shell("shell") /\ NoFault
     \/ airflowOp' = "failed" /\ UNCHANGED airflow /\ Fault
  /\ UNCHANGED <<approvedJob, airflowLate, airflowCp, airflowMode, found, handled, pc>>

ExecuteAirflowLate ==
  /\ \E request \in airflowLate :
       /\ airflowLate' = airflowLate \ {request}
       /\ request.verb = "create airflow" <=> airflow.meta = "none"
       /\ airflow' = IF request.verb = "file" THEN WithFile(request.file, airflow)
                     ELSE JobEffect(request.verb, airflow)
  /\ UNCHANGED <<approvedJob, airflowOp, airflowCp, airflowMode, found, handled, pc>> /\ NoFault

(* Somebody else writes or removes a file, the ledger, or the definition.   *)
EditAirflow ==
  /\ Foreign /\ airflow.meta # "none"
  /\ \/ \E f \in Paths, content \in {"absent", "foreign"} : airflow' = [airflow EXCEPT !.file[f] = content]
     \/ airflow' = [airflow EXCEPT !.ledger = NoJob.ledger]
     \/ airflow' = [airflow EXCEPT !.definition = "foreign"]
  /\ UNCHANGED <<approvedJob, airflowOp, airflowLate, airflowCp, airflowMode, found, handled, pc>>

ReconcileFiles == \E f \in Paths : FileAnswered(f) \/ FileUnanswered(f)
AskAirflow ==
  \/ CreateShell \/ AirflowBaseline \/ AirflowAnswered \/ AirflowRejected \/ AirflowUnanswered
  \/ ReconcileFiles
ReadAirflow ==
  \/ RecoverAirflow \/ AwaitShell \/ ReadShell \/ ReadShellFails \/ ReconcileAirflow \/ ResumeAirflow
  \/ CompareFiles \/ FilesHandled \/ VerifyAirflow
AirflowService == FinishShell \/ ExecuteAirflowLate
AirflowNext == StartAirflow \/ AskAirflow \/ ReadAirflow \/ AirflowService \/ EditAirflow \/ CrashAirflow
AirflowSpec == RunInit /\ AirflowInit /\ [][AirflowNext]_<<runVars, airflowVars>>
-----------------------------------------------------------------------------
AirflowTypeOK ==
  /\ airflow \in AirflowJobs
  /\ airflowOp \in {"none", "creating", "created", "failed"}
  /\ airflowLate \subseteq [verb : JobRequests \cup {"file"}, file : Paths \cup {0}]
  /\ airflowCp.kind \in {"none", "create", "operation", "proof", "update", "done"}
  /\ airflowCp.phase \in {"none", "metadata", "submitting", "staged"}
  /\ airflowMode \in {"none", "create", "resume", "update", "verify"}
  /\ handled \subseteq Paths

(* Wherever a run stopped among the files, the next one can tell its work   *)
(* from somebody else's: no file of its own blocks the deployment.          *)
OwnWorkIsKnown ==
  ~edited /\ ApprovedAirflow # "blocked" => ~BlockedFile(airflow)

(* "Uploads are ordered plugins first and DAGs second; removals are ordered *)
(* DAGs first" (docs/APACHE_AIRFLOW.md): a DAG the deployment uploads finds *)
(* its plugins, and one it is to remove keeps them, also half way.          *)
PluginsServeDags ==
  ~edited /\ ApprovedAirflow # "blocked" =>
    /\ \A d \in Dags \cap Bundle : approvedJob.file[d] # "desired" /\ airflow.file[d] = "desired"
         => \A p \in Plugins \cap Bundle : airflow.file[p] = "desired"
    /\ \A p \in Plugins : FileAction(p, approvedJob) = "delete" /\ airflow.file[p] = "absent"
         => \A d \in Dags : FileAction(d, approvedJob) = "delete" => airflow.file[d] = "absent"

(* A file that a run finds to be somebody else's is neither overwritten nor *)
(* deleted, whatever the ledger says and in whatever state the last run     *)
(* left the job.                                                            *)
ForeignFilesAreKept ==
  ReconcileFiles => \A f \in Paths : found.file[f] = "foreign" => airflow'.file[f] = airflow.file[f]

(* "Accepted creates are checkpointed and resumed ... Update intents are    *)
(* checkpointed before PATCH and reconciled" (README.md): a run that has    *)
(* ended leaves a record the next run can read.                             *)
NextRunReadsRecord == pc = "idle" => Readable(airflowCp)
=============================================================================
