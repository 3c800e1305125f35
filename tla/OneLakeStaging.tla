--------------------------- MODULE OneLakeStaging ---------------------------
(***************************************************************************)
(* The artifacts of a Spark Job Definition are uploaded to immutable paths *)
(* of its Lakehouse (src/src/fabric/onelake-artifacts.ts, checkpointed by  *)
(* applySparkJobArtifacts in src/src/apply.ts) before the job is created.  *)
(* The Lakehouse is there when its turn comes; the create of the job is    *)
(* ItemApply's, here reduced to its intent, its POST and its completion.   *)
(***************************************************************************)
EXTENDS ApplyRun

CONSTANTS
  Artifacts,    \* the artifacts of the job, in the order of their names
  MaxAttempts   \* maxRetries + 1

ASSUME StagingBounds == Artifacts \subseteq Nat /\ MaxAttempts \in Nat \ {0}

VARIABLES
  approvedArtifacts, \* the approved action of each artifact
  stored,            \* what its path holds
  putLate,           \* uploads the service may yet execute
  job,               \* the Spark Job Definition exists
  staging,           \* checkpoint.oneLakeArtifacts[item]
  jobCp,             \* the item's record in the checkpoint
  cursor,            \* the artifacts this run has dealt with
  attempt            \* attempts at the upload under way

oneLake == <<stored, putLate, job>>
stagingVars == <<approvedArtifacts, oneLake, staging, jobCp, cursor, attempt>>

NextArtifact(a) == a \notin cursor /\ \A b \in Artifacts \ cursor : a <= b
Phases == [Artifacts -> {"none", "upload-submitting", "verified"}]
NoStaging == [there |-> FALSE, phase |-> [a \in Artifacts |-> "none"], completed |-> FALSE]

(* planSparkJobArtifacts.                                                   *)
PlanArtifact(a) ==
  CASE stored[a] = "absent"   -> "create"
    [] stored[a] = "approved" -> "no-op"
    [] stored[a] = "other"    -> "blocked"

StagingInit ==
  /\ stored \in [Artifacts -> {"absent", "approved", "other"}]
  /\ approvedArtifacts = [a \in Artifacts |-> PlanArtifact(a)]
  /\ putLate = {} /\ job = FALSE
  /\ staging = NoStaging /\ jobCp = "none"
  /\ cursor = {} /\ attempt = 0

Blocked == \E a \in Artifacts : approvedArtifacts[a] = "blocked"
-----------------------------------------------------------------------------
OnlyReadsOneLake == UNCHANGED <<approvedArtifacts, oneLake>> /\ NoFault
KeepStaging == UNCHANGED <<staging, jobCp>>

(* assertPendingSparkJobArtifactRecoveryProof.                              *)
PendingProof ==
  staging.completed /\ \A a \in Artifacts : staging.phase[a] = "verified"

(* A run stages before anything else, whether the item is fresh, pending or *)
(* completed; the first time it records that it does.                       *)
StartStaging ==
  /\ pc \in {"idle", "succeeded"}
  /\ cursor' = {} /\ attempt' = 0 /\ UNCHANGED jobCp
  /\ IF Blocked \/ (jobCp = "submitting" /\ ~PendingProof)
     THEN Fail /\ UNCHANGED staging
     ELSE Goto("stage") /\ staging' = [staging EXCEPT !.there = TRUE]
  /\ OnlyReadsOneLake

(* What is recorded as verified, or was approved as it is, is only read.    *)
OnlyVerifies(a) == staging.phase[a] = "verified" \/ approvedArtifacts[a] = "no-op"

RecordVerified(a) == staging' = [staging EXCEPT !.phase[a] = "verified"]

VerifyArtifact(a) ==
  /\ pc = "stage" /\ NextArtifact(a) /\ OnlyVerifies(a)
  /\ IF stored[a] = "approved"
     THEN RecordVerified(a) /\ cursor' = cursor \cup {a} /\ UNCHANGED pc
     ELSE Fail /\ UNCHANGED <<staging, cursor>>
  /\ UNCHANGED <<jobCp, attempt>> /\ OnlyReadsOneLake

(* createDirectories, and the first PUT of putImmutableObject.              *)
BeginUpload(a) ==
  /\ pc = "stage" /\ NextArtifact(a) /\ ~OnlyVerifies(a)
  /\ Goto("put") /\ attempt' = 1
  /\ staging' = [staging EXCEPT !.phase[a] = "upload-submitting", !.completed = FALSE]
  /\ UNCHANGED <<jobCp, cursor>> /\ OnlyReadsOneLake

(* If-None-Match: *.                                                        *)
\* Mutant: the condition is left out.
PutAlways(a) == stored' = [stored EXCEPT ![a] = "approved"]
Put(a) == stored' = [stored EXCEPT ![a] = IF @ = "absent" THEN "approved" ELSE @]

(* 201, or 412 and what is there is right.                                  *)
TakeConflict(a) ==
  IF stored[a] \in {"absent", "approved"} THEN Goto("verify upload") ELSE Fail

PutAnswered(a) ==
  /\ pc = "put" /\ NextArtifact(a)
  /\ Put(a) /\ TakeConflict(a)
  /\ KeepStaging /\ UNCHANGED <<approvedArtifacts, putLate, job, cursor, attempt>> /\ NoFault

(* No answer, or one of the transient statuses.                             *)
PutAmbiguous(a) ==
  /\ pc = "put" /\ NextArtifact(a)
  /\ \/ Put(a) /\ UNCHANGED putLate
     \/ putLate' = putLate \cup {a} /\ UNCHANGED stored
     \/ UNCHANGED <<stored, putLate>>
  /\ Goto("inspect put") /\ Fault
  /\ KeepStaging /\ UNCHANGED <<approvedArtifacts, job, cursor, attempt>>

PutRejected(a) ==
  /\ pc = "put" /\ NextArtifact(a)
  /\ Fail /\ Fault
  /\ KeepStaging /\ UNCHANGED <<approvedArtifacts, oneLake, cursor, attempt>>

\* Mutant: an upload without an answer is left for the end.
InspectPutTrusting(a) ==
  /\ pc = "inspect put" /\ NextArtifact(a)
  /\ Goto("stage") /\ RecordVerified(a) /\ cursor' = cursor \cup {a}
  /\ UNCHANGED <<jobCp, attempt>> /\ OnlyReadsOneLake
(* inspectAfterAmbiguousPut, and the next attempt.                          *)
InspectPut(a) ==
  /\ pc = "inspect put" /\ NextArtifact(a)
  /\ CASE stored[a] = "approved" -> Goto("verify upload") /\ UNCHANGED attempt
       [] stored[a] = "other"    -> Fail /\ UNCHANGED attempt
       [] stored[a] = "absent" /\ attempt < MaxAttempts -> Goto("put") /\ attempt' = attempt + 1
       [] stored[a] = "absent" /\ attempt >= MaxAttempts -> Fail /\ UNCHANGED attempt
  /\ KeepStaging /\ UNCHANGED cursor /\ OnlyReadsOneLake

(* The end of uploadImmutable, and onUploadVerified.                        *)
VerifyUpload(a) ==
  /\ pc = "verify upload" /\ NextArtifact(a)
  /\ IF stored[a] = "approved"
     THEN RecordVerified(a) /\ cursor' = cursor \cup {a} /\ Goto("stage")
     ELSE Fail /\ UNCHANGED <<staging, cursor>>
  /\ UNCHANGED <<jobCp, attempt>> /\ OnlyReadsOneLake

RecordStaged == staging' = [staging EXCEPT !.completed = TRUE]

FinishStaging ==
  /\ pc = "stage" /\ cursor = Artifacts
  /\ RecordStaged
  /\ Goto(CASE jobCp = "none" -> "begin job" [] OTHER -> "recover job")
  /\ UNCHANGED <<jobCp, cursor, attempt>> /\ OnlyReadsOneLake
-----------------------------------------------------------------------------
(* The job: ItemApply has its protocol.  A create that was lost for good is *)
(* not repeated.                                                            *)
BeginJob ==
  /\ pc = "begin job"
  /\ jobCp' = "submitting" /\ Goto("job sent")
  /\ UNCHANGED <<staging, cursor, attempt>> /\ OnlyReadsOneLake

JobAnswered ==
  /\ pc = "job sent"
  /\ job' = TRUE /\ jobCp' = "done" /\ Goto("succeeded")
  /\ UNCHANGED <<approvedArtifacts, stored, putLate, staging, cursor, attempt>> /\ NoFault

JobUnanswered ==
  /\ pc = "job sent"
  /\ \/ job' = TRUE /\ UNCHANGED jobCp /\ Fault
     \/ UNCHANGED <<job, jobCp>> /\ Loss
     \/ UNCHANGED job /\ jobCp' = "none" /\ Fault
  /\ Fail
  /\ UNCHANGED <<approvedArtifacts, stored, putLate, staging, cursor, attempt>>

RecoverJob ==
  /\ pc = "recover job"
  /\ IF job THEN jobCp' = "done" /\ Goto("succeeded") ELSE UNCHANGED jobCp /\ Fail
  /\ UNCHANGED <<staging, cursor, attempt>> /\ OnlyReadsOneLake

CrashStaging ==
  /\ pc \notin {"idle", "succeeded", "put", "job sent"}
  /\ Fail /\ Fault /\ UNCHANGED stagingVars
-----------------------------------------------------------------------------
PutLate ==
  /\ \E a \in putLate : Put(a) /\ putLate' = putLate \ {a}
  /\ UNCHANGED <<approvedArtifacts, job, staging, jobCp, cursor, attempt, pc>> /\ NoFault

(* Somebody else writes to the path, or removes what is there.              *)
EditArtifact ==
  /\ Foreign
  /\ \E a \in Artifacts, content \in {"absent", "other"} : stored' = [stored EXCEPT ![a] = content]
  /\ UNCHANGED <<approvedArtifacts, putLate, job, staging, jobCp, cursor, attempt, pc>>

AskOneLake ==
  \/ \E a \in Artifacts : BeginUpload(a) \/ PutAnswered(a) \/ PutAmbiguous(a) \/ PutRejected(a)
  \/ BeginJob \/ JobAnswered \/ JobUnanswered
ReadOneLake ==
  \/ \E a \in Artifacts : VerifyArtifact(a) \/ InspectPut(a) \/ VerifyUpload(a)
  \/ FinishStaging \/ RecoverJob
StagingNext == StartStaging \/ AskOneLake \/ ReadOneLake \/ PutLate \/ EditArtifact \/ CrashStaging
StagingSpec == RunInit /\ StagingInit /\ [][StagingNext]_<<runVars, stagingVars>>
-----------------------------------------------------------------------------
StagingTypeOK ==
  /\ approvedArtifacts \in [Artifacts -> {"create", "no-op", "blocked"}]
  /\ stored \in [Artifacts -> {"absent", "approved", "other"}]
  /\ putLate \subseteq Artifacts /\ job \in BOOLEAN
  /\ staging \in [there : BOOLEAN, phase : Phases, completed : BOOLEAN]
  /\ jobCp \in {"none", "submitting", "done"}
  /\ cursor \subseteq Artifacts /\ attempt \in 0..MaxAttempts

(* "never overwrites mismatched content" (README.md): whatever a path has   *)
(* come to hold since it was looked at stays there.                         *)
NeverOverwrites ==
  \A a \in Artifacts : stored[a] = "other" => stored'[a] # "approved"

(* The job is created only when its artifacts are in place, also by the     *)
(* reruns after uploads that were lost, late or repeated.                   *)
JobAfterArtifacts ==
  pc = "job sent" => PendingProof /\ (~edited => \A a \in Artifacts : stored[a] = "approved")
=============================================================================
