---------------------------- MODULE ContentProofs ----------------------------
(***************************************************************************)
(* The protocols that fill an item with its content, for any number of     *)
(* artifacts, tags, tables, files, versions, sessions, jobs and faults: an *)
(* inductive invariant of each, and what follows from it for the           *)
(* behaviours of Content, which are about one of them at a time.           *)
(***************************************************************************)
EXTENDS Content, FiniteSetTheorems, TLAPS

Staging == {"stage", "put", "inspect put", "verify upload"}

Records ==
  /\ staging = [there |-> staging.there, phase |-> staging.phase, completed |-> staging.completed]
  /\ staging.phase = [a \in Artifacts |-> staging.phase[a]]
  /\ stored \in [Artifacts -> {"absent", "approved", "other"}]
  /\ cursor \subseteq Artifacts /\ attempt \in Nat

(* What a run has dealt with is verified, and staging is completed only     *)
(* when everything is; what is verified is there, unless somebody edits.    *)
StagingInv ==
  /\ Records
  /\ pc \in Staging => \A a \in cursor : staging.phase[a] = "verified"
  /\ staging.completed => \A a \in Artifacts : staging.phase[a] = "verified"
  /\ pc \in {"begin job", "job sent"} => PendingProof
  /\ ~edited => \A a \in Artifacts : staging.phase[a] = "verified" => stored[a] = "approved"

stagingAll == <<runVars, stagingVars>>

(* What a step on one artifact does to it leaves the others alone.          *)
LEMMA StageOne ==
  ASSUME StagingInv, NEW a \in Artifacts,
         BeginUpload(a) \/ PutAnswered(a) \/ PutAmbiguous(a) \/ PutRejected(a)
           \/ VerifyArtifact(a) \/ InspectPut(a) \/ VerifyUpload(a)
  PROVE  StagingInv'
<1> USE DEF Goto, Fail
<1>1. pc \in Staging /\ a \notin cursor
  BY DEF BeginUpload, PutAnswered, PutAmbiguous, PutRejected, VerifyArtifact, InspectPut, VerifyUpload,
     NextArtifact, Staging
<1>2. CASE BeginUpload(a)
  BY <1>1, <1>2 DEF BeginUpload, OnlyReadsOneLake, oneLake, NoFault, StagingInv, Records, Staging
<1>3. CASE PutAnswered(a) \/ PutAmbiguous(a) \/ PutRejected(a)
  <2>1. /\ UNCHANGED <<staging, cursor, attempt, edited>> /\ pc' \in {"verify upload", "inspect put", "idle"}
        /\ Put(a) \/ UNCHANGED stored
    BY <1>3 DEF PutAnswered, PutAmbiguous, PutRejected, KeepStaging, TakeConflict, oneLake, Fault,
       SpendFault, NoFault
  <2>2. /\ stored' \in [Artifacts -> {"absent", "approved", "other"}]
        /\ \A b \in Artifacts : stored[b] = "approved" => stored'[b] = "approved"
    <3>1. CASE Put(a)
      BY <3>1 DEF Put, StagingInv, Records
    <3>2. CASE UNCHANGED stored
      BY <3>2 DEF StagingInv, Records
    <3> QED BY <2>1, <3>1, <3>2
  <2> QED BY <1>1, <2>1, <2>2 DEF StagingInv, Records, Staging
<1>4. CASE VerifyArtifact(a) \/ VerifyUpload(a)
  <2>1. UNCHANGED <<stored, edited>>
    BY <1>4 DEF VerifyArtifact, VerifyUpload, OnlyReadsOneLake, oneLake, NoFault
  <2>2. CASE stored[a] = "approved"
    <3>1. /\ staging' = [staging EXCEPT !.phase[a] = "verified"] /\ cursor' = cursor \cup {a}
          /\ pc' = "stage" /\ attempt' = attempt
      BY <1>4, <2>2 DEF VerifyArtifact, VerifyUpload, RecordVerified
    <3>2. /\ staging' = [there |-> staging'.there, phase |-> staging'.phase, completed |-> staging'.completed]
          /\ staging'.phase = [b \in Artifacts |-> staging'.phase[b]]
          /\ staging'.completed = staging.completed /\ staging'.phase[a] = "verified"
          /\ \A b \in Artifacts : b # a => staging'.phase[b] = staging.phase[b]
      BY <3>1 DEF StagingInv, Records
    <3>3. /\ \A b \in cursor' : staging'.phase[b] = "verified"
          /\ staging'.completed => \A b \in Artifacts : staging'.phase[b] = "verified"
          /\ ~edited' => \A b \in Artifacts : staging'.phase[b] = "verified" => stored'[b] = "approved"
      BY <1>1, <2>1, <2>2, <3>1, <3>2 DEF StagingInv, Records
    <3> QED BY <2>1, <3>1, <3>2, <3>3 DEF StagingInv, Records, Staging
  <2>3. CASE stored[a] # "approved"
    BY <1>4, <2>1, <2>3 DEF VerifyArtifact, VerifyUpload, StagingInv, Records, Staging
  <2> QED BY <2>2, <2>3
<1>5. CASE InspectPut(a)
  <2>1. pc' \in {"verify upload", "idle", "put"} /\ attempt' \in Nat
    <3>1. stored[a] \in {"absent", "approved", "other"} /\ attempt \in Nat /\ MaxAttempts \in Nat
      BY StagingBounds DEF StagingInv, Records
    <3>2. attempt < MaxAttempts \/ attempt >= MaxAttempts
      BY <3>1
    <3>3. attempt' = attempt \/ attempt' = attempt + 1
      BY <1>5, <3>1, <3>2 DEF InspectPut
    <3>4. pc' \in {"verify upload", "idle", "put"}
      <4>1. CASE stored[a] = "approved"
        BY <1>5, <4>1 DEF InspectPut
      <4>2. CASE stored[a] = "other"
        BY <1>5, <4>2 DEF InspectPut
      <4>3. CASE stored[a] = "absent" /\ attempt < MaxAttempts
        BY <1>5, <3>1, <4>3 DEF InspectPut
      <4>4. CASE stored[a] = "absent" /\ attempt >= MaxAttempts
        BY <1>5, <3>1, <4>4 DEF InspectPut
      <4> QED BY <3>1, <3>2, <4>1, <4>2, <4>3, <4>4
    <3>5. attempt' \in Nat
      BY <3>1, <3>3
    <3> QED BY <3>4, <3>5
  <2> QED BY <1>1, <1>5, <2>1 DEF InspectPut, KeepStaging, OnlyReadsOneLake, oneLake, NoFault, StagingInv, Records, Staging
<1> QED BY <1>2, <1>3, <1>4, <1>5

(* Every step, of a run, of the service or of somebody else, keeps it.      *)
LEMMA StagingNextInv ==
  ASSUME StagingInv, StagingNext
  PROVE  StagingInv'
<1> USE DEF Goto, Fail
<1>1. CASE StartStaging
  BY <1>1 DEF StartStaging, OnlyReadsOneLake, oneLake, NoFault, StagingInv, Records, Staging
<1>2. ASSUME NEW a \in Artifacts,
             BeginUpload(a) \/ PutAnswered(a) \/ PutAmbiguous(a) \/ PutRejected(a)
               \/ VerifyArtifact(a) \/ InspectPut(a) \/ VerifyUpload(a)
      PROVE  StagingInv'
  BY <1>2, StageOne
<1>3. CASE FinishStaging
  <2>1. \A a \in Artifacts : staging.phase[a] = "verified"
    BY <1>3 DEF FinishStaging, StagingInv, Staging
  <2>2. /\ UNCHANGED <<stored, cursor, attempt, edited>> /\ staging' = [staging EXCEPT !.completed = TRUE]
        /\ pc' \in {"begin job", "recover job"}
    BY <1>3 DEF FinishStaging, RecordStaged, OnlyReadsOneLake, oneLake, NoFault
  <2>3. staging'.phase = staging.phase /\ staging'.completed
    BY <2>2 DEF StagingInv, Records
  <2> QED BY <2>1, <2>2, <2>3 DEF StagingInv, Records, Staging, PendingProof
<1>4. CASE BeginJob \/ JobAnswered \/ JobUnanswered \/ RecoverJob
  <2>1. /\ UNCHANGED <<staging, stored, cursor, attempt, edited>>
        /\ pc' \in {"job sent", "succeeded", "idle"} /\ (pc' = "job sent" => pc = "begin job")
    BY <1>4 DEF BeginJob, JobAnswered, JobUnanswered, RecoverJob, OnlyReadsOneLake, oneLake, NoFault,
       Fault, Loss, SpendFault
  <2> QED BY <2>1 DEF StagingInv, Records, Staging, PendingProof
<1>5. CASE CrashStaging
  BY <1>5 DEF CrashStaging, stagingVars, oneLake, Fault, SpendFault, StagingInv, Records, Staging
<1>6. CASE PutLate
  <2>1. PICK a \in putLate : Put(a)
    BY <1>6 DEF PutLate
  <2>2. /\ stored' \in [Artifacts -> {"absent", "approved", "other"}]
        /\ \A b \in Artifacts : stored[b] = "approved" => stored'[b] = "approved"
    BY <2>1 DEF Put, StagingInv, Records
  <2> QED BY <1>6, <2>2 DEF PutLate, NoFault, StagingInv, Records, PendingProof
<1>7. CASE EditArtifact
  BY <1>7 DEF EditArtifact, Foreign, StagingInv, Records, PendingProof
<1> QED BY <1>1, <1>2, <1>3, <1>4, <1>5, <1>6, <1>7 DEF StagingNext, AskOneLake, ReadOneLake

(* The same of the types.                                                   *)
LEMMA StagingTypes ==
  ASSUME StagingTypeOK, StagingNext
  PROVE  StagingTypeOK'
<1> DEFINE Stagings == [there : BOOLEAN, phase : Phases, completed : BOOLEAN]
<1>1. /\ approvedArtifacts \in [Artifacts -> {"create", "no-op", "blocked"}]
      /\ stored \in [Artifacts -> {"absent", "approved", "other"}]
      /\ putLate \subseteq Artifacts /\ job \in BOOLEAN /\ staging \in Stagings
      /\ jobCp \in {"none", "submitting", "done"} /\ cursor \subseteq Artifacts /\ attempt \in 0..MaxAttempts
  BY DEF StagingTypeOK
<1>2. ASSUME approvedArtifacts' = approvedArtifacts, stored' \in [Artifacts -> {"absent", "approved", "other"}],
             putLate' \subseteq Artifacts, job' \in BOOLEAN, staging' \in Stagings,
             jobCp' \in {"none", "submitting", "done"}, cursor' \subseteq Artifacts, attempt' \in 0..MaxAttempts
      PROVE  StagingTypeOK'
  BY <1>1, <1>2 DEF StagingTypeOK
<1>3. \A a \in Artifacts : Put(a) => stored' \in [Artifacts -> {"absent", "approved", "other"}]
  BY <1>1 DEF Put
<1>4. \A a \in Artifacts, phase \in {"upload-submitting", "verified"} :
        [staging.phase EXCEPT ![a] = phase] \in Phases
  BY <1>1 DEF Phases
<1>5. \A a \in Artifacts : RecordVerified(a) => staging' \in Stagings
  BY <1>1, <1>4 DEF RecordVerified
<1>6. 0 \in 0..MaxAttempts /\ 1 \in 0..MaxAttempts
  BY StagingBounds
<1>7. CASE StartStaging
  <2>1. staging' \in Stagings
    BY <1>1, <1>7 DEF StartStaging
  <2> QED BY <1>1, <1>2, <1>6, <1>7, <2>1 DEF StartStaging, OnlyReadsOneLake, oneLake
<1>8. ASSUME NEW a \in Artifacts, BeginUpload(a) PROVE StagingTypeOK'
  <2>1. staging' \in Stagings
    BY <1>1, <1>4, <1>8 DEF BeginUpload
  <2> QED BY <1>1, <1>2, <1>6, <1>8, <2>1 DEF BeginUpload, OnlyReadsOneLake, oneLake
<1>9. ASSUME NEW a \in Artifacts, PutAnswered(a) \/ PutAmbiguous(a) \/ PutRejected(a) PROVE StagingTypeOK'
  <2>1. /\ UNCHANGED <<approvedArtifacts, job, staging, jobCp, cursor, attempt>>
        /\ Put(a) \/ UNCHANGED stored
        /\ putLate' = putLate \cup {a} \/ UNCHANGED putLate
    BY <1>9 DEF PutAnswered, PutAmbiguous, PutRejected, KeepStaging, oneLake
  <2> QED BY <1>1, <1>2, <1>3, <2>1
<1>10. ASSUME NEW a \in Artifacts, VerifyArtifact(a) \/ VerifyUpload(a) PROVE StagingTypeOK'
  <2>1. /\ UNCHANGED <<approvedArtifacts, oneLake, jobCp, attempt>>
        /\ (RecordVerified(a) /\ cursor' = cursor \cup {a}) \/ UNCHANGED <<staging, cursor>>
    BY <1>10 DEF VerifyArtifact, VerifyUpload, OnlyReadsOneLake
  <2> QED BY <1>1, <1>2, <1>5, <2>1 DEF oneLake
<1>11. ASSUME NEW a \in Artifacts, InspectPut(a) PROVE StagingTypeOK'
  <2>1. UNCHANGED <<approvedArtifacts, oneLake, staging, jobCp, cursor>>
    BY <1>11 DEF InspectPut, KeepStaging, OnlyReadsOneLake
  <2>2. attempt' = attempt \/ (attempt < MaxAttempts /\ attempt' = attempt + 1)
    <3>1. stored[a] \in {"absent", "approved", "other"} /\ (attempt < MaxAttempts \/ attempt >= MaxAttempts)
      BY <1>1, StagingBounds
    <3>2. CASE stored[a] = "approved"
      BY <1>11, <3>2 DEF InspectPut
    <3>3. CASE stored[a] = "other"
      BY <1>11, <3>3 DEF InspectPut
    <3>4. CASE stored[a] = "absent" /\ attempt < MaxAttempts
      BY <1>1, <1>11, <3>4, StagingBounds DEF InspectPut
    <3>5. CASE stored[a] = "absent" /\ attempt >= MaxAttempts
      BY <1>1, <1>11, <3>5, StagingBounds DEF InspectPut
    <3> QED BY <3>1, <3>2, <3>3, <3>4, <3>5
  <2>3. attempt' \in 0..MaxAttempts
    BY <1>1, <2>2, StagingBounds
  <2> QED BY <1>1, <1>2, <2>1, <2>3 DEF oneLake
<1>12. CASE FinishStaging
  BY <1>1, <1>2, <1>12 DEF FinishStaging, RecordStaged, OnlyReadsOneLake, oneLake
<1>13. CASE BeginJob \/ JobAnswered \/ JobUnanswered \/ RecoverJob
  BY <1>1, <1>2, <1>13 DEF BeginJob, JobAnswered, JobUnanswered, RecoverJob, OnlyReadsOneLake, oneLake
<1>14. CASE CrashStaging
  BY <1>1, <1>2, <1>14 DEF CrashStaging, stagingVars, oneLake
<1>15. CASE PutLate
  BY <1>1, <1>2, <1>3, <1>15 DEF PutLate
<1>16. CASE EditArtifact
  BY <1>1, <1>2, <1>16 DEF EditArtifact
<1> QED BY <1>7, <1>8, <1>9, <1>10, <1>11, <1>12, <1>13, <1>14, <1>15, <1>16 DEF StagingNext, AskOneLake, ReadOneLake

(* Nor does it depend on anything but the state.                            *)
LEMMA StagingStays ==
  ASSUME StagingTypeOK, StagingInv, UNCHANGED stagingAll
  PROVE  StagingTypeOK' /\ StagingInv'
<1>1. UNCHANGED <<approvedArtifacts, stored, putLate, job, staging, jobCp, cursor, attempt, pc, edited>>
  BY DEF stagingAll, runVars, stagingVars, oneLake
<1>2. StagingTypeOK'
  BY <1>1 DEF StagingTypeOK
<1>3. StagingInv'
  BY <1>1 DEF StagingInv, Records, PendingProof
<1> QED BY <1>2, <1>3

(* Before the first run.                                                    *)
LEMMA StagingInitially ==
  ASSUME RunInit, StagingInit
  PROVE  StagingTypeOK /\ StagingInv
<1>1. /\ stored \in [Artifacts -> {"absent", "approved", "other"}]
      /\ approvedArtifacts = [a \in Artifacts |-> PlanArtifact(a)]
      /\ putLate = {} /\ job = FALSE /\ staging = NoStaging /\ jobCp = "none" /\ cursor = {} /\ attempt = 0
  BY DEF StagingInit
<1>2. approvedArtifacts \in [Artifacts -> {"create", "no-op", "blocked"}]
  BY <1>1 DEF PlanArtifact
<1>3. NoStaging \in [there : BOOLEAN, phase : Phases, completed : BOOLEAN]
  BY DEF NoStaging, Phases
<1>4. 0 \in 0..MaxAttempts
  BY StagingBounds
<1>5. StagingTypeOK
  BY <1>1, <1>2, <1>3, <1>4 DEF StagingTypeOK
<1>6. StagingInv
  BY DEF RunInit, StagingInit, NoStaging, StagingInv, Records, Staging
<1> QED BY <1>5, <1>6

LEMMA StagingSafe ==
  ASSUME StagingInv
  PROVE  JobAfterArtifacts
  BY DEF StagingInv, JobAfterArtifacts, PendingProof

(* The records and the paths agree over all reruns.                         *)
THEOREM StagingInvariant == StagingSpec => [](StagingTypeOK /\ StagingInv)
<1>1. RunInit /\ StagingInit => StagingTypeOK /\ StagingInv
  BY StagingInitially
<1>2. StagingTypeOK /\ StagingInv /\ [StagingNext]_stagingAll => StagingTypeOK' /\ StagingInv'
  BY StagingTypes, StagingNextInv, StagingStays
<1> QED BY <1>1, <1>2, PTL DEF StagingSpec, stagingAll

(* The job is created only when its artifacts are in place, also by reruns  *)
(* after uploads that were lost, late or repeated (applySparkJobArtifacts   *)
(* in apply.ts).                                                            *)
THEOREM JobAfterArtifactsCorrect == StagingSpec => []JobAfterArtifacts
BY StagingInvariant, StagingSafe, PTL

LEMMA NeverOverwritten ==
  ASSUME StagingInv, StagingNext
  PROVE  NeverOverwrites
<1> SUFFICES ASSUME NEW a \in Artifacts, stored[a] = "other" PROVE stored'[a] # "approved"
  BY DEF NeverOverwrites
<1>1. ASSUME NEW b, Put(b) PROVE stored'[a] # "approved"
  BY <1>1 DEF Put, StagingInv, Records
<1>2. ASSUME UNCHANGED stored PROVE stored'[a] # "approved"
  BY <1>2
<1>3. CASE EditArtifact
  BY <1>3 DEF EditArtifact, StagingInv, Records
<1>4. CASE PutLate
  BY <1>1, <1>4 DEF PutLate
<1>5. CASE StartStaging \/ CrashStaging
  BY <1>2, <1>5 DEF StartStaging, CrashStaging, OnlyReadsOneLake, oneLake, stagingVars
<1>6. CASE AskOneLake
  BY <1>1, <1>2, <1>6 DEF AskOneLake, BeginUpload, PutAnswered, PutAmbiguous, PutRejected, BeginJob,
     JobAnswered, JobUnanswered, OnlyReadsOneLake, oneLake
<1>7. CASE ReadOneLake
  BY <1>2, <1>7 DEF ReadOneLake, VerifyArtifact, InspectPut, VerifyUpload, FinishStaging, RecoverJob,
     OnlyReadsOneLake, oneLake
<1> QED BY <1>3, <1>4, <1>5, <1>6, <1>7 DEF StagingNext

(* No step of a run, nor a late upload of an earlier one, replaces what     *)
(* somebody else has put at a path (putImmutableObject in                   *)
(* onelake-artifacts.ts).                                                   *)
THEOREM NeverOverwritesCorrect == StagingSpec => [][NeverOverwrites]_stagingAll
<1>1. StagingInv /\ [StagingNext]_stagingAll => [NeverOverwrites]_stagingAll
  BY NeverOverwritten
<1> QED BY <1>1, StagingInvariant, PTL DEF StagingSpec, stagingAll

-----------------------------------------------------------------------------
(* The jobs and the step of a run, and what the result file names and how   *)
(* long there is to wait.                                                   *)
PipelineShape ==
  /\ jobs \in [Jobs -> {"none", "InProgress"} \cup Terminal] /\ polled \in 0..MaxJobs
  /\ pc \in {"idle", "succeeded", "trigger", "triggered", "poll"} /\ (pc \in {"triggered", "poll"} => polled \in Jobs)
  /\ jobFile \in [job : 0..MaxJobs, status : {"none", "InProgress"} \cup Terminal]
PollingInv ==
  /\ clock \in Nat /\ wakeAt \in Nat /\ clock <= RunTimeout + RequestTime /\ wakeAt <= RunTimeout
  /\ pc \in {"trigger", "triggered"} => clock = 0
  /\ pc = "poll" \/ clock > 0 => jobFile.job = polled
PipelineInv == PipelineShape /\ PollingInv

pipelineAll == <<runVars, pipelineVars>>

(* What can be polled has been started.                                     *)
LEMMA PipelineNextShape ==
  ASSUME PipelineShape, PipelineNext
  PROVE  PipelineShape'
<1> DEFINE Statuses == {"none", "InProgress"} \cup Terminal
<1>1. /\ jobs \in [Jobs -> Statuses] /\ polled \in 0..MaxJobs
      /\ jobFile \in [job : 0..MaxJobs, status : Statuses]
      /\ pc \in {"idle", "succeeded", "trigger", "triggered", "poll"} /\ (pc \in {"triggered", "poll"} => polled \in Jobs)
  BY DEF PipelineShape
<1>2. NotStarted # {} => NewJob \in Jobs
  BY DEF NotStarted, NewJob
<1>3. Jobs \subseteq 0..MaxJobs /\ 0 \in 0..MaxJobs
  BY PipelineBounds DEF Jobs
<1>4. ASSUME jobs' \in [Jobs -> Statuses], polled' \in 0..MaxJobs, jobFile' \in [job : 0..MaxJobs, status : Statuses],
             pc' \in {"idle", "succeeded", "trigger", "triggered", "poll"}, pc' \in {"triggered", "poll"} => polled' \in Jobs
      PROVE  PipelineShape'
  BY <1>4 DEF PipelineShape
<1> USE DEF Goto, Fail
<1>5. CASE StartPipelineRun
  BY <1>1, <1>3, <1>4, <1>5 DEF StartPipelineRun, OnlyPolls
<1>6. CASE Triggered
  <2>1. /\ jobs' = [jobs EXCEPT ![NewJob] = "InProgress"] /\ polled' = NewJob /\ pc' = "triggered" /\ jobFile' = jobFile
        /\ NewJob \in Jobs
    BY <1>2, <1>6 DEF Triggered
  <2>2. jobs' \in [Jobs -> Statuses]
    BY <1>1, <2>1
  <2>3. polled' \in 0..MaxJobs /\ polled' \in Jobs
    BY <1>3, <2>1
  <2> QED BY <1>1, <1>4, <2>1, <2>2, <2>3
<1>7. CASE TriggerFails
  <2>1. jobs' \in [Jobs -> Statuses]
    BY <1>1, <1>2, <1>7 DEF TriggerFails
  <2> QED BY <1>1, <1>4, <1>7, <2>1 DEF TriggerFails
<1>8. CASE WriteTriggered
  <2>1. jobFile' \in [job : 0..MaxJobs, status : Statuses]
    BY <1>1, <1>8 DEF WriteTriggered
  <2> QED BY <1>1, <1>4, <1>8, <2>1 DEF WriteTriggered, OnlyPolls
<1>9. CASE PollEnds
  <2>1. jobFile' = [job |-> polled, status |-> jobs[polled]] /\ jobs[polled] \in Terminal
    BY <1>9 DEF PollEnds
  <2>2. jobFile' \in [job : 0..MaxJobs, status : Statuses]
    BY <1>1, <2>1
  <2> QED BY <1>1, <1>4, <1>9, <2>2 DEF PollEnds, OnlyPolls
<1>10. CASE PollAgain \/ PollFails \/ PollTimesOut \/ CrashPipelineRun \/ PipelineClock
  <2>1. UNCHANGED <<jobs, jobFile, polled>> /\ (pc' = pc \/ pc' = "idle")
    BY <1>10 DEF PollAgain, PollFails, PollTimesOut, CrashPipelineRun, PipelineClock, pipelineVars, OnlyPolls
  <2> QED BY <1>1, <1>4, <2>1
<1>11. CASE JobEnds
  <2>1. jobs' \in [Jobs -> Statuses]
    BY <1>1, <1>11 DEF JobEnds
  <2> QED BY <1>1, <1>4, <1>11, <2>1 DEF JobEnds
<1> QED BY <1>5, <1>6, <1>7, <1>8, <1>9, <1>10, <1>11
  DEF PipelineNext, AskPipeline, ReadPipeline

(* A read ends in time or within one request after it, and the next one is  *)
(* never put off beyond the deadline.                                       *)
LEMMA ReadTakesTime ==
  ASSUME clock \in Nat, Read
  PROVE  pc = "poll" /\ clock' \in Nat /\ clock' <= RunTimeout + RequestTime
<1>1. PICK took \in 0..RequestTime : clock' = clock + took
  BY DEF Read
<1>2. pc = "poll" /\ clock < RunTimeout
  BY DEF Read, Awake
<1> QED BY <1>1, <1>2, PipelineBounds

LEMMA NextPoll ==
  ASSUME clock \in Nat, PollAgain
  PROVE  wakeAt' \in Nat /\ wakeAt' <= RunTimeout
<1>1. PICK delay \in RetryAfters : wakeAt' = Cut(clock' + delay)
  BY DEF PollAgain
<1>2. clock' \in Nat
  BY ReadTakesTime DEF PollAgain
<1>3. delay \in Nat /\ RunTimeout \in Nat
  BY PipelineBounds
<1> DEFINE time == clock' + delay
<1>4. time \in Nat
  <2>1. \A m, n \in Nat : m + n \in Nat
    OBVIOUS
  <2> QED BY <1>2, <1>3, <2>1, Zenon
<1> HIDE DEF time
<1>5. Cut(time) \in Nat /\ Cut(time) <= RunTimeout
  BY <1>3, <1>4 DEF Cut
<1> QED BY <1>1, <1>5 DEF time

(* Every step of a run and of its job keeps it.                             *)
LEMMA PipelineNextInv ==
  ASSUME PipelineInv, PipelineNext
  PROVE  PipelineInv'
<1>12. PipelineShape'
  BY PipelineNextShape DEF PipelineInv
<1>13. PollingInv /\ jobFile \in [job : 0..MaxJobs, status : {"none", "InProgress"} \cup Terminal]
  BY DEF PipelineInv, PipelineShape
<1> SUFFICES PollingInv'
  BY <1>12 DEF PipelineInv
<1> USE <1>13, PipelineBounds DEF PollingInv, Goto, Fail
<1>1. \A time \in Nat : Cut(time) \in Nat /\ Cut(time) <= RunTimeout
  BY DEF Cut
<1>2. \A delay \in RetryAfters : delay \in Nat /\ clock + delay \in Nat
  OBVIOUS
<1>3. CASE StartPipelineRun
  BY <1>3 DEF StartPipelineRun
<1>4. CASE Triggered
  BY <1>1, <1>2, <1>4 DEF Triggered
<1>5. CASE TriggerFails
  BY <1>5 DEF TriggerFails
<1>6. CASE WriteTriggered
  BY <1>6 DEF WriteTriggered
<1>7. CASE PollEnds
  BY <1>7, ReadTakesTime DEF PollEnds
<1>8. CASE PollAgain
  BY <1>8, ReadTakesTime, NextPoll DEF PollAgain, Read, Awake
<1>9. CASE PollFails \/ PollTimesOut \/ CrashPipelineRun
  BY <1>9, ReadTakesTime DEF PollFails, PollTimesOut, CrashPipelineRun, pipelineVars
<1>10. CASE PipelineClock
  BY <1>10 DEF PipelineClock
<1>11. CASE JobEnds
  BY <1>11 DEF JobEnds
<1> QED BY <1>3, <1>4, <1>5, <1>6, <1>7, <1>8, <1>9, <1>10, <1>11
  DEF PipelineNext, AskPipeline, ReadPipeline

LEMMA PipelineStays ==
  ASSUME PipelineInv, UNCHANGED pipelineAll
  PROVE  PipelineInv'
  BY DEF pipelineAll, runVars, pipelineVars, PipelineInv, PipelineShape, PollingInv

LEMMA PipelineInitially ==
  ASSUME RunInit, PipelineInit
  PROVE  PipelineInv
  BY PipelineBounds DEF RunInit, PipelineInit, PipelineInv, PipelineShape, PollingInv

(* The result file and the clock agree with where the run is, at every step  *)
(* of any number of runs.                                                   *)
THEOREM PipelineInvariant == PipelineSpec => []PipelineInv
<1>1. RunInit /\ PipelineInit => PipelineInv
  BY PipelineInitially
<1>2. PipelineInv /\ [PipelineNext]_pipelineAll => PipelineInv'
  BY PipelineNextInv, PipelineStays
<1> QED BY <1>1, <1>2, PTL DEF PipelineSpec, pipelineAll

LEMMA PipelineSafe ==
  ASSUME PipelineInv
  PROVE  PipelineTypeOK /\ PolledJobIsNamed /\ PollingIsBounded
  BY DEF PipelineInv, PipelineShape, PollingInv, PipelineTypeOK, PolledJobIsNamed, PollingIsBounded

(* A run that has polled a job leaves its name, whatever an earlier run     *)
(* left there, and waits as long as it was told, not as the service asks it *)
(* to (run-pipeline.ts).                                                    *)
THEOREM PollingCorrect == PipelineSpec => [](PipelineTypeOK /\ PolledJobIsNamed /\ PollingIsBounded)
<1>1. PipelineInv => PipelineTypeOK /\ PolledJobIsNamed /\ PollingIsBounded
  BY PipelineSafe
<1> QED BY <1>1, PipelineInvariant, PTL

-----------------------------------------------------------------------------
TagSteps == {"preflight tags", "tags", "create tag", "apply item", "assign", "apply tags", "verify tags", "tags verified"}

(* A tag whose record says that it is being created is the one this run is  *)
(* creating, or stops the run before it begins; a tag asked for has a       *)
(* record, and what is verified of the item's tags stays.                   *)
TagsInv ==
  /\ TagsTypeOK /\ approvedTags.action \in {"no-op", "update", "blocked"} /\ edited \in BOOLEAN
  /\ pc \in {"idle", "succeeded"} \cup TagSteps
  /\ pc \in TagSteps => ~BlockedTags
  /\ \A t \in tagsAsked : tagCp[t] # "none"
  /\ pc \in TagSteps \ {"create tag"} => \A t \in Tags : tagCp[t] # "submitting"
  /\ pc = "create tag" => \A t \in Tags :
       (tagCp[t] = "submitting" <=> NextTag(t)) /\ (NextTag(t) => t \notin tagsAsked)
  /\ pc \in {"tags verified", "succeeded"} /\ ~edited => tagged.tags = Tags

tagsAll == <<runVars, tagVars>>

(* Before the first run.                                                    *)
LEMMA TagsInitially ==
  ASSUME RunInit, TagsInit
  PROVE  TagsInv
<1>1. PICK first \in FirstTagged : catalogue = first.catalogue /\ tagged = first.item
  BY DEF TagsInit
<1>2. approvedTags.action \in {"no-op", "update", "blocked"}
  BY DEF TagsInit, PlanTagged, PlanAssignment
<1>3. TagsTypeOK
  BY <1>1, TagBounds DEF TagsInit, TagsTypeOK
<1> QED BY <1>2, <1>3 DEF RunInit, TagsInit, TagsInv, TagSteps

(* A step that leaves the tags and their records alone.                     *)
LEMMA TagsElsewhere ==
  ASSUME TagsInv, UNCHANGED <<approvedTags, catalogue, tagCp, tagsAsked>>, edited' \in BOOLEAN, edited => edited',
         tagged' \in [there : BOOLEAN, tags : SUBSET Tags], tagLate' \subseteq Tags \cup {0},
         itemCp' \in {"none", "done"}, assignCp' \in {"none", "submitting", "verified"},
         ~edited' => (tagged'.tags = tagged.tags \/ tagged'.tags = Tags),
         (pc' = pc \/ pc' = "idle"
           \/ (pc \in TagSteps \ {"create tag"} /\ pc' \in (TagSteps \ {"create tag"}) \cup {"succeeded"})),
         (pc' \in {"tags verified", "succeeded"} /\ pc' # pc /\ ~edited') => tagged'.tags = Tags
  PROVE  TagsInv'
<1>1. TagsTypeOK'
  BY DEF TagsInv, TagsTypeOK
<1>2. (BlockedTags' <=> BlockedTags) /\ \A t : NextTag(t)' <=> NextTag(t)
  BY DEF BlockedTags, NextTag
<1>3. \A t \in tagsAsked' : tagCp'[t] # "none"
  BY DEF TagsInv
<1>4. /\ approvedTags'.action \in {"no-op", "update", "blocked"} /\ edited' \in BOOLEAN
      /\ pc' \in {"idle", "succeeded"} \cup TagSteps /\ (pc' \in TagSteps => ~BlockedTags')
  BY <1>2 DEF TagsInv, TagSteps
<1>5. pc' \in TagSteps \ {"create tag"} => \A t \in Tags : tagCp'[t] # "submitting"
  BY DEF TagsInv, TagSteps
<1>6. pc' = "create tag" => \A t \in Tags :
        (tagCp'[t] = "submitting" <=> NextTag(t)') /\ (NextTag(t)' => t \notin tagsAsked')
  BY <1>2 DEF TagsInv, TagSteps
<1>7. pc' \in {"tags verified", "succeeded"} /\ ~edited' => tagged'.tags = Tags
  BY DEF TagsInv, TagSteps
<1> QED BY <1>1, <1>3, <1>4, <1>5, <1>6, <1>7 DEF TagsInv

(* The tags are created one at a time, in their order.                      *)
LEMMA OneNextTag ==
  ASSUME NEW t \in Tags, NEW u \in Tags, NEW cp,
         cp[t] # "done", \A v \in Tags : v < t => cp[v] = "done",
         cp[u] # "done", \A v \in Tags : v < u => cp[v] = "done"
  PROVE  u = t
<1>1. t \in Nat /\ u \in Nat
  BY TagBounds
<1>2. ~(t < u) /\ ~(u < t)
  OBVIOUS
<1> QED BY <1>1, <1>2

(* Every step keeps it: the creations one by one, the rest elsewhere.       *)
LEMMA TagsNextInv ==
  ASSUME TagsInv, TagsNext
  PROVE  TagsInv'
<1>1. /\ TagsTypeOK /\ approvedTags.action \in {"no-op", "update", "blocked"} /\ edited \in BOOLEAN
      /\ tagged \in [there : BOOLEAN, tags : SUBSET Tags] /\ tagLate \subseteq Tags \cup {0}
      /\ tagCp \in [Tags -> {"none", "submitting", "done"}]
      /\ catalogue \in [Tags -> {"none", "there", "taken"}] /\ tagsAsked \subseteq Tags
      /\ itemCp \in {"none", "done"} /\ assignCp \in {"none", "submitting", "verified"}
  BY DEF TagsInv, TagsTypeOK
<1> USE DEF Goto, Fail
<1>2. CASE StartTagRun
  <2>1. /\ UNCHANGED <<approvedTags, catalogue, tagged, tagLate, tagsAsked, itemCp, assignCp, edited>>
        /\ \/ pc' = "idle" /\ UNCHANGED tagCp
           \/ /\ pc' \in {"assign", "preflight tags"} /\ ~BlockedTags
              /\ tagCp' = [t \in Tags |-> IF tagCp[t] = "submitting" THEN "done" ELSE tagCp[t]]
    BY <1>2 DEF StartTagRun, OnlyReadsTags, tagService, NoFault
  <2>2. CASE pc' = "idle" /\ UNCHANGED tagCp
    BY <1>1, <2>1, <2>2, TagsElsewhere
  <2>3. CASE /\ pc' \in {"assign", "preflight tags"} /\ ~BlockedTags
             /\ tagCp' = [t \in Tags |-> IF tagCp[t] = "submitting" THEN "done" ELSE tagCp[t]]
    <3>1. TagsTypeOK' /\ (\A t \in Tags : tagCp'[t] # "submitting" /\ (tagCp[t] # "none" => tagCp'[t] # "none"))
      BY <1>1, <2>1, <2>3 DEF TagsTypeOK
    <3> QED BY <1>1, <2>1, <2>3, <3>1 DEF TagsInv, TagSteps, BlockedTags
  <2> QED BY <2>1, <2>2, <2>3
<1>3. CASE PreflightTags \/ ItemTurn
  BY <1>1, <1>3, TagsElsewhere DEF PreflightTags, ItemTurn, KeepTagRecords, tagRecords, OnlyReadsTags, tagService,
     NoFault, TagSteps
<1>4. ASSUME NEW t \in Tags, VerifyTag(t)
      PROVE  TagsInv'
  <2>1. /\ UNCHANGED <<approvedTags, catalogue, tagged, tagLate, tagsAsked, itemCp, assignCp, edited>> /\ pc = "tags"
        /\ \/ pc' = "tags" /\ tagCp' = [tagCp EXCEPT ![t] = "done"]
           \/ pc' = "idle" /\ UNCHANGED tagCp
    BY <1>4 DEF VerifyTag, TagStep, OnlyReadsTags, tagService, NoFault
  <2>2. CASE pc' = "idle" /\ UNCHANGED tagCp
    BY <1>1, <2>1, <2>2, TagsElsewhere
  <2>3. CASE pc' = "tags" /\ tagCp' = [tagCp EXCEPT ![t] = "done"]
    BY <1>1, <2>1, <2>3 DEF TagsInv, TagsTypeOK, TagSteps, BlockedTags
  <2> QED BY <2>1, <2>2, <2>3
<1>5. ASSUME NEW t \in Tags, BeginTag(t)
      PROVE  TagsInv'
  <2>1. /\ UNCHANGED <<approvedTags, catalogue, tagged, tagLate, tagsAsked, itemCp, assignCp, edited>>
        /\ pc = "tags" /\ NextTag(t)
        /\ \/ pc' = "create tag" /\ tagCp' = [tagCp EXCEPT ![t] = "submitting"]
           \/ pc' = "idle" /\ UNCHANGED tagCp
    BY <1>5 DEF BeginTag, TagStep, OnlyReadsTags, tagService, NoFault
  <2>2. CASE pc' = "idle" /\ UNCHANGED tagCp
    BY <1>1, <2>1, <2>2, TagsElsewhere
  <2>3. CASE pc' = "create tag" /\ tagCp' = [tagCp EXCEPT ![t] = "submitting"]
    <3>1. \A u \in Tags : tagCp[u] # "submitting"
      BY <2>1 DEF TagsInv, TagSteps
    <3>2. tagCp[t] = "none" /\ t \notin tagsAsked
      BY <1>1, <2>1, <3>1 DEF TagsInv, NextTag
    <3>3. NextTag(t)' /\ \A u \in Tags : NextTag(u)' => u = t
      <4>1. NextTag(t)'
        <5>1. tagCp'[t] # "done"
          BY <1>1, <2>3
        <5>2. \A u \in Tags : tagCp[u] = "done" => tagCp'[u] = "done"
          BY <1>1, <2>1, <2>3 DEF NextTag
        <5> QED BY <2>1, <5>1, <5>2 DEF NextTag
      <4> QED BY <4>1, OneNextTag DEF NextTag
    <3>4. TagsTypeOK'
      BY <1>1, <2>1, <2>3 DEF TagsTypeOK
    <3>5. \A u \in Tags : tagCp'[u] = "submitting" <=> u = t
      BY <1>1, <2>3, <3>1
    <3>6. \A u \in tagsAsked : tagCp'[u] # "none"
      BY <1>1, <2>3, <3>2 DEF TagsInv
    <3> QED BY <1>1, <2>1, <2>3, <3>2, <3>3, <3>4, <3>5, <3>6 DEF TagsInv, TagSteps, BlockedTags
  <2> QED BY <2>1, <2>2, <2>3
<1>6. ASSUME NEW t \in Tags, TagAnswered(t)
      PROVE  TagsInv'
  <2>1. /\ UNCHANGED <<approvedTags, tagged, tagLate, itemCp, assignCp, edited>>
        /\ pc = "create tag" /\ pc' = "tags" /\ NextTag(t)
        /\ catalogue' = [catalogue EXCEPT ![t] = "there"] /\ tagCp' = [tagCp EXCEPT ![t] = "done"]
        /\ tagsAsked' = tagsAsked \cup {t}
    BY <1>6 DEF TagAnswered, CreateTag, NoFault
  <2>2. \A u \in Tags : tagCp[u] = "submitting" => NextTag(u)
    BY <2>1 DEF TagsInv
  <2>3. \A u \in Tags : NextTag(u) => u = t
    BY <2>1, OneNextTag DEF NextTag
  <2>4. \A u \in Tags : tagCp'[u] # "submitting"
    BY <1>1, <2>1, <2>2, <2>3
  <2>5. \A u \in tagsAsked' : tagCp'[u] # "none"
    BY <1>1, <2>1 DEF TagsInv
  <2>6. TagsTypeOK'
    BY <1>1, <2>1 DEF TagsTypeOK
  <2> QED BY <1>1, <2>1, <2>4, <2>5, <2>6 DEF TagsInv, TagSteps, BlockedTags
<1>7. ASSUME NEW t \in Tags, TagUnanswered(t)
      PROVE  TagsInv'
  <2>1. /\ UNCHANGED <<approvedTags, tagged, tagCp, itemCp, assignCp, edited>>
        /\ pc = "create tag" /\ pc' = "idle" /\ NextTag(t)
        /\ catalogue' = [catalogue EXCEPT ![t] = "there"] \/ UNCHANGED catalogue
        /\ tagLate' = tagLate \cup {t} \/ UNCHANGED tagLate
        /\ tagsAsked' = tagsAsked \cup {t}
    BY <1>7 DEF TagUnanswered, CreateTag, KeepTagRecords, tagRecords, Fault, Loss, SpendFault
  <2>2. TagsTypeOK'
    BY <1>1, <2>1 DEF TagsTypeOK
  <2>3. \A u \in tagsAsked' : tagCp'[u] # "none"
    BY <1>1, <2>1 DEF TagsInv
  <2> QED BY <1>1, <2>1, <2>2, <2>3 DEF TagsInv, TagSteps, BlockedTags
<1>8. CASE ApplyTagged
  <2>1. /\ UNCHANGED <<approvedTags, catalogue, tagLate, tagsAsked, tagCp, assignCp, edited>>
        /\ pc = "apply item" /\ pc' \in {"idle", "assign"} /\ itemCp' \in {itemCp, "done"}
        /\ tagged' = tagged \/ tagged' = [tagged EXCEPT !.there = TRUE]
    BY <1>8 DEF ApplyTagged, NoFault
  <2>2. tagged' \in [there : BOOLEAN, tags : SUBSET Tags] /\ tagged'.tags = tagged.tags
    BY <1>1, <2>1
  <2> QED BY <1>1, <2>1, <2>2, TagsElsewhere DEF TagSteps
<1>9. CASE PlanItemAssignment
  <2>1. /\ pc = "assign" /\ approvedTags.action # "blocked"
    BY <1>9 DEF PlanItemAssignment, TagsInv, TagSteps, BlockedTags
  <2>2. /\ UNCHANGED <<approvedTags, catalogue, tagged, tagLate, tagsAsked, tagCp, itemCp, edited>>
        /\ pc' \in {"idle", "apply tags", "tags verified"} /\ assignCp' \in {assignCp, "submitting", "verified"}
        /\ pc' = "tags verified" => Tags \ tagged.tags = {}
    BY <1>1, <1>9, <2>1 DEF PlanItemAssignment, OnlyReadsTags, tagService, NoFault
  <2>3. pc' = "tags verified" => tagged.tags = Tags
    BY <1>1, <2>2
  <2> QED BY <1>1, <2>1, <2>2, <2>3, TagsElsewhere DEF TagSteps
<1>10. CASE TagsAnswered \/ TagsUnanswered
  <2>1. /\ UNCHANGED <<approvedTags, catalogue, tagsAsked, tagCp, itemCp, assignCp, edited>>
        /\ pc = "apply tags" /\ pc' \in {"idle", "verify tags"}
        /\ tagged' = tagged \/ tagged' = [tagged EXCEPT !.tags = Tags]
        /\ tagLate' = tagLate \/ tagLate' = tagLate \cup {0}
    BY <1>10 DEF TagsAnswered, TagsUnanswered, Assign, KeepTagRecords, tagRecords, NoFault, Fault, SpendFault
  <2>2. tagged' \in [there : BOOLEAN, tags : SUBSET Tags] /\ (tagged'.tags = tagged.tags \/ tagged'.tags = Tags)
    BY <1>1, <2>1
  <2> QED BY <1>1, <2>1, <2>2, TagsElsewhere DEF TagSteps
<1>11. CASE VerifyItemAssignment
  <2>1. /\ UNCHANGED <<approvedTags, catalogue, tagged, tagLate, tagsAsked, tagCp, itemCp, edited>>
        /\ pc = "verify tags" /\ pc' \in {"idle", "tags verified"} /\ assignCp' \in {assignCp, "verified"}
        /\ pc' = "tags verified" => tagged.tags = Tags
    BY <1>11 DEF VerifyItemAssignment, OnlyReadsTags, tagService, NoFault
  <2> QED BY <1>1, <2>1, TagsElsewhere DEF TagSteps
<1>12. CASE TagsVerified
  <2>1. /\ UNCHANGED <<approvedTags, catalogue, tagged, tagLate, tagsAsked, tagCp, assignCp, edited>>
        /\ pc = "tags verified" /\ pc' \in {"succeeded", "tags"} /\ itemCp' = "done"
    BY <1>12 DEF TagsVerified, OnlyReadsTags, tagService, NoFault
  <2>2. ~edited => tagged.tags = Tags
    BY <2>1 DEF TagsInv
  <2> QED BY <1>1, <2>1, <2>2, TagsElsewhere DEF TagSteps
<1>13. CASE CrashTags
  BY <1>1, <1>13, TagsElsewhere DEF CrashTags, tagVars, tagService, tagRecords, Fault, SpendFault
<1>14. CASE TagsLate
  <2>1. PICK request \in tagLate :
          /\ tagLate' = tagLate \ {request}
          /\ IF request = 0 THEN tagged' = [tagged EXCEPT !.tags = Tags] /\ UNCHANGED catalogue
             ELSE catalogue' = [catalogue EXCEPT ![request] = "there"] /\ UNCHANGED tagged
    BY <1>14 DEF TagsLate, Assign, CreateTag
  <2>2. UNCHANGED <<approvedTags, tagCp, itemCp, assignCp, tagsAsked, pc, edited>>
    BY <1>14 DEF TagsLate, tagRecords, NoFault
  <2>3. TagsTypeOK' /\ (tagged'.tags = tagged.tags \/ tagged'.tags = Tags)
    <3>1. CASE request = 0
      <4>1. tagged' \in [there : BOOLEAN, tags : SUBSET Tags] /\ tagged'.tags = Tags
        BY <1>1, <2>1, <3>1
      <4> QED BY <1>1, <2>1, <2>2, <3>1, <4>1 DEF TagsTypeOK
    <3>2. CASE request # 0
      BY <1>1, <2>1, <2>2, <3>2 DEF TagsTypeOK
    <3> QED BY <3>1, <3>2
  <2> QED BY <1>1, <2>2, <2>3 DEF TagsInv, NextTag, BlockedTags
<1>15. CASE EditTags
  <2>1. PICK t \in Tags, on \in BOOLEAN :
          tagged' = [tagged EXCEPT !.tags = IF on THEN tagged.tags \cup {t} ELSE tagged.tags \ {t}]
    BY <1>15 DEF EditTags
  <2>2. tagged' \in [there : BOOLEAN, tags : SUBSET Tags]
    BY <1>1, <2>1
  <2>3. UNCHANGED <<approvedTags, catalogue, tagLate, tagCp, itemCp, assignCp, tagsAsked, pc>> /\ edited'
    BY <1>15 DEF EditTags, tagRecords, Foreign
  <2> QED BY <1>1, <2>2, <2>3, TagsElsewhere
<1> QED BY <1>2, <1>3, <1>4, <1>5, <1>6, <1>7, <1>8, <1>9, <1>10, <1>11, <1>12, <1>13, <1>14, <1>15
        DEF TagsNext, AskTags, ReadTags

(* What is being created has not been asked for, or is recorded.            *)
LEMMA TagsOnce ==
  ASSUME TagsInv
  PROVE  TagsAskedOnce
  BY DEF TagsInv, TagsAskedOnce, TagAnswered, TagUnanswered

LEMMA TagsStay ==
  ASSUME TagsInv, UNCHANGED tagsAll
  PROVE  TagsInv'
<1>1. UNCHANGED <<catalogue, tagged, tagLate, tagCp, itemCp, assignCp, approvedTags, tagsAsked, pc, edited>>
  BY DEF tagsAll, runVars, tagVars, tagService, tagRecords
<1>2. TagsTypeOK'
  BY <1>1 DEF TagsInv, TagsTypeOK
<1>3. (BlockedTags' <=> BlockedTags) /\ \A t : NextTag(t)' <=> NextTag(t)
  BY <1>1 DEF BlockedTags, NextTag
<1> QED BY <1>1, <1>2, <1>3 DEF TagsInv

LEMMA TagsSafe ==
  ASSUME TagsInv
  PROVE  TagsTypeOK /\ SuccessMeansTagged
  BY DEF TagsInv, SuccessMeansTagged

(* A deployment succeeds only with the item's tags in place, also when the  *)
(* run that completed the item stopped before its tags (apply.ts).          *)
THEOREM TagsCorrect == TagsSpec => [](TagsTypeOK /\ SuccessMeansTagged)
<1>1. RunInit /\ TagsInit => TagsInv
  BY TagsInitially
<1>2. TagsInv /\ [TagsNext]_tagsAll => TagsInv'
  BY TagsNextInv, TagsStay
<1>3. TagsInv => TagsTypeOK /\ SuccessMeansTagged
  BY TagsSafe
<1> QED BY <1>1, <1>2, <1>3, PTL DEF TagsSpec, tagsAll

-----------------------------------------------------------------------------
TablesSteps ==
  {"verify completed tables", "recover tables", "find session", "find statement", "resume statement",
   "open session", "session sent", "await session", "inspect", "create", "statement sent",
   "await statement", "clean up", "delete", "recovered delete"}
BundlePhases == {"none", "submitting", "active", "cleanup-submitting", "cleanup-complete"}
Statements == [phase : {"none", "submitting", "accepted", "verified"},
               verb : {"none", "inspect", "create"}, on : Resources \cup {NoResource}]
Bundles == [phase : BundlePhases, session : Sessions \cup {NoSession}, statement : Statements,
            receipts : SUBSET Resources]
Postings == [in : Sessions \cup {NoSession}, verb : {"none", "inspect", "create"},
             on : Resources \cup {NoResource}, state : {"none", "late", "waiting", "available", "error"},
             saw : TableStates]
TablesShape == bundle \in Bundles /\ statement \in Postings /\ pc \in {"idle", "succeeded"} \cup TablesSteps

(* There is one session at most, alive or on its way; the record names it   *)
(* or, while it is being opened, has the run look for it.                   *)
NoneLive == \A s \in Sessions : ~Live(s)
OneSession ==
  /\ \A s, t \in Sessions : Live(s) /\ Live(t) => s = t
  /\ sessionLate => NoneLive /\ bundle.phase = "submitting"
  /\ bundle.phase \in {"active", "cleanup-submitting"} =>
       /\ bundle.session \in Sessions /\ sessions[bundle.session] # "none"
       /\ \A s \in Sessions : Live(s) => s = bundle.session
  /\ bundle.phase \in {"none", "cleanup-complete"} => NoneLive
  /\ pc \in {"open session", "session sent"} => NoneLive /\ ~sessionLate

(* What the record says at each step of a run.                              *)
WithSession == {"await session", "inspect", "create", "statement sent", "await statement", "clean up",
                "find statement", "resume statement"}
RecordAtStep ==
  /\ pc \in WithSession => bundle.phase = "active" /\ session = bundle.session
  /\ pc \in {"delete", "recovered delete"} => bundle.phase = "cleanup-submitting" /\ session = bundle.session
  /\ pc \in {"find session", "session sent"} => bundle.phase = "submitting"
  /\ pc = "statement sent" => /\ bundle.statement.phase = "submitting" /\ bundle.statement.on \in Resources
                              /\ bundle.statement.verb \in {"inspect", "create"}
  /\ pc \in {"await statement", "resume statement"} => bundle.statement.phase = "accepted"

(* The statement at the service is one that a session was given; it is the  *)
(* recorded one once that is accepted, and no other may run by then.        *)
PostedIsRecorded(record) ==
  record.phase = "accepted" =>
    statement.state # "none" /\ statement.verb = record.verb /\ statement.on = record.on
StatementKnown ==
  /\ statement.state # "none" => /\ statement.in \in Sessions /\ sessions[statement.in] # "none"
                                 /\ statement.on \in Resources /\ statement.verb \in {"inspect", "create"}
  /\ PostedIsRecorded(bundle.statement)
  /\ pc \in {"await session", "inspect", "create", "statement sent"} => ~Runs

(* What a run has seen, and what of it is left to do.                       *)
Recovering == {"recover tables", "find session", "find statement", "resume statement", "recovered delete",
               "open session", "session sent", "await session"}
SeenInOrder ==
  /\ pc \in Recovering => Inspected = {}
  /\ pc = "create" \/ (pc \in {"statement sent", "await statement"} /\ bundle.statement.verb = "create") =>
       \A r \in Resources : preflight[r] \in {"absent", "owned"}
  /\ pc \in {"clean up", "delete"} /\ ~failing => Inspected = {} \/ AllMatch(preflight)
  /\ pc = "delete" /\ ~failing => Inspected # {}

(* Unless somebody edits, what was seen in its place stays there.           *)
SeenIsThere ==
  edited \in BOOLEAN /\ (~edited =>
    /\ statement.saw = "owned" => statement.on \in Resources /\ catalog[statement.on] = "owned"
    /\ \A r \in Resources : preflight[r] = "owned" => catalog[r] = "owned"
    /\ \A r \in bundle.receipts : catalog[r] = "owned"
    /\ tablesDone => AllMatch(catalog)
    /\ pc = "statement sent" /\ bundle.statement.verb = "create" /\ bundle.statement.on \in Tables => SchemaThere)

TablesInv ==
  TablesTypeOK /\ TablesShape /\ OneSession /\ RecordAtStep /\ StatementKnown /\ SeenInOrder /\ SeenIsThere

tablesAll == <<runVars, tablesVars>>

(* The types after a step, from those of what it changes.                   *)
LEMMA TablesTyped ==
  ASSUME bundle' \in Bundles, statement' \in Postings, pc' \in {"idle", "succeeded"} \cup TablesSteps,
         approvedTables' \in [Resources -> {"create", "no-op", "blocked"}],
         catalog' \in [Resources -> TableStates],
         sessions' \in [Sessions -> {"none", "starting", "idle", "dead", "deleted"}],
         session' \in Sessions \cup {NoSession}, preflight' \in [Resources -> TableStates \cup {Unseen}],
         failing' \in BOOLEAN, tablesDone' \in BOOLEAN, symbolic' \in BOOLEAN, sessionLate' \in BOOLEAN,
         tableFlags' \subseteq {"schema", "table"}
  PROVE  TablesTypeOK' /\ TablesShape'
<1>1. /\ statement'.in \in Sessions \cup {NoSession} /\ statement'.saw \in TableStates
      /\ statement'.state \in {"none", "late", "waiting", "available", "error"}
  BY DEF Postings
<1>2. /\ bundle'.phase \in BundlePhases /\ bundle'.session \in Sessions \cup {NoSession}
      /\ bundle'.statement.phase \in {"none", "submitting", "accepted", "verified"}
      /\ bundle'.receipts \subseteq Resources
  BY DEF Bundles, Statements
<1> QED BY <1>1, <1>2 DEF TablesTypeOK, TablesShape, BundlePhases

(* What the invariant says of the types.                                    *)
LEMMA TablesTypes ==
  ASSUME TablesInv
  PROVE  /\ bundle \in Bundles /\ statement \in Postings /\ pc \in {"idle", "succeeded"} \cup TablesSteps
         /\ approvedTables \in [Resources -> {"create", "no-op", "blocked"}]
         /\ catalog \in [Resources -> TableStates]
         /\ sessions \in [Sessions -> {"none", "starting", "idle", "dead", "deleted"}]
         /\ session \in Sessions \cup {NoSession} /\ preflight \in [Resources -> TableStates \cup {Unseen}]
         /\ failing \in BOOLEAN /\ tablesDone \in BOOLEAN /\ symbolic \in BOOLEAN /\ sessionLate \in BOOLEAN
         /\ tableFlags \subseteq {"schema", "table"} /\ edited \in BOOLEAN
  BY DEF TablesInv, TablesTypeOK, TablesShape, SeenIsThere

(* The record and its fields; each way in which the code rewrites it.       *)
LEMMA BundleFields ==
  ASSUME NEW b \in Bundles
  PROVE  /\ b.phase \in BundlePhases /\ b.session \in Sessions \cup {NoSession}
         /\ b.statement \in Statements /\ b.receipts \in SUBSET Resources
         /\ b.statement.verb \in {"none", "inspect", "create"} /\ b.statement.on \in Resources \cup {NoResource}
  BY DEF Bundles, Statements

(* The records that a run writes, field by field.                           *)
Verbs == {"inspect", "create"}
WithPhase(b, p) == [b EXCEPT !.phase = p]
WithNewSession(b, s) == [b EXCEPT !.phase = "active", !.session = s]
WithStatementPhase(b, p) == [b EXCEPT !.statement.phase = p]
WithStatement(b, v, r) == [b EXCEPT !.statement = [phase |-> "submitting", verb |-> v, on |-> r]]
WithReceipts(b, R) == [b EXCEPT !.statement.phase = "verified", !.receipts = R]
NewRecordOf(b) == [NoBundle EXCEPT !.phase = "submitting", !.receipts = b.receipts]

LEMMA BundleIs ==
  ASSUME NEW b \in Bundles
  PROVE  /\ b = [phase |-> b.phase, session |-> b.session, statement |-> b.statement, receipts |-> b.receipts]
         /\ b.statement = [phase |-> b.statement.phase, verb |-> b.statement.verb, on |-> b.statement.on]
         /\ b.phase \in BundlePhases /\ b.session \in Sessions \cup {NoSession}
         /\ b.statement \in Statements /\ b.receipts \in SUBSET Resources
  BY DEF Bundles, Statements

LEMMA PhaseRecorded ==
  ASSUME NEW b \in Bundles, NEW p \in BundlePhases
  PROVE  /\ WithPhase(b, p) \in Bundles /\ WithPhase(b, p).phase = p /\ WithPhase(b, p).session = b.session
         /\ WithPhase(b, p).statement = b.statement /\ WithPhase(b, p).receipts = b.receipts
  BY BundleIs DEF WithPhase, Bundles

LEMMA SessionRecorded ==
  ASSUME NEW b \in Bundles, NEW s \in Sessions
  PROVE  /\ WithNewSession(b, s) \in Bundles /\ WithNewSession(b, s).phase = "active"
         /\ WithNewSession(b, s).session = s
         /\ WithNewSession(b, s).statement = b.statement /\ WithNewSession(b, s).receipts = b.receipts
  BY BundleIs DEF WithNewSession, Bundles, BundlePhases

LEMMA StatementPhaseRecorded ==
  ASSUME NEW b \in Bundles, NEW p \in {"submitting", "accepted", "verified"}
  PROVE  /\ WithStatementPhase(b, p) \in Bundles /\ WithStatementPhase(b, p).phase = b.phase
         /\ WithStatementPhase(b, p).session = b.session /\ WithStatementPhase(b, p).receipts = b.receipts
         /\ WithStatementPhase(b, p).statement.phase = p
         /\ WithStatementPhase(b, p).statement.verb = b.statement.verb
         /\ WithStatementPhase(b, p).statement.on = b.statement.on
<1>0. /\ b = [phase |-> b.phase, session |-> b.session, statement |-> b.statement, receipts |-> b.receipts]
      /\ b.phase \in BundlePhases /\ b.session \in Sessions \cup {NoSession}
      /\ b.statement \in Statements /\ b.receipts \in SUBSET Resources
  BY BundleIs
<1>1. PICK st : st = [b.statement EXCEPT !.phase = p]
  OBVIOUS
<1>2. st \in Statements /\ st.phase = p /\ st.verb = b.statement.verb /\ st.on = b.statement.on
  BY <1>1, BundleIs DEF Statements
<1>3. WithStatementPhase(b, p) = [phase |-> b.phase, session |-> b.session, statement |-> st, receipts |-> b.receipts]
  BY <1>0, <1>1 DEF WithStatementPhase
<1> QED BY <1>0, <1>2, <1>3 DEF Bundles

LEMMA StatementRecorded ==
  ASSUME NEW b \in Bundles, NEW v \in Verbs, NEW r \in Resources
  PROVE  /\ WithStatement(b, v, r) \in Bundles /\ WithStatement(b, v, r).phase = b.phase
         /\ WithStatement(b, v, r).session = b.session /\ WithStatement(b, v, r).receipts = b.receipts
         /\ WithStatement(b, v, r).statement.phase = "submitting" /\ WithStatement(b, v, r).statement.verb = v
         /\ WithStatement(b, v, r).statement.on = r
<1>1. [phase |-> "submitting", verb |-> v, on |-> r] \in Statements
  BY DEF Statements, Verbs
<1> QED BY <1>1, BundleIs DEF WithStatement, Bundles

LEMMA ReceiptRecorded ==
  ASSUME NEW b \in Bundles, NEW R \in SUBSET Resources
  PROVE  /\ WithReceipts(b, R) \in Bundles /\ WithReceipts(b, R).phase = b.phase
         /\ WithReceipts(b, R).session = b.session /\ WithReceipts(b, R).receipts = R
         /\ WithReceipts(b, R).statement.phase = "verified" /\ WithReceipts(b, R).statement.verb = b.statement.verb
         /\ WithReceipts(b, R).statement.on = b.statement.on
<1>1. PICK d : d = WithStatementPhase(b, "verified")
  OBVIOUS
<1>2. WithReceipts(b, R) = [d EXCEPT !.receipts = R]
  BY <1>1, Zenon DEF WithReceipts, WithStatementPhase
<1>3. /\ d \in Bundles /\ d.phase = b.phase /\ d.session = b.session /\ d.receipts = b.receipts
      /\ d.statement.phase = "verified" /\ d.statement.verb = b.statement.verb
      /\ d.statement.on = b.statement.on
  BY <1>1, StatementPhaseRecorded
<1>4. WithReceipts(b, R) = [phase |-> d.phase, session |-> d.session, statement |-> d.statement, receipts |-> R]
  BY <1>2, <1>3, BundleIs
<1> QED BY <1>3, <1>4, BundleIs DEF Bundles

(* The record with which a new attempt begins.                              *)
LEMMA NewRecord ==
  ASSUME NEW b \in Bundles
  PROVE  /\ NewRecordOf(b) \in Bundles /\ NewRecordOf(b).phase = "submitting" /\ NewRecordOf(b).receipts = b.receipts
         /\ NewRecordOf(b).statement.phase = "none" /\ NewRecordOf(b).statement.verb = "none"
  BY BundleIs DEF NewRecordOf, NoBundle, NoStatement, Bundles, BundlePhases, Statements

(* No session is opened and none is forgotten: what is known of them stays. *)
LEMMA FewerSessions ==
  ASSUME OneSession, \A s \in Sessions : (Live(s)' => Live(s)) /\ (sessions[s] # "none" => sessions'[s] # "none"),
         sessionLate' = sessionLate,
         bundle'.phase = bundle.phase, bundle'.session = bundle.session,
         pc' \in {"open session", "session sent"} => NoneLive /\ ~sessionLate
  PROVE  OneSession'
  BY DEF OneSession, NoneLive

(* A step that only moves the run on and writes its record.                 *)
LEMMA TablesRunStep ==
  ASSUME TablesInv,
         UNCHANGED <<symbolic, approvedTables, catalog, sessions, sessionLate, statement, tablesDone, edited>>,
         bundle' \in Bundles, pc' \in {"idle", "succeeded"} \cup TablesSteps,
         session' \in Sessions \cup {NoSession}, preflight' \in [Resources -> TableStates \cup {Unseen}],
         failing' \in BOOLEAN, tableFlags' \subseteq {"schema", "table"},
         OneSession', RecordAtStep', SeenInOrder', PostedIsRecorded(bundle'.statement),
         pc' \in {"await session", "inspect", "create", "statement sent"} => ~Runs,
         ~edited => /\ \A r \in Resources : preflight'[r] = "owned" => catalog[r] = "owned"
                    /\ \A r \in bundle'.receipts : catalog[r] = "owned",
         (pc' = "statement sent" /\ bundle'.statement.verb = "create" /\ bundle'.statement.on \in Tables /\ ~edited)
           => SchemaThere
  PROVE  TablesInv'
<1>1. TablesTypeOK' /\ TablesShape'
  BY TablesTypes, TablesTyped
<1>2. StatementKnown'
  BY DEF TablesInv, StatementKnown, PostedIsRecorded, Runs, Live
<1>3. SeenIsThere'
  BY DEF TablesInv, SeenIsThere, AllMatch, SchemaThere
<1> QED BY <1>1, <1>2, <1>3 DEF TablesInv

(* A step of the service, which knows nothing of records and runs.          *)
LEMMA TablesServiceStep ==
  ASSUME TablesInv,
         UNCHANGED <<symbolic, approvedTables, tablesDone, bundle, session, preflight, failing, tableFlags, pc>>,
         catalog' \in [Resources -> TableStates], statement' \in Postings,
         sessions' \in [Sessions -> {"none", "starting", "idle", "dead", "deleted"}], sessionLate' \in BOOLEAN,
         OneSession', StatementKnown',
         edited' \in BOOLEAN, edited => edited',
         ~edited' => /\ \A r \in Resources : catalog[r] # "absent" => catalog'[r] = catalog[r]
                     /\ statement'.saw = "owned" => statement'.on \in Resources /\ catalog'[statement'.on] = "owned"
  PROVE  TablesInv'
<1>1. TablesTypeOK' /\ TablesShape'
  BY TablesTypes, TablesTyped
<1>2. RecordAtStep' /\ SeenInOrder'
  BY DEF TablesInv, RecordAtStep, SeenInOrder, Inspected, AllMatch
<1>3. SeenIsThere'
  <2> SUFFICES ASSUME ~edited'
               PROVE  /\ \A r \in Resources : preflight[r] = "owned" => catalog'[r] = "owned"
                      /\ \A r \in bundle.receipts : catalog'[r] = "owned"
                      /\ tablesDone => AllMatch(catalog')
                      /\ SchemaThere => SchemaThere'
    BY DEF SeenIsThere, TablesInv
  <2>1. \A r \in Resources : catalog[r] = "owned" => catalog'[r] = "owned"
    OBVIOUS
  <2>2. bundle.receipts \subseteq Resources
    BY TablesTypes, BundleFields
  <2>3. SchemaThere => SchemaThere'
    BY DEF SchemaThere, Resources
  <2> QED BY <2>1, <2>2, <2>3 DEF TablesInv, SeenIsThere, AllMatch
<1> QED BY <1>1, <1>2, <1>3 DEF TablesInv

(* The steps in which a run only reads, or dies.                            *)
LEMMA TablesReads ==
  ASSUME TablesInv,
         StartTables \/ VerifyCompletedTables \/ RecoverTables \/ AwaitSession \/ CrashTables
  PROVE  TablesInv'
<1>1. /\ bundle \in Bundles /\ pc \in {"idle", "succeeded"} \cup TablesSteps
      /\ session \in Sessions \cup {NoSession} /\ preflight \in [Resources -> TableStates \cup {Unseen}]
      /\ failing \in BOOLEAN /\ tableFlags \subseteq {"schema", "table"}
  BY TablesTypes
<1>2. OneSession /\ RecordAtStep /\ SeenInOrder /\ StatementKnown /\ PostedIsRecorded(bundle.statement)
  BY DEF TablesInv, StatementKnown
<1>3. ~edited => /\ \A r \in Resources : preflight[r] = "owned" => catalog[r] = "owned"
                 /\ \A r \in bundle.receipts : catalog[r] = "owned"
  BY DEF TablesInv, SeenIsThere
<1> USE DEF Goto, Fail
<1>4. CASE StartTables
  <2>1. /\ UNCHANGED <<symbolic, approvedTables, catalog, sessions, sessionLate, statement, tablesDone, bundle, edited>>
        /\ pc' \in {"idle", "verify completed tables", "recover tables"} /\ tableFlags' \subseteq {"schema", "table"}
        /\ session' = NoSession /\ preflight' = [r \in Resources |-> Unseen] /\ failing' = FALSE
    BY <1>4, TablesBounds DEF StartTables, tablesPlan, tablesCp, lakehouse, NoFault
  <2>2. \A r \in Resources : preflight'[r] # "owned"
    BY <2>1 DEF Unseen
  <2>3. OneSession'
    BY <1>2, <2>1, FewerSessions DEF Live
  <2>4. RecordAtStep' /\ SeenInOrder'
    BY <2>1 DEF RecordAtStep, SeenInOrder, WithSession, Recovering, Inspected
  <2>5. bundle' \in Bundles /\ pc' \in {"idle", "succeeded"} \cup TablesSteps
        /\ session' \in Sessions \cup {NoSession} /\ preflight' \in [Resources -> TableStates \cup {Unseen}]
    BY <1>1, <2>1 DEF TablesSteps
  <2> QED BY <1>2, <1>3, <2>1, <2>2, <2>3, <2>4, <2>5, TablesRunStep
<1>5. CASE VerifyCompletedTables \/ CrashTables
  <2>1. /\ UNCHANGED <<symbolic, approvedTables, catalog, sessions, sessionLate, statement, tablesDone, bundle, edited>>
        /\ UNCHANGED <<session, preflight, failing, tableFlags>> /\ pc' \in {"idle", "succeeded"}
    BY <1>5 DEF VerifyCompletedTables, CrashTables, OnlyReads, KeepBundle, tablesRun, tablesPlan, tablesCp,
       lakehouse, NoFault, Fault, Loss, SpendFault
  <2>2. OneSession'
    BY <1>2, <2>1, FewerSessions DEF Live
  <2>3. RecordAtStep' /\ SeenInOrder'
    BY <2>1 DEF RecordAtStep, SeenInOrder, WithSession, Recovering
  <2> QED BY <1>1, <1>2, <1>3, <2>1, <2>2, <2>3, TablesRunStep
<1>6. CASE RecoverTables
  <2>1. /\ UNCHANGED <<symbolic, approvedTables, catalog, sessions, sessionLate, statement, tablesDone, bundle, edited>>
        /\ UNCHANGED <<preflight, failing, tableFlags>> /\ session' = bundle.session /\ pc = "recover tables"
    BY <1>6 DEF RecoverTables, OnlyReads, KeepBundle, tablesPlan, tablesCp, lakehouse, NoFault
  <2>2. bundle.phase \in BundlePhases /\ session' \in Sessions \cup {NoSession}
    BY <1>1, <2>1, BundleFields
  <2>3. \/ bundle.phase \in {"none", "cleanup-complete"} /\ pc' = "open session"
        \/ bundle.phase = "cleanup-submitting" /\ pc' = "recovered delete"
        \/ bundle.phase = "submitting" /\ pc' = "find session"
        \/ bundle.phase = "active" /\ pc' = AfterSession
    BY <1>6, <2>2 DEF RecoverTables, BundlePhases
  <2>4. \/ AfterSession = "find statement"
        \/ AfterSession = "resume statement" /\ bundle.statement.phase = "accepted"
        \/ AfterSession = "clean up"
    BY DEF AfterSession
  <2>5. pc' = "open session" => NoneLive /\ ~sessionLate
    BY <1>2, <2>3, <2>4 DEF OneSession
  <2>6. OneSession'
    BY <1>2, <2>1, <2>3, <2>4, <2>5, FewerSessions DEF Live
  <2>7. Inspected = {}
    BY <1>2, <2>1 DEF SeenInOrder, Recovering
  <2>8. RecordAtStep'
    BY <2>1, <2>3, <2>4 DEF RecordAtStep, WithSession
  <2>9. SeenInOrder' /\ pc' \in TablesSteps
    BY <2>1, <2>3, <2>4, <2>7 DEF SeenInOrder, Recovering, Inspected, TablesSteps
  <2> QED BY <1>1, <1>2, <1>3, <2>1, <2>2, <2>3, <2>4, <2>6, <2>8, <2>9, TablesRunStep
<1>7. CASE AwaitSession
  <2>1. /\ UNCHANGED <<symbolic, approvedTables, catalog, sessions, sessionLate, statement, tablesDone, bundle, edited>>
        /\ UNCHANGED <<session, preflight, tableFlags>> /\ pc = "await session"
        /\ \/ pc' = "inspect" /\ UNCHANGED failing
           \/ pc' = "clean up" /\ failing' = TRUE
    BY <1>7 DEF AwaitSession, Abandon, KeepBundle, tablesPlan, tablesCp, lakehouse, NoFault, Fault, SpendFault
  <2>2. OneSession'
    BY <1>2, <2>1, FewerSessions DEF Live
  <2>3. RecordAtStep' /\ SeenInOrder' /\ pc' \in TablesSteps
    BY <1>2, <2>1 DEF RecordAtStep, SeenInOrder, WithSession, Recovering, TablesSteps
  <2>4. ~Runs
    BY <1>2, <2>1 DEF StatementKnown
  <2> QED BY <1>1, <1>2, <1>3, <2>1, <2>2, <2>3, <2>4, TablesRunStep
<1> QED BY <1>4, <1>5, <1>6, <1>7

(* The steps that write the record before a request or after an answer.     *)
LEMMA TablesRecords ==
  ASSUME TablesInv,
         FindSession \/ FindStatement \/ ResumeStatement \/ OpenSession \/ CleanUp
           \/ (\E verb \in {"inspect", "create"}, r \in Resources : SubmitStatement(verb, r))
  PROVE  TablesInv'
<1>1. /\ bundle \in Bundles /\ pc \in {"idle", "succeeded"} \cup TablesSteps
      /\ session \in Sessions \cup {NoSession} /\ preflight \in [Resources -> TableStates \cup {Unseen}]
      /\ failing \in BOOLEAN /\ tableFlags \subseteq {"schema", "table"}
      /\ sessions \in [Sessions -> {"none", "starting", "idle", "dead", "deleted"}]
  BY TablesTypes
<1>2. /\ OneSession /\ RecordAtStep /\ SeenInOrder /\ StatementKnown /\ PostedIsRecorded(bundle.statement)
      /\ bundle.statement.verb \in {"none", "inspect", "create"}
  BY <1>1, BundleFields DEF TablesInv, StatementKnown
<1>3. ~edited => /\ \A r \in Resources : preflight[r] = "owned" => catalog[r] = "owned"
                 /\ \A r \in bundle.receipts : catalog[r] = "owned"
                 /\ statement.saw = "owned" => statement.on \in Resources /\ catalog[statement.on] = "owned"
  BY DEF TablesInv, SeenIsThere
<1>4. ASSUME UNCHANGED <<symbolic, approvedTables, catalog, sessions, sessionLate, statement, tablesDone, bundle, edited,
                         session, preflight, failing, tableFlags>>, pc' = "idle"
      PROVE  TablesInv'
  <2>1. OneSession'
    BY <1>2, <1>4, FewerSessions DEF Live
  <2>2. RecordAtStep' /\ SeenInOrder'
    BY <1>4 DEF RecordAtStep, SeenInOrder, WithSession, Recovering
  <2> QED BY <1>1, <1>2, <1>3, <1>4, <2>1, <2>2, TablesRunStep
<1> USE DEF Goto, Fail
<1>5. CASE FindSession
  <2>1. /\ UNCHANGED <<symbolic, approvedTables, catalog, sessions, sessionLate, statement, tablesDone, edited>>
        /\ UNCHANGED <<preflight, failing, tableFlags>> /\ pc = "find session"
    BY <1>5 DEF FindSession, RecordBundle, KeepBundle, tablesPlan, tablesCp, lakehouse, NoFault, Loss, SpendFault
  <2>2. ASSUME NEW s \in LiveSessions, session' = s, pc' = AfterSession,
               bundle' = WithNewSession(bundle, s)
        PROVE  TablesInv'
    <3>0. s \in Sessions /\ Live(s)
      BY <2>2 DEF LiveSessions
    <3>1. /\ bundle' \in Bundles /\ bundle'.phase = "active" /\ bundle'.session = s
          /\ bundle'.statement = bundle.statement /\ bundle'.receipts = bundle.receipts
      BY <1>1, <2>2, <3>0, SessionRecorded
    <3>2. \/ pc' = "find statement"
          \/ pc' = "resume statement" /\ bundle.statement.phase = "accepted"
          \/ pc' = "clean up"
      BY <2>2 DEF AfterSession
    <3>3. OneSession'
      BY <1>2, <2>1, <3>0, <3>1, <3>2 DEF OneSession, NoneLive, Live
    <3>4. RecordAtStep'
      BY <2>2, <3>1, <3>2 DEF RecordAtStep, WithSession
    <3>5. SeenInOrder' /\ pc' \in TablesSteps
      BY <1>2, <2>1, <3>1, <3>2 DEF SeenInOrder, Recovering, Inspected, TablesSteps
    <3> QED BY <1>1, <1>2, <1>3, <2>1, <2>2, <3>0, <3>1, <3>2, <3>3, <3>4, <3>5, TablesRunStep
  <2>3. ASSUME pc' = "idle", UNCHANGED <<bundle, session>>
        PROVE  TablesInv'
    BY <1>4, <2>1, <2>3
  <2> QED BY <1>5, <2>2, <2>3 DEF WithNewSession, FindSession, RecordBundle, KeepBundle, tablesCp
<1>6. CASE FindStatement
  <2>1. /\ UNCHANGED <<symbolic, approvedTables, catalog, sessions, sessionLate, statement, tablesDone, edited>>
        /\ UNCHANGED <<session, preflight, failing, tableFlags>> /\ pc = "find statement"
        /\ \/ UNCHANGED bundle /\ pc' = "idle"
           \/ /\ SameStatement(session) /\ statement.state \in {"waiting", "available"}
              /\ bundle' = WithStatementPhase(bundle, "accepted") /\ pc' = "resume statement"
    BY <1>6 DEF FindStatement, WithStatementPhase, OnlyReads, RecordBundle, KeepBundle, tablesPlan, tablesRun, tablesCp, lakehouse, NoFault
  <2>2. ASSUME SameStatement(session), statement.state \in {"waiting", "available"}, pc' = "resume statement",
               bundle' = WithStatementPhase(bundle, "accepted")
        PROVE  TablesInv'
    <3>1. /\ bundle' \in Bundles /\ bundle'.phase = bundle.phase /\ bundle'.session = bundle.session
          /\ bundle'.receipts = bundle.receipts /\ bundle'.statement.phase = "accepted"
          /\ bundle'.statement.verb = bundle.statement.verb /\ bundle'.statement.on = bundle.statement.on
      BY <1>1, <2>2, StatementPhaseRecorded
    <3>2. PostedIsRecorded(bundle'.statement)
      BY <2>2, <3>1 DEF PostedIsRecorded, SameStatement
    <3>3. OneSession'
      BY <1>2, <2>1, <2>2, <3>1, FewerSessions DEF Live
    <3>4. RecordAtStep' /\ SeenInOrder' /\ pc' \in TablesSteps
      BY <1>2, <2>1, <2>2, <3>1 DEF RecordAtStep, SeenInOrder, WithSession, Recovering, Inspected, TablesSteps
    <3> QED BY <1>1, <1>2, <1>3, <2>1, <2>2, <3>1, <3>2, <3>3, <3>4, TablesRunStep
  <2> QED BY <1>4, <2>1, <2>2
<1>7. CASE ResumeStatement
  <2>1. /\ UNCHANGED <<symbolic, approvedTables, catalog, sessions, sessionLate, statement, tablesDone, edited>>
        /\ UNCHANGED <<session, preflight, failing, tableFlags>> /\ pc = "resume statement"
        /\ \/ UNCHANGED bundle /\ pc' = "idle"
           \/ /\ statement.verb = "create" => statement.saw = "owned"
              /\ bundle' = WithReceipts(bundle, IF bundle.statement.verb = "create" THEN Receipt(bundle.statement.on) ELSE bundle.receipts)
              /\ pc' = "clean up"
    BY <1>7 DEF ResumeStatement, WithReceipts, OnlyReads, RecordBundle, KeepBundle, tablesPlan, tablesRun, tablesCp, lakehouse, NoFault
  <2>2. ASSUME statement.verb = "create" => statement.saw = "owned", pc' = "clean up",
               bundle' = WithReceipts(bundle, IF bundle.statement.verb = "create" THEN Receipt(bundle.statement.on) ELSE bundle.receipts)
        PROVE  TablesInv'
    <3>1. /\ statement.state # "none" /\ statement.on \in Resources
          /\ statement.verb = bundle.statement.verb /\ statement.on = bundle.statement.on
      BY <1>2, <2>1 DEF RecordAtStep, StatementKnown, PostedIsRecorded
    <3> DEFINE R == IF bundle.statement.verb = "create" THEN Receipt(bundle.statement.on) ELSE bundle.receipts
    <3>2. R \in SUBSET Resources /\ \A r \in R : r \in bundle.receipts \/ (r = statement.on /\ statement.saw = "owned")
      BY <1>1, <2>2, <3>1, BundleFields DEF Receipt
    <3>7. bundle' = WithReceipts(bundle, R)
      BY <2>2
    <3> HIDE DEF R
    <3>3. /\ bundle' \in Bundles /\ bundle'.phase = bundle.phase /\ bundle'.session = bundle.session
          /\ bundle'.receipts = R /\ bundle'.statement.phase = "verified"
      BY <1>1, <3>2, <3>7, ReceiptRecorded
    <3>4. ~edited => \A r \in bundle'.receipts : catalog[r] = "owned"
      BY <1>3, <3>2, <3>3
    <3>5. OneSession'
      BY <1>2, <2>1, <2>2, <3>3, FewerSessions DEF Live
    <3>6. RecordAtStep' /\ SeenInOrder' /\ pc' \in TablesSteps /\ PostedIsRecorded(bundle'.statement)
      BY <1>2, <2>1, <2>2, <3>3 DEF RecordAtStep, SeenInOrder, WithSession, Recovering, Inspected, TablesSteps, PostedIsRecorded
    <3> QED BY <1>1, <1>2, <1>3, <2>1, <2>2, <3>3, <3>4, <3>5, <3>6, TablesRunStep
  <2> QED BY <1>4, <2>1, <2>2
<1>8. CASE OpenSession
  <2>1. /\ UNCHANGED <<symbolic, approvedTables, catalog, sessions, sessionLate, statement, tablesDone, edited>>
        /\ UNCHANGED <<session, preflight, failing, tableFlags>> /\ pc = "open session" /\ pc' = "session sent"
        /\ bundle' = NewRecordOf(bundle)
    BY <1>8 DEF OpenSession, NewRecordOf, OnlyReads, RecordBundle, tablesPlan, tablesRun, lakehouse, NoFault
  <2>2. /\ bundle' \in Bundles /\ bundle'.phase = "submitting" /\ bundle'.receipts = bundle.receipts
        /\ bundle'.statement.phase = "none" /\ bundle'.statement.verb = "none"
    BY <1>1, <2>1, NewRecord
  <2>3. OneSession'
    BY <1>2, <2>1, <2>2 DEF OneSession, NoneLive, Live
  <2>4. RecordAtStep' /\ SeenInOrder' /\ pc' \in TablesSteps /\ PostedIsRecorded(bundle'.statement)
    BY <1>2, <2>1, <2>2 DEF RecordAtStep, SeenInOrder, WithSession, Recovering, Inspected, TablesSteps, PostedIsRecorded
  <2> QED BY <1>1, <1>2, <1>3, <2>1, <2>2, <2>3, <2>4, TablesRunStep
<1>9. CASE CleanUp
  <2>1. /\ UNCHANGED <<symbolic, approvedTables, catalog, sessions, sessionLate, statement, tablesDone, edited>>
        /\ UNCHANGED <<session, preflight, failing, tableFlags>> /\ pc = "clean up"
        /\ \/ pc' = "recovered delete" /\ Inspected = {}
           \/ pc' = "delete" /\ (Inspected # {} \/ failing)
        /\ bundle' = WithPhase(bundle, "cleanup-submitting")
    BY <1>9 DEF CleanUp, WithPhase, OnlyReads, RecordBundle, tablesPlan, tablesRun, lakehouse, NoFault
  <2>2. /\ bundle' \in Bundles /\ bundle'.phase = "cleanup-submitting" /\ bundle'.session = bundle.session
        /\ bundle'.receipts = bundle.receipts /\ bundle'.statement = bundle.statement
    BY <1>1, <2>1, PhaseRecorded DEF BundlePhases
  <2>3. bundle.phase = "active" /\ session = bundle.session
    BY <1>2, <2>1 DEF RecordAtStep, WithSession
  <2>4. OneSession'
    BY <1>2, <2>1, <2>2, <2>3 DEF OneSession, NoneLive, Live
  <2>5. RecordAtStep' /\ pc' \in TablesSteps /\ PostedIsRecorded(bundle'.statement)
    BY <1>2, <2>1, <2>2, <2>3 DEF RecordAtStep, WithSession, TablesSteps
  <2>6. SeenInOrder'
    BY <1>2, <2>1, <2>2 DEF SeenInOrder, Recovering, Inspected, AllMatch
  <2> QED BY <1>1, <1>2, <1>3, <2>1, <2>2, <2>4, <2>5, <2>6, TablesRunStep
<1>10. ASSUME NEW verb \in {"inspect", "create"}, NEW r \in Resources, SubmitStatement(verb, r)
       PROVE  TablesInv'
  <2>1. /\ UNCHANGED <<symbolic, approvedTables, catalog, sessions, sessionLate, statement, tablesDone, edited>>
        /\ UNCHANGED <<session, preflight, failing, tableFlags>> /\ pc = verb /\ pc' = "statement sent"
        /\ bundle' = WithStatement(bundle, verb, r)
        /\ Turn(verb, r)
    BY <1>10 DEF SubmitStatement, WithStatement, OnlyReads, RecordBundle, tablesPlan, tablesRun, lakehouse, NoFault
  <2>2. /\ bundle' \in Bundles /\ bundle'.phase = bundle.phase /\ bundle'.session = bundle.session
        /\ bundle'.receipts = bundle.receipts /\ bundle'.statement.phase = "submitting"
        /\ bundle'.statement.verb = verb /\ bundle'.statement.on = r
    <3>1. bundle \in Bundles /\ bundle' = WithStatement(bundle, verb, r) /\ verb \in Verbs
      BY <1>1, <2>1 DEF Verbs
    <3> QED BY <3>1, StatementRecorded
  <2>3. OneSession'
    BY <1>2, <2>1, <2>2, FewerSessions DEF Live
  <2>4. RecordAtStep' /\ pc' \in TablesSteps /\ PostedIsRecorded(bundle'.statement)
    BY <1>2, <2>1, <2>2 DEF RecordAtStep, WithSession, TablesSteps, PostedIsRecorded
  <2>5. SeenInOrder'
    BY <1>2, <2>1, <2>2 DEF SeenInOrder, Recovering
  <2>6. ~Runs
    BY <1>2, <2>1 DEF StatementKnown
  <2>7. verb = "create" /\ r \in Tables /\ ~edited => SchemaThere
    <3> SUFFICES ASSUME verb = "create", r \in Tables, ~edited, NEW s \in Schemas
                 PROVE  catalog[s] # "absent"
      BY DEF SchemaThere
    <3>1. s \in Resources /\ s \in Nat /\ r \in Nat /\ s < r
      BY TablesBounds DEF Resources
    <3>2. \A q \in Absent : r <= q
      BY <2>1 DEF Turn, First
    <3>3. preflight[s] \in {"absent", "owned"}
      BY <1>2, <2>1, <3>1 DEF SeenInOrder
    <3>4. s \notin Absent
      BY <3>1, <3>2
    <3>5. preflight[s] = "owned"
      BY <3>1, <3>3, <3>4 DEF Absent
    <3> QED BY <1>3, <3>1, <3>5
  <2> QED BY <1>1, <1>2, <1>3, <2>1, <2>2, <2>3, <2>4, <2>5, <2>6, <2>7, TablesRunStep
<1> QED BY <1>5, <1>6, <1>7, <1>8, <1>9, <1>10

(* The requests: a session or a statement is posted, a session is deleted.  *)
LEMMA StatementStays ==
  ASSUME StatementKnown, UNCHANGED statement,
         \A s \in Sessions : (sessions[s] # "none" => sessions'[s] # "none"),
         \A s \in Sessions : sessions[s] # "none" /\ Live(s)' => Live(s),
         PostedIsRecorded(bundle'.statement),
         pc' \in {"await session", "inspect", "create", "statement sent"} => ~Runs
  PROVE  StatementKnown' /\ (~Runs => ~Runs')
<1>1. PostedIsRecorded(bundle.statement)'
  BY DEF PostedIsRecorded
<1> QED BY <1>1 DEF StatementKnown, Runs

(* The POST of a session, answered or not.                                  *)
LEMMA TablesSessionSent ==
  ASSUME TablesInv, SessionAnswered \/ SessionLost
  PROVE  TablesInv'
<1>1. /\ bundle \in Bundles /\ statement \in Postings /\ pc \in {"idle", "succeeded"} \cup TablesSteps
      /\ sessions \in [Sessions -> {"none", "starting", "idle", "dead", "deleted"}] /\ sessionLate \in BOOLEAN
      /\ pc = "session sent" /\ session \in Sessions \cup {NoSession}
  BY TablesTypes DEF SessionAnswered, SessionLost
<1>2. /\ OneSession /\ RecordAtStep /\ SeenInOrder /\ StatementKnown /\ PostedIsRecorded(bundle.statement)
      /\ bundle.phase = "submitting" /\ NoneLive /\ ~sessionLate /\ Inspected = {} /\ SeenIsThere
  BY <1>1 DEF TablesInv, StatementKnown, RecordAtStep, OneSession, SeenInOrder, Recovering
<1>3. ~Runs
  BY <1>2 DEF StatementKnown, Runs, NoneLive
<1>4. /\ UNCHANGED <<symbolic, approvedTables, catalog, statement, tablesDone, edited, preflight, failing, tableFlags>>
      /\ sessions' = sessions \/ MakeSession
      /\ \/ /\ MakeSession /\ session' = NewSession /\ bundle' = WithNewSession(bundle, NewSession)
            /\ pc' = "await session" /\ UNCHANGED sessionLate
         \/ /\ UNCHANGED <<bundle, session>> /\ pc' = "idle" /\ sessionLate' \in BOOLEAN
            /\ sessionLate' => UNCHANGED sessions
  <2> USE DEF RecordBundle, KeepBundle, Goto, Fail, tablesRun, tablesPlan, tablesCp, NoFault, Fault, Loss, SpendFault
  <2>1. CASE SessionAnswered
    BY <2>1 DEF SessionAnswered, WithNewSession
  <2>2. CASE SessionLost
    <3>1. /\ UNCHANGED <<symbolic, approvedTables, catalog, statement, tablesDone, edited, preflight, failing, tableFlags>>
          /\ UNCHANGED <<bundle, session>> /\ pc' = "idle" /\ SessionOutOfHand
      BY <2>2 DEF SessionLost, SessionOutOfHand
    <3>2. sessions' = sessions \/ MakeSession
      BY <3>1 DEF SessionOutOfHand
    <3>3. sessionLate' = sessionLate \/ (sessionLate' = TRUE /\ UNCHANGED sessions)
      BY <3>1 DEF SessionOutOfHand
    <3>4. sessionLate' \in BOOLEAN /\ (sessionLate' => UNCHANGED sessions)
      <4>1. sessionLate = FALSE
        BY <1>1, <1>2
      <4> QED BY <3>3, <4>1
    <3> QED BY <3>1, <3>2, <3>4
  <2> QED BY <2>1, <2>2
<1>5. ASSUME MakeSession
      PROVE  /\ NewSession \in Sessions /\ sessions[NewSession] = "none" /\ sessions' = [sessions EXCEPT ![NewSession] = "starting"]
             /\ sessions' \in [Sessions -> {"none", "starting", "idle", "dead", "deleted"}]
             /\ \A s \in Sessions : s # NewSession => sessions'[s] = sessions[s]
  BY <1>1, <1>5 DEF MakeSession, NewSession
<1>6. sessions' \in [Sessions -> {"none", "starting", "idle", "dead", "deleted"}]
  BY <1>1, <1>4, <1>5
<1>7. /\ \A s \in Sessions : (sessions[s] # "none" => sessions'[s] # "none")
      /\ \A s \in Sessions : sessions[s] # "none" /\ Live(s)' => Live(s)
      /\ \A s, t \in Sessions : Live(s)' /\ Live(t)' => s = t
      /\ MakeSession => \A s \in Sessions : Live(s)' => s = NewSession
  BY <1>1, <1>2, <1>4, <1>5 DEF Live, NoneLive
<1>8. CASE MakeSession /\ session' = NewSession /\ bundle' = WithNewSession(bundle, NewSession) /\ pc' = "await session"
           /\ UNCHANGED sessionLate
  <2>1. /\ bundle' \in Bundles /\ bundle'.phase = "active" /\ bundle'.session = NewSession
        /\ bundle'.statement = bundle.statement /\ bundle'.receipts = bundle.receipts
    BY <1>1, <1>5, <1>8, SessionRecorded
  <2>2. OneSession'
    BY <1>2, <1>5, <1>7, <1>8, <2>1 DEF OneSession
  <2>3. StatementKnown'
    BY <1>2, <1>3, <1>4, <1>7, <2>1, StatementStays
  <2>4. RecordAtStep' /\ SeenInOrder' /\ pc' \in TablesSteps
    BY <1>2, <1>4, <1>8, <2>1 DEF RecordAtStep, SeenInOrder, WithSession, Recovering, Inspected, TablesSteps
  <2>5. SeenIsThere'
    BY <1>2, <1>4, <1>8, <2>1 DEF SeenIsThere, AllMatch
  <2>6. TablesTypeOK' /\ TablesShape'
    BY <1>1, <1>4, <1>5, <1>6, <1>8, <2>1, <2>4, TablesTypes, TablesTyped
  <2> QED BY <2>2, <2>3, <2>4, <2>5, <2>6 DEF TablesInv
<1>9. CASE UNCHANGED <<bundle, session>> /\ pc' = "idle" /\ sessionLate' \in BOOLEAN /\ (sessionLate' => UNCHANGED sessions)
  <2>1. sessionLate' => NoneLive'
    BY <1>2, <1>9 DEF NoneLive, Live
  <2>2. OneSession'
    BY <1>2, <1>7, <1>9, <2>1 DEF OneSession
  <2>3. StatementKnown'
    BY <1>2, <1>4, <1>7, <1>9, StatementStays
  <2>4. RecordAtStep' /\ SeenInOrder'
    BY <1>9 DEF RecordAtStep, SeenInOrder, WithSession, Recovering
  <2>5. SeenIsThere'
    BY <1>2, <1>4, <1>9 DEF SeenIsThere, AllMatch
  <2>6. TablesTypeOK' /\ TablesShape'
    BY <1>1, <1>4, <1>6, <1>9, TablesTypes, TablesTyped
  <2> QED BY <2>2, <2>3, <2>4, <2>5, <2>6 DEF TablesInv
<1> QED BY <1>4, <1>8, <1>9

(* The POST of a statement, answered or not.                                *)
LEMMA TablesStatementSent ==
  ASSUME TablesInv, StatementAnswered \/ StatementLost \/ StatementOrphaned
  PROVE  TablesInv'
<1>1. /\ bundle \in Bundles /\ statement \in Postings
      /\ sessions \in [Sessions -> {"none", "starting", "idle", "dead", "deleted"}]
      /\ pc = "statement sent" /\ session \in Sessions \cup {NoSession}
  BY TablesTypes DEF StatementAnswered, StatementLost, StatementOrphaned
<1>2. /\ OneSession /\ RecordAtStep /\ SeenInOrder /\ StatementKnown /\ PostedIsRecorded(bundle.statement) /\ SeenIsThere
      /\ bundle.phase = "active" /\ session = bundle.session /\ bundle.session \in Sessions
      /\ sessions[session] # "none"
      /\ bundle.statement.phase = "submitting" /\ bundle.statement.on \in Resources
      /\ bundle.statement.verb \in {"inspect", "create"}
  BY <1>1 DEF TablesInv, StatementKnown, RecordAtStep, WithSession, OneSession
<1>3. /\ UNCHANGED <<symbolic, approvedTables, catalog, sessions, sessionLate, tablesDone, edited, session, preflight, tableFlags>>
      /\ (\E state \in {"waiting", "late"} : Posted(state)) \/ UNCHANGED statement
      /\ \/ /\ Live(session) /\ Posted("waiting") /\ bundle' = WithStatementPhase(bundle, "accepted")
            /\ pc' = "await statement" /\ UNCHANGED failing
         \/ UNCHANGED bundle /\ pc' = "clean up" /\ failing' = TRUE
         \/ UNCHANGED bundle /\ pc' = "idle" /\ UNCHANGED failing
  BY DEF StatementAnswered, StatementLost, StatementOrphaned, Abandon, RecordBundle, KeepBundle, Goto, Fail, tablesRun, tablesPlan,
     tablesCp, NoFault, Fault, Loss, SpendFault, WithStatementPhase
<1>4. ASSUME NEW state \in {"waiting", "late"}, Posted(state)
      PROVE  /\ statement' \in Postings /\ statement'.in \in Sessions /\ statement'.on = bundle.statement.on
             /\ statement'.verb = bundle.statement.verb /\ statement'.state = state /\ statement'.saw = "absent"
             /\ statement'.in = session
  <2>1. statement' = [in |-> session, verb |-> bundle.statement.verb, on |-> bundle.statement.on,
                      state |-> state, saw |-> "absent"]
    BY <1>4 DEF Posted
  <2> QED BY <1>2, <2>1 DEF Postings, TableStates
<1>6. bundle' \in Bundles /\ bundle'.phase = bundle.phase /\ bundle'.session = bundle.session /\ bundle'.receipts = bundle.receipts
      /\ bundle'.statement.verb = bundle.statement.verb /\ bundle'.statement.on = bundle.statement.on
      /\ bundle'.statement.phase = IF pc' = "await statement" THEN "accepted" ELSE "submitting"
  <2>1. CASE bundle' = WithStatementPhase(bundle, "accepted") /\ pc' = "await statement"
    BY <1>1, <2>1, StatementPhaseRecorded
  <2>2. CASE UNCHANGED bundle /\ pc' # "await statement"
    BY <1>1, <1>2, <2>2
  <2> QED BY <1>3, <2>1, <2>2
<1>7. OneSession'
  BY <1>2, <1>3, <1>6, FewerSessions DEF Live
<1>8. RecordAtStep' /\ pc' \in {"idle", "succeeded"} \cup TablesSteps
  BY <1>2, <1>3, <1>6 DEF RecordAtStep, WithSession, TablesSteps
<1>9. SeenInOrder'
  BY <1>1, <1>2, <1>3, <1>6 DEF SeenInOrder, Recovering, Inspected
<1>10. StatementKnown'
  <2>1. statement'.state # "none" => /\ statement'.in \in Sessions /\ sessions'[statement'.in] # "none"
                                    /\ statement'.on \in Resources /\ statement'.verb \in {"inspect", "create"}
    BY <1>2, <1>3, <1>4 DEF StatementKnown
  <2>2. PostedIsRecorded(bundle.statement)'
    BY <1>2, <1>3, <1>4, <1>6 DEF PostedIsRecorded
  <2> QED BY <1>3, <2>1, <2>2 DEF StatementKnown
<1>11. SeenIsThere'
  BY <1>2, <1>3, <1>4, <1>6 DEF SeenIsThere, AllMatch
<1>12. TablesTypeOK' /\ TablesShape'
  BY <1>1, <1>3, <1>4, <1>6, <1>8, TablesTypes, TablesTyped
<1> QED BY <1>7, <1>8, <1>9, <1>10, <1>11, <1>12 DEF TablesInv

(* The deletion of the session, answered or not.                            *)
LEMMA TablesDeletes ==
  ASSUME TablesInv, DeleteAnswered \/ DeleteLost
  PROVE  TablesInv'
<1>1. /\ bundle \in Bundles /\ statement \in Postings
      /\ sessions \in [Sessions -> {"none", "starting", "idle", "dead", "deleted"}] /\ tablesDone \in BOOLEAN
      /\ pc \in {"delete", "recovered delete"} /\ session \in Sessions \cup {NoSession}
  BY TablesTypes DEF DeleteAnswered, DeleteLost
<1>2. /\ OneSession /\ RecordAtStep /\ SeenInOrder /\ StatementKnown /\ PostedIsRecorded(bundle.statement) /\ SeenIsThere
      /\ bundle.phase = "cleanup-submitting" /\ session = bundle.session /\ bundle.session \in Sessions
      /\ \A s \in Sessions : Live(s) => s = session
      /\ ~sessionLate
  BY <1>1 DEF TablesInv, StatementKnown, RecordAtStep, OneSession
<1>3. /\ UNCHANGED <<symbolic, approvedTables, catalog, statement, sessionLate, edited, session, preflight, failing, tableFlags>>
      /\ \/ /\ Delete /\ bundle' = WithPhase(bundle, "cleanup-complete")
            /\ \/ pc = "recovered delete" /\ pc' = "open session" /\ UNCHANGED tablesDone
               \/ pc = "delete" /\ ~failing /\ pc' = "succeeded" /\ tablesDone' = TRUE
               \/ pc = "delete" /\ failing /\ pc' = "idle" /\ UNCHANGED tablesDone
         \/ (Delete \/ UNCHANGED sessions) /\ UNCHANGED <<bundle, tablesDone>> /\ pc' = "idle"
  <2> USE DEF RecordBundle, KeepBundle, Goto, Fail, tablesRun, tablesPlan, tablesCp, NoFault, Fault, SpendFault
  <2>1. CASE DeleteAnswered
    BY <1>1, <2>1 DEF DeleteAnswered, CleanedUp, WithPhase
  <2>2. CASE DeleteLost
    BY <2>2 DEF DeleteLost
  <2> QED BY <2>1, <2>2
<1>4. /\ sessions' \in [Sessions -> {"none", "starting", "idle", "dead", "deleted"}]
      /\ \A s \in Sessions : Live(s)' => Live(s)
      /\ \A s \in Sessions : sessions[s] # "none" => sessions'[s] # "none"
      /\ Delete => NoneLive'
  BY <1>1, <1>2, <1>3 DEF Delete, Live, NoneLive
<1>5. StatementKnown'
  <2>1. PostedIsRecorded(bundle'.statement) /\ pc' \notin {"await session", "inspect", "create", "statement sent"}
    <3>1. WithPhase(bundle, "cleanup-complete").statement = bundle.statement
      BY <1>1, PhaseRecorded DEF BundlePhases
    <3> QED BY <1>1, <1>2, <1>3, <3>1
  <2> QED BY <1>2, <1>3, <1>4, <2>1, StatementStays
<1>6. CASE Delete /\ bundle' = WithPhase(bundle, "cleanup-complete") /\ pc' \in {"open session", "succeeded", "idle"}
           /\ \/ UNCHANGED tablesDone /\ (pc' = "open session" => pc = "recovered delete")
              \/ pc' = "succeeded" /\ pc = "delete" /\ ~failing /\ tablesDone' = TRUE
  <2>1. /\ bundle' \in Bundles /\ bundle'.phase = "cleanup-complete" /\ bundle'.session = bundle.session
        /\ bundle'.statement = bundle.statement /\ bundle'.receipts = bundle.receipts
    BY <1>1, <1>6, PhaseRecorded DEF BundlePhases
  <2>2. OneSession'
    BY <1>2, <1>3, <1>4, <1>6, <2>1 DEF OneSession, NoneLive
  <2>3. RecordAtStep' /\ pc' \in {"idle", "succeeded"} \cup TablesSteps
    BY <1>6, <2>1 DEF RecordAtStep, WithSession, TablesSteps
  <2>4. SeenInOrder'
    BY <1>1, <1>2, <1>3, <1>6 DEF SeenInOrder, Recovering, Inspected
  <2>5. tablesDone' /\ ~tablesDone /\ ~edited => AllMatch(catalog)
    <3> SUFFICES ASSUME tablesDone', ~tablesDone, ~edited PROVE AllMatch(catalog)
      OBVIOUS
    <3>1. pc = "delete" /\ ~failing
      BY <1>1, <1>6
    <3>2. AllMatch(preflight)
      BY <1>2, <3>1 DEF SeenInOrder
    <3> QED BY <1>2, <3>2 DEF AllMatch, SeenIsThere
  <2>6. SeenIsThere'
    <3>1. tablesDone' /\ ~edited => AllMatch(catalog)
      BY <1>1, <1>2, <2>5 DEF SeenIsThere
    <3> QED BY <1>2, <1>3, <1>6, <2>1, <3>1 DEF SeenIsThere, AllMatch
  <2>7. TablesTypeOK' /\ TablesShape'
    BY <1>1, <1>3, <1>4, <1>6, <2>1, <2>3, TablesTypes, TablesTyped
  <2> QED BY <1>5, <2>2, <2>3, <2>4, <2>6, <2>7 DEF TablesInv
<1>7. CASE UNCHANGED <<bundle, tablesDone>> /\ pc' = "idle"
  <2>1. OneSession'
    BY <1>2, <1>3, <1>4, <1>7, FewerSessions
  <2>2. RecordAtStep' /\ SeenInOrder'
    BY <1>7 DEF RecordAtStep, WithSession, SeenInOrder, Recovering
  <2>3. SeenIsThere'
    BY <1>2, <1>3, <1>7 DEF SeenIsThere, AllMatch
  <2>4. TablesTypeOK' /\ TablesShape'
    BY <1>1, <1>3, <1>4, <1>7, TablesTypes, TablesTyped
  <2> QED BY <1>5, <2>1, <2>2, <2>3, <2>4 DEF TablesInv
<1> QED BY <1>1, <1>3, <1>6, <1>7

(* The answer of a statement is waited for and taken.                       *)
LEMMA TablesAwaits ==
  ASSUME TablesInv, AwaitStatement
  PROVE  TablesInv'
<1>1. /\ bundle \in Bundles /\ statement \in Postings /\ pc = "await statement"
      /\ session \in Sessions \cup {NoSession} /\ preflight \in [Resources -> TableStates \cup {Unseen}]
      /\ failing \in BOOLEAN /\ tableFlags \subseteq {"schema", "table"}
  BY TablesTypes DEF AwaitStatement
<1>2. /\ OneSession /\ RecordAtStep /\ SeenInOrder /\ StatementKnown /\ PostedIsRecorded(bundle.statement) /\ SeenIsThere
      /\ bundle.phase = "active" /\ session = bundle.session /\ bundle.statement.phase = "accepted"
      /\ statement.state # "none" /\ statement.verb = bundle.statement.verb /\ statement.on = bundle.statement.on
      /\ statement.on \in Resources /\ statement.verb \in {"inspect", "create"}
  BY <1>1 DEF TablesInv, StatementKnown, RecordAtStep, WithSession, PostedIsRecorded
<1>3. UNCHANGED <<symbolic, approvedTables, catalog, sessions, sessionLate, statement, tablesDone, edited, session, tableFlags>>
  BY DEF AwaitStatement, TakeInspection, TakeCreate, Abandon, RecordBundle, KeepBundle, tablesPlan, tablesCp, lakehouse,
     NoFault, Fault, SpendFault
<1>4. ~edited => /\ \A r \in Resources : preflight[r] = "owned" => catalog[r] = "owned"
                 /\ \A r \in bundle.receipts : catalog[r] = "owned"
                 /\ statement.saw = "owned" => catalog[statement.on] = "owned"
  BY <1>2 DEF SeenIsThere
<1>5. ASSUME Abandon, UNCHANGED <<bundle, preflight>>
      PROVE  TablesInv'
  <2>1. pc' = "clean up" /\ failing' = TRUE
    BY <1>5 DEF Abandon, Goto
  <2>2. OneSession'
    BY <1>2, <1>3, <1>5, <2>1, FewerSessions DEF Live
  <2>3. RecordAtStep' /\ SeenInOrder' /\ pc' \in TablesSteps
    BY <1>2, <1>3, <1>5, <2>1 DEF RecordAtStep, SeenInOrder, WithSession, Recovering, TablesSteps
  <2> QED BY <1>1, <1>2, <1>3, <1>4, <1>5, <2>1, <2>2, <2>3, TablesRunStep
<1>6. ASSUME Live(session), statement.state = "available", statement.verb = "inspect", TakeInspection
      PROVE  TablesInv'
  <2> DEFINE seen == [preflight EXCEPT ![statement.on] = statement.saw]
  <2>1. seen \in [Resources -> TableStates \cup {Unseen}] /\ statement.saw \in TableStates
    BY <1>1, <1>2 DEF Postings
  <2>2. /\ preflight' = seen /\ UNCHANGED bundle
        /\ \/ pc' = "inspect" /\ UNCHANGED failing
           \/ pc' = "create" /\ UNCHANGED failing /\ Judge(seen) = "create" /\ \A r \in Resources : seen[r] # Unseen
           \/ pc' = "clean up" /\ UNCHANGED failing /\ Judge(seen) = "pass" /\ \A r \in Resources : seen[r] # Unseen
           \/ pc' = "clean up" /\ failing' = TRUE
    <3>1. Judge(seen) \in {"fail", "create", "pass"}
      BY DEF Judge
    <3>2. preflight' = seen /\ UNCHANGED bundle
      BY <1>6 DEF TakeInspection, KeepBundle, tablesCp
    <3>3. \/ (\E r \in Resources : seen[r] = Unseen) /\ pc' = "inspect" /\ UNCHANGED failing
          \/ /\ \A r \in Resources : seen[r] # Unseen
             /\ \/ Judge(seen) = "create" /\ pc' = "create" /\ UNCHANGED failing
                \/ Judge(seen) = "pass" /\ pc' = "clean up" /\ UNCHANGED failing
                \/ Judge(seen) = "fail" /\ Abandon
      BY <1>6, <3>1 DEF TakeInspection, Goto
    <3> QED BY <3>2, <3>3 DEF Abandon, Goto
  <2>3. /\ Judge(seen) \in {"create", "pass"} => \A r \in Resources : seen[r] # "foreign"
        /\ Judge(seen) = "pass" => \A r \in Resources : seen[r] # "absent"
    BY DEF Judge
  <2>4. \A r \in Resources : seen[r] \in {"absent", "owned", "foreign", Unseen}
    BY <2>1 DEF TableStates
  <2>5. ~edited => \A r \in Resources : seen[r] = "owned" => catalog[r] = "owned"
    BY <1>1, <1>2, <1>4
  <2> HIDE DEF seen
  <2>6. ~Runs
    BY <1>6 DEF Runs
  <2>7. OneSession'
    BY <1>2, <1>3, <2>2, FewerSessions DEF Live
  <2>8. RecordAtStep' /\ pc' \in TablesSteps
    BY <1>2, <1>3, <2>2 DEF RecordAtStep, WithSession, TablesSteps
  <2>9. SeenInOrder'
    <3>1. pc' = "create" => \A r \in Resources : preflight'[r] \in {"absent", "owned"}
      BY <2>2, <2>3, <2>4
    <3>2. pc' = "clean up" /\ ~failing' => AllMatch(preflight')
      BY <2>2, <2>3, <2>4 DEF AllMatch
    <3>3. pc' \notin Recovering \cup {"statement sent", "await statement", "delete"}
      BY <2>2 DEF Recovering
    <3> QED BY <3>1, <3>2, <3>3 DEF SeenInOrder
  <2>10. preflight' \in [Resources -> TableStates \cup {Unseen}] /\ failing' \in BOOLEAN
    BY <1>1, <2>1, <2>2
  <2> QED BY <1>1, <1>2, <1>3, <1>4, <2>2, <2>5, <2>6, <2>7, <2>8, <2>9, <2>10, TablesRunStep
<1>7. ASSUME Live(session), statement.state = "available", statement.verb = "create", statement.saw = "owned", TakeCreate
      PROVE  TablesInv'
  <2> DEFINE seen == [preflight EXCEPT ![statement.on] = "owned"]
  <2>1. seen \in [Resources -> TableStates \cup {Unseen}]
    BY <1>1, <1>2 DEF TableStates
  <2>2. /\ preflight' = seen /\ UNCHANGED failing /\ bundle' = WithReceipts(bundle, Receipt(statement.on))
        /\ \/ pc' = "create" \/ (pc' = "clean up" /\ \A r \in Resources : seen[r] # "absent")
    BY <1>7 DEF TakeCreate, RecordBundle, Goto, WithReceipts
  <2>3. Receipt(statement.on) \in SUBSET Resources
    BY <1>1, <1>2, BundleFields DEF Receipt
  <2>4. /\ bundle' \in Bundles /\ bundle'.phase = bundle.phase /\ bundle'.session = bundle.session
        /\ bundle'.receipts = Receipt(statement.on) /\ bundle'.statement.phase = "verified"
    <3>1. PICK R \in SUBSET Resources : R = Receipt(statement.on)
      BY <2>3
    <3>2. bundle' = WithReceipts(bundle, R) /\ bundle \in Bundles
      BY <1>1, <2>2, <3>1
    <3> QED BY <3>1, <3>2, ReceiptRecorded
  <2>5. \A r \in Resources : seen[r] \in {"absent", "owned"}
    BY <1>1, <1>2, <1>7 DEF SeenInOrder
  <2>6. ~edited => /\ \A r \in Resources : seen[r] = "owned" => catalog[r] = "owned"
                   /\ \A r \in bundle'.receipts : catalog[r] = "owned"
    BY <1>1, <1>2, <1>4, <1>7, <2>4 DEF Receipt
  <2> HIDE DEF seen
  <2>7. ~Runs /\ PostedIsRecorded(bundle'.statement)
    BY <1>7, <2>4 DEF Runs, PostedIsRecorded
  <2>8. OneSession'
    BY <1>2, <1>3, <2>2, <2>4, FewerSessions DEF Live
  <2>9. RecordAtStep' /\ pc' \in TablesSteps
    BY <1>2, <1>3, <2>2, <2>4 DEF RecordAtStep, WithSession, TablesSteps
  <2>10. SeenInOrder'
    <3>1. pc' = "clean up" => AllMatch(preflight')
      BY <2>2, <2>5 DEF AllMatch
    <3>2. pc' \notin Recovering \cup {"statement sent", "await statement", "delete"}
      BY <2>2 DEF Recovering
    <3> QED BY <2>2, <2>5, <3>1, <3>2 DEF SeenInOrder
  <2>11. preflight' \in [Resources -> TableStates \cup {Unseen}] /\ failing' \in BOOLEAN
    BY <1>1, <2>1, <2>2
  <2> QED BY <1>1, <1>2, <1>3, <1>4, <2>2, <2>4, <2>6, <2>7, <2>8, <2>9, <2>10, <2>11, TablesRunStep
<1>8. \/ Abandon /\ UNCHANGED <<bundle, preflight>>
      \/ Live(session) /\ statement.state = "available" /\ statement.verb = "inspect" /\ TakeInspection
      \/ Live(session) /\ statement.state = "available" /\ statement.verb = "create" /\ statement.saw = "owned" /\ TakeCreate
  BY <1>2 DEF AwaitStatement, TakeCreate, KeepBundle, tablesCp
<1> QED BY <1>5, <1>6, <1>7, <1>8

(* What the service does in its own time.                                   *)
LEMMA StatementMoves ==
  ASSUME StatementKnown, UNCHANGED <<sessions, bundle, pc>>, NEW state \in {"available", "error"}, NEW saw,
         statement \in Postings, saw \in TableStates, Runs,
         statement' = [statement EXCEPT !.state = state, !.saw = saw]
  PROVE  /\ StatementKnown' /\ statement' \in Postings
         /\ statement'.saw = saw /\ statement'.on = statement.on /\ statement.on \in Resources
<1>1. statement = [in |-> statement.in, verb |-> statement.verb, on |-> statement.on, state |-> statement.state,
                   saw |-> statement.saw]
  BY DEF Postings
<1>2. statement' = [in |-> statement.in, verb |-> statement.verb, on |-> statement.on, state |-> state, saw |-> saw]
  BY <1>1
<1>3. statement' \in Postings
  BY <1>1, <1>2 DEF Postings
<1>4. statement.state # "none" /\ statement'.state # "none"
  BY <1>2 DEF Runs
<1> QED BY <1>2, <1>3, <1>4 DEF StatementKnown, PostedIsRecorded, Runs

(* The service, and somebody else.                                          *)
LEMMA TablesServes ==
  ASSUME TablesInv,
         RunStatement \/ StatementFails \/ SessionLater \/ EditTables
           \/ (\E s \in Sessions : SessionIdle(s) \/ SessionDies(s))
  PROVE  TablesInv'
<1>1. /\ bundle \in Bundles /\ statement \in Postings /\ catalog \in [Resources -> TableStates]
      /\ sessions \in [Sessions -> {"none", "starting", "idle", "dead", "deleted"}] /\ sessionLate \in BOOLEAN
      /\ edited \in BOOLEAN
  BY TablesTypes
<1>2. /\ OneSession /\ StatementKnown /\ PostedIsRecorded(bundle.statement) /\ SeenIsThere
      /\ pc \in {"await session", "inspect", "create", "statement sent"} => ~Runs
  BY DEF TablesInv, StatementKnown
<1>3. UNCHANGED <<symbolic, approvedTables, tablesDone, bundle, session, preflight, failing, tableFlags, pc>>
  BY DEF RunStatement, StatementFails, SessionLater, EditTables, SessionIdle, SessionDies, tablesCp, tablesRun, tablesPlan
<1>4. CASE RunStatement
  <2>1. Runs /\ UNCHANGED <<sessions, sessionLate, edited>>
    BY <1>4 DEF RunStatement, NoFault
  <2>2. PICK state \in {"available", "error"} : statement' = [statement EXCEPT !.state = state, !.saw = catalog'[statement.on]]
    <3>1. CASE statement.verb = "create" /\ ~(statement.on \in Schemas \/ SchemaThere)
      BY <1>4, <3>1 DEF RunStatement
    <3>2. CASE ~(statement.verb = "create" /\ ~(statement.on \in Schemas \/ SchemaThere))
      BY <1>4, <3>2 DEF RunStatement
    <3> QED BY <3>1, <3>2
  <2>3. statement.on \in Resources
    BY <1>2, <2>1 DEF StatementKnown, Runs
  <2>4. catalog' = catalog \/ (catalog[statement.on] = "absent" /\ catalog' = [catalog EXCEPT ![statement.on] = "owned"])
    BY <1>4 DEF RunStatement
  <2>5. /\ catalog' \in [Resources -> TableStates] /\ catalog'[statement.on] \in TableStates
        /\ \A r \in Resources : catalog[r] # "absent" => catalog'[r] = catalog[r]
    BY <1>1, <2>3, <2>4 DEF TableStates
  <2>6. PICK saw : saw = catalog'[statement.on]
    OBVIOUS
  <2>7. /\ StatementKnown' /\ statement' \in Postings
        /\ statement'.saw = saw /\ statement'.on = statement.on
    BY <1>1, <1>2, <1>3, <2>1, <2>2, <2>5, <2>6, StatementMoves
  <2>8. OneSession'
    BY <1>2, <1>3, <2>1, FewerSessions DEF Live, OneSession
  <2> QED BY <1>1, <1>3, <2>1, <2>3, <2>5, <2>6, <2>7, <2>8, TablesServiceStep
<1>5. CASE StatementFails
  <2>1. Runs /\ UNCHANGED <<catalog, sessions, sessionLate, edited>> /\ statement' = [statement EXCEPT !.state = "error"]
    BY <1>5 DEF StatementFails, Loss, SpendFault
  <2>2. statement' = [statement EXCEPT !.state = "error", !.saw = statement.saw] /\ statement.saw \in TableStates
    BY <1>1, <2>1 DEF Postings
  <2>3. PICK saw : saw = statement.saw
    OBVIOUS
  <2>4. /\ StatementKnown' /\ statement' \in Postings
        /\ statement'.saw = saw /\ statement'.on = statement.on
    BY <1>1, <1>2, <1>3, <2>1, <2>2, <2>3, StatementMoves
  <2>5. OneSession'
    BY <1>2, <1>3, <2>1, FewerSessions DEF Live, OneSession
  <2> QED BY <1>1, <1>2, <1>3, <2>1, <2>3, <2>4, <2>5, TablesServiceStep DEF SeenIsThere
<1>6. CASE SessionLater
  <2>1. UNCHANGED <<catalog, statement, edited>> /\ sessionLate /\ sessionLate' = FALSE /\ MakeSession
    BY <1>6 DEF SessionLater, NoFault
  <2>2. NoneLive /\ bundle.phase = "submitting"
    BY <1>2, <2>1 DEF OneSession
  <2>3. /\ NewSession \in Sessions /\ sessions[NewSession] = "none" /\ sessions' = [sessions EXCEPT ![NewSession] = "starting"]
    BY <2>1 DEF MakeSession, NewSession
  <2>4. /\ sessions' \in [Sessions -> {"none", "starting", "idle", "dead", "deleted"}]
        /\ \A s \in Sessions : (sessions[s] # "none" => sessions'[s] # "none")
        /\ \A s \in Sessions : sessions[s] # "none" /\ Live(s)' => Live(s)
        /\ \A s, t \in Sessions : Live(s)' /\ Live(t)' => s = t
    BY <1>1, <2>2, <2>3 DEF Live, NoneLive
  <2>5. pc \notin {"open session", "session sent"} /\ bundle'.phase = "submitting" /\ ~sessionLate'
    BY <1>2, <1>3, <2>1, <2>2 DEF OneSession
  <2>6. OneSession'
    BY <1>3, <2>4, <2>5 DEF OneSession
  <2>7. StatementKnown'
    BY <1>2, <1>3, <2>1, <2>4, StatementStays
  <2> QED BY <1>1, <1>2, <1>3, <2>1, <2>4, <2>6, <2>7, TablesServiceStep DEF SeenIsThere
<1>7. ASSUME NEW s \in Sessions, SessionIdle(s) \/ SessionDies(s)
      PROVE  TablesInv'
  <2>1. /\ UNCHANGED <<catalog, statement, sessionLate, edited>> /\ Live(s)
        /\ sessions' = [sessions EXCEPT ![s] = "idle"] \/ sessions' = [sessions EXCEPT ![s] = "dead"]
    BY <1>7 DEF SessionIdle, SessionDies, NoFault, Loss, SpendFault, Live
  <2>2. /\ sessions' \in [Sessions -> {"none", "starting", "idle", "dead", "deleted"}]
        /\ \A t \in Sessions : (sessions[t] # "none" => sessions'[t] # "none")
        /\ \A t \in Sessions : Live(t)' => Live(t)
    BY <1>1, <2>1 DEF Live
  <2>3. OneSession'
    BY <1>2, <1>3, <2>1, <2>2, FewerSessions DEF OneSession
  <2>4. StatementKnown'
    BY <1>2, <1>3, <2>1, <2>2, StatementStays
  <2> QED BY <1>1, <1>2, <1>3, <2>1, <2>2, <2>3, <2>4, TablesServiceStep DEF SeenIsThere
<1>8. CASE EditTables
  <2>1. UNCHANGED <<sessions, sessionLate, statement>> /\ edited' = TRUE
    BY <1>8 DEF EditTables, Foreign
  <2>2. catalog' \in [Resources -> TableStates]
    <3>1. \A r \in Resources : [q \in Resources |-> IF q = r \/ r \in Schemas THEN "absent" ELSE catalog[q]]
                                 \in [Resources -> TableStates]
      BY <1>1 DEF TableStates
    <3>2. \A r \in Resources, state \in TableStates : [catalog EXCEPT ![r] = state] \in [Resources -> TableStates]
      BY <1>1
    <3>3. /\ Tables \subseteq Resources /\ Schemas \subseteq Resources
          /\ "foreign" \in TableStates /\ "owned" \in TableStates
      BY DEF Resources, TableStates
    <3> QED BY <1>8, <3>1, <3>2, <3>3 DEF EditTables
  <2>3. OneSession'
    BY <1>2, <1>3, <2>1, FewerSessions DEF Live, OneSession
  <2>4. StatementKnown'
    BY <1>2, <1>3, <2>1, StatementStays DEF Live
  <2> QED BY <1>1, <1>3, <2>1, <2>2, <2>3, <2>4, TablesServiceStep
<1> QED BY <1>4, <1>5, <1>6, <1>7, <1>8

(* Every step of a run, of Livy and of somebody else keeps it.              *)
LEMMA TablesNextInv ==
  ASSUME TablesInv, TablesNext
  PROVE  TablesInv'
<1>1. CASE StartTables \/ CrashTables
  BY <1>1, TablesReads
<1>2. CASE AskTables
  BY <1>2, TablesRecords, TablesSessionSent, TablesStatementSent, TablesDeletes DEF AskTables
<1>3. CASE ReadTables
  BY <1>3, TablesReads, TablesRecords, TablesAwaits DEF ReadTables
<1>4. CASE Livy \/ LivyFails \/ EditTables
  BY <1>4, TablesServes DEF Livy, LivyFails
<1> QED BY <1>1, <1>2, <1>3, <1>4 DEF TablesNext

LEMMA TablesInitially ==
  ASSUME RunInit, TablesInit
  PROVE  TablesInv
<1>1. NoBundle \in Bundles /\ NoPosting \in Postings
  BY DEF NoBundle, NoStatement, NoPosting, Bundles, BundlePhases, Statements, Postings, TableStates
<1>2. approvedTables \in [Resources -> {"create", "no-op", "blocked"}]
  BY DEF TablesInit, PlanTables
<1>3. catalog \in [Resources -> TableStates]
  BY TablesBounds DEF TablesInit, Resources, TableStates
<1>4. /\ sessions = [s \in Sessions |-> "none"] /\ sessionLate = FALSE /\ statement = NoPosting
      /\ bundle = NoBundle /\ tablesDone = FALSE /\ session = NoSession /\ symbolic \in BOOLEAN
      /\ preflight = [r \in Resources |-> Unseen] /\ failing = FALSE /\ tableFlags = {}
      /\ pc = "idle" /\ edited = FALSE
  BY DEF TablesInit, RunInit
<1>5. /\ bundle.phase = "none" /\ bundle.session = NoSession /\ bundle.statement.phase = "none" /\ bundle.receipts = {}
      /\ statement.state = "none" /\ statement.in = NoSession /\ statement.saw = "absent"
  BY <1>4 DEF NoBundle, NoStatement, NoPosting
<1>6. TablesTypeOK /\ TablesShape
  BY <1>1, <1>2, <1>3, <1>4, <1>5 DEF TablesTypeOK, TablesShape, TableStates
<1>7. OneSession /\ RecordAtStep /\ StatementKnown /\ SeenInOrder
  BY <1>4, <1>5 DEF OneSession, NoneLive, Live, RecordAtStep, WithSession, StatementKnown, PostedIsRecorded,
     SeenInOrder, Recovering
<1>8. SeenIsThere
  BY <1>4, <1>5 DEF SeenIsThere, Unseen
<1> QED BY <1>6, <1>7, <1>8 DEF TablesInv

(* What the invariant says of the properties.                               *)
LEMMA TablesSafe ==
  ASSUME TablesInv
  PROVE  TablesTypeOK /\ SessionTracked /\ ReceiptsAreTrue /\ SchemaBeforeTable /\ OneStatementAtATime
<1>1. SessionTracked
  <2>1. /\ \A s, t \in LiveSessions : s = t
        /\ sessionLate => LiveSessions = {}
        /\ \A s \in LiveSessions : bundle.phase \in {"active", "cleanup-submitting"} => bundle.session = s
        /\ LiveSessions # {} \/ sessionLate => bundle.phase \notin {"none", "cleanup-complete"}
    BY DEF TablesInv, OneSession, NoneLive, LiveSessions
  <2>2. LiveSessions = {} \/ \E s \in LiveSessions : LiveSessions = {s}
    BY <2>1
  <2>3. Cardinality(LiveSessions) = IF LiveSessions = {} THEN 0 ELSE 1
    <3>1. CASE LiveSessions = {}
      BY <3>1, FS_EmptySet
    <3>2. ASSUME NEW s \in LiveSessions, LiveSessions = {s} PROVE Cardinality(LiveSessions) = 1 /\ LiveSessions # {}
      BY <3>2, FS_Singleton
    <3> QED BY <2>2, <3>1, <3>2
  <2> QED BY <2>1, <2>3 DEF SessionTracked
<1>2. ReceiptsAreTrue /\ SchemaBeforeTable
  BY DEF TablesInv, SeenIsThere, ReceiptsAreTrue, SchemaBeforeTable
<1>3. OneStatementAtATime
  BY DEF TablesInv, StatementKnown, OneStatementAtATime
<1> QED BY <1>1, <1>2, <1>3 DEF TablesInv

LEMMA TablesStays ==
  ASSUME TablesInv, UNCHANGED tablesAll
  PROVE  TablesInv'
<1>1. UNCHANGED <<catalog, sessions, sessionLate, statement, bundle, tablesDone, session, preflight, failing,
                  symbolic, approvedTables, tableFlags, pc, edited>>
  BY DEF tablesAll, runVars, tablesVars, lakehouse, tablesCp, tablesRun, tablesPlan
<1>2. TablesTypeOK' /\ TablesShape'
  BY <1>1 DEF TablesInv, TablesTypeOK, TablesShape
<1>3. OneSession' /\ RecordAtStep'
  BY <1>1 DEF TablesInv, OneSession, NoneLive, Live, RecordAtStep
<1>4. StatementKnown'
  BY <1>1 DEF TablesInv, StatementKnown, PostedIsRecorded, Runs, Live
<1>5. SeenInOrder'
  BY <1>1 DEF TablesInv, SeenInOrder, Inspected, AllMatch
<1>6. SeenIsThere'
  BY <1>1 DEF TablesInv, SeenIsThere, AllMatch, SchemaThere
<1> QED BY <1>2, <1>3, <1>4, <1>5, <1>6 DEF TablesInv

(* Over any number of runs one session at most is alive and the checkpoint  *)
(* leads to it, receipts are true, and statements come one at a time and    *)
(* schemas first (applyLakehouseTablesItem in lakehouse-tables.ts).         *)
THEOREM TablesCorrect == TablesSpec => [](SessionTracked /\ ReceiptsAreTrue /\ SchemaBeforeTable /\ OneStatementAtATime)
<1>1. RunInit /\ TablesInit => TablesInv
  BY TablesInitially
<1>2. TablesInv /\ [TablesNext]_tablesAll => TablesInv'
  BY TablesNextInv, TablesStays
<1>3. TablesInv => SessionTracked /\ ReceiptsAreTrue /\ SchemaBeforeTable /\ OneStatementAtATime
  BY TablesSafe
<1> QED BY <1>1, <1>2, <1>3, PTL DEF TablesSpec, tablesAll

-----------------------------------------------------------------------------
EnvironmentSteps ==
  {"begin environment", "read baseline", "verify environment", "resume create", "recover environment",
   "reconcile environment", "create", "patch", "stage", "publish", "clean", "read version", "await create",
   "await publish", "verify published", "check marker"}
(* The steps that follow only when there is an Environment.                 *)
OnEnvironment == {"read baseline", "patch", "stage", "publish", "clean", "read version", "await publish", "verify published",
                  "check marker"}
Kinds == {"none", "create", "operation", "update", "done"}
EnvRecords ==
  [kind : Kinds, saw : Environments,
   phase : {"none", "metadata-submitting", "metadata-updated", "definition-staged", "published", "marker-cleaned"}]
EnvOperations == [state : {"none", "creating", "created", "failed", "publishing"}, staged : Contents, marked : BOOLEAN]
EnvironmentShape ==
  /\ environment \in Environments /\ approvedEnv \in Environments
  /\ envOperation \in EnvOperations /\ envLate \subseteq Requests /\ envCp \in EnvRecords
  /\ mode \in {"none", "create", "update", "resume", "plain"} /\ target \in Nat /\ usesMarker \in BOOLEAN
  /\ pc \in {"idle", "succeeded"} \cup EnvironmentSteps /\ edited \in BOOLEAN /\ lost \in BOOLEAN

(* There is nothing to work on before the Environment is there, and it      *)
(* stays.                                                                   *)
OnceThere ==
  /\ (Missing(environment) => environment = NoEnvironment) /\ (Missing(approvedEnv) => approvedEnv = NoEnvironment)
  /\ Missing(environment) =>
       /\ Missing(approvedEnv) /\ envLate \subseteq {"create"} /\ envOperation.state \notin {"publishing", "created"}
       /\ pc \notin OnEnvironment
       /\ pc = "reconcile environment" => envCp.kind = "operation"
       /\ pc = "verify environment" => mode # "resume"
  /\ envOperation.state = "creating" => Missing(environment) /\ envCp.kind = "operation"
  /\ "create" \in envLate => envCp.kind \in {"create", "done"}
  /\ pc \in {"resume create", "await create"} => envCp.kind = "operation"
  /\ pc \in {"begin environment", "create"} => mode = "create"
  /\ pc = "begin environment" => envCp.kind = "none"
  /\ pc = "create" => envCp.kind = "create" /\ "create" \notin envLate
  /\ pc = "read baseline" => envCp.kind \in {"none", "update"}
  /\ pc = "patch" /\ mode = "update" => envCp.kind = "update"

(* Nothing is asked for, or recovered, without a record.                    *)
RecordedSteps ==
  {"resume create", "recover environment", "reconcile environment", "create", "patch", "stage", "publish", "clean",
   "read version", "await create", "await publish", "verify published", "check marker"}
RecordedFirst ==
  pc \in RecordedSteps \/ (pc = "verify environment" /\ mode = "resume") => envCp.kind # "none"

(* Unless requests are lost or somebody edits, what has no record has not   *)
(* been touched.                                                            *)
Untouched ==
  Observed(environment) = Observed(approvedEnv) /\ envLate = {} /\ envOperation.state \notin {"publishing", "creating"}
UnrecordedUntouched == ~edited /\ ~lost /\ (envCp.kind = "none" \/ pc = "create") => Untouched

(* What is about to be published is the desired definition.                 *)
StagedFirst ==
  ~edited =>
    /\ pc \in {"read version", "publish"} \/ "publish" \in envLate \/ envOperation.state = "created" =>
         environment.staged = "desired"
    /\ envOperation.state = "publishing" => envOperation.staged = "desired"

(* What carries the marker is the desired definition, or somebody else's.   *)
Marked(content) == content = "desired" \/ (edited /\ content = "foreign")
MarkerSpeaks ==
  /\ environment.marked => Marked(environment.staged)
  /\ environment.pubMarked => Marked(environment.published)
  /\ envOperation.marked => Marked(envOperation.staged)
  /\ ~usesMarker => ~environment.marked /\ ~environment.pubMarked /\ ~envOperation.marked

EnvironmentInv == EnvironmentShape /\ OnceThere /\ RecordedFirst /\ UnrecordedUntouched /\ StagedFirst /\ MarkerSpeaks

environmentAll == <<runVars, envVars>>

(* An Environment and its fields.                                           *)
LEMMA EnvironmentIs ==
  ASSUME NEW e \in Environments
  PROVE  /\ e = [meta |-> e.meta, staged |-> e.staged, marked |-> e.marked, published |-> e.published,
                 pubMarked |-> e.pubMarked, state |-> e.state, version |-> e.version]
         /\ e.meta \in Contents /\ e.staged \in Contents /\ e.marked \in BOOLEAN /\ e.published \in Contents
         /\ e.pubMarked \in BOOLEAN /\ e.state \in {"None", "Running", "Success", "Failed"} /\ e.version \in Nat
  BY DEF Environments

(* What a request makes of an Environment.                                  *)
EffectAsExpected(request, e, f) ==
  /\ f \in Environments /\ ~Missing(f)
  /\ e.staged = "desired" \/ request \in {"create", "stage"} => f.staged = "desired"
  /\ f.marked => (e.marked \/ usesMarker) /\ (f.staged = "desired" \/ (e.marked /\ f.staged = e.staged))
  /\ f.pubMarked => e.pubMarked /\ f.published = e.published

(* What a request makes of an Environment.                                  *)
LEMMA EffectIs ==
  ASSUME NEW request \in {"create", "patch", "stage", "clean"}, NEW e \in Environments, usesMarker \in BOOLEAN,
         request = "create" \/ ~Missing(e)
  PROVE  EffectAsExpected(request, e, Effect(request, e))
<1>1. CASE request = "create"
  <2>1. Effect(request, e) = [meta |-> "desired", staged |-> "desired", marked |-> usesMarker, published |-> "none",
                              pubMarked |-> FALSE, state |-> "None", version |-> 0]
    BY <1>1 DEF Effect, NoEnvironment
  <2>2. PICK f : f = Effect(request, e)
    OBVIOUS
  <2>3. f \in Environments
    BY <2>1, <2>2 DEF Environments, Contents
  <2>4. f.meta = "desired" /\ f.staged = "desired" /\ f.marked = usesMarker /\ f.pubMarked = FALSE
    BY <2>1, <2>2
  <2>5. ~Missing(f)
    BY <2>4 DEF Missing
  <2> QED BY <2>2, <2>3, <2>4, <2>5 DEF EffectAsExpected
<1>2. CASE request = "patch"
  <2>1. Effect(request, e) = [e EXCEPT !.meta = "desired"]
    BY <1>2 DEF Effect
  <2> QED BY <1>2, <2>1 DEF EffectAsExpected, Environments, Contents, Missing
<1>3. CASE request = "stage"
  <2>1. Effect(request, e) = [e EXCEPT !.staged = "desired", !.marked = usesMarker]
    BY <1>3 DEF Effect, Staged
  <2>2. Effect(request, e) = [[e EXCEPT !.staged = "desired"] EXCEPT !.marked = usesMarker]
    BY <2>1, Zenon
  <2>3. Effect(request, e) = [meta |-> e.meta, staged |-> "desired", marked |-> usesMarker, published |-> e.published,
                              pubMarked |-> e.pubMarked, state |-> e.state, version |-> e.version]
    BY <2>2 DEF Environments
  <2> QED BY <1>3, <2>3, EnvironmentIs DEF EffectAsExpected, Environments, Contents, Missing
<1>4. CASE request = "clean"
  <2>1. Effect(request, e) = [e EXCEPT !.marked = FALSE]
    BY <1>4 DEF Effect
  <2> QED BY <1>4, <2>1 DEF EffectAsExpected, Environments, Contents, Missing
<1> QED BY <1>1, <1>2, <1>3, <1>4

(* No request puts the marker on what is not as desired.                    *)
LEMMA MarkerStays ==
  ASSUME MarkerSpeaks, NEW request, EffectAsExpected(request, environment, environment'),
         UNCHANGED <<usesMarker, edited>>,
         envOperation'.marked => envOperation.marked /\ envOperation'.staged = envOperation.staged
  PROVE  MarkerSpeaks'
  BY DEF MarkerSpeaks, EffectAsExpected, Marked

(* What the plan makes of an Environment.                                   *)
LEMMA PlanIs ==
  ASSUME NEW e
  PROVE  /\ PlanEnvironment(e) \in {"create", "blocked", "no-op", "update"}
         /\ (PlanEnvironment(e) = "create") <=> Missing(e)
<1>1. CASE Missing(e)
  BY <1>1 DEF PlanEnvironment, Converged, StagedAsDesired, Missing
<1>2. CASE ~Missing(e) /\ e.state = "Running"
  BY <1>2 DEF PlanEnvironment
<1>3. CASE ~Missing(e) /\ e.state # "Running" /\ Converged(e)
  BY <1>3 DEF PlanEnvironment, Converged
<1>4. CASE ~Missing(e) /\ e.state # "Running" /\ ~Converged(e)
  BY <1>4 DEF PlanEnvironment
<1> QED BY <1>1, <1>2, <1>3, <1>4

(* A step in which only the run moves on.                                   *)
LEMMA EnvironmentRunStep ==
  ASSUME EnvironmentInv, UNCHANGED <<usesMarker, approvedEnv, environment, envOperation, envLate, edited>>,
         lost' \in BOOLEAN, lost => lost', envCp' \in EnvRecords,
         mode' \in {"none", "create", "update", "resume", "plain"}, target' \in Nat,
         pc' \in {"idle", "succeeded"} \cup EnvironmentSteps,
         Missing(environment) => /\ pc' \notin OnEnvironment
                                 /\ pc' = "reconcile environment" => envCp'.kind = "operation"
                                 /\ pc' = "verify environment" => mode' # "resume",
         envOperation.state = "creating" => envCp'.kind = "operation",
         "create" \in envLate => envCp'.kind \in {"create", "done"},
         pc' \in {"resume create", "await create"} => envCp'.kind = "operation",
         pc' \in {"begin environment", "create"} => mode' = "create",
         pc' = "begin environment" => envCp'.kind = "none",
         pc' = "create" => envCp'.kind = "create" /\ "create" \notin envLate,
         pc' = "patch" /\ mode' = "update" => envCp'.kind = "update",
         pc' = "read baseline" => envCp'.kind \in {"none", "update"},
         pc' \in RecordedSteps \/ (pc' = "verify environment" /\ mode' = "resume") => envCp'.kind # "none",
         (~edited /\ ~lost' /\ (envCp'.kind = "none" \/ pc' = "create")) => Untouched,
         (~edited /\ pc' \in {"read version", "publish"}) => environment.staged = "desired"
  PROVE  EnvironmentInv'
<1>1. EnvironmentShape'
  BY DEF EnvironmentInv, EnvironmentShape
<1>2. OnceThere'
  BY DEF EnvironmentInv, OnceThere, Missing
<1>3. UnrecordedUntouched'
  BY DEF UnrecordedUntouched, Untouched, Observed, StagedAsDesired
<1>4. StagedFirst'
  BY DEF EnvironmentInv, StagedFirst
<1>5. MarkerSpeaks'
  BY DEF EnvironmentInv, MarkerSpeaks, Marked
<1>6. RecordedFirst'
  BY DEF RecordedFirst
<1> QED BY <1>1, <1>2, <1>3, <1>4, <1>5, <1>6 DEF EnvironmentInv

(* One that ends the run, or leaves it to find out what became of a create. *)
LEMMA EnvironmentGivesUp ==
  ASSUME EnvironmentInv, UNCHANGED <<usesMarker, approvedEnv, environment, envOperation, envLate, edited, envCp, mode>>,
         lost' \in BOOLEAN, lost => lost', target' \in Nat,
         pc' = "idle" \/ (pc' = "reconcile environment"
                            /\ (~Missing(environment) \/ pc \in {"await create", "resume create"})
                            /\ (pc \in RecordedSteps \/ (pc = "verify environment" /\ mode = "resume")))
  PROVE  EnvironmentInv'
<1>1. pc' \in {"idle", "succeeded"} \cup EnvironmentSteps /\ pc' \notin OnEnvironment /\ pc' \in {"idle", "reconcile environment"}
  BY DEF EnvironmentSteps, OnEnvironment
<1>2. envCp' \in EnvRecords /\ mode' \in {"none", "create", "update", "resume", "plain"}
  BY DEF EnvironmentInv, EnvironmentShape
<1>3. /\ Missing(environment) /\ pc' = "reconcile environment" => envCp'.kind = "operation"
      /\ envOperation.state = "creating" => envCp'.kind = "operation"
      /\ "create" \in envLate => envCp'.kind \in {"create", "done"}
  BY DEF EnvironmentInv, OnceThere
<1>4. ~edited /\ ~lost' /\ envCp'.kind = "none" => Untouched
  BY DEF EnvironmentInv, UnrecordedUntouched
<1>5. pc' = "reconcile environment" => envCp'.kind # "none"
  BY DEF EnvironmentInv, RecordedFirst
<1>6. pc' \in RecordedSteps \/ (pc' = "verify environment" /\ mode' = "resume") => envCp'.kind # "none"
  BY <1>1, <1>5 DEF RecordedSteps, EnvironmentSteps
<1> QED BY <1>1, <1>2, <1>3, <1>4, <1>6, EnvironmentRunStep

LEMMA NoEnvironmentIs == NoEnvironment \in Environments /\ NoEnvRecord \in EnvRecords
<1>1. NoEnvironment \in Environments
  BY DEF NoEnvironment, Environments, Contents
<1> QED BY <1>1 DEF NoEnvRecord, EnvRecords, Kinds

(* The records that the code writes.                                        *)
LEMMA OfKind ==
  ASSUME NEW kind \in Kinds
  PROVE  [NoEnvRecord EXCEPT !.kind = kind] \in EnvRecords /\ [NoEnvRecord EXCEPT !.kind = kind].kind = kind
<1>1. [NoEnvRecord EXCEPT !.kind = kind] = [kind |-> kind, phase |-> "none", saw |-> NoEnvironment]
  BY DEF NoEnvRecord
<1> QED BY <1>1, NoEnvironmentIs DEF EnvRecords

(* The steps that read, and write the record at most.                       *)
LEMMA EnvironmentReads ==
  ASSUME EnvironmentInv,
         StartEnvironment \/ RecoverEnvironment \/ ReconcileEnvironment \/ BeginCreate \/ ReadBaseline \/ ReadVersion
  PROVE  EnvironmentInv'
<1>1. /\ environment \in Environments /\ approvedEnv \in Environments /\ envCp \in EnvRecords /\ lost \in BOOLEAN
      /\ mode \in {"none", "create", "update", "resume", "plain"} /\ target \in Nat
      /\ pc \in {"idle", "succeeded"} \cup EnvironmentSteps
  BY DEF EnvironmentInv, EnvironmentShape
<1>2. /\ OnceThere /\ (~edited /\ ~lost /\ (envCp.kind = "none" \/ pc = "create") => Untouched)
      /\ envCp.kind \in Kinds /\ (pc \in RecordedSteps => envCp.kind # "none")
  BY <1>1 DEF EnvironmentInv, UnrecordedUntouched, RecordedFirst, EnvRecords
<1> USE DEF Goto, Fail
<1>3. CASE StartEnvironment
  <2>1. /\ UNCHANGED <<usesMarker, approvedEnv, environment, envOperation, envLate, edited, lost, envCp>> /\ target' = 0
        /\ \/ pc' = "idle" /\ mode' = "none"
           \/ envCp.kind = "none" /\ Missing(approvedEnv) /\ pc' = "begin environment" /\ mode' = "create"
           \/ envCp.kind = "none" /\ ~Missing(approvedEnv) /\ pc' = "read baseline" /\ mode' = "update"
           \/ envCp.kind = "none" /\ pc' = "verify environment" /\ mode' = "plain"
           \/ envCp.kind = "operation" /\ pc' = "resume create" /\ mode' = "resume"
           \/ envCp.kind = "done" /\ pc' = "verify environment" /\ mode' = "plain"
           \/ envCp.kind \in {"create", "update"} /\ pc' = "recover environment" /\ mode' = "plain"
    <3>1. /\ UNCHANGED <<usesMarker, approvedEnv, environment, envOperation, envLate, edited, lost, envCp>> /\ target' = 0
      BY <1>3 DEF StartEnvironment, OnlyReadsEnvironment, envPlan, envService, KeepEnvRecord, NoFault
    <3>2. CASE envCp.kind = "none"
      <4>1. CASE Observed(environment) = Observed(approvedEnv) /\ ApprovedAction # "blocked"
        <5>1. pc' = FreshStep /\ mode' = IF ApprovedAction = "no-op" THEN "plain" ELSE ApprovedAction
          BY <1>3, <3>2, <4>1 DEF StartEnvironment
        <5>2. /\ ApprovedAction \in {"create", "no-op", "update"} /\ ((ApprovedAction = "create") <=> Missing(approvedEnv))
          BY <4>1, PlanIs DEF ApprovedAction
        <5> QED BY <3>1, <3>2, <5>1, <5>2 DEF FreshStep
      <4>2. CASE ~(Observed(environment) = Observed(approvedEnv) /\ ApprovedAction # "blocked")
        BY <1>3, <3>1, <3>2, <4>2 DEF StartEnvironment
      <4> QED BY <4>1, <4>2
    <3>3. CASE envCp.kind # "none"
      BY <1>2, <1>3, <3>1, <3>3 DEF StartEnvironment, RerunStep, EnvironmentDone, Kinds
    <3> QED BY <3>2, <3>3
  <2>2. pc' \in {"idle", "succeeded"} \cup EnvironmentSteps
    BY <2>1 DEF EnvironmentSteps
  <2>3. Missing(environment) => pc' \notin OnEnvironment /\ pc' # "reconcile environment" /\ (pc' = "verify environment" => mode' # "resume")
    BY <1>2, <2>1 DEF OnceThere, OnEnvironment
  <2>4. /\ envOperation.state = "creating" => envCp.kind = "operation"
        /\ "create" \in envLate => envCp.kind \in {"create", "done"}
    BY <1>2 DEF OnceThere
  <2> QED BY <1>1, <1>2, <2>1, <2>2, <2>3, <2>4, EnvironmentRunStep DEF RecordedSteps
<1>4. CASE RecoverEnvironment \/ ReconcileEnvironment
  <2>1. /\ UNCHANGED <<usesMarker, approvedEnv, environment, envOperation, envLate, edited, lost>> /\ target' \in Nat
        /\ pc \in {"recover environment", "reconcile environment"} /\ envCp' \in {envCp, NoEnvRecord}
        /\ mode' \in {"none", "create", "update", "resume", "plain"}
        /\ \/ pc' = "idle"
           \/ ~Missing(environment) /\ pc' = "verify environment" /\ mode' = "plain"
           \/ ~Missing(environment) /\ pc' = "patch" /\ mode' = "plain"
           \/ ~Missing(environment) /\ pc' = "read baseline" /\ envCp'.kind = "update"
        /\ envCp' # envCp => Missing(environment) /\ envOperation.state = "failed" /\ pc = "reconcile environment" /\ pc' = "idle"
    <3>1. CASE RecoverEnvironment
      BY <1>1, <3>1, PlanIs DEF RecoverEnvironment, OnlyReadsEnvironment, envPlan, envService, KeepEnvRecord, NoFault
    <3>2. CASE ReconcileEnvironment
      BY <1>1, <3>2, PlanIs DEF ReconcileEnvironment, OnlyReadsEnvironment, envPlan, envService, KeepEnvRecord, NoFault
    <3> QED BY <1>4, <3>1, <3>2
  <2>2. pc' \in {"idle", "succeeded"} \cup EnvironmentSteps
    BY <2>1 DEF EnvironmentSteps
  <2>3. envCp' \in EnvRecords
    BY <1>1, <2>1, NoEnvironmentIs
  <2>4. ASSUME envCp' # envCp
        PROVE  Untouched /\ "create" \notin envLate /\ envOperation.state # "creating"
    <3>1. /\ environment = NoEnvironment /\ approvedEnv = NoEnvironment /\ envLate \subseteq {"create"}
          /\ envCp.kind = "operation" /\ "create" \notin envLate
      BY <1>2, <2>1, <2>4 DEF OnceThere
    <3> QED BY <2>1, <2>4, <3>1 DEF Untouched
  <2>5. /\ envOperation.state = "creating" => envCp'.kind = "operation"
        /\ "create" \in envLate => envCp'.kind \in {"create", "done"}
    BY <1>2, <2>1, <2>4 DEF OnceThere
  <2>6. ~edited /\ ~lost' /\ envCp'.kind = "none" => Untouched
    BY <1>2, <2>1, <2>4
  <2>7. /\ pc' \notin {"resume create", "await create", "begin environment", "create", "read version", "publish",
                      "reconcile environment"}
        /\ Missing(environment) => pc' = "idle"
    BY <2>1
  <2>8. Missing(environment) => /\ pc' \notin OnEnvironment
                                /\ pc' = "reconcile environment" => envCp'.kind = "operation"
                                /\ pc' = "verify environment" => mode' # "resume"
    BY <2>7 DEF OnEnvironment
  <2>9. pc' \in RecordedSteps \/ (pc' = "verify environment" /\ mode' = "resume") => envCp'.kind # "none"
    BY <1>2, <2>1 DEF RecordedSteps
  <2>10. /\ pc' = "read baseline" => envCp'.kind \in {"none", "update"}
         /\ pc' = "patch" /\ mode' = "update" => envCp'.kind = "update"
    BY <2>1
  <2> QED BY <1>1, <2>1, <2>2, <2>3, <2>5, <2>6, <2>7, <2>8, <2>9, <2>10, EnvironmentRunStep
<1>5. CASE BeginCreate
  <2>1. /\ UNCHANGED <<usesMarker, approvedEnv, environment, envOperation, envLate, edited, lost, mode, target>>
        /\ pc = "begin environment" /\ pc' = "create" /\ envCp' = [NoEnvRecord EXCEPT !.kind = "create"]
    BY <1>5 DEF BeginCreate, OnlyReadsEnvironment, envPlan, envService, NoFault
  <2>2. envCp' \in EnvRecords /\ envCp'.kind = "create"
    BY <2>1, OfKind DEF Kinds
  <2>3. envCp.kind = "none" /\ mode = "create" /\ "create" \notin envLate /\ envOperation.state # "creating" /\ (~edited /\ ~lost => Untouched)
    BY <1>2, <2>1 DEF OnceThere
  <2>4. pc' \in EnvironmentSteps /\ pc' \notin OnEnvironment
    BY <2>1 DEF EnvironmentSteps, OnEnvironment
  <2> QED BY <1>1, <2>1, <2>2, <2>3, <2>4, EnvironmentRunStep DEF RecordedSteps
<1>6. CASE ReadBaseline
  <2>1. /\ UNCHANGED <<usesMarker, approvedEnv, environment, envOperation, envLate, edited, lost, mode, target>>
        /\ pc = "read baseline" /\ pc' = "patch"
        /\ envCp' = [kind |-> "update", phase |-> "metadata-submitting", saw |-> environment]
    BY <1>6 DEF ReadBaseline, OnlyReadsEnvironment, envPlan, envService, NoFault
  <2>2. envCp' \in EnvRecords /\ envCp'.kind = "update"
    BY <1>1, <2>1 DEF EnvRecords, Kinds
  <2>3. ~Missing(environment)
    BY <1>2, <2>1 DEF OnceThere, OnEnvironment
  <2>4. envOperation.state # "creating"
    BY <1>2, <2>3 DEF OnceThere
  <2>5. pc' \in EnvironmentSteps
    BY <2>1 DEF EnvironmentSteps
  <2>6. envCp.kind \in {"none", "update"} /\ "create" \notin envLate
    BY <1>2, <2>1 DEF OnceThere
  <2> QED BY <1>1, <2>1, <2>2, <2>3, <2>4, <2>5, <2>6, EnvironmentRunStep DEF RecordedSteps
<1>7. CASE ReadVersion
  <2>1. /\ UNCHANGED <<usesMarker, approvedEnv, environment, envOperation, envLate, edited, lost, mode, envCp>>
        /\ pc = "read version" /\ pc' = "publish" /\ target' = environment.version
    BY <1>7 DEF ReadVersion, OnlyReadsEnvironment, envPlan, envService, KeepEnvRecord, NoFault
  <2>2. ~Missing(environment) /\ pc' \in EnvironmentSteps /\ target' \in Nat
    BY <1>1, <1>2, <2>1, EnvironmentIs DEF OnceThere, OnEnvironment, EnvironmentSteps
  <2>3. /\ envOperation.state = "creating" => envCp.kind = "operation"
        /\ "create" \in envLate => envCp.kind \in {"create", "done"}
    BY <1>2 DEF OnceThere
  <2>4. ~edited => environment.staged = "desired"
    BY <2>1 DEF EnvironmentInv, StagedFirst
  <2> QED BY <1>1, <1>2, <2>1, <2>2, <2>3, <2>4, EnvironmentRunStep DEF RecordedSteps
<1> QED BY <1>3, <1>4, <1>5, <1>6, <1>7

LEMMA Phased ==
  ASSUME NEW record \in EnvRecords,
         NEW phase \in {"none", "metadata-submitting", "metadata-updated", "definition-staged", "published", "marker-cleaned"}
  PROVE  [record EXCEPT !.phase = phase] \in EnvRecords /\ [record EXCEPT !.phase = phase].kind = record.kind
<1>1. [record EXCEPT !.phase = phase] = [kind |-> record.kind, phase |-> phase, saw |-> record.saw]
  BY DEF EnvRecords
<1> QED BY <1>1 DEF EnvRecords

LEMMA LastErrors ==
  ASSUME NEW operationFailed \in BOOLEAN, EnvironmentError(operationFailed)
  PROVE  /\ pc' \in {"idle", "reconcile environment"}
         /\ pc' = "reconcile environment" => mode = "resume" \/ (mode = "create" /\ operationFailed)
  BY DEF EnvironmentError, Goto, Fail

LEMMA VerifiesIs ==
  ASSUME NEW marked, Verifies(environment, marked)
  PROVE  ~Missing(environment) /\ environment.staged = "desired" /\ environment.marked = marked /\ Published(environment)
  BY DEF Verifies, StagedAsDesired, Missing

(* The steps that wait for an operation, and the crash.                     *)
LEMMA EnvironmentAwaits ==
  ASSUME EnvironmentInv, AwaitCreate \/ AwaitPublish \/ CheckMarker \/ CrashEnvironment
  PROVE  EnvironmentInv'
<1>1. /\ environment \in Environments /\ envCp \in EnvRecords /\ lost \in BOOLEAN
      /\ mode \in {"none", "create", "update", "resume", "plain"} /\ target \in Nat /\ OnceThere
      /\ (~edited /\ ~lost /\ envCp.kind = "none" => Untouched)
      /\ (pc \in RecordedSteps => envCp.kind # "none")
  BY DEF EnvironmentInv, EnvironmentShape, UnrecordedUntouched, RecordedFirst
<1>2. /\ envOperation.state = "creating" => envCp.kind = "operation"
      /\ "create" \in envLate => envCp.kind \in {"create", "done"}
  BY <1>1 DEF OnceThere
<1>3. CASE AwaitCreate
  <2>1. /\ UNCHANGED <<usesMarker, approvedEnv, environment, envOperation, envLate, edited, lost, envCp, mode, target>>
        /\ pc = "await create"
        /\ \/ envOperation.state = "created" /\ pc' = "read version"
           \/ pc' \in {"idle", "reconcile environment"}
    <3>1. /\ UNCHANGED <<usesMarker, approvedEnv, environment, envOperation, envLate, edited, lost, envCp, mode, target>>
          /\ pc = "await create"
      BY <1>3 DEF AwaitCreate, envPlan, envService, KeepEnvRecord, NoFault, Fault, SpendFault
    <3> QED BY <1>3, <3>1, LastErrors DEF AwaitCreate, Goto
  <2>2. CASE pc' = "read version"
    <3>1. envOperation.state = "created"
      BY <2>1, <2>2
    <3>2. ~Missing(environment) /\ (~edited => environment.staged = "desired") /\ pc' \in EnvironmentSteps
      BY <1>1, <2>2, <3>1 DEF OnceThere, EnvironmentInv, StagedFirst, EnvironmentSteps
    <3> QED BY <1>1, <1>2, <2>1, <2>2, <3>2, EnvironmentRunStep DEF RecordedSteps
  <2>3. CASE pc' # "read version"
    BY <1>1, <2>1, <2>3, EnvironmentGivesUp DEF RecordedSteps
  <2> QED BY <2>2, <2>3
<1>4. CASE AwaitPublish
  <2>1. /\ UNCHANGED <<usesMarker, approvedEnv, environment, envOperation, envLate, edited, envCp, mode>>
        /\ pc = "await publish" /\ lost' \in BOOLEAN /\ (lost => lost')
        /\ \/ pc' = "verify published" /\ target' = environment.version
           \/ pc' \in {"idle", "reconcile environment"} /\ target' = target
    <3>1. /\ UNCHANGED <<usesMarker, approvedEnv, environment, envOperation, envLate, edited, envCp, mode>>
          /\ pc = "await publish" /\ (lost' = lost \/ lost' = TRUE)
      BY <1>4 DEF AwaitPublish, envPlan, envService, KeepEnvRecord, NoFault, Fault, Loss, SpendFault
    <3>2. \/ pc' = "verify published" /\ target' = environment.version
          \/ pc' \in {"idle", "reconcile environment"} /\ target' = target
      BY <1>4, LastErrors DEF AwaitPublish, Goto
    <3> QED BY <1>1, <3>1, <3>2
  <2>2. ~Missing(environment) /\ environment.version \in Nat
    BY <1>1, <2>1, EnvironmentIs DEF OnceThere, OnEnvironment
  <2>3. CASE pc' = "verify published"
    <3>1. pc' \in EnvironmentSteps /\ target' \in Nat
      BY <2>1, <2>2, <2>3 DEF EnvironmentSteps
    <3>2. ~edited /\ ~lost' /\ envCp'.kind = "none" => Untouched
      BY <1>1, <2>1
    <3> QED BY <1>1, <1>2, <2>1, <2>2, <2>3, <3>1, <3>2, EnvironmentRunStep DEF RecordedSteps
  <2>4. CASE pc' # "verify published"
    BY <1>1, <2>1, <2>2, <2>4, EnvironmentGivesUp DEF RecordedSteps
  <2> QED BY <2>3, <2>4
<1>5. CASE CheckMarker
  <2>1. /\ UNCHANGED <<usesMarker, approvedEnv, environment, envOperation, envLate, edited, lost, envCp, mode, target>>
        /\ pc = "check marker" /\ pc' \in {"clean", "idle", "reconcile environment"}
    <3>1. /\ UNCHANGED <<usesMarker, approvedEnv, environment, envOperation, envLate, edited, lost, envCp, mode, target>>
          /\ pc = "check marker"
      BY <1>5 DEF CheckMarker, OnlyReadsEnvironment, envPlan, envService, KeepEnvRecord, NoFault
    <3> QED BY <1>5, <3>1, LastErrors DEF CheckMarker, Goto
  <2>2. ~Missing(environment)
    BY <1>1, <2>1 DEF OnceThere, OnEnvironment
  <2>3. CASE pc' = "clean"
    <3>1. pc' \in EnvironmentSteps
      BY <2>3 DEF EnvironmentSteps
    <3> QED BY <1>1, <1>2, <2>1, <2>2, <2>3, <3>1, EnvironmentRunStep DEF RecordedSteps
  <2>4. CASE pc' # "clean"
    BY <1>1, <2>1, <2>2, <2>4, EnvironmentGivesUp DEF RecordedSteps
  <2> QED BY <2>3, <2>4
<1>6. CASE CrashEnvironment
  <2>1. /\ UNCHANGED <<usesMarker, approvedEnv, environment, envOperation, envLate, edited, lost, envCp, mode, target>>
        /\ pc' = "idle"
    BY <1>6 DEF CrashEnvironment, envVars, envPlan, envService, Fail, Fault, SpendFault
  <2> QED BY <1>1, <2>1, EnvironmentGivesUp DEF RecordedSteps
<1> QED BY <1>3, <1>4, <1>5, <1>6

(* A create of an earlier run is resumed.                                   *)
LEMMA EnvironmentResumes ==
  ASSUME EnvironmentInv, ResumeEnvironmentCreate
  PROVE  EnvironmentInv'
<1>1. /\ environment \in Environments /\ envCp \in EnvRecords /\ lost \in BOOLEAN
      /\ mode \in {"none", "create", "update", "resume", "plain"} /\ target \in Nat /\ OnceThere
      /\ (~edited /\ ~lost /\ envCp.kind = "none" => Untouched)
      /\ (pc \in RecordedSteps => envCp.kind # "none")
  BY DEF EnvironmentInv, EnvironmentShape, UnrecordedUntouched, RecordedFirst
<1>2. /\ envOperation.state = "creating" => envCp.kind = "operation"
      /\ "create" \in envLate => envCp.kind \in {"create", "done"}
  BY <1>1 DEF OnceThere
<1>3. /\ UNCHANGED <<usesMarker, approvedEnv, environment, envOperation, envLate, edited, lost, envCp, mode>>
      /\ pc = "resume create" /\ target' = environment.version
  BY DEF ResumeEnvironmentCreate, envPlan, envService, KeepEnvRecord, NoFault, Fault, SpendFault
<1>4. \/ pc' \in {"idle", "reconcile environment"}
      \/ StagedAsDesired(environment) /\ pc' \in {"verify environment", "check marker", "read version"}
  <2>1. \/ AfterResumedCreate(environment) = "error" /\ EnvironmentError(FALSE)
        \/ AfterResumedCreate(environment) # "error" /\ pc' = AfterResumedCreate(environment)
        \/ EnvironmentError(TRUE) \/ EnvironmentError(FALSE)
    BY DEF ResumeEnvironmentCreate, Goto
  <2>2. AfterResumedCreate(environment) # "error" =>
          /\ StagedAsDesired(environment)
          /\ AfterResumedCreate(environment) \in {"verify environment", "check marker", "read version"}
    BY DEF AfterResumedCreate, Converged
  <2> QED BY <2>1, <2>2, LastErrors
<1>5. target' \in Nat /\ envCp.kind = "operation"
  BY <1>1, <1>3, EnvironmentIs DEF OnceThere
<1>6. CASE pc' \in {"idle", "reconcile environment"}
  BY <1>1, <1>3, <1>5, <1>6, EnvironmentGivesUp DEF RecordedSteps
<1>7. CASE StagedAsDesired(environment) /\ pc' \in {"verify environment", "check marker", "read version"}
  <2>1. ~Missing(environment) /\ environment.staged = "desired" /\ pc' \in EnvironmentSteps
    BY <1>7 DEF StagedAsDesired, Missing, EnvironmentSteps
  <2> QED BY <1>1, <1>2, <1>3, <1>5, <1>7, <2>1, EnvironmentRunStep DEF RecordedSteps
<1> QED BY <1>4, <1>6, <1>7

(* The readings after which a phase or the item is complete.                *)
LEMMA EnvironmentVerifies ==
  ASSUME EnvironmentInv, VerifyPublished \/ VerifyEnvironment
  PROVE  EnvironmentInv'
<1>1. /\ environment \in Environments /\ envCp \in EnvRecords /\ lost \in BOOLEAN
      /\ mode \in {"none", "create", "update", "resume", "plain"} /\ target \in Nat /\ OnceThere
      /\ (~edited /\ ~lost /\ envCp.kind = "none" => Untouched)
      /\ (pc \in RecordedSteps => envCp.kind # "none")
  BY DEF EnvironmentInv, EnvironmentShape, UnrecordedUntouched, RecordedFirst
<1>2. /\ envOperation.state = "creating" => envCp.kind = "operation"
      /\ "create" \in envLate => envCp.kind \in {"create", "done"}
  BY <1>1 DEF OnceThere
<1>3. /\ UNCHANGED <<usesMarker, approvedEnv, environment, envOperation, envLate, edited, lost, mode, target>>
      /\ pc \in {"verify published", "verify environment"}
  BY DEF VerifyPublished, VerifyEnvironment, OnlyReadsEnvironment, envPlan, envService, NoFault
<1>4. CASE UNCHANGED envCp /\ EnvironmentError(FALSE)
  <2>1. pc' \in {"idle", "reconcile environment"} /\ (pc' = "reconcile environment" => mode = "resume")
    BY <1>4, LastErrors
  <2>2. pc' = "idle" \/ ~Missing(environment)
    BY <1>1, <1>3, <2>1 DEF OnceThere, OnEnvironment
  <2> QED BY <1>1, <1>3, <1>4, <2>1, <2>2, EnvironmentGivesUp DEF RecordedSteps
<1>5. CASE VerifyPublished /\ Verifies(environment, usesMarker)
  <2>1. /\ pc' \in {"check marker", "verify environment"} /\ envCp' \in EnvRecords /\ envCp'.kind = envCp.kind
    BY <1>1, <1>5, Phased DEF VerifyPublished, Phase, Goto
  <2>2. ~Missing(environment) /\ pc' \in EnvironmentSteps
    BY <1>5, <2>1, VerifiesIs DEF EnvironmentSteps
  <2>3. envCp.kind # "none"
    BY <1>1, <1>5 DEF VerifyPublished, RecordedSteps
  <2> QED BY <1>1, <1>2, <1>3, <2>1, <2>2, <2>3, EnvironmentRunStep DEF RecordedSteps
<1>6. CASE VerifyEnvironment /\ Verifies(environment, FALSE)
  <2>1. pc' = "succeeded" /\ envCp' \in EnvRecords /\ envCp'.kind = "done"
    BY <1>6, OfKind DEF VerifyEnvironment, Goto, Kinds
  <2>2. ~Missing(environment)
    BY <1>6, VerifiesIs
  <2>3. envOperation.state # "creating"
    BY <1>1, <2>2 DEF OnceThere
  <2> QED BY <1>1, <1>3, <2>1, <2>2, <2>3, EnvironmentRunStep DEF RecordedSteps
<1>7. \/ UNCHANGED envCp /\ EnvironmentError(FALSE)
      \/ VerifyPublished /\ Verifies(environment, usesMarker)
      \/ VerifyEnvironment /\ Verifies(environment, FALSE)
  BY DEF VerifyPublished, VerifyEnvironment, KeepEnvRecord
<1> QED BY <1>4, <1>5, <1>6, <1>7

LEMMA EnvironmentIsRejected ==
  ASSUME EnvironmentInv, EnvironmentRejected
  PROVE  EnvironmentInv'
<1>1. /\ environment \in Environments /\ envCp \in EnvRecords /\ lost \in BOOLEAN
      /\ mode \in {"none", "create", "update", "resume", "plain"} /\ target \in Nat /\ OnceThere
      /\ (~edited /\ ~lost /\ (envCp.kind = "none" \/ pc = "create") => Untouched)
      /\ (pc \in RecordedSteps => envCp.kind # "none")
  BY DEF EnvironmentInv, EnvironmentShape, UnrecordedUntouched, RecordedFirst
<1>2. /\ envOperation.state = "creating" => envCp.kind = "operation"
      /\ "create" \in envLate => envCp.kind \in {"create", "done"}
  BY <1>1 DEF OnceThere
<1>3. /\ UNCHANGED <<usesMarker, approvedEnv, environment, envOperation, envLate, edited, mode, target>>
      /\ pc \in Requests /\ lost' \in BOOLEAN /\ (lost => lost') /\ (AnEarlierAttempt => lost')
      /\ envCp' = IF ClearsRecord(pc) THEN NoEnvRecord ELSE envCp
  <2>1. /\ UNCHANGED <<usesMarker, approvedEnv, environment, envOperation, envLate, edited, mode, target>>
        /\ pc \in Requests /\ (IF AnEarlierAttempt THEN lost' = TRUE ELSE lost' = lost)
        /\ envCp' = IF ClearsRecord(pc) THEN NoEnvRecord ELSE envCp
    BY DEF EnvironmentRejected, envPlan, envService, Fault, Loss, SpendFault
  <2> QED BY <1>1, <2>1
<1>4. pc' \in {"idle", "reconcile environment"} /\ (pc' = "reconcile environment" => mode = "resume")
  BY LastErrors DEF EnvironmentRejected
<1>5. pc' = "idle" \/ ~Missing(environment)
  BY <1>1, <1>3, <1>4 DEF OnceThere, OnEnvironment, Requests
<1>6. CASE ~ClearsRecord(pc)
  <2>1. pc \in RecordedSteps
    BY <1>3 DEF Requests, RecordedSteps
  <2> QED BY <1>1, <2>1, <1>3, <1>4, <1>5, <1>6, EnvironmentGivesUp
<1>7. CASE ClearsRecord(pc)
  <2>1. envCp' \in EnvRecords /\ envCp'.kind = "none"
    BY <1>3, <1>7, NoEnvironmentIs DEF NoEnvRecord
  <2>2. pc' = "idle" \/ pc = "patch"
    BY <1>1, <1>4, <1>7 DEF ClearsRecord, OnceThere
  <2>3. "create" \notin envLate
    BY <1>1, <1>7 DEF ClearsRecord, OnceThere
  <2>4. envOperation.state # "creating"
    BY <1>1, <1>7 DEF ClearsRecord, OnceThere, OnEnvironment
  <2>5. ASSUME ~edited, ~lost'
        PROVE  Untouched
    <3>1. CASE pc = "create"
      BY <1>1, <1>3, <2>5, <3>1
    <3>2. CASE pc = "patch" /\ mode = "update"
      BY <1>3, <2>4, <2>5, <3>2 DEF AnEarlierAttempt, Untouched
    <3> QED BY <1>7, <3>1, <3>2 DEF ClearsRecord
  <2>6. pc' = "idle"
    BY <1>1, <1>4, <1>7 DEF ClearsRecord, OnceThere
  <2>7. pc' \notin OnEnvironment
    BY <2>6 DEF OnEnvironment
  <2> QED BY <1>1, <1>3, <2>1, <2>3, <2>4, <2>5, <2>6, <2>7, EnvironmentRunStep DEF RecordedSteps
<1> QED BY <1>6, <1>7

(* A step at an Environment that is there afterwards.                       *)
LEMMA EnvironmentWorks ==
  ASSUME EnvironmentInv, UNCHANGED <<usesMarker, approvedEnv, mode, target>>,
         environment' \in Environments, ~Missing(environment'), envOperation' \in EnvOperations,
         envOperation'.state # "creating", envLate' \subseteq Requests, envCp' \in EnvRecords, envCp'.kind = envCp.kind,
         edited' \in BOOLEAN, lost' \in BOOLEAN,
         "create" \in envLate' => envCp.kind \in {"create", "done"},
         \/ pc' = pc
         \/ /\ pc' \in {"idle", "reconcile environment", "read version", "stage", "verify environment", "await publish"}
            /\ pc \in RecordedSteps,
         pc' = "create" => "create" \notin envLate',
         ~(~edited' /\ ~lost' /\ (envCp.kind = "none" \/ pc' = "create")), StagedFirst', MarkerSpeaks'
  PROVE  EnvironmentInv'
<1>1. EnvironmentShape /\ OnceThere /\ RecordedFirst
  BY DEF EnvironmentInv
<1>2. pc' \in {"idle", "succeeded"} \cup EnvironmentSteps
  BY <1>1 DEF EnvironmentShape, EnvironmentSteps
<1>3. EnvironmentShape'
  BY <1>1, <1>2 DEF EnvironmentShape
<1>4. OnceThere'
  <2>1. ~Missing(environment)' /\ ~(envOperation.state = "creating")'
    BY DEF Missing
  <2>2. pc' # pc => pc' \notin {"resume create", "await create", "begin environment", "create", "read baseline", "patch"}
    OBVIOUS
  <2>3. (Missing(approvedEnv) => approvedEnv = NoEnvironment)'
    BY <1>1 DEF OnceThere, Missing
  <2>4. CASE pc' = pc
    BY <1>1, <2>1, <2>3, <2>4 DEF OnceThere
  <2>5. CASE pc' # pc
    BY <1>1, <2>1, <2>2, <2>3, <2>5 DEF OnceThere
  <2> QED BY <2>4, <2>5
<1>5. RecordedFirst'
  BY <1>1 DEF RecordedFirst
<1>6. UnrecordedUntouched'
  BY DEF UnrecordedUntouched
<1> QED BY <1>3, <1>4, <1>5, <1>6 DEF EnvironmentInv

(* Operations, and how one begins.                                          *)
LEMMA OperationIs ==
  ASSUME NEW state \in {"none", "creating", "created", "failed"}
  PROVE  /\ Creating(state) \in EnvOperations /\ Creating(state).state = state /\ Creating(state).marked = FALSE
         /\ NoOperation \in EnvOperations /\ NoOperation.state = "none" /\ NoOperation.marked = FALSE
<1>1. NoOperation \in EnvOperations /\ NoOperation.state = "none" /\ NoOperation.marked = FALSE
  BY DEF NoOperation, EnvOperations, Contents
<1>2. PICK operation : operation = Creating(state)
  OBVIOUS
<1>3. operation = [NoOperation EXCEPT !.state = state]
  BY <1>2 DEF Creating
<1>4. operation \in EnvOperations /\ operation.state = state /\ operation.marked = NoOperation.marked
  BY <1>1, <1>3 DEF EnvOperations
<1> QED BY <1>1, <1>2, <1>4

LEMMA BeginIs ==
  ASSUME EnvironmentInv, Begin
  PROVE  /\ UNCHANGED environment /\ envOperation' \in EnvOperations /\ envOperation'.state = "publishing"
         /\ envOperation'.staged = environment.staged /\ envOperation'.marked = environment.marked
  BY EnvironmentIs DEF Begin, EnvironmentInv, EnvironmentShape, EnvOperations

(* What is published under the marker is what was staged under it.          *)
LEMMA MarkerGoesAlong ==
  ASSUME EnvironmentInv, Begin, UNCHANGED usesMarker, edited' = edited \/ edited' = TRUE
  PROVE  MarkerSpeaks'
  BY BeginIs DEF EnvironmentInv, MarkerSpeaks, Marked

(* A request that is executed, now or late.                                 *)
LEMMA EffectStep ==
  ASSUME EnvironmentInv, NEW request \in {"create", "patch", "stage", "clean"},
         request = "create" \/ ~Missing(environment), environment' = Effect(request, environment),
         UNCHANGED <<usesMarker, edited>>,
         envOperation'.marked => envOperation.marked /\ envOperation'.staged = envOperation.staged
  PROVE  /\ environment' \in Environments /\ ~Missing(environment') /\ MarkerSpeaks'
         /\ environment.staged = "desired" \/ request \in {"create", "stage"} => environment'.staged = "desired"
<1>1. environment \in Environments /\ usesMarker \in BOOLEAN /\ MarkerSpeaks
  BY DEF EnvironmentInv, EnvironmentShape
<1>2. EffectAsExpected(request, environment, environment')
  BY <1>1, EffectIs
<1>3. MarkerSpeaks'
  BY <1>1, <1>2, MarkerStays
<1> QED BY <1>2, <1>3 DEF EffectAsExpected

LEMMA EnvironmentCreateAnswered ==
  ASSUME EnvironmentInv, CreateAnswered
  PROVE  EnvironmentInv'
<1>1. /\ environment \in Environments /\ envCp \in EnvRecords /\ lost \in BOOLEAN /\ edited \in BOOLEAN
      /\ envOperation \in EnvOperations /\ envLate \subseteq Requests /\ OnceThere /\ StagedFirst /\ MarkerSpeaks
      /\ EnvironmentShape
  BY DEF EnvironmentInv, EnvironmentShape
<1>2. /\ pc = "create" /\ Missing(environment) /\ UNCHANGED <<usesMarker, approvedEnv, envLate, mode, target, edited, lost>>
  BY DEF CreateAnswered, envPlan, NoFault
<1>3. /\ envCp.kind = "create" /\ "create" \notin envLate /\ envLate = {} /\ envOperation.state # "creating"
      /\ Missing(approvedEnv) /\ (Missing(approvedEnv) => approvedEnv = NoEnvironment)
      /\ (Missing(environment) => environment = NoEnvironment)
  <2>1. /\ envCp.kind = "create" /\ "create" \notin envLate /\ envLate \subseteq {"create"} /\ envOperation.state # "creating"
      /\ Missing(approvedEnv) /\ (Missing(approvedEnv) => approvedEnv = NoEnvironment)
      /\ (Missing(environment) => environment = NoEnvironment)
    BY <1>1, <1>2 DEF OnceThere
  <2> QED BY <2>1
<1>4. CASE environment' = Effect("create", environment) /\ UNCHANGED <<envOperation, envCp>> /\ pc' = "read version"
  <2>1. /\ environment' \in Environments /\ ~Missing(environment') /\ MarkerSpeaks' /\ environment'.staged = "desired"
    BY <1>2, <1>4, EffectStep
  <2>2. StagedFirst'
    BY <1>1, <1>2, <1>4, <2>1 DEF StagedFirst
  <2> QED BY <1>1, <1>2, <1>3, <1>4, <2>1, <2>2, EnvironmentWorks DEF RecordedSteps
<1>5. CASE /\ envOperation' = Creating("creating") /\ UNCHANGED environment
           /\ envCp' = [NoEnvRecord EXCEPT !.kind = "operation"] /\ pc' = "await create"
  <2>1. /\ envOperation' \in EnvOperations /\ envOperation'.state = "creating" /\ envOperation'.marked = FALSE
        /\ envCp' \in EnvRecords /\ envCp'.kind = "operation"
    BY <1>5, OperationIs, OfKind DEF Kinds
  <2>2. EnvironmentShape'
    BY <1>1, <1>2, <1>5, <2>1 DEF EnvironmentShape, EnvironmentSteps
  <2>3. OnceThere'
    <3>1. pc' \notin OnEnvironment
      BY <1>5 DEF OnEnvironment
    <3> QED BY <1>2, <1>3, <1>5, <2>1, <3>1 DEF OnceThere, Missing
  <2>4. RecordedFirst' /\ UnrecordedUntouched'
    BY <1>5, <2>1 DEF RecordedFirst, UnrecordedUntouched
  <2>5. StagedFirst' /\ MarkerSpeaks'
    BY <1>1, <1>2, <1>3, <1>5, <2>1 DEF StagedFirst, MarkerSpeaks, Marked
  <2> QED BY <2>2, <2>3, <2>4, <2>5 DEF EnvironmentInv
<1> QED BY <1>4, <1>5 DEF CreateAnswered, KeepEnvRecord, Goto

LEMMA EnvironmentUpdateAnswered ==
  ASSUME EnvironmentInv, UpdateAnswered
  PROVE  EnvironmentInv'
<1>1. /\ environment \in Environments /\ envCp \in EnvRecords /\ lost \in BOOLEAN /\ edited \in BOOLEAN
      /\ envOperation \in EnvOperations /\ envLate \subseteq Requests /\ OnceThere /\ StagedFirst /\ MarkerSpeaks
      /\ RecordedFirst
  BY DEF EnvironmentInv, EnvironmentShape
<1>2. /\ UNCHANGED <<usesMarker, approvedEnv, envOperation, envLate, mode, target, edited, lost>>
      /\ environment' = Effect(pc, environment) /\ envCp' \in EnvRecords /\ envCp'.kind = envCp.kind
      /\ \/ pc = "patch" /\ pc' = "stage"
         \/ pc = "stage" /\ pc' = "read version"
         \/ pc = "clean" /\ pc' = "verify environment"
  <2>1. /\ UNCHANGED <<usesMarker, approvedEnv, envOperation, envLate, mode, target, edited, lost>>
        /\ environment' = Effect(pc, environment)
    BY DEF UpdateAnswered, envPlan, NoFault
  <2>2. \/ pc = "patch" /\ pc' = "stage" /\ Phase("metadata-updated")
        \/ pc = "stage" /\ pc' = "read version" /\ Phase("definition-staged")
        \/ pc = "clean" /\ pc' = "verify environment" /\ Phase("marker-cleaned")
    BY DEF UpdateAnswered, Goto
  <2>3. envCp' \in EnvRecords /\ envCp'.kind = envCp.kind
    BY <1>1, <2>2, Phased DEF Phase
  <2> QED BY <2>1, <2>2, <2>3
<1>3. ~Missing(environment) /\ envCp.kind # "none"
  BY <1>1, <1>2 DEF OnceThere, OnEnvironment, RecordedFirst, RecordedSteps
<1>4. envOperation.state # "creating" /\ ("create" \in envLate => envCp.kind \in {"create", "done"})
  BY <1>1, <1>3 DEF OnceThere
<1>5. /\ environment' \in Environments /\ ~Missing(environment') /\ MarkerSpeaks'
      /\ environment.staged = "desired" \/ pc = "stage" => environment'.staged = "desired"
  <2>1. pc \in {"create", "patch", "stage", "clean"} /\ pc # "create"
    BY <1>2
  <2>2. PICK request : request = pc
    OBVIOUS
  <2> QED BY <1>2, <1>3, <2>1, <2>2, EffectStep
<1>6. StagedFirst'
  BY <1>1, <1>2, <1>5 DEF StagedFirst
<1> QED BY <1>1, <1>2, <1>3, <1>4, <1>5, <1>6, EnvironmentWorks DEF RecordedSteps

LEMMA EnvironmentPublishBegins ==
  ASSUME EnvironmentInv, pc = "publish", Begin, UNCHANGED <<usesMarker, approvedEnv, envLate, envCp, mode, target, edited, lost>>,
         pc' \in {"idle", "reconcile environment", "await publish"}
  PROVE  EnvironmentInv'
<1>1. /\ environment \in Environments /\ envCp \in EnvRecords /\ lost \in BOOLEAN /\ edited \in BOOLEAN
      /\ envLate \subseteq Requests /\ OnceThere /\ StagedFirst /\ RecordedFirst
  BY DEF EnvironmentInv, EnvironmentShape
<1>2. ~Missing(environment) /\ envCp.kind # "none" /\ ("create" \in envLate => envCp.kind \in {"create", "done"})
  BY <1>1 DEF OnceThere, OnEnvironment, RecordedFirst, RecordedSteps
<1>3. /\ UNCHANGED environment /\ envOperation' \in EnvOperations /\ envOperation'.state = "publishing"
      /\ envOperation'.staged = environment.staged /\ MarkerSpeaks'
  BY BeginIs, MarkerGoesAlong
<1>4. StagedFirst'
  BY <1>1, <1>3 DEF StagedFirst
<1> QED BY <1>1, <1>2, <1>3, <1>4, EnvironmentWorks DEF RecordedSteps, Missing

LEMMA EnvironmentIsUnanswered ==
  ASSUME EnvironmentInv, EnvironmentUnanswered
  PROVE  EnvironmentInv'
<1>1. /\ environment \in Environments /\ envCp \in EnvRecords /\ lost \in BOOLEAN /\ edited \in BOOLEAN
      /\ envOperation \in EnvOperations /\ envLate \subseteq Requests /\ OnceThere /\ StagedFirst /\ MarkerSpeaks
      /\ RecordedFirst /\ EnvironmentShape
  BY DEF EnvironmentInv, EnvironmentShape
<1>2. /\ UNCHANGED <<usesMarker, approvedEnv, envCp, mode, target, edited>> /\ pc \in Requests
      /\ pc' \in {"idle", "reconcile environment"} /\ (pc' = "reconcile environment" => mode = "resume")
  <2>1. UNCHANGED <<usesMarker, approvedEnv, envCp, mode, target, edited>> /\ pc \in Requests
    BY DEF EnvironmentUnanswered, envPlan, KeepEnvRecord, Fault, Loss, SpendFault
  <2>2. EnvironmentError(FALSE) \/ pc' = "idle"
    BY DEF EnvironmentUnanswered, Fail
  <2> QED BY <2>1, <2>2, LastErrors
<1>3. /\ envCp.kind # "none" /\ (pc = "create" \/ ~Missing(environment))
      /\ ("create" \in envLate => envCp.kind \in {"create", "done"}) /\ pc \in RecordedSteps
      /\ (pc = "create" => envCp.kind = "create")
      /\ (Missing(environment) => pc' = "idle")
  <2>1. pc \in RecordedSteps
    BY <1>2 DEF Requests, RecordedSteps
  <2>2. envCp.kind # "none" /\ (pc = "create" \/ ~Missing(environment))
    BY <1>1, <1>2, <2>1 DEF OnceThere, OnEnvironment, RecordedFirst, Requests
  <2>3. pc = "create" => mode = "create" /\ envCp.kind = "create"
    BY <1>1 DEF OnceThere
  <2>4. "create" \in envLate => envCp.kind \in {"create", "done"}
    BY <1>1 DEF OnceThere
  <2> QED BY <1>2, <2>1, <2>2, <2>3, <2>4
<1>4. CASE pc = "publish" /\ Begin /\ UNCHANGED envLate /\ Fault
  <2>1. UNCHANGED lost
    BY <1>4 DEF Fault
  <2> QED BY <1>2, <1>4, <2>1, EnvironmentPublishBegins
<1>5. CASE pc # "publish" /\ environment' = Effect(pc, environment) /\ UNCHANGED <<envOperation, envLate>> /\ Fault
  <2>1. UNCHANGED lost /\ pc \in {"create", "patch", "stage", "clean"}
    BY <1>2, <1>5 DEF Fault, Requests
  <2>2. PICK request : request = pc
    OBVIOUS
  <2>3. /\ environment' \in Environments /\ ~Missing(environment') /\ MarkerSpeaks'
        /\ environment.staged = "desired" => environment'.staged = "desired"
        /\ pc = "create" => environment'.staged = "desired"
    BY <1>2, <1>3, <1>5, <2>1, <2>2, EffectStep
  <2>4. envOperation.state # "creating"
    BY <1>1, <1>3 DEF OnceThere
  <2>5. StagedFirst'
    BY <1>1, <1>2, <1>5, <2>3 DEF StagedFirst
  <2> QED BY <1>1, <1>2, <1>3, <1>5, <2>1, <2>3, <2>4, <2>5, EnvironmentWorks
<1>6. CASE envLate' = envLate \cup {pc} /\ UNCHANGED <<environment, envOperation>> /\ (Loss \/ Fault)
  <2>1. lost' \in BOOLEAN /\ (lost => lost')
    BY <1>1, <1>6 DEF Loss, Fault
  <2>2. envLate' \subseteq Requests /\ ("create" \in envLate' => envCp.kind \in {"create", "done"})
    BY <1>1, <1>2, <1>3, <1>6
  <2>3. MarkerSpeaks'
    BY <1>1, <1>2, <1>6 DEF MarkerSpeaks, Marked
  <2>4. StagedFirst'
    BY <1>1, <1>2, <1>6 DEF StagedFirst
  <2>5. CASE ~Missing(environment)
    <3>1. envOperation.state # "creating"
      BY <1>1, <2>5 DEF OnceThere
    <3>2. ~Missing(environment')
      BY <1>6, <2>5
    <3> QED BY <1>1, <1>2, <1>3, <1>6, <2>1, <2>2, <2>3, <2>4, <3>1, <3>2, EnvironmentWorks
  <2>6. CASE Missing(environment)
    <3>1. pc = "create" /\ pc' = "idle" /\ envCp.kind = "create"
      BY <1>3, <2>6
    <3>2. EnvironmentShape'
      BY <1>1, <1>2, <1>6, <2>1, <2>2, <3>1 DEF EnvironmentShape
    <3>3. OnceThere'
      <4>1. pc' \notin OnEnvironment
        BY <3>1 DEF OnEnvironment
      <4>2. envLate' \subseteq {"create"}
        BY <1>1, <1>6, <2>6, <3>1 DEF OnceThere
      <4> QED BY <1>1, <1>2, <1>6, <3>1, <4>1, <4>2 DEF OnceThere, Missing
    <3>4. RecordedFirst' /\ UnrecordedUntouched'
      BY <1>2, <3>1 DEF RecordedFirst, RecordedSteps, UnrecordedUntouched
    <3> QED BY <2>3, <2>4, <3>2, <3>3, <3>4 DEF EnvironmentInv
  <2> QED BY <2>5, <2>6
<1>7. CASE UNCHANGED envService /\ (Loss \/ Fault)
  <2>1. UNCHANGED <<environment, envOperation, envLate>> /\ lost' \in BOOLEAN /\ (lost => lost') /\ target' \in Nat
    BY <1>1, <1>2, <1>7 DEF envService, Loss, Fault, EnvironmentShape
  <2>2. pc' = "idle" \/ (pc' = "reconcile environment" /\ ~Missing(environment) /\ pc \in RecordedSteps)
    BY <1>2, <1>3
  <2> QED BY <1>2, <2>1, <2>2, EnvironmentGivesUp
<1>8. \/ pc = "publish" /\ Begin /\ UNCHANGED envLate /\ Fault
      \/ pc # "publish" /\ environment' = Effect(pc, environment) /\ UNCHANGED <<envOperation, envLate>> /\ Fault
      \/ envLate' = envLate \cup {pc} /\ UNCHANGED <<environment, envOperation>> /\ (Loss \/ Fault)
      \/ UNCHANGED envService /\ (Loss \/ Fault)
  BY DEF EnvironmentUnanswered
<1> QED BY <1>4, <1>5, <1>6, <1>7, <1>8

(* The service: operations that end, requests that come late.               *)
LEMMA EnvironmentServes ==
  ASSUME EnvironmentInv, EnvironmentService
  PROVE  EnvironmentInv'
<1>1. /\ environment \in Environments /\ envCp \in EnvRecords /\ lost \in BOOLEAN /\ edited \in BOOLEAN
      /\ envOperation \in EnvOperations /\ envLate \subseteq Requests /\ OnceThere /\ StagedFirst /\ MarkerSpeaks
      /\ RecordedFirst /\ EnvironmentShape /\ UnrecordedUntouched
  BY DEF EnvironmentInv, EnvironmentShape
<1>2. UNCHANGED <<usesMarker, approvedEnv, envCp, mode, target, pc, edited, lost>>
  BY DEF EnvironmentService, FinishCreate, ShowPublish, FinishPublish, ExecuteEnvironmentLate, envPlan, NoFault, Fault, SpendFault
<1>3. "create" \in envLate => envCp.kind \in {"create", "done"}
  BY <1>1 DEF OnceThere
<1>4. pc = "create" => "create" \notin envLate /\ envCp.kind = "create"
  BY <1>1 DEF OnceThere
<1>5. CASE FinishCreate
  <2>1. envOperation.state = "creating" /\ UNCHANGED envLate
    BY <1>5 DEF FinishCreate
  <2>2. Missing(environment) /\ envCp.kind = "operation" /\ envLate \subseteq {"create"}
    BY <1>1, <2>1 DEF OnceThere
  <2>3. CASE envOperation' = Creating("created") /\ environment' = Effect("create", environment)
    <3>1. envOperation' \in EnvOperations /\ envOperation'.state = "created" /\ envOperation'.marked = FALSE
      BY <2>3, OperationIs
    <3>2. environment' \in Environments /\ ~Missing(environment') /\ MarkerSpeaks' /\ environment'.staged = "desired"
      BY <1>2, <2>3, <3>1, EffectStep
    <3>3. StagedFirst'
      BY <3>1, <3>2 DEF StagedFirst
    <3> QED BY <1>1, <1>2, <1>3, <1>4, <2>1, <2>2, <3>1, <3>2, <3>3, EnvironmentWorks
  <2>4. CASE envOperation' = Creating("failed") /\ UNCHANGED environment
    <3>1. envOperation' \in EnvOperations /\ envOperation'.state = "failed" /\ envOperation'.marked = FALSE
      BY <2>4, OperationIs
    <3>2. EnvironmentShape'
      BY <1>1, <1>2, <2>1, <2>4, <3>1 DEF EnvironmentShape
    <3>3. OnceThere'
      BY <1>1, <1>2, <2>1, <2>4, <3>1 DEF OnceThere, Missing
    <3>4. RecordedFirst' /\ UnrecordedUntouched'
      BY <1>1, <1>2, <1>4, <2>2 DEF RecordedFirst, UnrecordedUntouched
    <3>5. StagedFirst' /\ MarkerSpeaks'
      BY <1>1, <1>2, <2>1, <2>4, <3>1 DEF StagedFirst, MarkerSpeaks, Marked
    <3> QED BY <3>2, <3>3, <3>4, <3>5 DEF EnvironmentInv
  <2> QED BY <1>5, <2>3, <2>4 DEF FinishCreate
<1>6. CASE ShowPublish \/ FinishPublish
  <2>1. envOperation.state = "publishing" /\ UNCHANGED envLate
    BY <1>6 DEF ShowPublish, FinishPublish, Unshown
  <2>2. /\ ~Missing(environment)
        /\ ~(~edited /\ ~lost /\ (envCp.kind = "none" \/ pc = "create"))
    BY <1>1, <2>1 DEF OnceThere, UnrecordedUntouched, Untouched
  <2>3. /\ environment' \in Environments /\ envOperation' \in EnvOperations /\ envOperation'.state # "creating"
        /\ environment'.meta = environment.meta /\ environment'.staged = environment.staged /\ MarkerSpeaks' /\ StagedFirst'
    <3>1. CASE ShowPublish
      <4>1. environment' = [environment EXCEPT !.state = "Running"] /\ UNCHANGED envOperation
        BY <3>1 DEF ShowPublish
      <4>2. /\ environment' \in Environments /\ environment'.meta = environment.meta /\ environment'.staged = environment.staged
            /\ environment'.marked = environment.marked /\ environment'.published = environment.published
            /\ environment'.pubMarked = environment.pubMarked
        BY <1>1, <4>1 DEF Environments
      <4> QED BY <1>1, <1>2, <2>1, <4>1, <4>2 DEF MarkerSpeaks, Marked, StagedFirst
    <3>2. CASE FinishPublish /\ environment' = [environment EXCEPT !.state = "Failed"]
      <4>1. envOperation' = NoOperation
        BY <3>2 DEF FinishPublish
      <4>2. /\ environment' \in Environments /\ environment'.meta = environment.meta /\ environment'.staged = environment.staged
            /\ environment'.marked = environment.marked /\ environment'.published = environment.published
            /\ environment'.pubMarked = environment.pubMarked
        BY <1>1, <3>2 DEF Environments
      <4>3. envOperation' \in EnvOperations /\ envOperation'.state = "none" /\ envOperation'.marked = FALSE
        BY <4>1, OperationIs
      <4> QED BY <1>1, <1>2, <2>1, <4>2, <4>3 DEF MarkerSpeaks, Marked, StagedFirst
    <3>3. CASE /\ FinishPublish
               /\ environment' = [environment EXCEPT !.state = "Success", !.version = @ + 1,
                                    !.published = envOperation.staged, !.pubMarked = envOperation.marked]
      <4>1. envOperation' = NoOperation
        BY <3>3 DEF FinishPublish
      <4>2. environment' = [[[[environment EXCEPT !.state = "Success"] EXCEPT !.version = environment.version + 1]
                               EXCEPT !.published = envOperation.staged] EXCEPT !.pubMarked = envOperation.marked]
        BY <1>1, <3>3 DEF Environments
      <4>3. envOperation.staged \in Contents /\ envOperation.marked \in BOOLEAN /\ environment.version + 1 \in Nat
        BY <1>1, EnvironmentIs DEF EnvOperations
      <4>4. /\ environment' \in Environments /\ environment'.meta = environment.meta /\ environment'.staged = environment.staged
            /\ environment'.marked = environment.marked /\ environment'.published = envOperation.staged
            /\ environment'.pubMarked = envOperation.marked
        BY <1>1, <4>2, <4>3 DEF Environments
      <4>5. envOperation' \in EnvOperations /\ envOperation'.state = "none" /\ envOperation'.marked = FALSE
        BY <4>1, OperationIs
      <4> QED BY <1>1, <1>2, <2>1, <4>4, <4>5 DEF MarkerSpeaks, Marked, StagedFirst
    <3> QED BY <1>6, <3>1, <3>2, <3>3 DEF FinishPublish
  <2>4. ~Missing(environment')
    BY <2>2, <2>3 DEF Missing
  <2> QED BY <1>1, <1>2, <1>3, <1>4, <2>1, <2>2, <2>3, <2>4, EnvironmentWorks
<1>7. CASE ExecuteEnvironmentLate
  <2>1. PICK request \in envLate :
          /\ envLate' = envLate \ {request}
          /\ IF request = "publish" THEN Begin
             ELSE /\ request = "create" => Missing(environment)
                  /\ request # "create" => ~Missing(environment)
                  /\ environment' = Effect(request, environment) /\ UNCHANGED envOperation
    BY <1>7 DEF ExecuteEnvironmentLate
  <2>2. ~(~edited /\ ~lost /\ (envCp.kind = "none" \/ pc = "create"))
    BY <1>1, <2>1 DEF UnrecordedUntouched, Untouched
  <2>3. /\ envLate' \subseteq Requests /\ ("create" \in envLate' => envCp.kind \in {"create", "done"})
        /\ (pc' = "create" => "create" \notin envLate')
    BY <1>1, <1>2, <1>3, <1>4, <2>1
  <2>4. CASE request = "publish"
    <3>1. /\ UNCHANGED environment /\ envOperation' \in EnvOperations /\ envOperation'.state = "publishing"
          /\ envOperation'.staged = environment.staged /\ MarkerSpeaks'
      BY <1>2, <2>1, <2>4, BeginIs, MarkerGoesAlong
    <3>2. ~Missing(environment) /\ ~Missing(environment')
      BY <1>1, <2>1, <2>4, <3>1 DEF OnceThere, Missing
    <3>3. StagedFirst'
      BY <1>1, <1>2, <2>1, <2>4, <3>1 DEF StagedFirst
    <3> QED BY <1>1, <1>2, <2>2, <2>3, <3>1, <3>2, <3>3, EnvironmentWorks
  <2>5. CASE request # "publish"
    <3>1. request \in {"create", "patch", "stage", "clean"}
      BY <1>1, <2>1, <2>5 DEF Requests
    <3>2. environment' = Effect(request, environment) /\ UNCHANGED envOperation /\ (request = "create" \/ ~Missing(environment))
      BY <2>1, <2>5
    <3>3. /\ environment' \in Environments /\ ~Missing(environment') /\ MarkerSpeaks'
          /\ environment.staged = "desired" \/ request \in {"create", "stage"} => environment'.staged = "desired"
      BY <1>2, <3>1, <3>2, EffectStep
    <3>4. envOperation.state # "creating"
      BY <1>1, <2>1, <3>2 DEF OnceThere
    <3>5. StagedFirst'
      BY <1>1, <1>2, <2>1, <3>2, <3>3 DEF StagedFirst
    <3> QED BY <1>1, <1>2, <2>2, <2>3, <3>2, <3>3, <3>4, <3>5, EnvironmentWorks
  <2> QED BY <2>4, <2>5
<1> QED BY <1>5, <1>6, <1>7 DEF EnvironmentService

LEMMA EnvironmentIsEdited ==
  ASSUME EnvironmentInv, EditEnvironment
  PROVE  EnvironmentInv'
<1>1. /\ environment \in Environments /\ envCp \in EnvRecords /\ lost \in BOOLEAN
      /\ envOperation \in EnvOperations /\ envLate \subseteq Requests /\ OnceThere /\ MarkerSpeaks
  BY DEF EnvironmentInv, EnvironmentShape
<1>2. /\ UNCHANGED <<usesMarker, approvedEnv, envLate, envCp, mode, target, pc, lost>> /\ edited' = TRUE
      /\ ~Missing(environment)
  BY DEF EditEnvironment, Foreign, envPlan
<1>3. /\ "create" \in envLate => envCp.kind \in {"create", "done"}
      /\ pc = "create" => "create" \notin envLate
      /\ envOperation.state # "creating"
  BY <1>1, <1>2 DEF OnceThere
<1>4. StagedFirst'
  BY <1>2 DEF StagedFirst
<1>5. /\ environment' \in Environments /\ ~Missing(environment') /\ envOperation' \in EnvOperations
      /\ envOperation'.state # "creating" /\ MarkerSpeaks'
  <2>1. ASSUME NEW marked \in {FALSE, environment.marked}, UNCHANGED envOperation,
               environment' = [environment EXCEPT !.staged = "foreign", !.marked = marked]
        PROVE  /\ environment' \in Environments /\ ~Missing(environment') /\ MarkerSpeaks'
    <3>1. marked \in BOOLEAN /\ (marked => environment.marked)
      BY <1>1, EnvironmentIs
    <3>2. environment' = [[environment EXCEPT !.staged = "foreign"] EXCEPT !.marked = marked]
      BY <2>1, Zenon
    <3>3. /\ environment' \in Environments /\ environment'.meta = environment.meta /\ environment'.staged = "foreign"
          /\ environment'.marked = marked /\ environment'.published = environment.published
          /\ environment'.pubMarked = environment.pubMarked
      BY <1>1, <3>1, <3>2 DEF Environments, Contents
    <3> QED BY <1>1, <1>2, <2>1, <3>1, <3>3 DEF MarkerSpeaks, Marked, Missing
  <2>2. ASSUME UNCHANGED envOperation, environment' = [environment EXCEPT !.meta = "foreign"]
        PROVE  /\ environment' \in Environments /\ ~Missing(environment') /\ MarkerSpeaks'
    <3>1. /\ environment' \in Environments /\ environment'.meta = "foreign" /\ environment'.staged = environment.staged
          /\ environment'.marked = environment.marked /\ environment'.published = environment.published
          /\ environment'.pubMarked = environment.pubMarked
      BY <1>1, <2>2 DEF Environments, Contents
    <3> QED BY <1>1, <1>2, <2>2, <3>1 DEF MarkerSpeaks, Marked, Missing
  <2>3. CASE Begin
    <3>1. UNCHANGED environment /\ envOperation' \in EnvOperations /\ envOperation'.state = "publishing" /\ MarkerSpeaks'
      BY <1>2, <2>3, BeginIs, MarkerGoesAlong
    <3> QED BY <1>1, <1>2, <3>1 DEF Missing
  <2> QED BY <1>1, <1>3, <2>1, <2>2, <2>3 DEF EditEnvironment
<1> QED BY <1>1, <1>2, <1>3, <1>4, <1>5, EnvironmentWorks

(* Every step of a run, of Fabric and of somebody else keeps it.            *)
LEMMA EnvironmentNextInv ==
  ASSUME EnvironmentInv, EnvironmentNext
  PROVE  EnvironmentInv'
<1>1. CASE PublishAnswered
  <2>1. /\ pc = "publish" /\ Begin /\ pc' = "await publish"
        /\ UNCHANGED <<usesMarker, approvedEnv, envLate, envCp, mode, target, edited, lost>>
    BY <1>1 DEF PublishAnswered, envPlan, KeepEnvRecord, NoFault, Goto
  <2> QED BY <2>1, EnvironmentPublishBegins
<1> QED BY <1>1, EnvironmentReads, EnvironmentAwaits, EnvironmentResumes, EnvironmentVerifies, EnvironmentIsRejected,
           EnvironmentCreateAnswered, EnvironmentUpdateAnswered, EnvironmentIsUnanswered, EnvironmentServes,
           EnvironmentIsEdited
        DEF EnvironmentNext, AskEnvironment, ReadEnvironment

LEMMA EnvironmentStays ==
  ASSUME EnvironmentInv, UNCHANGED environmentAll
  PROVE  EnvironmentInv'
<1>1. UNCHANGED <<usesMarker, approvedEnv, environment, envOperation, envLate, envCp, mode, target, pc, edited, lost>>
  BY DEF environmentAll, runVars, envVars, envPlan, envService
<1>2. EnvironmentShape'
  BY <1>1 DEF EnvironmentInv, EnvironmentShape
<1>5. OnceThere'
  BY <1>1 DEF EnvironmentInv, OnceThere, Missing
<1>3. RecordedFirst' /\ UnrecordedUntouched'
  BY <1>1 DEF EnvironmentInv, RecordedFirst, UnrecordedUntouched, Untouched, Observed, StagedAsDesired
<1>4. StagedFirst' /\ MarkerSpeaks'
  BY <1>1 DEF EnvironmentInv, StagedFirst, MarkerSpeaks, Marked
<1> QED BY <1>2, <1>3, <1>4, <1>5 DEF EnvironmentInv

LEMMA EnvironmentInitially ==
  ASSUME RunInit, EnvironmentInit
  PROVE  EnvironmentInv
<1>1. /\ pc = "idle" /\ edited = FALSE /\ lost = FALSE /\ usesMarker \in BOOLEAN /\ environment \in FirstEnvironments
      /\ approvedEnv = environment /\ envOperation = NoOperation /\ envLate = {} /\ envCp = NoEnvRecord
      /\ mode = "none" /\ target = 0 /\ (~usesMarker => ~environment.marked /\ ~environment.pubMarked)
  BY DEF RunInit, EnvironmentInit
<1>2. /\ environment \in Environments /\ (Missing(environment) => environment = NoEnvironment)
      /\ environment.marked => environment.staged = "desired"
      /\ environment.pubMarked => environment.published = "desired"
  BY <1>1, EnvironmentBounds
<1>3. /\ envOperation \in EnvOperations /\ envOperation.state = "none" /\ envOperation.marked = FALSE
      /\ envCp \in EnvRecords /\ envCp.kind = "none"
  BY <1>1, OperationIs, NoEnvironmentIs DEF NoEnvRecord
<1>4. EnvironmentShape /\ OnceThere
  BY <1>1, <1>2, <1>3 DEF EnvironmentShape, OnceThere, OnEnvironment
<1>5. RecordedFirst /\ UnrecordedUntouched
  BY <1>1, <1>3 DEF RecordedFirst, RecordedSteps, UnrecordedUntouched, Untouched
<1>6. StagedFirst /\ MarkerSpeaks
  BY <1>1, <1>2, <1>3 DEF StagedFirst, MarkerSpeaks, Marked
<1> QED BY <1>4, <1>5, <1>6 DEF EnvironmentInv

LEMMA EnvironmentSafe ==
  ASSUME EnvironmentInv
  PROVE  EnvironmentTypeOK /\ ChangesAreTracked /\ PublishesApproved
BY DEF EnvironmentInv, EnvironmentShape, UnrecordedUntouched, Untouched, StagedFirst, EnvironmentTypeOK,
       ChangesAreTracked, PublishesApproved, EnvOperations, EnvRecords, Kinds

(* Only the last verification completes the record, and it reads what is    *)
(* published.                                                               *)
LEMMA VerifiedIsPublished ==
  ASSUME EnvironmentInv, EnvironmentNext, ~EnvironmentDone, envCp'.kind = "done"
  PROVE  environment.published = "desired" \/ (environment.published = "foreign" /\ usesMarker /\ edited)
<1>1. envCp.kind # "done" /\ envCp \in EnvRecords
  BY DEF EnvironmentDone, EnvironmentInv, EnvironmentShape
<1>2. VerifyEnvironment /\ Verifies(environment, FALSE)
  <2>1. envCp' # envCp
    BY <1>1
  <2>2. ~(UNCHANGED envCp)
    BY <2>1
  <2>3. ASSUME NEW phase \in {"metadata-updated", "definition-staged", "published", "marker-cleaned"}, Phase(phase)
        PROVE  FALSE
    BY <1>1, <2>3, Phased DEF Phase
  <2>4. ~VerifyPublished /\ ~UpdateAnswered
    BY <2>2, <2>3 DEF VerifyPublished, UpdateAnswered, KeepEnvRecord
  <2>5. NoEnvRecord.kind # "done" /\ [NoEnvRecord EXCEPT !.kind = "create"].kind # "done"
        /\ [NoEnvRecord EXCEPT !.kind = "operation"].kind # "done"
    BY OfKind DEF NoEnvRecord, Kinds
  <2>6. ~CreateAnswered /\ ~BeginCreate /\ ~ReadBaseline /\ ~EnvironmentRejected /\ ~ReconcileEnvironment
    <3>1. ~CreateAnswered
      BY <2>2, <2>5 DEF CreateAnswered, KeepEnvRecord
    <3>2. ~BeginCreate /\ ~ReadBaseline
      <4>1. ~BeginCreate
        BY <2>5 DEF BeginCreate
      <4>2. ASSUME ReadBaseline
            PROVE  FALSE
        <5>1. envCp' = [kind |-> "update", phase |-> "metadata-submitting", saw |-> environment]
          BY <4>2 DEF ReadBaseline
        <5>2. envCp'.kind = "update"
          BY <5>1
        <5> QED BY <5>2
      <4> QED BY <4>1, <4>2
    <3>3. ~EnvironmentRejected
      BY <2>2, <2>5 DEF EnvironmentRejected
    <3>4. ASSUME ReconcileEnvironment
          PROVE  FALSE
      <4>1. envCp' = envCp \/ envCp' = NoEnvRecord
        BY <3>4 DEF ReconcileEnvironment, KeepEnvRecord
      <4> QED BY <2>2, <2>5, <4>1
    <3> QED BY <3>1, <3>2, <3>3, <3>4
  <2>7. ~StartEnvironment /\ ~RecoverEnvironment /\ ~ReadVersion /\ ~AwaitCreate /\ ~ResumeEnvironmentCreate /\ ~AwaitPublish
        /\ ~CheckMarker /\ ~PublishAnswered /\ ~EnvironmentUnanswered
    BY <2>2 DEF StartEnvironment, RecoverEnvironment, ReadVersion, AwaitCreate, ResumeEnvironmentCreate, AwaitPublish,
                CheckMarker, PublishAnswered, EnvironmentUnanswered, KeepEnvRecord
  <2>8. ~EnvironmentService /\ ~EditEnvironment /\ ~CrashEnvironment
    BY <2>2 DEF EnvironmentService, FinishCreate, ShowPublish, FinishPublish, ExecuteEnvironmentLate, EditEnvironment,
                CrashEnvironment, envVars
  <2>9. VerifyEnvironment
    BY <2>4, <2>6, <2>7, <2>8 DEF EnvironmentNext, AskEnvironment, ReadEnvironment
  <2> QED BY <2>2, <2>9 DEF VerifyEnvironment, KeepEnvRecord
<1>3. Published(environment) /\ MarkerSpeaks
  BY <1>2, VerifiesIs DEF EnvironmentInv
<1> QED BY <1>3 DEF Published, MarkerSpeaks, Marked

(* Whatever has been done to an Environment is in the checkpoint, and only  *)
(* the approved definition is published (environment.ts, apply.ts).         *)
THEOREM EnvironmentCorrect == EnvironmentSpec => [](EnvironmentTypeOK /\ ChangesAreTracked /\ PublishesApproved)
<1>1. RunInit /\ EnvironmentInit => EnvironmentInv
  BY EnvironmentInitially
<1>2. EnvironmentInv /\ [EnvironmentNext]_environmentAll => EnvironmentInv'
  BY EnvironmentNextInv, EnvironmentStays
<1>3. EnvironmentInv => EnvironmentTypeOK /\ ChangesAreTracked /\ PublishesApproved
  BY EnvironmentSafe
<1> QED BY <1>1, <1>2, <1>3, PTL DEF EnvironmentSpec, environmentAll

-----------------------------------------------------------------------------
(* The steps that follow only when there is a job, and all of them.         *)
OnJob ==
  {"airflow baseline", "patch airflow", "stage airflow", "write ledger", "read shell", "compare files", "files",
   "verify airflow", "recover airflow"}
AirflowSteps == OnJob \cup {"create airflow", "await shell", "resume airflow", "reconcile airflow"}
JobRecords ==
  [kind : {"none", "create", "operation", "proof", "update", "done"},
   saw : {"none", "shell", "old", "desired", "foreign"}, phase : {"none", "metadata", "submitting", "staged"}]
LateFile(f) == [verb |-> "file", file |-> f]
LateJob(request) == [verb |-> request, file |-> 0]
AirflowShape ==
  /\ airflow \in AirflowJobs /\ approvedJob \in AirflowJobs /\ found \in AirflowJobs /\ handled \subseteq Paths
  /\ airflowOp \in {"none", "creating", "created", "failed"}
  /\ airflowLate \subseteq {LateJob(request) : request \in JobRequests} \cup {LateFile(f) : f \in Paths}
  /\ airflowCp \in JobRecords /\ airflowMode \in {"none", "create", "resume", "update", "verify"}
  /\ pc \in {"idle", "succeeded"} \cup AirflowSteps /\ edited \in BOOLEAN

(* There is nothing to work on before the job is there, and it stays.       *)
ApprovedIsThere == approvedJob.meta = "none" => approvedJob = NoJob
JobOnceThere ==
  /\ airflow.meta = "none" =>
       /\ airflow = NoJob /\ approvedJob = NoJob /\ airflowLate \subseteq {LateJob("create airflow")}
       /\ airflowOp # "created" /\ pc \notin OnJob \cup {"succeeded"} /\ airflowCp.kind \in {"none", "create", "operation"}
  /\ airflowOp = "creating" =>
       /\ airflow.meta = "none" /\ airflowCp.kind = "operation" /\ pc \in {"idle", "await shell", "resume airflow"}
  /\ LateJob("create airflow") \in airflowLate => airflowCp.kind = "create" /\ pc = "idle"
  /\ pc = "create airflow" => airflowCp.kind = "none"
  /\ pc \in {"await shell", "reconcile airflow"} => airflowCp.kind = "operation"

(* What the deployment makes of a file; what it has got to do so far, and   *)
(* that all of it is done before the ledger says so.                        *)
Wanted(f) == IF f \in Bundle THEN "desired" ELSE "absent"
AsWanted(j) == \A f \in Paths : Concerns(f, approvedJob) => j.file[f] = Wanted(f)
Progress(j) ==
  /\ \A f \in Paths : j.file[f] = approvedJob.file[f] \/ (Concerns(f, approvedJob) /\ j.file[f] = Wanted(f))
  /\ j.ledger \in {approvedJob.ledger, NewLedger} /\ (j.ledger # approvedJob.ledger => AsWanted(j))
FilesMoveOn ==
  /\ Progress(airflow)
  /\ \A f \in Paths : LateFile(f) \in airflowLate => Concerns(f, approvedJob)
  /\ pc = "write ledger" \/ LateJob("write ledger") \in airflowLate => AsWanted(airflow)
FilesFound ==
  pc = "files" =>
    /\ Progress(found) /\ ~BlockedFile(found)
    /\ \A f \in Paths : f \in handled \/ (Concerns(f, approvedJob) /\ found.file[f] = Wanted(f))
         => airflow.file[f] = Wanted(f)

(* A DAG goes after the plugins, a plugin after the DAGs, also in requests  *)
(* that are yet to be executed.                                             *)
PluginsUp(j) == \A p \in Plugins \cap Bundle : j.file[p] = "desired"
DagsDown(j) == \A d \in Dags : FileAction(d, approvedJob) = "delete" => j.file[d] = "absent"
UpInOrder ==
  \A d \in Dags \cap Bundle :
    (approvedJob.file[d] # "desired" /\ airflow.file[d] = "desired") \/ LateFile(d) \in airflowLate => PluginsUp(airflow)
DownInOrder ==
  \A p \in Plugins \ Bundle :
    (FileAction(p, approvedJob) = "delete" /\ airflow.file[p] = "absent") \/ LateFile(p) \in airflowLate => DagsDown(airflow)

FilesInv == ~edited => FilesMoveOn /\ FilesFound /\ UpInOrder /\ DownInOrder
AirflowInv == AirflowShape /\ ApprovedIsThere /\ JobOnceThere /\ FilesInv

airflowAll == <<runVars, airflowVars>>

(* A job and its fields.                                                    *)
LEMMA JobIs ==
  ASSUME NEW j \in AirflowJobs, NEW f \in Paths
  PROVE  /\ j.file[f] \in {"absent", "old", "desired", "foreign"} /\ j.ledger[f] \in {"none", "old", "desired"}
         /\ j.meta \in {"none", "old", "desired"} /\ j.definition \in {"none", "shell", "old", "desired", "foreign"}
  BY DEF AirflowJobs

(* What becomes of a file, by cases.                                        *)
LEMMA OfTheBundle ==
  ASSUME NEW j \in AirflowJobs, NEW f \in Paths, f \in Bundle
  PROVE  /\ FileAction(f, j) \in {"create", "adopt", "no-op", "update", "blocked"}
         /\ (FileAction(f, j) = "create") <=> (j.file[f] = "absent")
         /\ FileAction(f, j) \in {"adopt", "no-op"} => j.file[f] = "desired"
         /\ FileAction(f, j) = "update" => j.ledger[f] = "old" /\ j.file[f] \in {"old", "desired"}
         /\ (FileAction(f, j) = "no-op") <=> (j.file[f] = "desired" /\ j.ledger[f] = "desired")
         /\ (FileAction(f, j) = "blocked") <=>
              ~(j.file[f] \in {"absent", "desired"} \/ (j.file[f] = "old" /\ j.ledger[f] = "old"))
<1>1. j.file[f] \in {"absent", "old", "desired", "foreign"} /\ j.ledger[f] \in {"none", "old", "desired"}
  BY JobIs
<1>2. CASE j.file[f] = "absent"
  <2>1. FileAction(f, j) = "create"
    BY <1>1, <1>2 DEF FileAction
  <2> QED BY <1>2, <2>1
<1>3. CASE j.file[f] = "desired" /\ j.ledger[f] = "none"
  <2>1. FileAction(f, j) = "adopt"
    BY <1>1, <1>3 DEF FileAction
  <2> QED BY <1>3, <2>1
<1>4. CASE j.file[f] = "desired" /\ j.ledger[f] = "desired"
  <2>1. FileAction(f, j) = "no-op"
    BY <1>1, <1>4 DEF FileAction
  <2> QED BY <1>4, <2>1
<1>5. CASE j.file[f] \in {"desired", "old"} /\ j.ledger[f] = "old"
  <2>1. FileAction(f, j) = "update"
    BY <1>1, <1>5 DEF FileAction
  <2> QED BY <1>5, <2>1
<1>6. CASE j.file[f] = "foreign" \/ (j.file[f] = "old" /\ j.ledger[f] # "old")
  <2>1. FileAction(f, j) = "blocked"
    BY <1>1, <1>6 DEF FileAction
  <2> QED BY <1>6, <2>1
<1> QED BY <1>1, <1>2, <1>3, <1>4, <1>5, <1>6

(* What becomes of a file outside the bundle.                               *)
LEMMA NotOfTheBundle ==
  ASSUME NEW j \in AirflowJobs, NEW f \in Paths, f \notin Bundle
  PROVE  /\ FileAction(f, j) \in {"none", "forget", "delete", "blocked"}
         /\ (FileAction(f, j) = "none") <=> (j.ledger[f] = "none")
         /\ FileAction(f, j) = "forget" => j.file[f] = "absent"
         /\ FileAction(f, j) = "delete" => j.file[f] = j.ledger[f] /\ j.file[f] \in {"old", "desired"}
         /\ (FileAction(f, j) = "blocked") <=>
              (j.ledger[f] # "none" /\ j.file[f] # "absent" /\ j.file[f] # j.ledger[f])
<1>1. j.file[f] \in {"absent", "old", "desired", "foreign"} /\ j.ledger[f] \in {"none", "old", "desired"}
  BY JobIs
<1>2. CASE j.ledger[f] = "none"
  <2>1. FileAction(f, j) = "none"
    BY <1>1, <1>2 DEF FileAction
  <2> QED BY <1>2, <2>1
<1>3. CASE j.ledger[f] # "none" /\ j.file[f] = "absent"
  <2>1. FileAction(f, j) = "forget"
    BY <1>1, <1>3 DEF FileAction
  <2> QED BY <1>3, <2>1
<1>4. CASE j.ledger[f] # "none" /\ j.file[f] = j.ledger[f]
  <2>1. FileAction(f, j) = "delete"
    BY <1>1, <1>4 DEF FileAction
  <2> QED BY <1>1, <1>4, <2>1
<1>5. CASE j.ledger[f] # "none" /\ j.file[f] # "absent" /\ j.file[f] # j.ledger[f]
  <2>1. FileAction(f, j) = "blocked"
    BY <1>1, <1>5 DEF FileAction
  <2> QED BY <1>5, <2>1
<1> QED BY <1>2, <1>3, <1>4, <1>5

LEMMA ConcernsBundle ==
  ASSUME NEW j \in AirflowJobs, NEW f \in Paths
  PROVE  /\ f \in Bundle => Concerns(f, j)
         /\ f \notin Bundle => (Concerns(f, j) <=> j.ledger[f] # "none")
  BY OfTheBundle, NotOfTheBundle DEF Concerns

LEMMA NewLedgerIs ==
  /\ NewLedger \in [Paths -> {"none", "old", "desired"}]
  /\ \A f \in Paths : NewLedger[f] = IF f \in Bundle THEN "desired" ELSE "none"
  BY DEF NewLedger

(* Which file a run asks for, and what for.                                 *)
LEMMA AskedFile ==
  ASSUME NEW f \in Paths, found \in AirflowJobs, PutFile(f) \/ DeleteFile(f)
  PROVE  /\ (PutFile(f) => f \in Bundle) /\ (DeleteFile(f) => f \notin Bundle) /\ found.file[f] # "foreign"
         /\ f \notin Bundle => found.ledger[f] # "none"
<1>1. CASE PutFile(f)
  <2>1. FileAction(f, found) \in {"create", "update"}
    BY <1>1 DEF PutFile, FirstOf, Uploads
  <2>2. f \in Bundle
    BY <2>1, NotOfTheBundle
  <2>3. ~DeleteFile(f)
    BY <2>1 DEF DeleteFile, FirstOf, Removals
  <2>4. found.file[f] # "foreign"
    BY <2>1, <2>2, OfTheBundle
  <2> QED BY <2>2, <2>3, <2>4
<1>2. CASE DeleteFile(f)
  <2>1. FileAction(f, found) = "delete"
    BY <1>2 DEF DeleteFile, FirstOf, Removals
  <2>2. f \notin Bundle
    BY <2>1, OfTheBundle
  <2>3. ~PutFile(f)
    BY <2>1 DEF PutFile, FirstOf, Uploads
  <2> QED BY <1>2, <2>1, <2>2, <2>3, NotOfTheBundle
<1> QED BY <1>1, <1>2

(* The job after one of its files was put or deleted.                       *)
LEMMA WithFileIs ==
  ASSUME NEW j \in AirflowJobs, NEW f \in Paths
  PROVE  /\ WithFile(f, j) \in AirflowJobs /\ WithFile(f, j).meta = j.meta /\ WithFile(f, j).definition = j.definition
         /\ WithFile(f, j).ledger = j.ledger
         /\ \A g \in Paths : WithFile(f, j).file[g] = IF g = f THEN Wanted(f) ELSE j.file[g]
<1>1. PICK k : k = WithFile(f, j)
  OBVIOUS
<1>2. k = [j EXCEPT !.file = [j.file EXCEPT ![f] = Wanted(f)]]
  BY <1>1 DEF WithFile, Wanted, AirflowJobs
<1>3. j.file \in [Paths -> {"absent", "old", "desired", "foreign"}] /\ Wanted(f) \in {"absent", "old", "desired", "foreign"}
  BY DEF AirflowJobs, Wanted
<1>4. k \in AirflowJobs /\ k.meta = j.meta /\ k.definition = j.definition /\ k.ledger = j.ledger
      /\ k.file = [j.file EXCEPT ![f] = Wanted(f)]
  BY <1>2, <1>3 DEF AirflowJobs
<1>5. \A g \in Paths : k.file[g] = IF g = f THEN Wanted(f) ELSE j.file[g]
  BY <1>3, <1>4
<1> QED BY <1>1, <1>4, <1>5

(* A file of somebody else's is not asked for.                              *)
LEMMA ForeignKept ==
  ASSUME airflow \in AirflowJobs, found \in AirflowJobs, ReconcileFiles
  PROVE  \A f \in Paths : found.file[f] = "foreign" => airflow'.file[f] = airflow.file[f]
<1>1. PICK g \in Paths : (PutFile(g) \/ DeleteFile(g)) /\ (airflow' = WithFile(g, airflow) \/ UNCHANGED airflow)
  BY DEF ReconcileFiles, FileAnswered, FileUnanswered
<1>2. found.file[g] # "foreign"
  BY <1>1, AskedFile
<1>3. CASE airflow' = WithFile(g, airflow)
  <2>1. \A f \in Paths : airflow'.file[f] = IF f = g THEN Wanted(g) ELSE airflow.file[f]
    BY <1>3, WithFileIs
  <2> QED BY <1>2, <2>1
<1> QED BY <1>1, <1>3

-----------------------------------------------------------------------------
(* Progress is kept as files become as wanted.                              *)
FilesAdvance(j, k) ==
  \A f \in Paths : k.file[f] = j.file[f] \/ (Concerns(f, approvedJob) /\ k.file[f] = Wanted(f))

(* Files that advance keep the progress, and the order.                     *)
LEMMA ProgressGoesOn ==
  ASSUME NEW j, NEW k, Progress(j), FilesAdvance(j, k),
         k.ledger = j.ledger \/ (k.ledger = NewLedger /\ AsWanted(j))
  PROVE  /\ Progress(k) /\ (AsWanted(j) => AsWanted(k))
  BY DEF Progress, FilesAdvance, AsWanted

LEMMA OrderGoesOn ==
  ASSUME approvedJob \in AirflowJobs, NEW j, NEW k, FilesAdvance(j, k)
  PROVE  (PluginsUp(j) => PluginsUp(k)) /\ (DagsDown(j) => DagsDown(k))
<1>1. \A f \in Paths : k.file[f] = j.file[f] \/ k.file[f] = Wanted(f)
  BY DEF FilesAdvance
<1>2. PluginsUp(j) => PluginsUp(k)
  BY <1>1 DEF PluginsUp, Wanted, Paths
<1>3. ASSUME DagsDown(j), NEW d \in Dags, FileAction(d, approvedJob) = "delete"
      PROVE  k.file[d] = "absent"
  <2>1. d \in Paths /\ d \notin Bundle
    BY <1>3, OfTheBundle DEF Paths
  <2> QED BY <1>1, <1>3, <2>1 DEF DagsDown, Wanted
<1> QED BY <1>2, <1>3 DEF DagsDown

(* With the files as far as they are, none blocks.                          *)
LEMMA ProgressIsKnown ==
  ASSUME NEW j \in AirflowJobs, approvedJob \in AirflowJobs, Progress(j), ~BlockedFile(approvedJob)
  PROVE  ~BlockedFile(j)
<1> SUFFICES ASSUME NEW f \in Paths
             PROVE  FileAction(f, j) # "blocked"
  BY DEF BlockedFile
<1>1. FileAction(f, approvedJob) # "blocked"
  BY DEF BlockedFile
<1>2. /\ j.file[f] = approvedJob.file[f] \/ (Concerns(f, approvedJob) /\ j.file[f] = Wanted(f))
      /\ j.ledger = approvedJob.ledger \/ (j.ledger = NewLedger /\ AsWanted(j))
  BY DEF Progress
<1>3. CASE f \in Bundle
  <2>1. approvedJob.file[f] \in {"absent", "desired"} \/ (approvedJob.file[f] = "old" /\ approvedJob.ledger[f] = "old")
    BY <1>1, <1>3, OfTheBundle
  <2>2. AsWanted(j) => j.file[f] = "desired"
    BY <1>3, ConcernsBundle DEF AsWanted, Wanted
  <2>3. j.file[f] \in {"absent", "desired"} \/ (j.file[f] = "old" /\ j.ledger[f] = "old")
    BY <1>2, <1>3, <2>1, <2>2 DEF Wanted
  <2> QED BY <1>3, <2>3, OfTheBundle
<1>4. CASE f \notin Bundle
  <2>1. approvedJob.ledger[f] = "none" \/ approvedJob.file[f] = "absent" \/ approvedJob.file[f] = approvedJob.ledger[f]
    BY <1>1, <1>4, NotOfTheBundle
  <2>2. j.ledger[f] = "none" \/ j.file[f] = "absent" \/ j.file[f] = j.ledger[f]
    BY <1>2, <1>4, <2>1, NewLedgerIs DEF Wanted
  <2> QED BY <1>4, <2>2, NotOfTheBundle
<1> QED BY <1>3, <1>4

(* A file that is asked for is one that the deployment concerns, and its    *)
(* turn has come.                                                           *)
LEMMA InItsTurn ==
  ASSUME airflow \in AirflowJobs, approvedJob \in AirflowJobs, found \in AirflowJobs,
         pc = "files", FilesFound, NEW f \in Paths, PutFile(f) \/ DeleteFile(f)
  PROVE  /\ Concerns(f, approvedJob)
         /\ f \in Dags \cap Bundle => PluginsUp(airflow)
         /\ f \in Plugins \ Bundle => DagsDown(airflow)
<1>1. /\ Progress(found) /\ ~BlockedFile(found)
      /\ \A g \in Paths : g \in handled \/ (Concerns(g, approvedJob) /\ found.file[g] = Wanted(g))
           => airflow.file[g] = Wanted(g)
  BY DEF FilesFound
<1>2. /\ (PutFile(f) => f \in Bundle) /\ (DeleteFile(f) => f \notin Bundle)
      /\ f \notin Bundle => found.ledger[f] # "none"
  BY AskedFile
<1>3. found.ledger = approvedJob.ledger \/ (found.ledger = NewLedger /\ AsWanted(found))
  BY <1>1 DEF Progress
<1>4. Concerns(f, approvedJob)
  BY <1>2, <1>3, ConcernsBundle, NewLedgerIs
<1>5. ASSUME f \in Dags \cap Bundle, NEW p \in Plugins \cap Bundle
      PROVE  airflow.file[p] = "desired"
  <2>1. p \in Paths /\ p # f /\ f \notin Plugins /\ Concerns(p, approvedJob)
    BY <1>5, AirflowBounds, ConcernsBundle DEF Paths
  <2>2. p \notin Uploads \ handled
    BY <1>2, <1>5, <2>1 DEF PutFile, FirstOf, Before
  <2>3. CASE p \in handled
    BY <1>1, <2>1, <2>3 DEF Wanted
  <2>4. CASE FileAction(p, found) \notin {"create", "update"}
    <3>1. FileAction(p, found) \in {"adopt", "no-op"}
      BY <1>1, <2>1, <2>4, OfTheBundle DEF BlockedFile
    <3>2. found.file[p] = "desired"
      BY <2>1, <3>1, OfTheBundle
    <3> QED BY <1>1, <2>1, <3>2 DEF Wanted
  <2> QED BY <2>1, <2>2, <2>3, <2>4 DEF Uploads
<1>6. ASSUME f \in Plugins \ Bundle, NEW d \in Dags, FileAction(d, approvedJob) = "delete"
      PROVE  airflow.file[d] = "absent"
  <2>1. d \in Paths /\ d \notin Bundle /\ f \notin Dags /\ f # d /\ Concerns(d, approvedJob)
    BY <1>6, AirflowBounds, OfTheBundle DEF Paths, Concerns
  <2>2. d \notin Removals \ handled
    BY <1>2, <1>6, <2>1 DEF DeleteFile, FirstOf, Before
  <2>3. CASE d \in handled
    BY <1>1, <2>1, <2>3 DEF Wanted
  <2>4. CASE FileAction(d, found) # "delete"
    <3>1. approvedJob.ledger[d] # "none"
      BY <1>6, <2>1, NotOfTheBundle
    <3>2. found.file[d] = "absent"
      <4>1. CASE found.ledger = approvedJob.ledger
        BY <1>1, <2>1, <2>4, <3>1, <4>1, NotOfTheBundle DEF BlockedFile
      <4>2. CASE AsWanted(found)
        BY <2>1, <4>2 DEF AsWanted, Wanted
      <4> QED BY <1>3, <4>1, <4>2
    <3> QED BY <1>1, <2>1, <3>2 DEF Wanted
  <2> QED BY <2>1, <2>2, <2>3, <2>4 DEF Removals
<1> QED BY <1>4, <1>5, <1>6 DEF PluginsUp, DagsDown

(* Once every file has had its turn, all are as wanted.                     *)
LEMMA AllHandled ==
  ASSUME airflow \in AirflowJobs, approvedJob \in AirflowJobs, found \in AirflowJobs,
         pc = "files", FilesFound, Uploads \cup Removals \subseteq handled
  PROVE  AsWanted(airflow)
<1> SUFFICES ASSUME NEW f \in Paths, Concerns(f, approvedJob)
             PROVE  airflow.file[f] = Wanted(f)
  BY DEF AsWanted
<1>1. /\ Progress(found) /\ ~BlockedFile(found)
      /\ \A g \in Paths : g \in handled \/ (Concerns(g, approvedJob) /\ found.file[g] = Wanted(g))
           => airflow.file[g] = Wanted(g)
  BY DEF FilesFound
<1>2. CASE FileAction(f, found) \in {"create", "update", "delete"}
  BY <1>1, <1>2 DEF Uploads, Removals
<1>3. CASE FileAction(f, found) \notin {"create", "update", "delete"}
  <2>1. FileAction(f, found) # "blocked"
    BY <1>1 DEF BlockedFile
  <2>2. found.file[f] = Wanted(f)
    <3>1. CASE f \in Bundle
      BY <1>3, <2>1, <3>1, OfTheBundle DEF Wanted
    <3>2. CASE f \notin Bundle
      <4>1. FileAction(f, found) = "forget" => found.file[f] = Wanted(f)
        BY <3>2, NotOfTheBundle DEF Wanted
      <4>2. ASSUME FileAction(f, found) = "none"
            PROVE  found.file[f] = Wanted(f)
        <5>1. found.ledger[f] = "none" /\ approvedJob.ledger[f] # "none"
          BY <3>2, <4>2, NotOfTheBundle, ConcernsBundle
        <5>2. AsWanted(found)
          BY <1>1, <5>1 DEF Progress
        <5> QED BY <5>2 DEF AsWanted
      <4> QED BY <1>3, <2>1, <3>2, <4>1, <4>2, NotOfTheBundle
    <3> QED BY <3>1, <3>2
  <2> QED BY <1>1, <2>2
<1> QED BY <1>2, <1>3

-----------------------------------------------------------------------------
(* A file may be asked for, or has become as wanted.                        *)
ItsTurn(f) ==
  /\ Concerns(f, approvedJob)
  /\ f \in Dags \cap Bundle => PluginsUp(airflow)
  /\ f \in Plugins \ Bundle => DagsDown(airflow)

(* A step that only moves files towards what is wanted of them.             *)
LEMMA FilesStep ==
  ASSUME approvedJob \in AirflowJobs, FilesInv, ~edited, UNCHANGED <<approvedJob, edited>>,
         \A f \in Paths : airflow'.file[f] = airflow.file[f] \/ (ItsTurn(f) /\ airflow'.file[f] = Wanted(f)),
         airflow'.ledger = airflow.ledger \/ (airflow'.ledger = NewLedger /\ AsWanted(airflow)),
         \A f \in Paths : LateFile(f) \in airflowLate' => LateFile(f) \in airflowLate \/ ItsTurn(f),
         pc' = "write ledger" \/ LateJob("write ledger") \in airflowLate' => AsWanted(airflow),
         pc' = "files" =>
           \/ /\ pc = "files" /\ UNCHANGED found
              /\ \A f \in Paths : f \in handled' => f \in handled \/ airflow'.file[f] = Wanted(f)
           \/ found' = airflow' /\ handled' = {} /\ ~BlockedFile(airflow')
  PROVE  FilesInv'
<1>1. FilesMoveOn /\ FilesFound /\ UpInOrder /\ DownInOrder
  BY DEF FilesInv
<1>2. FilesAdvance(airflow, airflow') /\ Progress(airflow)
  BY <1>1 DEF FilesAdvance, ItsTurn, FilesMoveOn
<1>3. Progress(airflow') /\ (AsWanted(airflow) => AsWanted(airflow'))
  BY <1>2, ProgressGoesOn
<1>4. (PluginsUp(airflow) => PluginsUp(airflow')) /\ (DagsDown(airflow) => DagsDown(airflow'))
  BY <1>2, OrderGoesOn
<1>5. FilesMoveOn'
  <2>1. Progress(airflow)'
    BY <1>3 DEF Progress, AsWanted
  <2>2. AsWanted(airflow) => AsWanted(airflow)'
    BY <1>3 DEF AsWanted
  <2>3. \A f \in Paths : LateFile(f) \in airflowLate' => Concerns(f, approvedJob)
    BY <1>1 DEF FilesMoveOn, ItsTurn
  <2> QED BY <2>1, <2>2, <2>3 DEF FilesMoveOn, LateFile, LateJob
<1>6. FilesFound'
  <2> SUFFICES ASSUME pc' = "files"
               PROVE  /\ Progress(found)' /\ ~BlockedFile(found')
                      /\ \A f \in Paths : f \in handled' \/ (Concerns(f, approvedJob) /\ found'.file[f] = Wanted(f))
                           => airflow'.file[f] = Wanted(f)
    BY DEF FilesFound, Wanted
  <2>1. CASE /\ pc = "files" /\ UNCHANGED found
             /\ \A f \in Paths : f \in handled' => f \in handled \/ airflow'.file[f] = Wanted(f)
    <3>1. /\ Progress(found) /\ ~BlockedFile(found)
          /\ \A f \in Paths : f \in handled \/ (Concerns(f, approvedJob) /\ found.file[f] = Wanted(f))
               => airflow.file[f] = Wanted(f)
      BY <1>1, <2>1 DEF FilesFound
    <3>2. Progress(found)' /\ ~BlockedFile(found')
      BY <2>1, <3>1 DEF Progress, AsWanted
    <3>3. \A f \in Paths : airflow'.file[f] = airflow.file[f] \/ airflow'.file[f] = Wanted(f)
      BY <1>2 DEF FilesAdvance
    <3> QED BY <2>1, <3>1, <3>2, <3>3
  <2>2. CASE found' = airflow' /\ handled' = {} /\ ~BlockedFile(airflow')
    <3>1. Progress(found)'
      BY <1>3, <2>2 DEF Progress, AsWanted
    <3> QED BY <2>2, <3>1
  <2> QED BY <2>1, <2>2
<1>7. UpInOrder'
  <2> SUFFICES ASSUME NEW d \in Dags \cap Bundle,
                      (approvedJob.file[d] # "desired" /\ airflow'.file[d] = "desired") \/ LateFile(d) \in airflowLate'
               PROVE  PluginsUp(airflow')
    BY DEF UpInOrder, PluginsUp, LateFile
  <2>1. d \in Paths
    BY DEF Paths
  <2>2. (approvedJob.file[d] # "desired" /\ airflow.file[d] = "desired") \/ LateFile(d) \in airflowLate \/ ItsTurn(d)
    BY <2>1
  <2> QED BY <1>1, <1>4, <2>2 DEF UpInOrder, ItsTurn
<1>8. DownInOrder'
  <2> SUFFICES ASSUME NEW p \in Plugins \ Bundle,
                      \/ FileAction(p, approvedJob) = "delete" /\ airflow'.file[p] = "absent"
                      \/ LateFile(p) \in airflowLate'
               PROVE  DagsDown(airflow')
    BY DEF DownInOrder, DagsDown, LateFile
  <2>1. p \in Paths
    BY DEF Paths
  <2>2. \/ FileAction(p, approvedJob) = "delete" /\ airflow.file[p] = "absent"
        \/ LateFile(p) \in airflowLate \/ ItsTurn(p)
    BY <2>1
  <2> QED BY <1>1, <1>4, <2>2 DEF DownInOrder, ItsTurn
<1> QED BY <1>5, <1>6, <1>7, <1>8 DEF FilesInv

(* One that leaves the files alone.                                         *)
LEMMA FilesStill ==
  ASSUME approvedJob \in AirflowJobs, FilesInv, UNCHANGED <<approvedJob, edited>>,
         airflow'.file = airflow.file, airflow'.ledger = airflow.ledger,
         \A f \in Paths : LateFile(f) \in airflowLate' => LateFile(f) \in airflowLate,
         LateJob("write ledger") \in airflowLate' => LateJob("write ledger") \in airflowLate \/ pc = "write ledger",
         pc' # "write ledger",
         pc' = "files" => pc = "files" /\ UNCHANGED <<found, handled>>
  PROVE  FilesInv'
<1>1. CASE edited
  BY <1>1 DEF FilesInv
<1>2. CASE ~edited
  <2>1. LateJob("write ledger") \in airflowLate' => AsWanted(airflow)
    BY <1>2 DEF FilesInv, FilesMoveOn
  <2> QED BY <1>2, <2>1, FilesStep
<1> QED BY <1>1, <1>2

-----------------------------------------------------------------------------
(* What the plan makes of a job.                                            *)
LEMMA PlanAirflowIs ==
  ASSUME NEW j
  PROVE  /\ PlanAirflow(j) \in {"create", "blocked", "no-op", "update"}
         /\ (PlanAirflow(j) = "create") <=> (j.meta = "none")
<1>1. CASE j.meta = "none"
  BY <1>1 DEF PlanAirflow
<1>2. CASE j.meta # "none" /\ BlockedFile(j)
  <2>1. ~FilesMatch(j)
    BY <1>2 DEF BlockedFile, FilesMatch
  <2> QED BY <1>2, <2>1 DEF PlanAirflow
<1>3. CASE j.meta = "desired" /\ ~BlockedFile(j) /\ j.definition = "desired" /\ FilesMatch(j)
  BY <1>3 DEF PlanAirflow
<1>4. CASE j.meta # "none" /\ ~BlockedFile(j) /\ ~(j.meta = "desired" /\ j.definition = "desired" /\ FilesMatch(j))
  BY <1>4 DEF PlanAirflow
<1> QED BY <1>1, <1>2, <1>3, <1>4

LEMMA NoJobIs ==
  /\ NoJob \in AirflowJobs /\ NoJob.meta = "none"
  /\ \A definition \in {"none", "shell", "old", "desired", "foreign"} :
       /\ Shell(definition) \in AirflowJobs /\ Shell(definition).meta = "desired"
       /\ Shell(definition).file = NoJob.file /\ Shell(definition).ledger = NoJob.ledger
<1>1. NoJob \in AirflowJobs /\ NoJob.meta = "none"
  BY DEF NoJob, AirflowJobs
<1>2. ASSUME NEW definition \in {"none", "shell", "old", "desired", "foreign"}
      PROVE  /\ Shell(definition) \in AirflowJobs /\ Shell(definition).meta = "desired"
             /\ Shell(definition).file = NoJob.file /\ Shell(definition).ledger = NoJob.ledger
  <2>1. Shell(definition) = [[NoJob EXCEPT !.meta = "desired"] EXCEPT !.definition = definition]
    BY Zenon DEF Shell
  <2> QED BY <1>1, <2>1 DEF AirflowJobs
<1> QED BY <1>1, <1>2

(* The records that the code writes, and the requests that come late.       *)
LEMMA JobRecordOf ==
  ASSUME NEW kind \in {"none", "create", "operation", "proof", "update", "done"},
         NEW saw \in {"none", "shell", "old", "desired", "foreign"}
  PROVE  /\ NoJobRecord \in JobRecords /\ NoJobRecord.kind = "none"
         /\ [NoJobRecord EXCEPT !.kind = kind] \in JobRecords /\ [NoJobRecord EXCEPT !.kind = kind].kind = kind
         /\ [NoJobRecord EXCEPT !.kind = kind, !.saw = saw] \in JobRecords
         /\ [NoJobRecord EXCEPT !.kind = kind, !.saw = saw].kind = kind
<1>1. NoJobRecord \in JobRecords /\ NoJobRecord.kind = "none"
  BY DEF NoJobRecord, JobRecords
<1>2. [NoJobRecord EXCEPT !.kind = kind] \in JobRecords /\ [NoJobRecord EXCEPT !.kind = kind].kind = kind
  BY <1>1 DEF JobRecords
<1>3. [NoJobRecord EXCEPT !.kind = kind, !.saw = saw] = [[NoJobRecord EXCEPT !.kind = kind] EXCEPT !.saw = saw]
  BY Zenon
<1>4. [NoJobRecord EXCEPT !.kind = kind, !.saw = saw] \in JobRecords /\ [NoJobRecord EXCEPT !.kind = kind, !.saw = saw].kind = kind
  BY <1>2, <1>3 DEF JobRecords
<1> QED BY <1>1, <1>2, <1>4

LEMMA RequestsDiffer ==
  /\ \A f, g \in Paths : LateFile(f) = LateFile(g) => f = g
  /\ \A f \in Paths, request \in JobRequests : LateFile(f) # LateJob(request)
  /\ \A r, s \in JobRequests : LateJob(r) = LateJob(s) => r = s
  BY DEF LateFile, LateJob, JobRequests

(* What a request makes of a job.                                           *)
LEMMA JobEffectIs ==
  ASSUME NEW j \in AirflowJobs, NEW request \in JobRequests, request = "create airflow" => j = NoJob
  PROVE  /\ JobEffect(request, j) \in AirflowJobs /\ JobEffect(request, j).file = j.file
         /\ JobEffect(request, j).ledger = IF request = "write ledger" THEN NewLedger ELSE j.ledger
         /\ JobEffect(request, j).meta = IF request \in {"create airflow", "patch airflow"} THEN "desired" ELSE j.meta
<1>1. CASE request = "create airflow"
  <2>1. JobEffect(request, j) = Shell("shell")
    BY <1>1 DEF JobEffect
  <2> QED BY <1>1, <2>1, NoJobIs
<1>2. CASE request = "patch airflow"
  <2>1. JobEffect(request, j) = [j EXCEPT !.meta = "desired"]
    BY <1>2 DEF JobEffect
  <2> QED BY <1>2, <2>1 DEF AirflowJobs
<1>3. CASE request = "stage airflow"
  <2>1. JobEffect(request, j) = [j EXCEPT !.definition = "desired"]
    BY <1>3 DEF JobEffect
  <2> QED BY <1>3, <2>1 DEF AirflowJobs
<1>4. CASE request = "write ledger"
  <2>1. JobEffect(request, j) = [j EXCEPT !.ledger = NewLedger]
    BY <1>4 DEF JobEffect
  <2> QED BY <1>4, <2>1, NewLedgerIs DEF AirflowJobs
<1> QED BY <1>1, <1>2, <1>3, <1>4 DEF JobRequests

(* A step in which only the run moves on.                                   *)
LEMMA AirflowRunStep ==
  ASSUME AirflowInv, UNCHANGED <<approvedJob, airflow, airflowOp, airflowLate, edited>>,
         airflowCp' \in JobRecords, airflowMode' \in {"none", "create", "resume", "update", "verify"},
         found' \in AirflowJobs, handled' \subseteq Paths, pc' \in {"idle", "succeeded"} \cup AirflowSteps,
         airflow.meta = "none" =>
           pc' \notin OnJob \cup {"succeeded"} /\ airflowCp'.kind \in {"none", "create", "operation"},
         airflowOp = "creating" => airflowCp'.kind = "operation" /\ pc' \in {"idle", "await shell", "resume airflow"},
         LateJob("create airflow") \in airflowLate => airflowCp'.kind = "create" /\ pc' = "idle",
         pc' = "create airflow" => airflowCp'.kind = "none",
         pc' \in {"await shell", "reconcile airflow"} => airflowCp'.kind = "operation",
         FilesInv'
  PROVE  AirflowInv'
<1>1. AirflowShape'
  BY DEF AirflowInv, AirflowShape, LateJob, LateFile
<1>2. JobOnceThere'
  BY DEF AirflowInv, JobOnceThere, LateJob
<1>3. ApprovedIsThere'
  BY DEF AirflowInv, ApprovedIsThere
<1> QED BY <1>1, <1>2, <1>3 DEF AirflowInv

(* A step at a job that is there afterwards.                                *)
LEMMA JobChanges ==
  ASSUME AirflowInv, UNCHANGED <<approvedJob, airflowMode, found>>,
         airflow' \in AirflowJobs, airflow'.meta # "none", airflowOp' \in {"none", "created", "failed"},
         airflowLate' \subseteq {LateJob(request) : request \in JobRequests} \cup {LateFile(f) : f \in Paths},
         airflowCp' \in JobRecords, handled' \subseteq Paths, pc' \in {"idle", "succeeded"} \cup AirflowSteps,
         edited' \in BOOLEAN,
         LateJob("create airflow") \in airflowLate' => airflowCp'.kind = "create" /\ pc' = "idle",
         pc' = "create airflow" => airflowCp'.kind = "none",
         pc' \in {"await shell", "reconcile airflow"} => airflowCp'.kind = "operation",
         FilesInv'
  PROVE  AirflowInv'
<1>1. AirflowShape'
  BY DEF AirflowInv, AirflowShape, LateJob, LateFile
<1>2. JobOnceThere'
  BY DEF JobOnceThere, LateJob
<1>3. ApprovedIsThere'
  BY DEF AirflowInv, ApprovedIsThere
<1> QED BY <1>1, <1>2, <1>3 DEF AirflowInv

(* The parts of the invariant.                                              *)
LEMMA AirflowFacts ==
  ASSUME AirflowInv
  PROVE  /\ airflow \in AirflowJobs /\ approvedJob \in AirflowJobs /\ found \in AirflowJobs /\ handled \subseteq Paths
         /\ airflowCp \in JobRecords /\ airflowMode \in {"none", "create", "resume", "update", "verify"}
         /\ airflowOp \in {"none", "creating", "created", "failed"} /\ edited \in BOOLEAN
         /\ airflowLate \subseteq {LateJob(request) : request \in JobRequests} \cup {LateFile(f) : f \in Paths}
         /\ pc \in {"idle", "succeeded"} \cup AirflowSteps /\ JobOnceThere /\ FilesInv /\ ApprovedIsThere
         /\ airflowCp.kind \in {"none", "create", "operation", "proof", "update", "done"}
  BY DEF AirflowInv, AirflowShape, JobRecords

(* A run begins where the record tells it to.                               *)
LEMMA AirflowStarts ==
  ASSUME AirflowInv, StartAirflow
  PROVE  AirflowInv'
<1>1. UNCHANGED <<approvedJob, airflow, airflowOp, airflowLate, edited, airflowCp, found, handled>>
  BY DEF StartAirflow, OnlyReadsAirflow, airflowService, NoFault, KeepFiles
<1>2. \/ pc' = "idle" /\ airflowMode' = "none"
      \/ airflowCp.kind = "none" /\ approvedJob.meta = "none" /\ pc' = "create airflow" /\ airflowMode' = "create"
      \/ airflowCp.kind = "none" /\ approvedJob.meta # "none" /\ pc' = "airflow baseline" /\ airflowMode' = "update"
      \/ airflowCp.kind = "none" /\ approvedJob.meta # "none" /\ pc' = "verify airflow" /\ airflowMode' = "verify"
      \/ airflowCp.kind \in {"operation", "proof"} /\ pc' = "resume airflow" /\ airflowMode' = "resume"
      \/ airflowCp.kind = "done" /\ pc' = "verify airflow" /\ airflowMode' = "verify"
      \/ airflowCp.kind = "update" /\ pc' = "recover airflow" /\ airflowMode' = "verify"
  <2>1. CASE airflowCp.kind = "none"
    <3>1. CASE ObservedJob(airflow) = ObservedJob(approvedJob) /\ ApprovedAirflow # "blocked"
      <4>1. pc' = FreshAirflowStep /\ airflowMode' = IF ApprovedAirflow = "no-op" THEN "verify" ELSE ApprovedAirflow
        BY <2>1, <3>1 DEF StartAirflow, Goto, Readable
      <4>2. ApprovedAirflow \in {"create", "no-op", "update"} /\ ((ApprovedAirflow = "create") <=> (approvedJob.meta = "none"))
        BY <3>1, PlanAirflowIs DEF ApprovedAirflow
      <4> QED BY <2>1, <4>1, <4>2 DEF FreshAirflowStep
    <3>2. CASE ~(ObservedJob(airflow) = ObservedJob(approvedJob) /\ ApprovedAirflow # "blocked")
      BY <2>1, <3>2 DEF StartAirflow, Fail, Readable
    <3> QED BY <3>1, <3>2
  <2>2. CASE airflowCp.kind = "create" \/ ~Readable(airflowCp)
    <3>1. airflowCp.kind # "none"
      BY <2>2 DEF Readable
    <3> QED BY <2>2, <3>1 DEF StartAirflow, Fail
  <2>3. CASE airflowCp.kind \in {"operation", "proof", "update", "done"} /\ Readable(airflowCp)
    <3>1. pc' = RerunAirflowStep /\ airflowMode' = IF RerunAirflowStep = "resume airflow" THEN "resume" ELSE "verify"
      BY <2>3 DEF StartAirflow, Goto
    <3> QED BY <2>3, <3>1 DEF RerunAirflowStep
  <2> QED BY <2>1, <2>2, <2>3, AirflowFacts
<1>3. pc' \in {"idle", "succeeded"} \cup AirflowSteps
  BY <1>2 DEF AirflowSteps, OnJob
<1>4. FilesInv'
  BY <1>1, <1>2, AirflowFacts, FilesStill
<1>5. airflow.meta = "none" => pc' \in {"idle", "create airflow", "resume airflow"}
  <2>1. airflow.meta = "none" => approvedJob.meta = "none" /\ airflowCp.kind \in {"none", "create", "operation"}
    BY AirflowFacts, NoJobIs DEF JobOnceThere
  <2> QED BY <1>2, <2>1
<1>6. /\ airflow.meta = "none" => airflowCp.kind \in {"none", "create", "operation"}
      /\ airflowOp = "creating" => airflowCp.kind = "operation"
      /\ LateJob("create airflow") \in airflowLate => airflowCp.kind = "create"
  BY AirflowFacts DEF JobOnceThere
<1>7. airflow.meta = "none" => pc' \notin OnJob \cup {"succeeded"}
  BY <1>5 DEF OnJob
<1> QED BY <1>1, <1>2, <1>3, <1>4, <1>6, <1>7, AirflowFacts, AirflowRunStep

(* The steps that read and choose the next one.                             *)
LEMMA AirflowReads ==
  ASSUME AirflowInv, RecoverAirflow \/ AwaitShell \/ ReconcileAirflow \/ ResumeAirflow
  PROVE  AirflowInv'
<1>1. /\ UNCHANGED <<approvedJob, airflow, airflowOp, airflowLate, edited, found, handled>>
      /\ pc \in {"recover airflow", "await shell", "reconcile airflow", "resume airflow"}
  BY DEF RecoverAirflow, AwaitShell, ReconcileAirflow, ResumeAirflow, OnlyReadsAirflow, airflowService, NoFault, Fault,
         SpendFault, KeepFiles
<1>2. /\ \/ pc' = "idle"
         \/ pc' \in {"airflow baseline", "verify airflow", "read shell", "compare files", "stage airflow"}
            /\ airflow.meta # "none" /\ airflowOp # "creating"
         \/ pc' = "reconcile airflow" /\ airflowCp'.kind = "operation" /\ airflowOp = "failed"
      /\ airflowCp' = airflowCp \/ (airflowCp' = NoJobRecord /\ airflowOp # "creating")
      /\ airflowMode' \in {"none", "create", "resume", "update", "verify"}
  <2>1. CASE RecoverAirflow
    <3>1. airflow.meta # "none" /\ airflowOp # "creating"
      BY <2>1, AirflowFacts DEF RecoverAirflow, JobOnceThere, OnJob
    <3> QED BY <2>1, <3>1, AirflowFacts DEF RecoverAirflow, Goto, Fail
  <2>2. CASE AwaitShell
    <3>1. airflowOp = "created" => airflow.meta # "none"
      BY AirflowFacts DEF JobOnceThere
    <3>2. airflowCp.kind = "operation"
      BY <2>2, AirflowFacts DEF AwaitShell, JobOnceThere
    <3> QED BY <2>2, <3>1, <3>2, AirflowFacts DEF AwaitShell, Goto, Fail
  <2>3. CASE ReconcileAirflow
    <3>1. airflowOp # "creating"
      BY <2>3, AirflowFacts DEF ReconcileAirflow, JobOnceThere
    <3>2. airflowCp' = airflowCp \/ airflowCp' = NoJobRecord
      BY <2>3 DEF ReconcileAirflow
    <3>3. pc' = "idle" \/ (pc' = "verify airflow" /\ airflow.meta # "none")
      BY <2>3, PlanAirflowIs DEF ReconcileAirflow, Goto, Fail
    <3>4. UNCHANGED airflowMode
      BY <2>3 DEF ReconcileAirflow
    <3> QED BY <3>1, <3>2, <3>3, <3>4, AirflowFacts
  <2>4. CASE ResumeAirflow
    <3>1. UNCHANGED <<airflowCp, airflowMode>>
      BY <2>4 DEF ResumeAirflow
    <3>2. CASE airflowCp.kind = "operation" => airflowOp = "created"
      <4>1. AfterResumedShell(airflow) \in {"compare files", "stage airflow", "error"}
        BY DEF AfterResumedShell
      <4>2. pc' = "idle" \/ (pc' \in {"compare files", "stage airflow"} /\ airflow.meta # "none") \/ pc' = "reconcile airflow"
        BY <2>4, <4>1 DEF ResumeAirflow, Goto, Fail
      <4>3. pc' = "reconcile airflow" => airflowOp = "failed" /\ airflowCp.kind = "operation"
        BY <2>4, <4>1 DEF ResumeAirflow, Goto, Fail
      <4>4. airflowOp # "creating"
        BY <3>2, AirflowFacts DEF JobOnceThere
      <4> QED BY <3>1, <4>2, <4>3, <4>4, AirflowFacts
    <3>3. CASE ~(airflowCp.kind = "operation" => airflowOp = "created")
      BY <2>4, <3>1, <3>3, AirflowFacts DEF ResumeAirflow, Goto, Fail
    <3> QED BY <3>2, <3>3
  <2> QED BY <2>1, <2>2, <2>3, <2>4
<1>3. airflowCp' \in JobRecords /\ pc' \in {"idle", "succeeded"} \cup AirflowSteps
  BY <1>2, AirflowFacts, JobRecordOf DEF AirflowSteps, OnJob
<1>4. FilesInv'
  BY <1>1, <1>2, AirflowFacts, FilesStill
<1>5. LateJob("create airflow") \notin airflowLate
  BY <1>1, AirflowFacts DEF JobOnceThere
<1>6. /\ airflow.meta = "none" => airflowCp.kind \in {"none", "create", "operation"}
      /\ airflowOp = "creating" => airflowCp.kind = "operation"
  BY AirflowFacts DEF JobOnceThere
<1>7. airflow.meta = "none" => pc' \notin OnJob \cup {"succeeded"} /\ airflowCp'.kind \in {"none", "create", "operation"}
  BY <1>2, <1>6, JobRecordOf DEF OnJob
<1>8. airflowOp = "creating" => pc' = "idle" /\ airflowCp'.kind = "operation"
  BY <1>2, <1>6
<1> QED BY <1>1, <1>2, <1>3, <1>4, <1>5, <1>7, <1>8, AirflowFacts, AirflowRunStep

(* The steps that write the record, and the crash.                          *)
LEMMA AirflowRecords ==
  ASSUME AirflowInv, ReadShell \/ ReadShellFails \/ AirflowBaseline \/ VerifyAirflow \/ CrashAirflow
  PROVE  AirflowInv'
<1>1. /\ UNCHANGED <<approvedJob, airflow, airflowOp, airflowLate, edited, airflowMode, found, handled>>
      /\ pc \notin {"idle", "succeeded"}
  BY DEF ReadShell, ReadShellFails, AirflowBaseline, VerifyAirflow, CrashAirflow, OnlyReadsAirflow, airflowVars,
         airflowService, NoFault, Loss, Fault, SpendFault, KeepFiles
<1>2. \/ pc' = "idle" /\ UNCHANGED airflowCp
      \/ /\ pc \in OnJob /\ pc' \in {"stage airflow", "patch airflow", "succeeded"}
         /\ airflowCp' \in JobRecords
  <2>1. CASE ReadShell
    <3>1. airflow.definition \in {"none", "shell", "old", "desired", "foreign"}
      BY AirflowFacts DEF AirflowJobs
    <3> QED BY <2>1, <3>1, JobRecordOf DEF ReadShell, Goto, OnJob
  <2>2. CASE AirflowBaseline
    <3>1. airflow.definition \in {"none", "shell", "old", "desired", "foreign"}
      BY AirflowFacts DEF AirflowJobs
    <3>2. airflowCp' \in JobRecords
      BY <2>2, <3>1 DEF AirflowBaseline, JobRecords
    <3> QED BY <2>2, <3>2 DEF AirflowBaseline, Goto, OnJob
  <2>3. CASE VerifyAirflow
    BY <2>3, JobRecordOf DEF VerifyAirflow, Goto, Fail, OnJob
  <2>4. CASE ReadShellFails \/ CrashAirflow
    BY <2>4 DEF ReadShellFails, CrashAirflow, airflowVars, Fail
  <2> QED BY <2>1, <2>2, <2>3, <2>4
<1>3. FilesInv'
  BY <1>1, <1>2, AirflowFacts, FilesStill
<1>4. LateJob("create airflow") \notin airflowLate
  BY <1>1, AirflowFacts DEF JobOnceThere
<1>5. CASE pc' = "idle" /\ UNCHANGED airflowCp
  <2>1. /\ airflow.meta = "none" => airflowCp.kind \in {"none", "create", "operation"}
        /\ airflowOp = "creating" => airflowCp.kind = "operation"
    BY AirflowFacts DEF JobOnceThere
  <2>2. pc' \notin OnJob \cup {"succeeded"}
    BY <1>5 DEF OnJob
  <2> QED BY <1>1, <1>3, <1>4, <1>5, <2>1, <2>2, AirflowFacts, AirflowRunStep
<1>6. CASE pc \in OnJob /\ pc' \in {"stage airflow", "patch airflow", "succeeded"} /\ airflowCp' \in JobRecords
  <2>1. airflow.meta # "none" /\ airflowOp # "creating"
    BY <1>6, AirflowFacts DEF JobOnceThere, OnJob
  <2>2. pc' \in {"idle", "succeeded"} \cup AirflowSteps
    BY <1>6 DEF AirflowSteps, OnJob
  <2> QED BY <1>1, <1>3, <1>4, <1>6, <2>1, <2>2, AirflowFacts, AirflowRunStep
<1> QED BY <1>2, <1>5, <1>6

(* The files are compared, and all have been dealt with.                    *)
LEMMA FilesCompared ==
  ASSUME AirflowInv, CompareFiles \/ FilesHandled
  PROVE  AirflowInv'
<1>1. /\ UNCHANGED <<approvedJob, airflow, airflowOp, airflowLate, edited, airflowCp, airflowMode>>
      /\ pc \in {"compare files", "files"}
  BY DEF CompareFiles, FilesHandled, OnlyReadsAirflow, airflowService, NoFault
<1>2. airflow.meta # "none" /\ airflowOp # "creating" /\ LateJob("create airflow") \notin airflowLate
  BY <1>1, AirflowFacts DEF JobOnceThere, OnJob
<1>3. CASE CompareFiles
  <2>1. /\ found' = airflow /\ handled' = {} /\ pc' \in {"idle", "files"}
        /\ pc' = "files" => ~BlockedFile(airflow)
    BY <1>3 DEF CompareFiles, Goto, Fail
  <2>2. FilesInv'
    <3>1. CASE edited
      BY <1>1, <3>1 DEF FilesInv
    <3>2. CASE ~edited
      <4>1. LateJob("write ledger") \in airflowLate => AsWanted(airflow)
        BY <3>2, AirflowFacts DEF FilesInv, FilesMoveOn
      <4> QED BY <1>1, <2>1, <3>2, <4>1, AirflowFacts, FilesStep
    <3> QED BY <3>1, <3>2
  <2>3. pc' \in {"idle", "succeeded"} \cup AirflowSteps
    BY <2>1 DEF AirflowSteps, OnJob
  <2> QED BY <1>1, <1>2, <2>1, <2>2, <2>3, AirflowFacts, AirflowRunStep
<1>4. CASE FilesHandled
  <2>1. UNCHANGED <<found, handled>> /\ pc' = "write ledger" /\ pc = "files" /\ Uploads \cup Removals \subseteq handled
    BY <1>4 DEF FilesHandled, KeepFiles, Goto
  <2>2. FilesInv'
    <3>1. CASE edited
      BY <1>1, <3>1 DEF FilesInv
    <3>2. CASE ~edited
      <4>1. FilesFound
        BY <3>2, AirflowFacts DEF FilesInv
      <4>2. AsWanted(airflow)
        BY <2>1, <4>1, AirflowFacts, AllHandled
      <4> QED BY <1>1, <2>1, <3>2, <4>2, AirflowFacts, FilesStep
    <3> QED BY <3>1, <3>2
  <2>3. pc' \in {"idle", "succeeded"} \cup AirflowSteps
    BY <2>1 DEF AirflowSteps, OnJob
  <2> QED BY <1>1, <1>2, <2>1, <2>2, <2>3, AirflowFacts, AirflowRunStep
<1> QED BY <1>3, <1>4

(* The requests, by how they end.                                           *)
LEMMA AirflowIsRejected ==
  ASSUME AirflowInv, AirflowRejected
  PROVE  AirflowInv'
<1>1. /\ UNCHANGED <<approvedJob, airflow, airflowOp, airflowLate, edited, airflowMode, found, handled>>
      /\ pc \in JobRequests /\ pc' = "idle" /\ airflowCp' \in {airflowCp, NoJobRecord}
  BY DEF AirflowRejected, airflowService, Loss, Fault, SpendFault, KeepFiles, Fail
<1>2. airflowOp # "creating" /\ LateJob("create airflow") \notin airflowLate
  BY <1>1, AirflowFacts DEF JobOnceThere, JobRequests
<1>3. FilesInv'
  BY <1>1, AirflowFacts, FilesStill
<1>4. airflowCp' \in JobRecords /\ (airflow.meta = "none" => airflowCp'.kind \in {"none", "create", "operation"})
  BY <1>1, AirflowFacts, JobRecordOf DEF JobOnceThere
<1>5. pc' \notin OnJob \cup {"succeeded"}
  BY <1>1 DEF OnJob
<1> QED BY <1>1, <1>2, <1>3, <1>4, <1>5, AirflowFacts, AirflowRunStep

LEMMA ShellIsAsked ==
  ASSUME AirflowInv, CreateShell
  PROVE  AirflowInv'
<1>1. /\ UNCHANGED <<approvedJob, airflowLate, airflowMode, edited, found, handled>> /\ pc = "create airflow"
      /\ airflow.meta = "none"
  BY DEF CreateShell, KeepFiles, NoFault
<1>2. /\ airflow = NoJob /\ airflowOp \notin {"creating", "created"} /\ LateJob("create airflow") \notin airflowLate
      /\ approvedJob = NoJob /\ airflowLate \subseteq {LateJob("create airflow")}
  BY <1>1, AirflowFacts DEF JobOnceThere
<1>3. CASE /\ airflow' = Shell("shell") /\ UNCHANGED airflowOp
           /\ airflowCp' = [NoJobRecord EXCEPT !.kind = "create"] /\ pc' = "read shell"
  <2>1. /\ airflow' \in AirflowJobs /\ airflow'.meta = "desired"
        /\ airflow'.file = airflow.file /\ airflow'.ledger = airflow.ledger
    BY <1>2, <1>3, NoJobIs
  <2>2. FilesInv'
    BY <1>1, <1>3, <2>1, AirflowFacts, FilesStill
  <2>3. airflowCp' \in JobRecords /\ pc' \in {"idle", "succeeded"} \cup AirflowSteps
    BY <1>3, JobRecordOf DEF AirflowSteps, OnJob
  <2> QED BY <1>1, <1>2, <1>3, <2>1, <2>2, <2>3, AirflowFacts, JobChanges
<1>4. CASE /\ airflowOp' = "creating" /\ UNCHANGED airflow
           /\ airflowCp' = [NoJobRecord EXCEPT !.kind = "operation"] /\ pc' = "await shell"
  <2>1. airflowCp' \in JobRecords /\ airflowCp'.kind = "operation" /\ pc' \in {"idle", "succeeded"} \cup AirflowSteps
    BY <1>4, JobRecordOf DEF AirflowSteps
  <2>2. pc' \notin OnJob \cup {"succeeded"}
    BY <1>4 DEF OnJob
  <2>3. AirflowShape'
    BY <1>1, <1>4, <2>1, AirflowFacts DEF AirflowShape, LateJob, LateFile
  <2>4. JobOnceThere'
    BY <1>1, <1>2, <1>4, <2>1, <2>2 DEF JobOnceThere, LateJob
  <2>5. FilesInv'
    BY <1>1, <1>4, AirflowFacts, FilesStill
  <2>6. ApprovedIsThere'
    BY <1>1, AirflowFacts DEF ApprovedIsThere
  <2> QED BY <2>3, <2>4, <2>5, <2>6 DEF AirflowInv
<1> QED BY <1>3, <1>4 DEF CreateShell, Goto

(* The files and the ledger after a request other than for a file.          *)
LEMMA FilesAfterRequest ==
  ASSUME AirflowInv, NEW request \in JobRequests, request = "create airflow" => airflow.meta = "none",
         request = "write ledger" => pc = "write ledger" \/ LateJob("write ledger") \in airflowLate,
         airflow' = JobEffect(request, airflow), airflowLate' \subseteq airflowLate, pc' \notin {"files", "write ledger"}
           \/ UNCHANGED <<pc, found, handled>>, UNCHANGED <<approvedJob, edited>>
  PROVE  FilesInv'
<1>1. /\ airflow'.file = airflow.file
      /\ airflow'.ledger = IF request = "write ledger" THEN NewLedger ELSE airflow.ledger
  <2>1. request = "create airflow" => airflow = NoJob
    BY AirflowFacts DEF JobOnceThere
  <2> QED BY <2>1, AirflowFacts, JobEffectIs
<1>2. CASE edited
  BY <1>2 DEF FilesInv
<1>3. CASE ~edited
  <2>1. /\ pc = "write ledger" \/ LateJob("write ledger") \in airflowLate => AsWanted(airflow)
    BY <1>3, AirflowFacts DEF FilesInv, FilesMoveOn
  <2>2. airflow'.ledger = airflow.ledger \/ (airflow'.ledger = NewLedger /\ AsWanted(airflow))
    BY <1>1, <2>1
  <2>3. pc' = "files" => pc = "files" /\ UNCHANGED <<found, handled>>
    OBVIOUS
  <2>4. pc' = "write ledger" \/ LateJob("write ledger") \in airflowLate' => AsWanted(airflow)
    BY <2>1
  <2> QED BY <1>1, <1>3, <2>2, <2>3, <2>4, AirflowFacts, FilesStep
<1> QED BY <1>2, <1>3

LEMMA AirflowIsAnswered ==
  ASSUME AirflowInv, AirflowAnswered
  PROVE  AirflowInv'
<1>1. /\ UNCHANGED <<approvedJob, airflowOp, airflowLate, airflowMode, edited, found, handled>>
      /\ airflow' = JobEffect(pc, airflow) /\ pc \in {"patch airflow", "stage airflow", "write ledger"}
      /\ pc' \in {"stage airflow", "compare files", "verify airflow"}
  BY DEF AirflowAnswered, KeepFiles, NoFault, Goto
<1>2. airflowCp' \in JobRecords
  <2>1. \/ airflowCp' = [airflowCp EXCEPT !.phase = "submitting"]
        \/ airflowCp' = [airflowCp EXCEPT !.saw = "desired", !.phase = "staged"]
        \/ airflowCp' = airflowCp
    BY DEF AirflowAnswered
  <2>2. [airflowCp EXCEPT !.phase = "submitting"] \in JobRecords
    BY AirflowFacts DEF JobRecords
  <2>3. [airflowCp EXCEPT !.saw = "desired", !.phase = "staged"] \in JobRecords
    <3>1. [airflowCp EXCEPT !.saw = "desired", !.phase = "staged"] = [[airflowCp EXCEPT !.saw = "desired"] EXCEPT !.phase = "staged"]
      BY Zenon
    <3> QED BY <3>1, AirflowFacts DEF JobRecords
  <2> QED BY <2>1, <2>2, <2>3, AirflowFacts
<1>3. airflow.meta # "none" /\ airflowOp # "creating" /\ LateJob("create airflow") \notin airflowLate
  BY <1>1, AirflowFacts DEF JobOnceThere, OnJob
<1>4. PICK request \in JobRequests : request = pc /\ request # "create airflow"
  BY <1>1 DEF JobRequests
<1>5. airflow' \in AirflowJobs /\ airflow'.meta # "none"
  BY <1>1, <1>3, <1>4, AirflowFacts, JobEffectIs
<1>6. FilesInv'
  BY <1>1, <1>4, FilesAfterRequest
<1>7. pc' \in {"idle", "succeeded"} \cup AirflowSteps
  BY <1>1 DEF AirflowSteps, OnJob
<1> QED BY <1>1, <1>2, <1>3, <1>5, <1>6, <1>7, AirflowFacts, JobChanges

LEMMA AirflowIsUnanswered ==
  ASSUME AirflowInv, AirflowUnanswered
  PROVE  AirflowInv'
<1>1. /\ UNCHANGED <<approvedJob, airflowOp, airflowMode, edited, found, handled>> /\ pc \in JobRequests /\ pc' = "idle"
      /\ pc = "create airflow" => airflow.meta = "none"
      /\ airflowCp' = IF pc = "create airflow" THEN [NoJobRecord EXCEPT !.kind = "create"] ELSE airflowCp
  BY DEF AirflowUnanswered, KeepFiles, Loss, Fault, SpendFault, Fail
<1>2. PICK request \in JobRequests : request = pc
  BY <1>1
<1>3. /\ airflowCp' \in JobRecords /\ (pc = "create airflow" => airflowCp'.kind = "create")
      /\ airflowOp # "creating" /\ LateJob("create airflow") \notin airflowLate
      /\ airflow.meta = "none" => pc = "create airflow"
      /\ airflow.meta = "none" => airflow = NoJob
  <2>1. airflowCp' \in JobRecords /\ (pc = "create airflow" => airflowCp'.kind = "create")
    BY <1>1, AirflowFacts, JobRecordOf
  <2>2. airflowOp # "creating" /\ LateJob("create airflow") \notin airflowLate
    BY <1>1, AirflowFacts DEF JobOnceThere, JobRequests
  <2>3. airflow.meta = "none" => pc = "create airflow" /\ airflow = NoJob
    BY <1>1, AirflowFacts DEF JobOnceThere, JobRequests, OnJob
  <2> QED BY <2>1, <2>2, <2>3
<1>4. CASE airflow' = JobEffect(pc, airflow) /\ UNCHANGED airflowLate
  <2>1. airflow' \in AirflowJobs /\ airflow'.meta # "none"
    BY <1>1, <1>2, <1>3, <1>4, AirflowFacts, JobEffectIs
  <2>2. FilesInv'
    BY <1>1, <1>2, <1>4, FilesAfterRequest
  <2> QED BY <1>1, <1>3, <1>4, <2>1, <2>2, AirflowFacts, JobChanges
<1>5. CASE airflowLate' \in {airflowLate, airflowLate \cup {LateJob(pc)}} /\ UNCHANGED airflow
  <2>1. /\ airflowLate' \subseteq {LateJob(r) : r \in JobRequests} \cup {LateFile(f) : f \in Paths}
        /\ LateJob("create airflow") \in airflowLate' => pc = "create airflow"
        /\ \A f \in Paths : LateFile(f) \in airflowLate' => LateFile(f) \in airflowLate
        /\ LateJob("write ledger") \in airflowLate' => LateJob("write ledger") \in airflowLate \/ pc = "write ledger"
    BY <1>1, <1>2, <1>3, <1>5, AirflowFacts, RequestsDiffer DEF JobRequests
  <2>2. FilesInv'
    BY <1>1, <1>5, <2>1, AirflowFacts, FilesStill
  <2>3. CASE airflow.meta # "none"
    BY <1>1, <1>3, <1>5, <2>1, <2>2, <2>3, AirflowFacts, JobChanges
  <2>4. CASE airflow.meta = "none"
    <3>1. AirflowShape'
      BY <1>1, <1>3, <1>5, <2>1, AirflowFacts DEF AirflowShape, LateJob, LateFile
    <3>2. pc' \notin OnJob \cup {"succeeded"}
      BY <1>1 DEF OnJob
    <3>3. airflowLate \subseteq {LateJob("create airflow")} /\ approvedJob = NoJob /\ airflowOp # "created" /\ pc = "create airflow"
      BY <1>3, <2>4, AirflowFacts DEF JobOnceThere
    <3>4. airflowLate' \subseteq {LateJob("create airflow")}
      BY <1>5, <3>3
    <3>5. JobOnceThere'
      BY <1>1, <1>3, <1>5, <2>4, <3>2, <3>3, <3>4 DEF JobOnceThere, LateJob
    <3>6. ApprovedIsThere'
      BY <1>1, AirflowFacts DEF ApprovedIsThere
    <3> QED BY <2>2, <3>1, <3>5, <3>6 DEF AirflowInv
  <2> QED BY <2>3, <2>4
<1>6. \/ airflow' = JobEffect(pc, airflow) /\ UNCHANGED airflowLate
      \/ airflowLate' \in {airflowLate, airflowLate \cup {LateJob(pc)}} /\ UNCHANGED airflow
  BY DEF AirflowUnanswered, LateJob
<1> QED BY <1>4, <1>5, <1>6

(* A request for a file, that has been or may be executed.                  *)
LEMMA AFileIsAsked ==
  ASSUME AirflowInv, NEW f \in Paths, FileAnswered(f) \/ FileUnanswered(f)
  PROVE  AirflowInv'
<1>1. /\ UNCHANGED <<approvedJob, airflowOp, airflowMode, airflowCp, edited, found>> /\ pc = "files"
      /\ PutFile(f) \/ DeleteFile(f)
      /\ pc' = "idle" \/ (pc' = "files" /\ airflow' = WithFile(f, airflow))
      /\ handled' \in {handled, handled \cup {f}}
      /\ airflow' = WithFile(f, airflow) \/ UNCHANGED airflow
      /\ airflowLate' \in {airflowLate, airflowLate \cup {LateFile(f)}}
  BY DEF FileAnswered, FileUnanswered, KeepFiles, NoFault, Fault, SpendFault, Fail, LateFile
<1>2. airflow.meta # "none" /\ airflowOp # "creating" /\ LateJob("create airflow") \notin airflowLate
  BY <1>1, AirflowFacts DEF JobOnceThere, OnJob
<1>3. /\ WithFile(f, airflow) \in AirflowJobs /\ WithFile(f, airflow).meta = airflow.meta
      /\ WithFile(f, airflow).ledger = airflow.ledger
      /\ \A g \in Paths : WithFile(f, airflow).file[g] = IF g = f THEN Wanted(f) ELSE airflow.file[g]
  BY AirflowFacts, WithFileIs
<1>4. airflow' \in AirflowJobs /\ airflow'.meta # "none" /\ airflow'.ledger = airflow.ledger
  BY <1>1, <1>2, <1>3, AirflowFacts
<1>5. /\ \A g \in Paths : LateFile(g) \in airflowLate' => LateFile(g) \in airflowLate \/ g = f
      /\ \A request \in JobRequests : LateJob(request) \in airflowLate' => LateJob(request) \in airflowLate
      /\ airflowLate' \subseteq {LateJob(r) : r \in JobRequests} \cup {LateFile(g) : g \in Paths}
  BY <1>1, AirflowFacts, RequestsDiffer
<1>6. FilesInv'
  <2>1. CASE edited
    BY <1>1, <2>1 DEF FilesInv
  <2>2. CASE ~edited
    <3>1. ItsTurn(f)
      BY <1>1, <2>2, AirflowFacts, InItsTurn DEF FilesInv, ItsTurn
    <3>2. \A g \in Paths : airflow'.file[g] = airflow.file[g] \/ (ItsTurn(g) /\ airflow'.file[g] = Wanted(g))
      BY <1>1, <1>3, <3>1
    <3>3. \A g \in Paths : LateFile(g) \in airflowLate' => LateFile(g) \in airflowLate \/ ItsTurn(g)
      BY <1>5, <3>1
    <3>4. LateJob("write ledger") \in airflowLate' => AsWanted(airflow)
      BY <1>5, <2>2, AirflowFacts DEF FilesInv, FilesMoveOn, JobRequests
    <3>5. pc' = "files" => \A g \in Paths : g \in handled' => g \in handled \/ airflow'.file[g] = Wanted(g)
      BY <1>1, <1>3
    <3> QED BY <1>1, <1>4, <2>2, <3>2, <3>3, <3>4, <3>5, AirflowFacts, FilesStep
  <2> QED BY <2>1, <2>2
<1>7. /\ handled' \subseteq Paths /\ pc' \in {"idle", "succeeded"} \cup AirflowSteps
      /\ pc' \notin {"create airflow", "await shell", "reconcile airflow"}
      /\ LateJob("create airflow") \notin airflowLate'
  BY <1>1, <1>2, <1>5, AirflowFacts DEF AirflowSteps, OnJob, JobRequests
<1> QED BY <1>1, <1>2, <1>4, <1>5, <1>6, <1>7, AirflowFacts, JobChanges

(* The service: the create that ends, requests that come late.              *)
LEMMA ShellIsFinished ==
  ASSUME AirflowInv, FinishShell
  PROVE  AirflowInv'
<1>1. /\ UNCHANGED <<approvedJob, airflowLate, airflowCp, airflowMode, found, handled, pc, edited>>
      /\ airflowOp = "creating"
      /\ \/ airflowOp' = "created" /\ airflow' = Shell("shell")
         \/ airflowOp' = "failed" /\ UNCHANGED airflow
  BY DEF FinishShell, NoFault, Fault, SpendFault
<1>2. /\ airflow = NoJob /\ airflowCp.kind = "operation" /\ LateJob("create airflow") \notin airflowLate
      /\ pc \in {"idle", "await shell", "resume airflow"} /\ airflow.meta = "none"
  BY <1>1, AirflowFacts DEF JobOnceThere
<1>3. airflow'.file = airflow.file /\ airflow'.ledger = airflow.ledger
  BY <1>1, <1>2, NoJobIs
<1>4. FilesInv'
  BY <1>1, <1>2, <1>3, AirflowFacts, FilesStill
<1>5. CASE airflowOp' = "created" /\ airflow' = Shell("shell")
  <2>1. airflow' \in AirflowJobs /\ airflow'.meta # "none"
    BY <1>5, NoJobIs
  <2> QED BY <1>1, <1>2, <1>4, <1>5, <2>1, AirflowFacts, JobChanges
<1>6. CASE airflowOp' = "failed" /\ UNCHANGED airflow
  <2>1. AirflowShape'
    BY <1>1, <1>6, AirflowFacts DEF AirflowShape, LateJob, LateFile
  <2>2. JobOnceThere'
    BY <1>1, <1>2, <1>6, AirflowFacts DEF JobOnceThere, LateJob
  <2>3. ApprovedIsThere'
    BY <1>1, AirflowFacts DEF ApprovedIsThere
  <2> QED BY <1>4, <2>1, <2>2, <2>3 DEF AirflowInv
<1> QED BY <1>1, <1>5, <1>6

LEMMA AirflowComesLate ==
  ASSUME AirflowInv, ExecuteAirflowLate
  PROVE  AirflowInv'
<1>1. /\ UNCHANGED <<approvedJob, airflowOp, airflowCp, airflowMode, found, handled, pc, edited>>
  BY DEF ExecuteAirflowLate, NoFault
<1>2. PICK request \in airflowLate :
        /\ airflowLate' = airflowLate \ {request}
        /\ request.verb = "create airflow" <=> airflow.meta = "none"
        /\ airflow' = IF request.verb = "file" THEN WithFile(request.file, airflow) ELSE JobEffect(request.verb, airflow)
  BY DEF ExecuteAirflowLate
<1>3. /\ airflowLate' \subseteq airflowLate
      /\ airflowLate' \subseteq {LateJob(r) : r \in JobRequests} \cup {LateFile(g) : g \in Paths}
      /\ LateJob("create airflow") \in airflowLate' => airflowCp.kind = "create" /\ pc = "idle"
      /\ pc = "create airflow" => airflowCp.kind = "none"
      /\ pc \in {"await shell", "reconcile airflow"} => airflowCp.kind = "operation"
  <2>1. airflowLate' \subseteq airflowLate
    BY <1>2
  <2> QED BY <2>1, AirflowFacts DEF JobOnceThere
<1>4. CASE \E r \in JobRequests : request = LateJob(r)
  <2>1. PICK r \in JobRequests : request = LateJob(r)
    BY <1>4
  <2>2. request.verb = r /\ r # "file"
    BY <2>1 DEF LateJob, JobRequests
  <2>3. airflow' = JobEffect(r, airflow) /\ ((r = "create airflow") <=> (airflow.meta = "none")) /\ LateJob(r) \in airflowLate
    BY <1>2, <2>1, <2>2
  <2>4. airflow.meta = "none" => airflow = NoJob
    BY AirflowFacts DEF JobOnceThere
  <2>5. airflow' \in AirflowJobs /\ airflow'.meta # "none"
    BY <2>3, <2>4, AirflowFacts, JobEffectIs
  <2>6. airflowOp # "creating"
    BY <2>3, AirflowFacts DEF JobOnceThere
  <2>7. FilesInv'
    BY <1>1, <1>3, <2>3, FilesAfterRequest
  <2> QED BY <1>1, <1>3, <2>5, <2>6, <2>7, AirflowFacts, JobChanges
<1>5. CASE \E f \in Paths : request = LateFile(f)
  <2>1. PICK f \in Paths : request = LateFile(f)
    BY <1>5
  <2>2. request.verb = "file" /\ request.file = f
    BY <2>1 DEF LateFile
  <2>3. airflow' = WithFile(f, airflow) /\ airflow.meta # "none" /\ LateFile(f) \in airflowLate
    BY <1>2, <2>1, <2>2
  <2>4. /\ airflow' \in AirflowJobs /\ airflow'.meta = airflow.meta /\ airflow'.ledger = airflow.ledger
        /\ \A g \in Paths : airflow'.file[g] = IF g = f THEN Wanted(f) ELSE airflow.file[g]
    BY <2>3, AirflowFacts, WithFileIs
  <2>5. airflowOp # "creating"
    BY <2>3, AirflowFacts DEF JobOnceThere
  <2>6. FilesInv'
    <3>1. CASE edited
      BY <1>1, <3>1 DEF FilesInv
    <3>2. CASE ~edited
      <4>1. FilesMoveOn /\ UpInOrder /\ DownInOrder
        BY <3>2, AirflowFacts DEF FilesInv
      <4>2. ItsTurn(f)
        BY <2>3, <4>1 DEF ItsTurn, FilesMoveOn, UpInOrder, DownInOrder
      <4>3. \A g \in Paths : airflow'.file[g] = airflow.file[g] \/ (ItsTurn(g) /\ airflow'.file[g] = Wanted(g))
        BY <2>4, <4>2
      <4>4. pc' = "write ledger" \/ LateJob("write ledger") \in airflowLate' => AsWanted(airflow)
        BY <1>1, <1>3, <4>1 DEF FilesMoveOn
      <4>5. \A g \in Paths : LateFile(g) \in airflowLate' => LateFile(g) \in airflowLate
        BY <1>3
      <4> QED BY <1>1, <2>4, <3>2, <4>3, <4>4, <4>5, AirflowFacts, FilesStep
    <3> QED BY <3>1, <3>2
  <2>7. airflow'.meta # "none"
    BY <2>3, <2>4
  <2> QED BY <1>1, <1>3, <2>4, <2>5, <2>6, <2>7, AirflowFacts, JobChanges
<1> QED BY <1>2, <1>4, <1>5, AirflowFacts

LEMMA AirflowIsEdited ==
  ASSUME AirflowInv, EditAirflow
  PROVE  AirflowInv'
<1>1. /\ UNCHANGED <<approvedJob, airflowOp, airflowLate, airflowCp, airflowMode, found, handled, pc>> /\ edited' = TRUE
      /\ airflow.meta # "none"
  BY DEF EditAirflow, Foreign
<1>2. airflow' \in AirflowJobs /\ airflow'.meta = airflow.meta
  <2>1. ASSUME NEW f \in Paths, NEW content \in {"absent", "foreign"}, airflow' = [airflow EXCEPT !.file[f] = content]
        PROVE  airflow' \in AirflowJobs /\ airflow'.meta = airflow.meta
    BY <2>1, AirflowFacts DEF AirflowJobs
  <2>2. CASE airflow' = [airflow EXCEPT !.ledger = NoJob.ledger]
    <3>1. NoJob.ledger \in [Paths -> {"none", "old", "desired"}]
      BY NoJobIs DEF AirflowJobs
    <3> QED BY <2>2, <3>1, AirflowFacts DEF AirflowJobs
  <2>3. CASE airflow' = [airflow EXCEPT !.definition = "foreign"]
    BY <2>3, AirflowFacts DEF AirflowJobs
  <2> QED BY <2>1, <2>2, <2>3 DEF EditAirflow
<1>3. FilesInv'
  BY <1>1 DEF FilesInv
<1>4. /\ airflowOp # "creating" /\ (LateJob("create airflow") \in airflowLate => airflowCp.kind = "create" /\ pc = "idle")
      /\ pc = "create airflow" => airflowCp.kind = "none"
      /\ pc \in {"await shell", "reconcile airflow"} => airflowCp.kind = "operation"
  BY <1>1, AirflowFacts DEF JobOnceThere
<1> QED BY <1>1, <1>2, <1>3, <1>4, AirflowFacts, JobChanges

(* Every step of a run, of Fabric and of somebody else keeps it.            *)
LEMMA AirflowNextInv ==
  ASSUME AirflowInv, AirflowNext
  PROVE  AirflowInv'
<1>1. ReconcileFiles => AirflowInv'
  BY AFileIsAsked DEF ReconcileFiles
<1> QED BY <1>1, AirflowStarts, AirflowReads, AirflowRecords, FilesCompared, AirflowIsRejected, ShellIsAsked,
           AirflowIsAnswered, AirflowIsUnanswered, ShellIsFinished, AirflowComesLate, AirflowIsEdited
        DEF AirflowNext, AskAirflow, ReadAirflow, AirflowService

LEMMA AirflowInitially ==
  ASSUME RunInit, AirflowInit
  PROVE  AirflowInv
<1>1. /\ pc = "idle" /\ edited = FALSE /\ airflow \in FirstJobs /\ approvedJob = airflow /\ airflowOp = "none"
      /\ airflowLate = {} /\ airflowCp = NoJobRecord /\ airflowMode = "none" /\ found = airflow /\ handled = {}
  BY DEF RunInit, AirflowInit
<1>2. airflow \in AirflowJobs /\ (airflow.meta = "none" => airflow = NoJob)
  BY <1>1, AirflowBounds
<1>3. AirflowShape /\ JobOnceThere /\ ApprovedIsThere
  BY <1>1, <1>2, JobRecordOf DEF AirflowShape, JobOnceThere, ApprovedIsThere, OnJob
<1>4. FilesMoveOn /\ FilesFound
  BY <1>1 DEF FilesMoveOn, FilesFound, Progress
<1>5. UpInOrder
  BY <1>1 DEF UpInOrder
<1>6. DownInOrder
  <2>1. ASSUME NEW p \in Plugins \ Bundle, FileAction(p, approvedJob) = "delete"
        PROVE  airflow.file[p] # "absent"
    <3>1. p \in Paths /\ p \notin Bundle
      BY <2>1 DEF Paths
    <3> QED BY <1>1, <1>2, <2>1, <3>1, NotOfTheBundle
  <2> QED BY <1>1, <2>1 DEF DownInOrder
<1> QED BY <1>3, <1>4, <1>5, <1>6 DEF AirflowInv, FilesInv

LEMMA AirflowSafe ==
  ASSUME AirflowInv
  PROVE  AirflowTypeOK /\ OwnWorkIsKnown /\ PluginsServeDags
<1>1. AirflowTypeOK
  <2>1. airflowLate \subseteq [verb : JobRequests \cup {"file"}, file : Paths \cup {0}]
    BY AirflowFacts DEF LateJob, LateFile
  <2>2. airflowCp.phase \in {"none", "metadata", "submitting", "staged"}
    BY AirflowFacts DEF JobRecords
  <2> QED BY <2>1, <2>2, AirflowFacts DEF AirflowTypeOK
<1>2. OwnWorkIsKnown
  <2> SUFFICES ASSUME ~edited, ApprovedAirflow # "blocked"
               PROVE  ~BlockedFile(airflow)
    BY DEF OwnWorkIsKnown
  <2>1. Progress(airflow)
    BY AirflowFacts DEF FilesInv, FilesMoveOn
  <2>2. CASE approvedJob.meta # "none"
    <3>1. ~BlockedFile(approvedJob)
      <4>1. ASSUME BlockedFile(approvedJob)
            PROVE  FALSE
        <5>1. ~FilesMatch(approvedJob)
          BY <4>1 DEF BlockedFile, FilesMatch
        <5> QED BY <2>2, <4>1, <5>1 DEF ApprovedAirflow, PlanAirflow
      <4> QED BY <4>1
    <3> QED BY <2>1, <3>1, AirflowFacts, ProgressIsKnown
  <2>3. CASE approvedJob.meta = "none"
    <3>1. approvedJob = NoJob
      BY <2>3, AirflowFacts DEF ApprovedIsThere
    <3>2. ~BlockedFile(approvedJob)
      <4> SUFFICES ASSUME NEW f \in Paths
                   PROVE  FileAction(f, approvedJob) # "blocked"
        BY DEF BlockedFile
      <4>1. approvedJob.file[f] = "absent"
        BY <3>1 DEF NoJob
      <4> QED BY <4>1, AirflowFacts, OfTheBundle, NotOfTheBundle
    <3> QED BY <2>1, <3>2, AirflowFacts, ProgressIsKnown
  <2> QED BY <2>2, <2>3
<1>3. PluginsServeDags
  <2> SUFFICES ASSUME ~edited
               PROVE  UpInOrder /\ DownInOrder => PluginsServeDags
    BY AirflowFacts DEF PluginsServeDags, FilesInv
  <2>1. ASSUME NEW p \in Plugins, FileAction(p, approvedJob) = "delete"
        PROVE  p \in Plugins \ Bundle
    <3>1. p \in Paths
      BY DEF Paths
    <3> QED BY <2>1, <3>1, AirflowFacts, OfTheBundle
  <2> QED BY <2>1 DEF PluginsServeDags, UpInOrder, DownInOrder, PluginsUp, DagsDown
<1> QED BY <1>1, <1>2, <1>3

LEMMA AirflowStays ==
  ASSUME AirflowInv, UNCHANGED airflowAll
  PROVE  AirflowInv'
<1>1. UNCHANGED <<approvedJob, airflow, airflowOp, airflowLate, airflowCp, airflowMode, found, handled, pc, edited>>
  BY DEF airflowAll, runVars, airflowVars, airflowService
<1>2. AirflowShape' /\ ApprovedIsThere' /\ JobOnceThere'
  BY <1>1 DEF AirflowInv, AirflowShape, ApprovedIsThere, JobOnceThere
<1>3. /\ \A f : (Concerns(f, approvedJob)' <=> Concerns(f, approvedJob)) /\ FileAction(f, approvedJob)' = FileAction(f, approvedJob)
      /\ (AsWanted(airflow)' <=> AsWanted(airflow)) /\ (Progress(airflow)' <=> Progress(airflow))
      /\ (Progress(found)' <=> Progress(found)) /\ (BlockedFile(found)' <=> BlockedFile(found))
      /\ (PluginsUp(airflow)' <=> PluginsUp(airflow)) /\ (DagsDown(airflow)' <=> DagsDown(airflow))
  BY <1>1 DEF AsWanted, Progress, DagsDown, PluginsUp, BlockedFile, Concerns, FileAction
<1>4. FilesInv'
  BY <1>1, <1>3 DEF AirflowInv, FilesInv, FilesMoveOn, FilesFound, UpInOrder, DownInOrder
<1> QED BY <1>2, <1>4 DEF AirflowInv

(* Wherever a run stopped among the files, the next one knows its work, and *)
(* a DAG has its plugins (apache-airflow.ts).                               *)
THEOREM AirflowCorrect == AirflowSpec => [](AirflowTypeOK /\ OwnWorkIsKnown /\ PluginsServeDags)
<1>1. RunInit /\ AirflowInit => AirflowInv
  BY AirflowInitially
<1>2. AirflowInv /\ [AirflowNext]_airflowAll => AirflowInv'
  BY AirflowNextInv, AirflowStays
<1>3. AirflowInv => AirflowTypeOK /\ OwnWorkIsKnown /\ PluginsServeDags
  BY AirflowSafe
<1> QED BY <1>1, <1>2, <1>3, PTL DEF AirflowSpec, airflowAll

-----------------------------------------------------------------------------
(* The protocols together.  Of those that a behaviour is not about, nothing *)
(* has moved; the one it is about satisfies its invariant, and a job is     *)
(* begun by the staging of its artifacts alone.                             *)
TablesIdle == TablesInit /\ symbolic /\ catalog = [r \in Resources |-> "absent"]
EnvironmentIdle == EnvironmentInit /\ ~usesMarker /\ environment = NoEnvironment
StagingIdle == StagingInit /\ stored = [a \in Artifacts |-> "absent"]
AirflowIdle == AirflowInit /\ airflow = NoJob
TagsIdle == TagsInit /\ tagged = [there |-> TRUE, tags |-> Tags]
PipelineIdle == PipelineInit /\ pipeline

OneAtATime ==
  /\ IF protocol = "tables" THEN TablesInv ELSE TablesIdle
  /\ IF protocol = "environment" THEN EnvironmentInv ELSE EnvironmentIdle
  /\ IF protocol = "staging" THEN StagingTypeOK /\ StagingInv ELSE StagingIdle /\ pc # "job sent"
  /\ IF protocol = "airflow" THEN AirflowInv ELSE AirflowIdle
  /\ IF protocol = "tags" THEN TagsInv ELSE TagsIdle
  /\ IF protocol = "pipeline" THEN PipelineInv ELSE PipelineIdle

(* What is at rest stays at rest, and satisfies its properties whatever the *)
(* run is doing.                                                            *)
LEMMA AtRest ==
  /\ TablesIdle /\ UNCHANGED tablesVars => TablesIdle'
  /\ EnvironmentIdle /\ UNCHANGED envVars => EnvironmentIdle'
  /\ StagingIdle /\ UNCHANGED stagingVars => StagingIdle'
  /\ AirflowIdle /\ UNCHANGED airflowVars => AirflowIdle'
  /\ TagsIdle /\ UNCHANGED tagVars => TagsIdle'
  /\ PipelineIdle /\ UNCHANGED pipelineVars => PipelineIdle'
<1>1. TablesIdle /\ UNCHANGED tablesVars => TablesIdle'
  BY DEF TablesIdle, TablesInit, PlanTables, tablesVars, lakehouse, tablesCp, tablesRun, tablesPlan
<1>2. EnvironmentIdle /\ UNCHANGED envVars => EnvironmentIdle'
  BY DEF EnvironmentIdle, EnvironmentInit, envVars, envPlan, envService
<1>3. StagingIdle /\ UNCHANGED stagingVars => StagingIdle'
  BY DEF StagingIdle, StagingInit, PlanArtifact, stagingVars, oneLake
<1>4. AirflowIdle /\ UNCHANGED airflowVars => AirflowIdle'
  BY DEF AirflowIdle, AirflowInit, airflowVars, airflowService
<1>5. TagsIdle /\ UNCHANGED tagVars => TagsIdle'
  BY DEF TagsIdle, TagsInit, tagVars, tagService, tagRecords
<1>6. PipelineIdle /\ UNCHANGED pipelineVars => PipelineIdle'
  BY DEF PipelineIdle, PipelineInit, pipelineVars
<1> QED BY <1>1, <1>2, <1>3, <1>4, <1>5, <1>6

(* The tables before their first run, whatever the run of another protocol  *)
(* does; and so on.                                                         *)
LEMMA TablesAtRest ==
  ASSUME TablesIdle
  PROVE  TablesTypeOK /\ SessionTracked /\ ReceiptsAreTrue /\ SchemaBeforeTable /\ OneStatementAtATime
<1>1. approvedTables \in [Resources -> {"create", "no-op", "blocked"}]
  BY DEF TablesIdle, TablesInit, PlanTables
<1>2. catalog \in [Resources -> TableStates]
  BY DEF TablesIdle, TableStates
<1>3. /\ sessions = [s \in Sessions |-> "none"] /\ sessionLate = FALSE /\ statement = NoPosting
      /\ bundle = NoBundle /\ tablesDone = FALSE /\ session = NoSession /\ symbolic \in BOOLEAN
      /\ preflight = [r \in Resources |-> Unseen] /\ failing = FALSE /\ tableFlags = {}
  BY DEF TablesIdle, TablesInit
<1>4. /\ bundle.phase = "none" /\ bundle.session = NoSession /\ bundle.statement.phase = "none" /\ bundle.receipts = {}
      /\ bundle.statement.verb = "none"
      /\ statement.state = "none" /\ statement.in = NoSession /\ statement.saw = "absent"
  BY <1>3 DEF NoBundle, NoStatement, NoPosting
<1>5. TablesTypeOK
  BY <1>1, <1>2, <1>3, <1>4 DEF TablesTypeOK, TableStates
<1>6. LiveSessions = {}
  BY <1>3 DEF LiveSessions, Live
<1>7. SessionTracked
  BY <1>3, <1>6, FS_EmptySet DEF SessionTracked
<1>8. ReceiptsAreTrue /\ SchemaBeforeTable /\ OneStatementAtATime
  BY <1>3, <1>4 DEF ReceiptsAreTrue, SchemaBeforeTable, OneStatementAtATime, Runs
<1> QED BY <1>5, <1>7, <1>8

LEMMA EnvironmentAtRest ==
  ASSUME EnvironmentIdle
  PROVE  EnvironmentTypeOK /\ ChangesAreTracked /\ PublishesApproved
<1>1. /\ usesMarker \in BOOLEAN /\ environment \in FirstEnvironments /\ approvedEnv = environment
      /\ envOperation = NoOperation /\ envLate = {} /\ envCp = NoEnvRecord /\ mode = "none" /\ target = 0
  BY DEF EnvironmentIdle, EnvironmentInit
<1>2. environment \in Environments
  BY <1>1, EnvironmentBounds
<1>3. envOperation.state = "none" /\ envCp.kind = "none" /\ envCp.phase = "none"
  BY <1>1 DEF NoOperation, NoEnvRecord
<1>4. EnvironmentTypeOK
  BY <1>1, <1>2, <1>3 DEF EnvironmentTypeOK
<1> QED BY <1>1, <1>3, <1>4 DEF ChangesAreTracked, PublishesApproved

LEMMA StagingAtRest ==
  ASSUME StagingIdle
  PROVE  StagingTypeOK /\ (pc # "job sent" => JobAfterArtifacts)
<1>1. /\ stored = [a \in Artifacts |-> "absent"] /\ approvedArtifacts = [a \in Artifacts |-> PlanArtifact(a)]
      /\ putLate = {} /\ job = FALSE /\ staging = NoStaging /\ jobCp = "none" /\ cursor = {} /\ attempt = 0
  BY DEF StagingIdle, StagingInit
<1>2. approvedArtifacts \in [Artifacts -> {"create", "no-op", "blocked"}]
  BY <1>1 DEF PlanArtifact
<1>3. NoStaging \in [there : BOOLEAN, phase : Phases, completed : BOOLEAN]
  BY DEF NoStaging, Phases
<1>4. 0 \in 0..MaxAttempts
  BY StagingBounds
<1>5. StagingTypeOK
  BY <1>1, <1>2, <1>3, <1>4 DEF StagingTypeOK
<1> QED BY <1>5 DEF JobAfterArtifacts

LEMMA AirflowAtRest ==
  ASSUME AirflowIdle
  PROVE  AirflowTypeOK /\ OwnWorkIsKnown /\ PluginsServeDags
<1>1. /\ airflow = NoJob /\ approvedJob = NoJob /\ airflowOp = "none" /\ airflowLate = {}
      /\ airflowCp = NoJobRecord /\ airflowMode = "none" /\ handled = {}
  BY DEF AirflowIdle, AirflowInit
<1>2. NoJob \in AirflowJobs
  BY DEF NoJob, AirflowJobs
<1>3. \A f \in Paths : NoJob.file[f] = "absent" /\ NoJob.ledger[f] = "none"
  BY DEF NoJob
<1>4. \A f \in Paths : FileAction(f, NoJob) \in {"none", "create"}
  <2> SUFFICES ASSUME NEW f \in Paths PROVE FileAction(f, NoJob) \in {"none", "create"} OBVIOUS
  <2>1. CASE f \in Bundle
    BY <1>3, <2>1 DEF FileAction
  <2>2. CASE f \notin Bundle
    BY <1>3, <2>2 DEF FileAction
  <2> QED BY <2>1, <2>2
<1>5. AirflowTypeOK
  BY <1>1, <1>2 DEF AirflowTypeOK, NoJobRecord
<1>6. OwnWorkIsKnown
  BY <1>1, <1>4 DEF OwnWorkIsKnown, BlockedFile
<1>7. PluginsServeDags
  BY <1>1, <1>3, <1>4, AirflowBounds DEF PluginsServeDags, Paths
<1> QED BY <1>5, <1>6, <1>7

LEMMA TagsAtRest ==
  ASSUME TagsIdle
  PROVE  TagsTypeOK /\ SuccessMeansTagged /\ TagsAskedOnce
<1>1. PICK first \in FirstTagged : catalogue = first.catalogue
  BY DEF TagsIdle, TagsInit
<1>2. TagsTypeOK
  BY <1>1, TagBounds DEF TagsIdle, TagsInit, TagsTypeOK
<1> QED BY <1>2 DEF TagsIdle, TagsInit, SuccessMeansTagged, TagsAskedOnce

LEMMA PipelineAtRest ==
  ASSUME PipelineIdle
  PROVE  PipelineTypeOK /\ PolledJobIsNamed /\ PollingIsBounded
<1>1. /\ jobs = [j \in Jobs |-> "none"] /\ jobFile = [job |-> 0, status |-> "none"] /\ polled = 0 /\ clock = 0 /\ wakeAt = 0
  BY DEF PipelineIdle, PipelineInit
<1>2. 0 \in 0..MaxJobs /\ 0 <= RunTimeout + RequestTime
  BY PipelineBounds
<1>3. PipelineTypeOK
  BY <1>1, <1>2 DEF PipelineTypeOK
<1> QED BY <1>1, <1>2, <1>3 DEF PolledJobIsNamed, PollingIsBounded

(* Where a run can be says which protocol it follows.                       *)
LEMMA NoJobElsewhere ==
  TablesInv' \/ EnvironmentInv' \/ AirflowInv' \/ TagsInv' \/ PipelineInv' => pc' # "job sent"
BY DEF TablesInv, TablesShape, TablesSteps, EnvironmentInv, EnvironmentShape, EnvironmentSteps, AirflowInv,
       AirflowShape, AirflowSteps, OnJob, TagsInv, TagSteps, PipelineInv, PipelineShape

(* The steps of one protocol keep its own invariant and leave the others at *)
(* rest.                                                                    *)
LEMMA OneAtATimeInitially ==
  ASSUME Init
  PROVE  OneAtATime
<1>1. IF protocol = "tables" THEN TablesInv ELSE TablesIdle
  BY TablesInitially DEF Init, TablesIdle
<1>2. IF protocol = "environment" THEN EnvironmentInv ELSE EnvironmentIdle
  BY EnvironmentInitially DEF Init, EnvironmentIdle
<1>3. IF protocol = "staging" THEN StagingTypeOK /\ StagingInv ELSE StagingIdle /\ pc # "job sent"
  BY StagingInitially DEF Init, StagingIdle, RunInit
<1>4. IF protocol = "airflow" THEN AirflowInv ELSE AirflowIdle
  BY AirflowInitially DEF Init, AirflowIdle
<1>5. IF protocol = "tags" THEN TagsInv ELSE TagsIdle
  BY TagsInitially DEF Init, TagsIdle
<1>6. IF protocol = "pipeline" THEN PipelineInv ELSE PipelineIdle
  BY PipelineInitially DEF Init, PipelineIdle
<1> QED BY <1>1, <1>2, <1>3, <1>4, <1>5, <1>6 DEF OneAtATime

LEMMA OneAtATimeNext ==
  ASSUME OneAtATime, Next
  PROVE  OneAtATime'
<1>1. CASE Of("tables", TablesNext)
  BY <1>1, TablesNextInv, NoJobElsewhere, AtRest DEF Of, OthersThan, OneAtATime
<1>2. CASE Of("environment", EnvironmentNext)
  BY <1>2, EnvironmentNextInv, NoJobElsewhere, AtRest DEF Of, OthersThan, OneAtATime
<1>3. CASE Of("staging", StagingNext)
  BY <1>3, StagingNextInv, StagingTypes, AtRest DEF Of, OthersThan, OneAtATime
<1>4. CASE Of("airflow", AirflowNext)
  BY <1>4, AirflowNextInv, NoJobElsewhere, AtRest DEF Of, OthersThan, OneAtATime
<1>5. CASE Of("tags", TagsNext)
  BY <1>5, TagsNextInv, NoJobElsewhere, AtRest DEF Of, OthersThan, OneAtATime
<1>6. CASE Of("pipeline", PipelineNext)
  BY <1>6, PipelineNextInv, NoJobElsewhere, AtRest DEF Of, OthersThan, OneAtATime
<1> QED BY <1>1, <1>2, <1>3, <1>4, <1>5, <1>6 DEF Next

LEMMA OneAtATimeStays ==
  ASSUME OneAtATime, UNCHANGED vars
  PROVE  OneAtATime'
<1>1. /\ UNCHANGED <<protocol, runVars>> /\ pc' = pc
      /\ UNCHANGED tablesVars /\ UNCHANGED envVars /\ UNCHANGED stagingVars
      /\ UNCHANGED airflowVars /\ UNCHANGED tagVars /\ UNCHANGED pipelineVars
  BY DEF vars, runVars
<1>2. IF protocol' = "tables" THEN TablesInv' ELSE TablesIdle'
  BY <1>1, TablesStays, AtRest DEF OneAtATime, tablesAll
<1>3. IF protocol' = "environment" THEN EnvironmentInv' ELSE EnvironmentIdle'
  BY <1>1, EnvironmentStays, AtRest DEF OneAtATime, environmentAll
<1>4. IF protocol' = "staging" THEN StagingTypeOK' /\ StagingInv' ELSE StagingIdle' /\ pc' # "job sent"
  BY <1>1, StagingStays, AtRest DEF OneAtATime, stagingAll
<1>5. IF protocol' = "airflow" THEN AirflowInv' ELSE AirflowIdle'
  BY <1>1, AirflowStays, AtRest DEF OneAtATime, airflowAll
<1>6. IF protocol' = "tags" THEN TagsInv' ELSE TagsIdle'
  BY <1>1, TagsStay, AtRest DEF OneAtATime, tagsAll
<1>7. IF protocol' = "pipeline" THEN PipelineInv' ELSE PipelineIdle'
  BY <1>1, PipelineStays, AtRest DEF OneAtATime, pipelineAll
<1> QED BY <1>2, <1>3, <1>4, <1>5, <1>6, <1>7 DEF OneAtATime

(* Whatever protocol a behaviour is about, its invariant holds and all      *)
(* others are at rest.                                                      *)
THEOREM ContentInvariant == Spec => []OneAtATime
<1>1. OneAtATime /\ [Next]_vars => OneAtATime'
  BY OneAtATimeNext, OneAtATimeStays
<1> QED BY <1>1, OneAtATimeInitially, PTL DEF Spec

(* Either the invariant of a protocol or its being at rest implies its      *)
(* properties.                                                              *)
LEMMA ContentIsSafe ==
  ASSUME OneAtATime
  PROVE  ContentInv /\ InOrder /\ SuccessIsTrue
<1>1. TablesTypeOK /\ SessionTracked /\ ReceiptsAreTrue /\ SchemaBeforeTable /\ OneStatementAtATime
  BY TablesSafe, TablesAtRest DEF OneAtATime
<1>2. EnvironmentTypeOK /\ ChangesAreTracked /\ PublishesApproved
  BY EnvironmentSafe, EnvironmentAtRest DEF OneAtATime
<1>3. StagingTypeOK /\ JobAfterArtifacts
  BY StagingSafe, StagingAtRest DEF OneAtATime
<1>4. AirflowTypeOK /\ OwnWorkIsKnown /\ PluginsServeDags
  BY AirflowSafe, AirflowAtRest DEF OneAtATime
<1>5. TagsTypeOK /\ SuccessMeansTagged
  BY TagsSafe, TagsAtRest DEF OneAtATime
<1>6. PipelineTypeOK /\ PolledJobIsNamed /\ PollingIsBounded
  BY PipelineSafe, PipelineAtRest DEF OneAtATime
<1> QED BY <1>1, <1>2, <1>3, <1>4, <1>5, <1>6 DEF ContentInv, InOrder, SuccessIsTrue

(* Every session, staged or published change, file and job that a run       *)
(* brought about is known to the checkpoint or the result file, wherever    *)
(* the run was cut off, and polling ends when it was told to                *)
(* (applyLakehouseTablesItem, the recoveries of apply.ts, apache-airflow.ts *)
(* and run-pipeline.ts).                                                    *)
THEOREM ContentIsTracked == Spec => []ContentInv
BY ContentInvariant, ContentIsSafe, PTL

(* A table comes after its schema, one statement at a time, a job after its *)
(* artifacts and a DAG with its plugins, over all reruns                    *)
(* (lakehouse-tables.ts, onelake-artifacts.ts, apache-airflow.ts).          *)
THEOREM ContentInOrder == Spec => []InOrder
BY ContentInvariant, ContentIsSafe, PTL

(* The receipt of a statement, the version of an Environment that a run     *)
(* waits for and the tags of an item are what a run takes them for          *)
(* (lakehouse-tables.ts, environment.ts, tags.ts).                          *)
THEOREM ContentSuccessIsTrue == Spec => []SuccessIsTrue
BY ContentInvariant, ContentIsSafe, PTL

(* No step replaces an artifact or a file of somebody else, or asks twice   *)
(* for a tag that the tenant cannot get rid of (putImmutableObject,         *)
(* reconcileFiles of apache-airflow.ts, the creates of tags.ts).            *)
THEOREM ForeignContentKept == Spec => ForeignContentIsKept
<1>1. OneAtATime /\ [Next]_vars => [NeverOverwrites /\ ForeignFilesAreKept /\ TagsAskedOnce]_vars
  <2> SUFFICES ASSUME OneAtATime, Next PROVE NeverOverwrites /\ ForeignFilesAreKept /\ TagsAskedOnce
    OBVIOUS
  <2>1. NeverOverwrites
    <3>1. CASE protocol = "staging"
      BY <3>1, NeverOverwritten DEF Next, Of, OneAtATime
    <3>2. CASE protocol # "staging"
      BY <3>2 DEF Next, Of, OthersThan, stagingVars, oneLake, NeverOverwrites
    <3> QED BY <3>1, <3>2
  <2>2. ForeignFilesAreKept
    <3>1. CASE protocol = "airflow"
      <4>1. airflow \in AirflowJobs /\ found \in AirflowJobs
        BY <3>1, AirflowFacts DEF OneAtATime
      <4> QED BY <4>1, ForeignKept DEF ForeignFilesAreKept
    <3>2. CASE protocol # "airflow"
      BY <3>2 DEF Next, Of, OthersThan, airflowVars, airflowService, ForeignFilesAreKept
    <3> QED BY <3>1, <3>2
  <2>3. TagsAskedOnce
    BY TagsOnce, TagsAtRest DEF OneAtATime
  <2> QED BY <2>1, <2>2, <2>3
<1> QED BY <1>1, ContentInvariant, PTL DEF Spec, ForeignContentIsKept

(* An Environment is recorded as completed only when what is published is   *)
(* the approved definition, although requests came late and somebody else   *)
(* staged or published something meanwhile (environment.ts).                *)
THEOREM DoneIsPublished == Spec => DoneMeansPublished
<1>1. OneAtATime /\ [Next]_vars =>
        [~EnvironmentDone /\ envCp'.kind = "done" =>
           \/ environment.published = "desired"
           \/ environment.published = "foreign" /\ usesMarker /\ edited]_envVars
  <2> SUFFICES ASSUME OneAtATime, [Next]_vars, envVars' # envVars, ~EnvironmentDone, envCp'.kind = "done"
               PROVE  \/ environment.published = "desired"
                      \/ environment.published = "foreign" /\ usesMarker /\ edited
    OBVIOUS
  <2>1. Of("environment", EnvironmentNext)
    BY DEF Next, Of, OthersThan, vars
  <2> QED BY <2>1, VerifiedIsPublished DEF Of, OneAtATime
<1> QED BY <1>1, ContentInvariant, PTL DEF Spec, DoneMeansPublished
=============================================================================
