----------------------------- MODULE RunPipeline -----------------------------
(***************************************************************************)
(* Mode run-pipeline: one job of a Data Pipeline is started and polled     *)
(* until it ends or the time is up (src/src/run-pipeline.ts,               *)
(* src/src/fabric/pipeline-job.ts, the first part of run() in              *)
(* src/src/main.ts).  Nothing is checkpointed; all that outlives the run   *)
(* is its result file.                                                     *)
(***************************************************************************)
EXTENDS ApplyRun

CONSTANTS
  MaxJobs,       \* bound: how many jobs are ever started
  RunTimeout,    \* pipeline-run-timeout-minutes
  RequestTime,   \* how long one read, with its retries, may take
  RetryAfters    \* delays the service asks for, or the poll interval

ASSUME PipelineBounds ==
  MaxJobs \in Nat /\ RunTimeout \in Nat \ {0} /\ RequestTime \in Nat /\ RetryAfters \subseteq Nat \ {0}

VARIABLES
  pipeline,     \* the pipeline is deployed
  jobs,         \* the status of each job
  jobFile,      \* the result file: the job it names and its status
  polled,       \* the job this run polls, 0 before
  clock,        \* time since the polling began
  wakeAt        \* when it polls next

pipelineVars == <<pipeline, jobs, jobFile, polled, clock, wakeAt>>

Jobs == 1..MaxJobs
Terminal == {"Completed", "Failed", "Cancelled", "Deduped"}
NotStarted == {j \in Jobs : jobs[j] = "none"}
NewJob == CHOOSE j \in NotStarted : TRUE

PipelineInit ==
  /\ pipeline \in BOOLEAN
  /\ jobs = [j \in Jobs |-> "none"]
  /\ jobFile = [job |-> 0, status |-> "none"]
  /\ polled = 0 /\ clock = 0 /\ wakeAt = 0

OnlyPolls == UNCHANGED <<pipeline, jobs>>

(* A delay, the first one too, is cut to the time that is left.             *)
Cut(time) == IF time < RunTimeout THEN time ELSE RunTimeout
-----------------------------------------------------------------------------
(* The safeguards, and PipelineAdapter.resolveForRun.  What an earlier run  *)
(* left in the result file stays there until a job has been started.        *)
StartPipelineRun ==
  /\ pc \in {"idle", "succeeded"} /\ NotStarted # {}
  /\ IF pipeline THEN Goto("trigger") ELSE Fail
  /\ polled' = 0 /\ clock' = 0 /\ wakeAt' = 0
  /\ UNCHANGED jobFile /\ OnlyPolls /\ NoFault

(* runOnDemand; its Retry-After is the first delay.                         *)
Triggered ==
  /\ pc = "trigger" /\ NotStarted # {}
  /\ jobs' = [jobs EXCEPT ![NewJob] = "InProgress"]
  /\ polled' = NewJob /\ \E delay \in RetryAfters : wakeAt' = Cut(delay)
  /\ Goto("triggered")
  /\ UNCHANGED <<pipeline, jobFile, clock>> /\ NoFault

(* The request is not repeated; a job it may have started goes unnoticed.   *)
TriggerFails ==
  /\ pc = "trigger"
  /\ \/ UNCHANGED jobs
     \/ NotStarted # {} /\ jobs' = [jobs EXCEPT ![NewJob] = "InProgress"]
  /\ Fail /\ Fault
  /\ UNCHANGED <<pipeline, jobFile, polled, clock, wakeAt>>

WriteTriggered ==
  /\ pc = "triggered"
  /\ jobFile' = [job |-> polled, status |-> "InProgress"] /\ Goto("poll")
  /\ UNCHANGED <<polled, clock, wakeAt>> /\ OnlyPolls /\ NoFault

(* The time is looked at before a read, not after it: a read begun in time  *)
(* counts, also if its answer comes late.                                   *)
Awake == pc = "poll" /\ clock >= wakeAt
Read == Awake /\ clock < RunTimeout /\ \E took \in 0..RequestTime : clock' = clock + took

(* A terminal status ends the polling, whatever it is; main then writes it. *)
PollEnds ==
  /\ Read /\ jobs[polled] \in Terminal
  /\ jobFile' = [job |-> polled, status |-> jobs[polled]]
  /\ IF jobs[polled] = "Completed" THEN Goto("succeeded") ELSE Fail
  /\ UNCHANGED <<polled, wakeAt>> /\ OnlyPolls /\ NoFault

PollAgain ==
  /\ Read /\ jobs[polled] \notin Terminal
  /\ \E delay \in RetryAfters : wakeAt' = Cut(clock' + delay)
  /\ UNCHANGED <<jobFile, polled, pc>> /\ OnlyPolls /\ NoFault

(* A read that failed after its retries, or an instance that is another's.  *)
PollFails ==
  /\ Read
  /\ Fail /\ Fault
  /\ UNCHANGED <<jobFile, polled, wakeAt>> /\ OnlyPolls

(* The time is up before the next poll, also if the job has ended by then.  *)
PollTimesOut ==
  /\ Awake /\ clock >= RunTimeout
  /\ Fail
  /\ UNCHANGED pipelineVars /\ NoFault

CrashPipelineRun ==
  /\ pc \in {"triggered", "poll"}
  /\ Fail /\ Fault
  /\ UNCHANGED pipelineVars
-----------------------------------------------------------------------------
PipelineClock ==
  /\ pc = "poll" /\ clock < wakeAt
  /\ clock' = clock + 1
  /\ UNCHANGED <<pipeline, jobs, jobFile, polled, wakeAt, pc>> /\ NoFault

JobEnds ==
  /\ \E j \in Jobs, status \in Terminal :
       jobs[j] = "InProgress" /\ jobs' = [jobs EXCEPT ![j] = status]
  /\ UNCHANGED <<pipeline, jobFile, polled, clock, wakeAt, pc>> /\ NoFault

AskPipeline == Triggered \/ TriggerFails \/ WriteTriggered
ReadPipeline == PollEnds \/ PollAgain \/ PollFails \/ PollTimesOut
PipelineNext == StartPipelineRun \/ AskPipeline \/ ReadPipeline \/ PipelineClock \/ JobEnds \/ CrashPipelineRun
PipelineSpec == RunInit /\ PipelineInit /\ [][PipelineNext]_<<runVars, pipelineVars>>
-----------------------------------------------------------------------------
PipelineTypeOK ==
  /\ jobs \in [Jobs -> {"none", "InProgress"} \cup Terminal] /\ polled \in 0..MaxJobs
  /\ jobFile \in [job : 0..MaxJobs, status : {"none", "InProgress"} \cup Terminal]
  /\ clock \in Nat /\ wakeAt \in Nat

(* "a polling or timeout failure still leaves a recoverable identity in the *)
(* action outputs and pipeline-run-result-file" (README.md): a run that has *)
(* polled a job leaves its name, whatever an earlier run left there.        *)
PolledJobIsNamed ==
  pc = "poll" \/ (pc # "triggered" /\ clock > 0) => jobFile.job = polled

(* The action waits as long as it was told, not as the service asks it to:  *)
(* it overruns its time by one read at most.                                *)
PollingIsBounded == clock <= RunTimeout + RequestTime

(* Whatever becomes of the job, a run that polls it ends.                   *)
PipelineRunEnds == pc = "poll" ~> pc \in {"idle", "succeeded"}
=============================================================================
