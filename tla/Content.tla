------------------------------- MODULE Content -------------------------------
(***************************************************************************)
(* The protocols that fill an item with its content, one of them at a time: *)
(* each keeps its own record in the checkpoint and asks a service of its    *)
(* own.  What the others stand at is fixed, and satisfies their properties. *)
(***************************************************************************)
EXTENDS LakehouseTables, EnvironmentPublish, OneLakeStaging, AirflowFiles, TagAssignment, RunPipeline

CONSTANT Protocols  \* those to be considered
VARIABLE protocol   \* the one that this behaviour is about
vars == <<protocol, runVars, tablesVars, envVars, stagingVars, airflowVars, tagVars, pipelineVars>>

Init ==
  /\ protocol \in Protocols /\ RunInit
  /\ TablesInit /\ (protocol = "tables" \/ (symbolic /\ catalog = [r \in Resources |-> "absent"]))
  /\ EnvironmentInit /\ (protocol = "environment" \/ (~usesMarker /\ environment = NoEnvironment))
  /\ StagingInit /\ (protocol = "staging" \/ stored = [a \in Artifacts |-> "absent"])
  /\ AirflowInit /\ (protocol = "airflow" \/ airflow = NoJob)
  /\ TagsInit /\ (protocol = "tags" \/ tagged = [there |-> TRUE, tags |-> Tags])
  /\ PipelineInit /\ (protocol = "pipeline" \/ pipeline)

OthersThan(p) ==
  /\ IF p = "tables" THEN TRUE ELSE UNCHANGED tablesVars
  /\ IF p = "environment" THEN TRUE ELSE UNCHANGED envVars
  /\ IF p = "staging" THEN TRUE ELSE UNCHANGED stagingVars
  /\ IF p = "airflow" THEN TRUE ELSE UNCHANGED airflowVars
  /\ IF p = "tags" THEN TRUE ELSE UNCHANGED tagVars
  /\ IF p = "pipeline" THEN TRUE ELSE UNCHANGED pipelineVars

Of(p, step) == protocol = p /\ step /\ OthersThan(p) /\ UNCHANGED protocol
Next ==
  \/ Of("tables", TablesNext) \/ Of("environment", EnvironmentNext) \/ Of("staging", StagingNext)
  \/ Of("airflow", AirflowNext) \/ Of("tags", TagsNext) \/ Of("pipeline", PipelineNext)

Spec == Init /\ [][Next]_vars

(* A run goes on until it ends, the services do what they have accepted, a  *)
(* job in its own time, and the deployment is run again, with every         *)
(* safeguard now and then.                                                  *)
RunGoesOn ==
  \/ Of("tables", AskTables \/ ReadTables) \/ Of("environment", AskEnvironment \/ ReadEnvironment)
  \/ Of("staging", AskOneLake \/ ReadOneLake) \/ Of("airflow", AskAirflow \/ ReadAirflow)
  \/ Of("tags", AskTags \/ ReadTags) \/ Of("pipeline", AskPipeline \/ ReadPipeline)
ServicesGoOn ==
  \/ Of("tables", Livy) \/ Of("environment", EnvironmentService) \/ Of("staging", PutLate)
  \/ Of("airflow", AirflowService) \/ Of("tags", TagsLate) \/ Of("pipeline", PipelineClock)
RunsAgain ==
  \/ Of("tables", StartTables /\ tableFlags' = {"schema", "table"}) \/ Of("environment", StartEnvironment)
  \/ Of("staging", StartStaging) \/ Of("airflow", StartAirflow) \/ Of("tags", StartTagRun)
Fairness == WF_vars(RunGoesOn) /\ WF_vars(ServicesGoOn) /\ SF_vars(RunsAgain)
FairSpec == Spec /\ Fairness

(* What the plan calls blocked is not for a run to resolve, and an item     *)
(* with some of its tags is never found as approved (see DriftMeansChange). *)
Feasible ==
  \/ protocol = "tables" /\ BundleAction # "blocked"
  \/ protocol = "environment" /\ ApprovedAction # "blocked"
  \/ protocol = "staging" /\ ~Blocked
  \/ protocol = "airflow" /\ ApprovedAirflow # "blocked"
  \/ protocol = "tags" /\ ~BlockedTags /\ ~MixedTags
ContentDone ==
  \/ protocol = "tables" /\ tablesDone
  \/ protocol = "environment" /\ EnvironmentDone
  \/ protocol = "staging" /\ jobCp = "done"
  \/ protocol = "airflow" /\ AirflowDone
  \/ protocol = "tags" /\ pc = "succeeded"

(* Every session, staged or published change, file and job that a run       *)
(* brought about is known to the checkpoint or the result file, wherever    *)
(* the run was cut off, and polling ends when it was told to.               *)
ContentInv ==
  /\ TablesTypeOK /\ SessionTracked
  /\ EnvironmentTypeOK /\ ChangesAreTracked
  /\ StagingTypeOK
  /\ AirflowTypeOK /\ OwnWorkIsKnown
  /\ TagsTypeOK
  /\ PipelineTypeOK /\ PolledJobIsNamed /\ PollingIsBounded

(* What depends on something comes after it, over all reruns: a table after *)
(* its schema and one statement at a time, a job after its artifacts, a DAG *)
(* with the plugins it imports.                                             *)
InOrder == SchemaBeforeTable /\ OneStatementAtATime /\ JobAfterArtifacts /\ PluginsServeDags

(* What a run takes for done is done: the receipt of a statement, the       *)
(* version of an Environment it waits for, the tags of an item.             *)
SuccessIsTrue == ReceiptsAreTrue /\ PublishesApproved /\ SuccessMeansTagged

(* No step of a run replaces an artifact or a file of somebody else, or     *)
(* asks once more for a tag that the tenant cannot get rid of.              *)
ForeignContentIsKept == [][NeverOverwrites /\ ForeignFilesAreKept /\ TagsAskedOnce]_vars

(* Reruns get the approved content in place, whatever the runs before them  *)
(* left undone, unless a request was lost for good, what had been accepted  *)
(* failed, or somebody else interferes; and whatever becomes of its job, a  *)
(* run that polls a pipeline ends.                                          *)
ContentConverges == (Feasible /\ [](~lost /\ ~edited) => <>ContentDone) /\ PipelineRunEnds
=============================================================================
