# Fabric Deploy Action: a verification development

This directory holds TLA+ models of the Fabric Deploy Action (`src/src`), the
TLC runs that check them and the proofs TLAPS checks. The action deploys
Microsoft Fabric items described by a manifest: it plans, a reviewer approves
the plan, and an apply run changes the workspace. The service it talks to is
asynchronous and answers ambiguously, runs are killed and repeated, and other
people edit the same workspace. What keeps this safe is a checkpoint file and a
set of fail-closed recovery rules. Those rules are the subject here.

Paths below are relative to the repository root (`src/src/apply.ts` is the apply
engine). Code is cited by file and function; `PROJECT.json` maps each
definition to its lines.

## 1. Inventory

| Component | State it keeps | Operations | Talks to | Hard part | What makes it correct |
|---|---|---|---|---|---|
| **Item apply and recovery** (`apply.ts`, adapters in `fabric/*.ts`) | checkpoint (`pendingCreates`, `pendingOperations`, `pendingUpdates`, `pendingDeletes`, `completedItems`, ...), result status, in memory: current plan, trusted resumes | preflight, five recovery passes, second preflight, verification, stage loop: create / update / delete / no-op / absent | Fabric client, checkpoint file, planner | kill between any two steps, lost and late requests, foreign edits, two-request updates | a create is never lost or sent twice; success means every item was read back; completed stays completed; order |
| **Checkpoint file** (`checkpoint.ts`) | JSON file, replaced atomically | create, load and validate against the plan, write | apply run | stale or foreign file, torn file | a checkpoint is used only with the plan it belongs to |
| **Fabric client** (`fabric/client.ts`) | none between calls | request with retry, deadline, Retry-After; poll operations; pagination | Fabric REST | which failures are definitive; a retried mutation | a definitive rejection really means nothing happened |
| **Entry point** (`main.ts`) | result file | parse, plan, apply, finalize | all | failure in any phase | the result file always says how the run ended |
| **Graph and planner** (`graph.ts`, `planner.ts`) | none | stages from dependencies, the plan before Fabric is asked | live planner | cycles, removals after dependents | each item in one stage, after what it needs, deletions last and in reverse |
| **Network protection** (`network-apply.ts`, `fabric/network-protection.ts`) | pending and completed network surfaces in the checkpoint | preflight, recover, apply firewall, rules, policy, identity surfaces | item apply (before and after items) | full-replacement PUTs with lost answers; locking oneself out | a surface is sent at most once per approval; lockout order |
| **Managed private endpoints** (`managed-private-endpoint-apply.ts`) | a phase and a physical ID per endpoint in the checkpoint | create, wait for provisioning, delete | network protection | lost answers, slow provisioning, approval by a third party | no request is repeated; there before the network closes, gone after |
| **Virtual network gateways** (`virtual-network-gateway-apply.ts`) | a phase and a physical ID per gateway in the checkpoint | create, update, delete | entry point, item apply | lost answers, adoption, rules that still name a gateway | no request is repeated; deleted only when no rule names it |
| **Workspace bootstrap** (`workspace-apply.ts`, `fabric/workspace.ts`) | `checkpoint.workspace`: phase and ID | create, update metadata, assign capacity, poll, ask for a fresh plan | Fabric | lost creates and PATCHes, a capacity that is being assigned by somebody else | one workspace, one assignment; items are planned against a workspace that is ready |
| **Workspace identity** (`workspace-identity-apply.ts`, `fabric/workspace-identity.ts`) | `checkpoint.workspaceIdentity`: provisioning and role assignments | provision, assign roles, verify | Fabric | a long-running operation, roles in several workspaces | provisioned once, each role given once, recorded before it is used |
| **Environments** (`fabric/environment.ts`) | phases of the update in the item's record | stage, publish, poll the publish, clean the marker | item apply | a publish that is lost, cancelled, superseded or somebody else's | what was approved is what is published |
| **Lakehouse tables** (`fabric/lakehouse-tables.ts`) | session, statement, receipts and cleanup in `checkpoint.lakehouseTables` | open a session, observe, run statements one by one, delete the session | item apply, Livy | sessions and statements are adopted by a tag or a marker after a kill | no session is left behind; no statement runs twice at a time; receipts are true |
| **OneLake artifacts** (`fabric/onelake-artifacts.ts`, `fabric/spark-job-artifacts.ts`) | a phase per artifact in `checkpoint.oneLakeArtifacts` | inspect, conditional PUT, verify | before items | a PUT whose answer is lost, late uploads | nothing is overwritten; the job comes after its artifacts |
| **Apache Airflow jobs** (`fabric/apache-airflow.ts`; listed with item apply in `PROJECT.json`) | an intent or a phase in the item's record; a ledger of owned files in the job itself | create a shell, PATCH, stage the definition, put and delete files, write the ledger | item apply | a kill among the files, which have no record | own work is told from somebody else's; a DAG has its plugins |
| **Tags** (`fabric/tags.ts`, `fabric/tag-assignment.ts`) | record of each tag and of each assignment | create tags, apply them to an item, verify | item apply | tags cannot be deleted; assignments answer nothing useful | each tag asked for once; success means tagged |
| **Pipeline runs** (`run-pipeline.ts`, `fabric/pipeline-job.ts`) | the result file | start a job, poll it until a deadline | separate mode of the entry point | a start whose answer is lost, a job that outlives the run | the file names the job that runs; polling ends |
| **Manifest, schema, substitution** (`manifest.ts`, `schema.ts`, `substitution.ts`) | what was loaded | parse, validate, read every item directory twice | planner | the checkout changes while it is read | what is loaded is one state of the checkout |
| **Plan artifact** (`plan-artifact.ts`, `hash.ts`) | the plan file | write, hash, read and validate | entry point | written by one part, read by another | what is written is accepted; a plan is applied only with the hash that was approved |
| **Definitions, reports, authentication** (`item-definition.ts`, `reporting.ts`, `fabric/auth.ts`) | none | normalize, hash, format, acquire tokens | all | wording and formats | not modelled |
| **Live planner** (`fabric/live-planner.ts`) | none | look at everything declared, decide on each action | entry point, apply | one part is blocked by another; a missing workspace | no write on what is blocked or unknown; compared again before every mutation |

Components interact through three things only: the **checkpoint object** and its
file, callbacks from adapters into the apply run (`onCreateSubmitting`,
`onOperationAccepted`, `onMutationAccepted`, `onCreateRejected`,
`onUpdateSubmitting`, `onUpdateRejected`, `onDeleteSubmitting`), and exceptions
whose class says what happened (`FabricOperationFailedError`, HTTP status).

The hazards that guided the properties are listed, each at its line, in
`PROJECT.json`.

## 2. Modules

| Module | Models | Role |
|---|---|---|
| `ItemApply` | `apply.ts` with the item adapters, against Fabric and other actors | the core |
| `ItemApplyInvariant` | | the inductive invariant, and the view of `ItemApply` as a ledger |
| `CreateLedger` | | abstract specification of the checkpoint's promise |
| `ItemApplyProofs` | | the invariant, proved |
| `ItemApplyTheorems` | | the safety theorems, the action theorems and the refinement, proved |
| `MCItemApply` | | small plans for TLC |
| `FabricClient` | one call through `fabric/client.ts` | what an error thrown by the client proves |
| `FabricClientProofs`, `MCFabricClient` | | its theorems; its instance for TLC |
| `NetworkApply` | `network-apply.ts`, called from `main.ts` and `apply.ts` | full-replacement PUTs across runs |
| `NetworkApplyProofs`, `MCNetworkApply` | | its theorems; its instance for TLC |
| `ResourceApply` | `virtual-network-gateway-apply.ts`, `managed-private-endpoint-apply.ts` and their stages in `main.ts` and `apply.ts` | non-idempotent creates and deletes around the network rules |
| `ResourceApplyProofs`, `MCResourceApply` | | its theorems; its instance for TLC |
| `ApplyRun` | what the following components share: the step of the run, faults and foreign edits | base module |
| `WorkspaceApply`, `WorkspaceIdentity` | `workspace-apply.ts`, `workspace-identity-apply.ts` and their adapters | the two bootstraps |
| `Bootstrap` | the beginning of `applyApprovedPlan` in `apply.ts` | their composition with fresh plans |
| `BootstrapProofs`, `MCBootstrap` | | its theorems; its instance for TLC |
| `LakehouseTables`, `EnvironmentPublish`, `OneLakeStaging`, `AirflowFiles`, `TagAssignment`, `RunPipeline` | the files of the same names in `fabric/`, `run-pipeline.ts`, with their callers in `apply.ts` | what fills an item |
| `Content` | | the six side by side, one of them at a time |
| `ContentProofs`, `MCContent` | | the theorems about each and about all; the instance |
| `PlannedItems`, `PlannedNetwork` | `graph.ts`, `planner.ts`, `fabric/live-planner.ts`, the adapters' `plan`, `plan-artifact.ts` | what a plan says, and what its reader demands, as operators |
| `PlanArtifact` | manifest, plan, file, approved plan | the life of one plan |
| `PlanApproval` | `main.ts`, `manifest.ts`, the identity checks of `apply.ts` | from edited sources to an applied plan |
| `Plan` | | the two side by side, one of them at a time |
| `PlanProofs`, `MCPlan` | | their theorems; their instance |

### ItemApply

One behaviour is the whole life of **one approved plan**: any number of runs,
each of which may be killed at any step, and everything Fabric and other actors
do meanwhile.

| Variable | In the code |
|---|---|
| `live` | what Fabric shows under each item's display name: physical ID and content |
| `fate` | the create requests ever sent, and what became of each |
| `wire` | PATCH, `updateDefinition` and DELETE requests not yet handled |
| `cp` | the checkpoint file; one phase per item stands for the five maps it is a key of. A pending operation carries the request it belongs to (`id`), and either the operation (`ref`) or the hash of the shell (`base`) |
| `result` | `status` of the result file |
| `pc`, `todo` | where in `applyApprovedPlan` the run is, and the items the present loop has left |
| `plan`, `allow` | the current plan read at the start; the `allow-*` inputs |
| `verified` | `trustedResumes` and the items the run has read back |
| `cur`, `at`, `target`, `call` | the item in hand, the next step on it, the physical ID it works with, the request it awaits |

A step is one Fabric read, one request leaving, one reply taken or one write of
the checkpoint: everything between two such points is local to the process.
`cp` is written exactly where `writeCheckpoint` is called, so a crash between
any two awaits of the code is a `Crash` between two steps of the model.

Contents are `absent`, `approved` (what the reviewer saw), `partial` (metadata
updated, definition not), `shell` (an empty Data Agent or Airflow job),
`desired` and `foreign`. That is what the code's comparisons tell apart.
`Rank` is `plan.stages` laid out in a row. What it may be is `OrderAssumption`: what
`buildDeploymentStages` (`graph.ts:3-18`) builds from a manifest that
`validateDependencies` has let pass, with what is to be present in the order of its
dependencies and then what is to be absent, dependents first. `Predecessors` says
which items that puts before an item: the dependencies of one to be present; for a
removal, everything to be present and the removals of what depends on it. That the
stages of every plan are in this order is proved elsewhere (`StagesOrdered`, in
`PlanProofs`).

Adapters fall into three classes that differ in the order of their steps:

* *ack first* (Lakehouse, Eventhouse, KQLDatabase, Warehouse, SparkCustomPool):
  the physical ID is checkpointed, then the item is read back;
* *verify first* (Notebook, Ontology, SparkJobDefinition, DataPipeline,
  SemanticModel, Report, Eventstream): read back, then checkpointed;
* *shells* (DataAgent, ApacheAirflowJob): created empty, proof recorded, then
  staged and read back.

Outcomes of a request: accepted (201, 202 then an operation), a definitive
rejection, a failed operation, or nothing the client can interpret. After the
last, the request may still be handled later, also after the run has ended.
Requests carry the number of faults so far, which tells a run's own request
from one an earlier run left behind, and so keeps a late answer of an earlier
run from being taken for the present one's.

**Abstractions.** The current plan is read as one snapshot; another actor's
edit is an edit of the definition, a removal, or a new item of the same name;
one process applies the plan at a time. Not in this module: Environment
publishing, CopyJob, FabricTag and LakehouseTables items, tag assignment,
OneLake artifacts, the files of an Airflow job, renames, the delay before a new
item is listed, Notebooks whose definition carries a `.platform` part.

### CreateLedger

The promise without the mechanism: per item a phase (`none`, `announced`,
`completed`) and the number of open create requests. Work is announced before a
request is sent, at most one request is open, an announcement is withdrawn only
when nothing is open, what must come before an item is completed first, completed
is final.

### FabricClient

One behaviour is one call: `request` with its retries and, where the reply is a
202, `waitForOperation` (or `waitForOperationCompletion`, which does not read
the result: `ReadResults`). It is the base the other modules stand on: `ItemApply`
and `NetworkApply` take a definitive rejection to mean that nothing was or will
be executed, and here that is derived from the retry loop.

| Variable | In the code |
|---|---|
| `mode` | `retryable` and `retryMode` of the call |
| `stage`, `pc` | which request (the caller's, a poll, the result's) and what is awaited |
| `attempt`, `ambiguous` | loop counter, `priorAttemptAmbiguous` |
| `clock`, `deadline`, `limit`, `wake` | `now()`, `requestDeadline`, the operation's deadline, the sleep under way |
| `response`, `outcome` | the reply in hand; what was returned or thrown |
| `late`, `applied`, `op` | the service: copies still to be executed, executions, the operation |
| `asked` | ghost: the instant Retry-After named |

The clock may pass any timer before the process runs again, so a sleep may
overshoot its deadline. Not modelled: `listAll` and the checks on URLs.

### NetworkApply

One behaviour is the life of one approved network plan over any number of runs:
recovery of an interrupted unit (`main.ts`, `apply.ts`), preflight, the item
stages, then each configured surface in the order of `applyNetworkProtection`.

| Variable | In the code |
|---|---|
| `plan` | the approved `PlannedNetworkProtection`: configured surfaces, those to update, and how the policy moves inbound and outbound |
| `live` | each surface's body: as planned, as desired, or foreign |
| `cp`, `completed` | the phases and `completedAt` in `checkpoint.networkProtection` |
| `pc`, `stage` | where the run is: reading a fresh plan, the items, or a surface; and for which phase |
| `granted` | all `allow-*` inputs the plan needs |
| `read`, `moved` | surfaces of the fresh plan read so far; those whose ETag has changed since |
| `settled` | surfaces this pass is done with |
| `late`, `applied`, `dropped`, `edits`, `faults` | the service, other actors and the bounds |

`Turn` gives the order: inbound exceptions before the policy unless inbound
access is relaxed, outbound rules before it unless outbound Deny is being
introduced. Surfaces are read one at a time, and edits may come between the
reads. Outbound rules have no ETag; for the other surfaces the service may or may
not return one (`Tagged`; in the run, the Azure rules have none). Abstractions: the safeguards are
granted together or not at all; managed private endpoints are approved or
absent, so nothing is deferred; the item stages succeed or fail.

### ResourceApply

One behaviour is the life of one approved plan for gateways and endpoints over
any number of runs. Both are created and deleted by requests that must not be
repeated, so both keep a record from before the request leaves until it has been
read back; they differ in what they take for a rejection, in how a lost answer
is settled and in that an endpoint takes time to be provisioned.

| Variable | In the code |
|---|---|
| `plan` | the approved plan: kind, desired state and action of each resource; whether there are rules to apply (`deferred` while an endpoint awaits approval) |
| `live` | the copies that carry a resource's name, each `unborn`, as planned, being provisioned, as desired, other or gone |
| `cp`, `rules` | `phase` and `physicalId` in `checkpoint.virtualNetworkGateways` and `checkpoint.networkProtection.managedPrivateEndpoints`; where the network surfaces stand |
| `pc`, `stage` | what the run does, and in which stage |
| `granted` | the `allow-vnet-gateway-*` and `allow-managed-private-endpoint-*` inputs |
| `settled` | resources the present loop has behind it |
| `late`, `applied`, `spoiled`, `edits`, `faults` | the service, other actors and the bounds |

The stages are those of `main.ts` and `apply.ts`: gateways left in flight, then
endpoints and rules left in flight, the preflight, gateways to be present, the
items, endpoints to be present, the rules, endpoints to be absent, gateways to be
absent. `Shaky` are the resources whose mutations the service may answer with a
5xx although they are executed, which the two `isDefinitiveRejection` judge
differently (section 6). Abstractions: the rules are one step or an interruption
(`NetworkApply` has their detail), the items come through or lead to a replan,
the workspace is not new, and gateways and endpoints are ordered as in the plan.

### ApplyRun and the modules on it

`ApplyRun` holds what a run and its surroundings have in common: `pc`, the step
the run is at (`"idle"` when there is none); `budget`, the faults and foreign
edits still to come; `edited`, whether somebody else has interfered; `lost`,
whether a request was lost for good or Fabric failed what it had accepted.
`Fault`, `Loss` and `Foreign` spend from the budget, so a behaviour's trouble is
bounded while its reruns are not. All else a run knows is in variables that
`Start...` resets, because it does not survive the process.

Every module on it is built in the same way: a `Start...` that reads a fresh plan
and compares it with the approved one, one action per request sent, one for its
answer, one for an answer that does not come (executed, to be executed later, or
lost), one per read of the recovery, and a crash between any two of them. The
checkpoint is written in the same action as in the code: before the request,
with the answer, or after the read-back.

### WorkspaceApply, WorkspaceIdentity, Bootstrap

| Variable | In the code |
|---|---|
| `wanted`, `asked` | the manifest: ID or name, capacity; the workspaces in which the identity gets a role |
| `spaces`, `spacesLate`; `identity`, `operation`, `roles`, `identityLate` | Fabric, and the requests it may yet execute |
| `spaceCp`; `provisionCp`, `roleCp` | `checkpoint.workspace`; `checkpoint.workspaceIdentity` |
| `approvedSpace`, `currentSpace`; `approvedIdentity`, `currentIdentity` | the approved plan and this run's |
| `created`, `assigned`, `provisioned`, `given`, `seen`, `blind` | history: what this plan's requests did |

`Bootstrap` composes the two as `applyApprovedPlan` does: workspace, identity,
items. A run that created the workspace, or provisioned the identity whose roles
are still to be planned, ends early and successfully with *replan required*;
`NewPlan` is the operator who approves a fresh plan, which gets a checkpoint of
its own. Items are one step (`ItemApply` has their detail).

### LakehouseTables

Schemas and tables are resources in one order, the catalog holds one state of
each (absent, owned, unowned, conflicting). `sessions`, `sessionLate` and
`statement` are Livy; `bundle` is `checkpoint.lakehouseTables[item]` with the
phase of its session, of its statement and the receipts; `preflight` is what this
run has observed and `failing` the error the `finally` block rethrows after the
cleanup. A bundle on a Lakehouse the same plan creates (`symbolic`) is planned
without a look. Planning sessions of their own are one reading of the catalog.

### EnvironmentPublish

`environment` has metadata, staged and published content, the marker in either,
the state and version of the last publish. `envCp` is the item's record with the
update's phases; `mode` tells a create from an update, a resumed create and an
update without phases. `usesMarker` says whether the definition manages Spark
settings, hence whether the marker can tell what was published.

### OneLakeStaging

`stored` is what each immutable path holds, `putLate` the uploads that may yet be
executed, `staging` is `checkpoint.oneLakeArtifacts[item]`, `cursor` the artifacts
this run has behind it, `attempt` those of `putImmutableObject`. The job's create
is reduced to its intent, its POST and its completion.

### AirflowFiles

`airflow` is the job: metadata, definition, each managed file, and the ledger
that names the files the deployment owns. `found` and `handled` are the
comparison `reconcileFiles` works from. `FileAction` is `planFileOperation`.

### TagAssignment

`catalogue` is the tenant's tags, `tagged` the item and the tags it carries;
`tagCp`, `itemCp` and `assignCp` are the records of the tags, of the item and of
its assignment.

### RunPipeline

Mode `run-pipeline`: `jobs` in the service, `jobFile` the result file, `polled`
the job in hand, `clock` and `wakeAt` the time and the next poll. A read takes up to
`RequestTime` (`requestTimeoutMs`, `client.ts:124`, which bounds a call with its
retries). The loop looks at the time before a read and not after it, so polling may
overrun `RunTimeout` by one read, and what that read finds still counts. Nothing is
checkpointed, so a start whose answer is lost may leave a job nobody knows of, and
the code cannot help it: `PolledJobIsNamed` is about jobs that were polled.

### Content

`Content` puts the six side by side and lets one of them run at a time
(`protocol`); the others stand still in a state that satisfies their properties.
They share no state in the code but the checkpoint, of which each has a part of
its own, and items are applied one after another.

### PlannedItems, PlannedNetwork, PlanArtifact

What a plan says is a function of what is declared and of what the adapters see,
so it is written as operators: `Stages` (`buildStages`), `AdapterItem`,
`SymbolicItem`, `SparkJob`, `TablesItem`, `Tagged` (`enrichPlanWithFabric`),
`PlanIdentity`, `PlanEndpoint`, `PlanPolicy`, `PlanSurface`, `PlanNetwork`,
`PlanGateway`. What the reader demands is written separately, from
`plan-artifact.ts`: `IsPlannedItem`, `IsPlannedItems`, `IsPlannedIdentity`,
`IsPlannedEndpoint`, `IsPlannedPolicy`, `IsPlannedNetwork`, `IsPlannedGateways`.
`PlanArtifact` walks a declaration through both: *declared*, *loaded* (the
manifest is valid), *offline* (`buildPlan`), *planned* (`enrichPlanWithFabric`),
*accepted* or *refused* (`loadApprovedPlan`), or *thrown* on the way. Numbers
stand for names, IDs and hashes; a hash is what it is taken of. `CasesAssumption`
says what the schema allows in a manifest and an adapter may answer: finitely many
items and endpoints, states, file sizes and answers of the kinds there are, references
only from the types that have one, and an ID for whatever is there (0 stands for none).

### PlanApproval

One behaviour is a checkout that is edited, plans made of it, approvals, runs in
mode apply, and the edits of others in the workspace.

| Variable | In the code |
|---|---|
| `manifest`, `dir` | the checkout: revisions of the manifest and of each item's directory |
| `loaded` | what `loadManifest` has read: the hash of each directory, then its metadata, then its body, then the hash compared again |
| `current`, `approved` | the plan of this run, and the approved one it applies |
| `planFile`, `approvedFile`, `checkpoint`, `resultFile` | the files that outlive a run |
| `live` | each item in the workspace: the revisions of its metadata and body |
| `between`, `reverted`, `killed`, `completedAs` | history |

Reading takes one step per file, and an edit may come between any two of them.
Files of a Report or a Data Agent are not hashed as such (`Symbolic`). `Approvable`
is `assertPlanIdentity` with what is excepted for completed and pending items;
`RecoverItem`, `VerifyCompleted`, `BeginItem`, `WriteItem` and `VerifyWritten` are
`ItemApply` in five steps. `ReplaceText` gives the approved file another text under
the old hash. `DiscardCheckpoint` is the operator who sets a checkpoint aside that
no longer serves: the code itself never deletes one.

`Plan` puts `PlanArtifact` and `PlanApproval` side by side (`part`): the first is
about what a plan says, the second about whose plan it is, and neither looks at what
the other tells apart.

## 3. Runs

| Run | Instance | Trouble | Shows |
|---|---|---|---|
| `items` | Lakehouse, a Data Agent depending on it: create; Ontology: update; Warehouse: no-op; three flag sets | any two of kills, time-outs, losses, rejections, foreign edits | `IInv`, `WriteAhead`, `AtMostOneCreate`, `DataAgentProvenance`, `CompletedIsFinal`, `IntentBeforeMutation`; the run implements `CreateLedger` (`ImplementsLedger`) |
| `reruns` | Airflow job: create; Notebook depending on it: update; pipeline and the Notebook it depends on: delete; the Lakehouse that one depends on: absent | three kills, time-outs, lost requests | `DependencyOrder`, `UpdateIsTracked`, `SuccessIsVerified`; accepted creates complete (`AcceptedCreatesComplete`), reruns succeed (`RerunsSucceed`) |
| `client` | every retry mode, two retries, with and without reading the result | every status; early, late and lost replies | `CallInv`, `RejectionIsFinal`, `MutatesOnce`, `WaitsAsAsked`; every call settles (`Settles`) |
| `network` | three plans: tighten both ways, relax inbound, rules only | three faults, one foreign edit | `NetworkInv`, `NeverLockedOut`, `AppliedOnce`, `ReplacesApproved`; reruns complete (`Converges`) |
| `resources` | three plans for two gateways and two endpoints | three faults, one foreign edit, any one safeguard missing | `ResourceInv`, `NeverRepeated`, `ConnectivityOrder`; reruns complete (`Converges`) |
| `bootstrap` | a workspace to be made, updated or found; an identity with a role in one workspace, or none | two faults, or one and one foreign edit; with and without safeguards | `BootstrapInv`, `SentOnce`, `ItemsOnReadyWorkspace`; reruns and fresh plans reach the items (`BootstrapConverges`) |
| `content` | the six protocols, each from every state its item may be found in | two events, three for artifacts and tags | `ContentInv`, `InOrder`, `SuccessIsTrue`, `DoneMeansPublished`, `ForeignContentIsKept`; reruns complete, polling ends (`ContentConverges`) |
| `plan` | thousands of declarations on all states of Fabric that matter to them; two items of two revisions | two events | `PlanInv`, `WrittenIsAccepted`, `ApprovedContentOnly`; fresh plans get the workspace to the sources (`ApprovalConverges`) |
| `bad_agent`, `bad_gateway`, `bad_tags`, `bad_record` | the smallest that shows it | | the findings of section 6 |

Some properties have several parts, each named and stated in its own module:

* `BootstrapInv`: `SpaceTypeOK`, `WorkspaceTracked`, `IdentityTypeOK`,
  `IdentityTracked`, `IdentityDoneIsTrue`. `SentOnce`: `WorkspaceOnce`,
  `PatchNotBlind`, `IdentityOnce`.
* `ContentInv`: the six type invariants, `SessionTracked`, `ChangesAreTracked`,
  `OwnWorkIsKnown`, `PolledJobIsNamed`, `PollingIsBounded`.
* `InOrder`: `SchemaBeforeTable`, `OneStatementAtATime`, `JobAfterArtifacts`,
  `PluginsServeDags`.
* `SuccessIsTrue`: `ReceiptsAreTrue`, `PublishesApproved`, `SuccessMeansTagged`.
* `ForeignContentIsKept`: `NeverOverwrites`, `ForeignFilesAreKept`, `TagsAskedOnce`.
* `ContentConverges`: all of them get done, and `PipelineRunEnds`.
* `PlanInv`: `ApprovalTypeOK`, `PlannedIsSnapshot`, `CompletedAsPlanned`,
  `ResultSettled`, `PlanIsCautious`.

**Bounds.** In `items` four items suffice for interference between a pending and a
completed item; the properties relate at most two. The five of `reruns` have a
dependency of each kind that `graph.ts` orders: present on present, absent on
present, absent on absent, and a chain of the last. Every create request after an item's first needs a fault before it, so
`MaxPosts` above `MaxFaults` never cuts a behaviour short; the assumption
`PostsSuffice` makes TLC check the inequality. `MaxFaults` bounds only what goes
wrong: a run may always be repeated, and giving up on a request that was lost
costs no further fault.

In `client` the timers are a few ticks: `RetryAfters = {0, 2, 5}` against a
request timeout of 4 and an operation timeout of 3 meets, cuts and overruns every
deadline, and the last instant (`ClockSuffices`, checked by TLC) is late enough
for every deadline a call can have. A call ends, hence no deadlock check.

In `network` the plans use all three transitions and every surface; three faults
allow a kill, a late PUT and a lost reply in one behaviour, and one foreign edit
can hit any surface between any two steps. In `resources` one resource of every
kind and direction is enough for every order between stages; two copies of a name
are enough for one request and one foreign edit (`CopiesSuffice`, checked by TLC).
The endpoints are the shaky resources there; gateways are in `bad_gateway`.

In `bootstrap` there is room for the first workspace, one of this plan's and one
per foreign edit (`SpacesSuffice`), and likewise for identities
(`PrincipalsSuffice`), both checked by TLC. Two faults are a lost answer and a kill
during its recovery.

In `content` two artifacts, two tags, a schema and a table, two plugins and two
DAGs of which one each is in the bundle are the least for which order, removal and
partial completion exist. Two events are a lost answer with a kill or an edit;
artifacts and tags, with few requests, get three. `RunTimeout = 3` with
`RetryAfters = {1, 2, 5}` and `RequestTime = 1` meets and overruns the deadline. Runs may end for good
when a plan is blocked, hence no deadlock check.

In `plan` the cases of one kind are complete: all dependencies among three items,
every provisioning and connection state of an endpoint, all policies, up to two
gateways on up to two; a whole deployment then combines one of everything, on a
workspace that is given, found, missing or ambiguous. Two items, one of them
symbolic, and two revisions are enough for a mixture within an item and between
items; two events are two edits while one run reads, or an edit and a kill.
Plans that end in *accepted* or *refused* end there, hence no deadlock check.

The theorems of section 4 need none of these bounds.

**Fairness.** `ItemApply`: weak fairness of the process as a whole (a run that is
not killed keeps stepping, and every request has a client deadline, `client.ts`)
and of Fabric (it handles what it received); `RerunSpec` adds that the operator
reruns a failed deployment. `FabricClient`: weak fairness of the process and of
the clock, since the token and the body are raced with timers and the fetch is
aborted by one. `NetworkApply`, `ResourceApply`, `Bootstrap` and `Content`: weak
fairness of the run and of the service, and strong fairness of a run with its
safeguards: the operator does not for ever rerun without them. In `Bootstrap` the
operator also approves the fresh plan a run asks for. `PlanApproval`: weak
fairness of a run, strong fairness of planning, approving, applying and setting
aside a checkpoint of no more use; an operator who never does one of these gets no
deployment. Weak fairness of the operator would not do: any of these steps is
enabled only between runs. Nothing is assumed of other actors, of crashes or of
particular answers. Liveness is stated of behaviours in which nothing is lost for
good and nobody else interferes, except `RerunsSucceed` and
`AcceptedCreatesComplete`, which say themselves what they except, and
`ApprovalConverges`, which excepts nothing: edits are bounded, and fresh plans take
care of each.

## 4. What is proved

For every set of items, types, actions, dependencies, bounds and fault kinds that
satisfy the module's assumptions (names distinct, ranks as `graph.ts` orders the
stages, removals last and dependents first, bounds natural; `ItemApplyProofs`,
`ItemApplyTheorems`):

| Theorem | Statement |
|---|---|
| `TypeCorrect` | `Spec => []TypeOK` |
| `InvariantCorrect` | `Spec => []IInv` |
| `WriteAheadCorrect` | `Spec => []WriteAhead` |
| `AtMostOneCreateCorrect` | `Spec => []AtMostOneCreate` |
| `DependencyOrderCorrect` | `Spec => []DependencyOrder` |
| `SuccessIsVerifiedCorrect` | `Spec => []SuccessIsVerified` |
| `DataAgentProvenanceCorrect` | `Spec => []DataAgentProvenance` |
| `UpdateIsTrackedCorrect` | `Spec => []UpdateIsTracked`, if `"reject" \notin FaultKinds` |
| `CompletedIsFinalCorrect` | `Spec => CompletedIsFinal` |
| `IntentBeforeMutationCorrect` | `Spec => IntentBeforeMutation` |
| `MutationsArePreflightedCorrect` | `Spec => MutationsArePreflighted` |
| `ImplementsLedgerCorrect` | `Spec => ImplementsLedger` |

For any declarations and any answers of Fabric that satisfy `CasesAssumption`, of
any number of items, tags, endpoints and gateways; and any number of revisions,
edits, faults and runs (`PlanProofs`):

| Theorem | Statement |
|---|---|
| `PlanInvariant` | `Spec => []WholeInv` |
| `PlanInvCorrect` | `Spec => []PlanInv`, all five parts |
| `PlanIsCautiousCorrect` | `Spec => []PlanIsCautious` |
| `WrittenIsAcceptedCorrect` | `Spec => []WrittenIsAccepted` |
| `PlannedIsSnapshotCorrect`, `CompletedAsPlannedCorrect`, `ResultSettledCorrect` | `Spec => []...` |
| `ApprovedContentOnlyCorrect` | `Spec => ApprovedContentOnly` |

For all plans of a workspace and its identity, any number of workspaces,
principals, target workspaces, faults, edits, runs and fresh plans
(`BootstrapProofs`):

| Theorem | Statement |
|---|---|
| `InductiveInvariant` | `Spec => []IInv` |
| `BootstrapSafe`, `RequestsSentOnce`, `ItemsTouchReadyWorkspace` | `Spec => []BootstrapInv`, `[]SentOnce`, `[]ItemsOnReadyWorkspace` |

For any artifacts, attempts, schemas, tables, sessions, catalogs, Environments,
plugins, DAGs, bundles, tags, jobs, delays, faults and edits (`ContentProofs`);
`Spec` is that of `Content`:

| Theorem | Statement |
|---|---|
| `StagingInvariant`, `JobAfterArtifactsCorrect` | `StagingSpec => []...` |
| `NeverOverwritesCorrect` | `StagingSpec => [][NeverOverwrites]_...` |
| `PipelineInvariant`, `PollingCorrect` | `PipelineSpec => []...` |
| `TablesCorrect`, `EnvironmentCorrect`, `AirflowCorrect`, `TagsCorrect` | the invariants of each protocol of its own specification |
| `ContentInvariant` | `Spec => []OneAtATime` |
| `ContentIsTracked`, `ContentInOrder`, `ContentSuccessIsTrue` | `Spec => []ContentInv`, `[]InOrder`, `[]SuccessIsTrue` |
| `ForeignContentKept`, `DoneIsPublished` | `Spec => ForeignContentIsKept`, `Spec => DoneMeansPublished` |

For all retry modes, accepted statuses, retries, delays and deadlines
(`FabricClientProofs`):

| Theorem | Statement |
|---|---|
| `CallInvariant` | `Spec => []CallInv` |
| `RejectionIsFinalCorrect`, `MutatesOnceCorrect`, `VerdictIsTrueCorrect` | `Spec => []...` |
| `WaitsAsAskedCorrect`, `NeverLateCorrect` | the action properties |

For all network plans that `Applicable` lets through, and every choice of
surfaces with ETags (`NetworkApplyProofs`):

| Theorem | Statement |
|---|---|
| `NetworkInvariant` | `Spec => []NetworkInv` |
| `NeverLockedOutCorrect`, `RulesAfterDenyCorrect`, `AppliedOnceCorrect`, `CompletedIsDoneCorrect` | `Spec => []...` |
| `ReplacesApprovedCorrect`, `RevokedMeansStoppedCorrect` | the action properties |

For all sets of gateways and endpoints in any order, all plans of the entries
the planner lets through and all sets of safeguards (`ResourceApplyProofs`):

| Theorem | Statement |
|---|---|
| `ResourceInvariant` | `Spec => []ResourceInv` |
| `ConnectivityOrderCorrect`, `RevokedMeansStoppedCorrect` | `Spec => []...` |
| `NeverRepeatedCorrect`, `VerifiedIsThereCorrect` | `Spec => []...`, when every resource in `Shaky` is an endpoint |

**The argument for `ItemApply`.** None of the safety properties is inductive. That a create is
never orphaned depends on what every path that *clears* an entry knows: that the
one open request was refused, or failed with the name still free. So the
invariant `IInv` says, in named parts,

* which steps belong to which phase of a run and which kinds of item
  (`CursorInv`), what kind of work an entry stands for (`EntryInv`) and which
  kinds are left in which phase (`PendingInv`);
* what the entry of the item in hand is at each step (`HandInv`);
* what the file and the run know about requests: a pending operation belongs to
  a request Fabric took, and no other is open (`OperationInv`); the request in
  hand is the only open one, and is settled from the moment its ID is used
  (`RequestInv`);
* what the preflight established (`PreflightInv`) and what the stages have
  behind them (`ProgressInv`).

The step part of the proof does not go action by action at the top. A step has
one of a few shapes (move the item on, write its entry, complete it, forget it,
end the run, a step from outside), and one lemma per shape says what an action
has to bring. The lemmas on the actions bring exactly that, one step per
action. `OnlyCloses` is the fact about the outside world everything rests on:
neither Fabric nor another actor can open a create request, only settle one.

`DataAgentProvenance` needs one invariant more (`AgentInv`): the agent in hand is
never at a step that adopts by name or completes on the answer alone, and the ID
it is staged, read back and completed under came from a create request of this
plan. `CreateLedger` and the refinement mapping are in `ItemApplyInvariant`.

`UpdateIsTracked` needs another (`TrackedInv`): a definition that is no longer the
approved one, nor half of it, never becomes either again; until then an item
without an intent is as approved, and no PATCH of it is on its way, of this run or
an earlier one. An intent is withdrawn after a refusal, and a request is refused
because its item is gone or because Fabric declines it; the theorem excludes the
latter, which does break the property (section 6), and nothing else: kills,
time-outs, lost and late requests and foreign edits may come in any number.

**For `FabricClient`** the heart is `DoubtInv`: until `ambiguous` is set, no
attempt so far has had an effect or can still have one. Together with `OnceInv`
(a mode that does not retry transient failures never goes on after a doubtful
attempt) it gives `RejectionIsFinal` and `MutatesOnce`. `AskedInv` and `LimitInv`
say what each sleep is long enough for.

**For `NetworkApply`** the lockout order must hold over runs, not in one pass:
`OrderInv` says that a surface has a record only when all that go before it are
verified, whichever run made the record. `IntentInv` ties requests to records,
so that an empty record means nothing was sent; `LiveInv` then reads the live
state off the requests executed. `FreshInv` is what an unchanged ETag proves and
`GrantInv` what the preflight established. Every step has one of a few shapes,
and each part of the invariant is proved from the shapes.

**For `ResourceApply`** the invariant is about one resource at a time. `WorkOf`
says what the record is at each step of the resource in hand; `LedgerOf` that
nothing is out or has had its effect without a record, which is what a rerun
relies on when it finds none; `LiveOf` then reads the copies off the effects: a
create whose answer was lost finds its own copy and no other. `StageInv` says
what the stages of a run have behind them, across reruns that start anew.
A step either works on one resource, and then leaves the others `Unconcerned`,
or on none. The last two theorems need their assumption: a gateway whose request
is executed behind a server error loses its record, and the run `bad_gateway`
shows what follows (section 6). For endpoints nothing is assumed.

**For `PlanApproval`** the question is what the second hash of a directory proves.
`GrowthInv` is the answer: while nothing is taken back, revisions only grow, so
what was hashed before the moment between the passes is not later than that
moment and what was read after it is not earlier; if the hash is still the same at
the end, everything in between was the same. `SourceInv` carries what was loaded
into the plan, and through the comparison with the approved plan to what is
written; `BoundInv` ties a run that applies to the hash it was given, to its
checkpoint and to its result file. An edit that is taken back within one run may
leave a mixture in a plan, and the hypothesis `~reverted` of `PlannedIsSnapshot` is
needed; `ApprovedContentOnly` needs no such hypothesis.

**For `PlanArtifact`** the invariant says where each part of a plan came from
(`PlanFacts`): its stages are those of the declared items, and not cyclic; its items
are about the declared ones, and either nothing of them is certain yet or they are
`PlanItems` of what was seen. The rest is about operators. That an item comes after
what it depends on is a statement about `buildStages`, whose loop is a recursive
function on the subsets of the items. It is proved without an induction principle
that takes a predicate: of the sets for which it fails take a minimal one
(`MinimalSubset`, from the well-founded order of finite sets); it has a first layer,
what remains is smaller, and so in order (`LayeringExists`, `LayeringIsUnique`,
`LayersAreStaged`, `StagesOrdered`). `EnrichedShape` goes through the adapters and
gives each action its ground: what a target's plan must be for something to be
written on it. `NetworkShape` does so for the network; that the blockers of a policy
name every endpoint without approval needs that a finite set of names can be sorted
(`CanBeSorted`), by the same kind of argument.

That the reader takes what is written (`WrittenIsAccepted`) is proved part by part,
the planner's operators against the reader's demands. `ReadFacts` is what the
invariant keeps of it. For the items, `Readable` is what every adapter's plan meets
(`EnrichedReadable`), and `ReadableIsRead` that with its tags planned the reader
refuses nothing in it but a file too large; `StagesRead`, that the stages hold every
item once. For the gateways the reader's demand is met unless two have one ID
(`AllGatewaysRead`). For identity and network it is met always (`IdentityRead`,
`PlanNetworkRead`): that an endpoint to be deleted or kept has an identity and a safe
state (`FoundEndpointRead`), that a policy is blocked exactly with the blockers
listed, sorted and once (`BlockersShape`, `PolicyRead`). `WhatIsRefused` puts the
parts together.

**For `Bootstrap`** sending once is a matter of exclusion: a request that was
executed, one the service may yet execute and one that is about to leave are never
there together, over all reruns of a plan (`SpaceRequestsInv`, `RoleRequestsInv`).
That holds because the record is written before the request, so an empty record
means nothing was sent, and because what reads the record never goes back to
sending. `SpaceCursor` and `IdentityCursor` say what the record is at each step,
`SpacesKnown` that every ID anything speaks of is of a workspace that is there,
`ReadyInv` that a workspace verified for the items stays so unless somebody edits
it, and `JoinInv` how identity and items follow the workspace. A fresh plan starts
a new record in a world that older requests may still change; `AssignInv` and
`LateRolesTyped` are what is known of those.

**For `OneLakeStaging`** the records of the artifacts are related to the paths:
what a run has behind it is recorded as verified, a record that staging is complete
is only there when all are, and a verified artifact is in place until somebody
edits. **For `RunPipeline`** the clock has not started before the file names the
job, no poll is scheduled after the deadline, and a read begun before it ends within
`RequestTime` of it (`ReadTakesTime`).

**For `LakehouseTables`** one session at most is alive or on its way, and the record
names it or has the run look for it (`OneSession`, `RecordAtStep`). The statement at
the service is the recorded one once that is accepted, and none may run when the
next is posted (`StatementKnown`). `SeenInOrder` and `SeenIsThere` carry what was
observed, statement by statement, into receipts and completion.

**For `EnvironmentPublish`** the difficulty is what a late request may still do.
`OnceThere` says which can be out while there is no Environment, `RecordedFirst`
that nothing is sent or recovered without a record; from these `UnrecordedUntouched`
follows, which gives `ChangesAreTracked`. `StagedFirst` says that what is about to
be published, or is being published, is what was approved, unless somebody edits.
`MarkerSpeaks` says that the marker is only on the approved definition or, after an
edit, on what somebody else staged under it.

**For `AirflowFiles`** no record says which files are done, so the invariant relates
the job to the plan: each file is as approved or as wanted, and wanted before the
ledger says so (`FilesMoveOn`); the comparison a run works from is not ahead of the
job (`FilesFound`). `UpInOrder` and `DownInOrder` are the order of plugins and DAGs
with the requests that are yet to be executed, which is what makes it hold after a
kill. **For `TagAssignment`** a tag recorded as being created is the one this run is
creating, or stops the run before it begins.

**For `Content`** `OneAtATime` says that the protocol a behaviour is about satisfies
its invariant and the others are at rest; every property follows from either.

**Only model-checked:** the liveness properties, which are outside the prover's
reach.

## 5. Properties and the hazards behind them

* `WriteAhead`, `AtMostOneCreate`: a kill or a lost answer between the intent
  and the reply; a rerun that sees no item although the POST is still on its way.
* `CompletedIsFinal`: a resumed create whose read-back fails finds another
  actor's item under the same name.
* `DependencyOrder`: recovery passes work on items in the order of kind, not of
  dependency; deletions run in the reverse order, after everything that stays.
* `IntentBeforeMutation`: recovery mutates before the second preflight.
* `SuccessIsVerified`: an entry written by an earlier run is trusted without
  reading.
* `UpdateIsTracked`: an update's first request is applied and its second is not.
* `DataAgentProvenance`: adoption by name.
* `RerunsSucceed`, `AcceptedCreatesComplete`: recovery that can neither go on nor
  finish.
* `RejectionIsFinal`, `MutatesOnce`: a retry is refused although an earlier
  attempt timed out and is still on its way.
* `WaitsAsAsked`: Retry-After and a slow token against a deadline computed before.
* `NeverLockedOut`: a pass cut short after any surface, and a rerun that sees some
  surfaces already changed.
* `AppliedOnce`, `ReplacesApproved`: a full replacement whose reply was lost;
  another actor's edit between the fresh plan and the PUT.
* `NeverRepeated`, `ConnectivityOrder`: a create or delete whose answer was lost;
  recovery, the replan path and deferred rules each take another way through the
  stages.
* `SentOnce`, `ItemsOnReadyWorkspace`: a workspace, an assignment or a role made
  by a request nobody heard of; items planned before there was a workspace.
* `SessionTracked`, `OneStatementAtATime`, `ReceiptsAreTrue`: a Livy session or
  statement adopted by its tag or marker after a kill; a receipt for a statement
  that only seemed to have run.
* `DoneMeansPublished`, `PublishesApproved`, `ChangesAreTracked`: a publish that was
  superseded, cancelled or somebody else's; staging over it. `DoneMeansPublished` has
  one exception, which takes two foreign edits: definition staged under the marker
  and then published by somebody else is taken for the approved one.
* `NeverOverwrites`, `JobAfterArtifacts`: the conditional PUT of an artifact that got no
  answer: it may have been executed, or be executed late, also after its run.
* `OwnWorkIsKnown`, `ForeignFilesAreKept`, `PluginsServeDags`: files put and deleted
  one by one, and a kill among them.
* `TagsAskedOnce`, `SuccessMeansTagged`: an assignment that answers nothing.
* `PolledJobIsNamed`, `PollingIsBounded`: an earlier run's result file, a job that ends
  during the last sleep or the last read. A start without an answer is not covered:
  the code cannot tell whether there is a job.
* `PlannedIsSnapshot`, `ApprovedContentOnly`: the checkout is edited while it is
  read, or between approval and application.
* `CompletedAsPlanned`, `ApprovalConverges`: a fresh plan with the hash of an old
  one, whose checkpoint is still there.
* `WrittenIsAccepted`, `PlanIsCautious`: the planner and the reader of its plans are
  separate, and neither has all of the rules.

Three hazards of the list in `PROJECT.json` have no property: an edit between the
drift check and the read that becomes the recovery baseline (`notebook.ts:299`;
`ItemApply` has one value for both reads); two processes that apply the same
plan at once (`checkpoint.ts:117`; one process at a time is assumed, as the
workflow's concurrency group is to ensure); and a kill between the start of a
pipeline job and the file that names it (`run-pipeline.ts:132`; `RunPipeline` has
it, and the code has no remedy).

## 6. Where the code and its documents disagree

| Run | What it shows |
|---|---|
| `bad_agent` | docs/DATA_AGENT.md:188, README.md:489. A Data Agent create killed after staging is never completed: `resumeCreate` accepts only the untouched shell (`data-agent.ts:408`). |
| `bad_gateway` | docs/VIRTUAL_NETWORK_GATEWAYS.md:82. The gateways' `isDefinitiveRejection` (`virtual-network-gateway.ts:1130`) takes 5xx and 408 answers for rejections, so the record is deleted and the rerun sends the create again while the first may still be executed. The endpoints' version excludes them. |
| `bad_tags` | README.md:668. While a tag of an item has yet to be created, the planner counts all of the item's tags as missing (`live-planner.ts:1084`); the apply run counts anew once it is created. An item that had another of its tags before is then found drifted by every run. |
| `bad_record` | README.md:491, docs/APACHE_AIRFLOW.md:163. An Airflow update records a phase without the hash that `checkpoint.ts:1069` demands with it (`apache-airflow.ts:648`): a run killed at that point leaves a checkpoint no later run loads. |

Seen while modelling, without a run of their own:

* README.md:489 promises the physical ID is checkpointed before the read-back. The
  verify-first adapters read back first (`notebook.ts:243`); nothing is lost, since
  the intent is there, but a kill in that window needs adoption by name.
* README.md:491. A definition rejected after the metadata PATCH clears the intent
  (`ontology.ts:341`; likewise Airflow and Data Agent): the item is left half
  updated with no entry, and the next run reports drift.
* `reconcileInitialTerminalCreate` adopts an Airflow job by name (`apply.ts:1119`),
  which every other path refuses. `DataAgentProvenance` is about Data Agents only.
* A PATCH of an earlier run that timed out may be applied after the rerun's own was
  definitively rejected and the intent cleared; it breaks `UpdateIsTracked`, and the
  run `reruns` has no rejections.
* A rejected network PUT whose read-back fails keeps its record
  (`network-apply.ts:1038`), so every later run reports an ambiguity that is not
  there; `Converges` excepts it. Outbound rules have no ETag, so an edit after the
  drift check is overwritten; `ReplacesApproved` speaks of surfaces with an ETag.
* A completed item that is edited back to its approved earlier state gives a fresh
  plan of the same hash (`generatedAt` is left out of it), whose checkpoint calls the
  item completed: every run reports drift until the checkpoint is set aside, hence
  `DiscardCheckpoint`.
* Three kinds of plan are written but refused by the reader, which is the safe side:
  two entries that mean one gateway (`plan-artifact.ts:275`); a gateway's logical ID
  that differs from an item's by its case alone (`manifest.ts:1426` compares as is,
  the reader without case); an artifact over 512 MiB for an existing Lakehouse, which
  gets no URI (`spark-job-artifacts.ts:141`). `WrittenIsAccepted` names all three.

The comment at data-agent.ts:344 places the shell in `pendingCreates` while its
definition is staged; the entry is in `pendingOperations` by then.

## 7. Plan

Done, in this order: `ItemApply` with `CreateLedger`, `NetworkApply`,
`FabricClient`, `ResourceApply`, `WorkspaceApply` and `WorkspaceIdentity` with
`Bootstrap`, the six protocols of `Content`, `PlanArtifact` and `PlanApproval` with
`Plan`; the
theorems of section 4.

Next, in order of importance:

1. Metadata and definition as two values in `ItemApply`, with the recovery baseline
   and foreign edits between the reads (`notebook.ts:299`).
2. The deferral of the network policy while endpoints await approval, composed with
   `NetworkApply`.
3. The validation of a checkpoint file against its plan, field by field: the finding
   `bad_record` is one instance of a writer and a reader that disagree.

## 8. Not modelled, and why

* Conversions of text without behaviour over time: JSON and YAML parsing, the
  schema, substitution of placeholders, rendering of DDL, canonicalization and
  digests, step summaries, redaction. A hash is taken to be as good as its input.
* `item-definition.ts`, `fabric/report-definition.ts`: normalization of definitions;
  the models compare what is normalized.
* Pagination (`listAll`) and the checks on URLs in `client.ts`; every list is one
  reading, except where the code's own order of reads matters (network surfaces,
  the two passes over the checkout, the items a plan looks at).
* Authentication, an outside service; `FabricClient` knows that tokens take time.
* The delay before a new item is listed, renames, items deleted and made again
  under one name during one run, Notebooks whose definition carries `.platform`.
* Several processes with one checkpoint, and several protocols of `Content` at
  once: items are applied one after another, and each protocol has its own record.
