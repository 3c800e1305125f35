---------------------------- MODULE PlannedItems ----------------------------
(***************************************************************************)
(* What a plan says of the workspace, its identity and its items: how the  *)
(* planner writes it, without and with a look at Fabric                    *)
(* (src/src/planner.ts, graph.ts, fabric/live-planner.ts), and what the    *)
(* reader of the plan file asks of it (src/src/plan-artifact.ts).  An      *)
(* adapter's look at an item is one of: absent, same, differs, ambiguous;  *)
(* the physical ID of an item is that of its declaration, 0 if it has none.*)
(***************************************************************************)
EXTENDS Naturals, Sequences, FiniteSets, SequencesExt

Untaggable == {"FabricTag", "LakehouseTables", "SparkCustomPool"}
Deletable == {"Lakehouse", "Environment", "Notebook", "SparkJobDefinition", "DataPipeline", "CopyJob",
              "SemanticModel", "Eventstream", "Ontology", "ApacheAirflowJob"}
(* What a type refers to, and whether it has to.                            *)
Refers == [LakehouseTables |-> "Lakehouse", SparkJobDefinition |-> "Lakehouse",
           Report |-> "SemanticModel", KQLDatabase |-> "Eventhouse"]
Symbolizes == {"Report", "KQLDatabase"}

Ids(items) == {i.id : i \in items}
ById(items, id) == CHOOSE i \in items : i.id = id

(* validateDependencies, validateTags, validateDeletionDefinition and the   *)
(* declarations of logical references.                                      *)
ItemsValid(items) ==
  /\ \A i, j \in items : i.id = j.id => i = j
  /\ \A i \in items :
       /\ i.deps \subseteq Ids(items) \ {i.id}
       /\ i.state = "present" => \A d \in i.deps : ById(items, d).state = "present"
       /\ i.state = "absent" => i.type \in Deletable /\ i.tags = {} /\ i.target = 0
       /\ i.tags # {} => i.type \notin Untaggable
       /\ i.tags \subseteq i.deps /\ \A g \in i.tags : ById(items, g).type = "FabricTag"
       /\ i.target # 0 => i.target \in i.deps /\ ById(items, i.target).type = Refers[i.type]
       /\ i.state = "present" /\ (i.type \in Symbolizes \cup {"LakehouseTables"} \/ i.artifacts # <<>>) => i.target # 0
-----------------------------------------------------------------------------
(* buildStages: layer by layer; an empty stage stands for the error that a  *)
(* cycle is.                                                                *)
Ready(items, rest) == {i \in rest : ById(items, i).deps \cap rest = {}}
Layers(items, state) ==
  LET layers[rest \in SUBSET Ids(items)] ==
        IF rest = {} THEN <<>>
        ELSE IF Ready(items, rest) = {} THEN <<{}>>
        ELSE <<Ready(items, rest)>> \o layers[rest \ Ready(items, rest)]
  IN  layers[Ids({i \in items : i.state = state})]
(* buildDeploymentStages.                                                   *)
Stages(items) == Layers(items, "present") \o Reverse(Layers(items, "absent"))
Acyclic(stages) == \A k \in DOMAIN stages : stages[k] # {}
-----------------------------------------------------------------------------
NoTags == [action |-> "none", tags |-> {}, missing |-> {}]
TagsOf(i, action, missing) == [action |-> action, tags |-> i.tags, missing |-> missing]
AllMissing(i, action) == IF i.tags = {} THEN NoTags ELSE TagsOf(i, action, i.tags)
NoTables == [binding |-> "none", target |-> 0, operations |-> <<>>]
NoArtifacts == [binding |-> "none", target |-> 0, files |-> <<>>]
(* buildPlan, for an item.                                                  *)
OfflineItem(i) ==
  [id |-> i.id, type |-> i.type, state |-> i.state, deps |-> i.deps, action |-> "unknown",
   physicalId |-> 0, observed |-> FALSE,
   tagging |-> AllMissing(i, "unknown"), tables |-> NoTables, artifacts |-> NoArtifacts]
Item(i, action, id) == [OfflineItem(i) EXCEPT !.action = action, !.physicalId = id, !.observed = TRUE]
BlockedItem(i) == Item(i, "blocked", 0)
Unseen(i) == [OfflineItem(i) EXCEPT !.action = "blocked"]

(* What an adapter makes of an item it finds or not, and of one whose       *)
(* references have no physical ID yet.                                      *)
AdapterItem(i, there) ==
  CASE there = "absent" -> Item(i, "create", 0) [] there = "same" -> Item(i, "no-op", i.id)
    [] there = "differs" -> Item(i, "update", i.id) [] there = "ambiguous" -> BlockedItem(i)
UnresolvedItem(i, there) ==
  IF there = "absent" THEN Item(i, "create", 0) ELSE Item(i, "blocked", IF there = "ambiguous" THEN 0 ELSE i.id)
DeletedItem(i, there) ==
  CASE there = "absent" -> Item(i, "no-op", 0) [] there \in {"same", "differs"} -> Item(i, "delete", i.id)
    [] there = "ambiguous" -> Item(i, "throws", 0)

Resolved(p) == p.physicalId # 0 /\ p.action \in {"update", "no-op"}
(* planReport and planKqlDatabase, on what is planned of their reference.   *)
SymbolicItem(i, there, target) ==
  CASE Resolved(target) -> AdapterItem(i, there)
    [] ~Resolved(target) /\ target.action = "create" -> UnresolvedItem(i, there)
    [] ~Resolved(target) /\ target.action # "create" -> BlockedItem(i)

(* planSparkJobArtifacts: a large file is not inspected, and has no URI.    *)
PlannedFile(size, stored, physical) ==
  CASE size = "large" -> [action |-> "blocked", uri |-> FALSE]
    [] size # "large" /\ ~physical -> [action |-> "create", uri |-> FALSE]
    [] size # "large" /\ physical ->
         [action |-> CASE stored = "absent" -> "create" [] stored = "same" -> "no-op" [] stored = "other" -> "blocked",
          uri |-> TRUE]
PlannedArtifacts(i, stored, target) ==
  LET physical == target.action # "create"
  IN  [binding |-> IF physical THEN "physical" ELSE "symbolic",
       target |-> IF physical THEN target.physicalId ELSE 0,
       files |-> [k \in DOMAIN i.artifacts |-> PlannedFile(i.artifacts[k], stored[k], physical)]]
BlockedFile(staging) == \E k \in DOMAIN staging.files : staging.files[k].action = "blocked"
(* planSparkJob.                                                            *)
SparkJob(i, seen, target) ==
  LET staging == IF i.artifacts = <<>> THEN NoArtifacts ELSE PlannedArtifacts(i, seen.stored, target)
      staged(p) == [p EXCEPT !.artifacts = staging]
  IN  IF ~Resolved(target) /\ target.action # "create" THEN BlockedItem(i)
      ELSE IF BlockedFile(staging) THEN staged(BlockedItem(i))
      ELSE IF target.action = "create" THEN staged(UnresolvedItem(i, seen.there))
      ELSE staged(AdapterItem(i, seen.there))

(* A bundle has a table, in schema dbo, in one it declares or in another.   *)
Statement(kind, action) == [kind |-> kind, action |-> action]
NewTables(i) ==
  (IF i.schema = "managed" THEN <<Statement("schema", "create")>> ELSE <<>>) \o <<Statement("table", "create")>>
TableAction(i, seen) ==
  IF ~seen.schemaThere THEN IF i.schema = "managed" THEN "create" ELSE "blocked"
  ELSE CASE seen.table = "absent" -> "create" [] seen.table = "owned" -> "no-op"
         [] seen.table = "unowned" -> IF i.adopt THEN "adopt" ELSE "blocked"
         [] seen.table \in {"conflicting", "differs"} -> "blocked"
LiveTables(i, seen) ==
  (IF i.schema = "managed" THEN <<Statement("schema", IF seen.schemaThere THEN "no-op" ELSE "create")>> ELSE <<>>)
  \o <<Statement("table", TableAction(i, seen))>>
BundleAction(operations) ==
  LET actions == {operations[k].action : k \in DOMAIN operations}
  IN  IF actions \cap {"blocked", "adopt"} # {} THEN "blocked" ELSE IF "create" \in actions THEN "create" ELSE "no-op"
(* planLakehouseTables.                                                     *)
TablesItem(i, seen, target, enableSchemas) ==
  CASE target.action = "create" ->
         IF ~enableSchemas \/ i.schema = "other" THEN Unseen(i)
         ELSE [Item(i, "create", 0) EXCEPT !.tables = [binding |-> "symbolic", target |-> 0, operations |-> NewTables(i)]]
    [] target.action = "no-op" /\ target.physicalId # 0 ->
         [Item(i, BundleAction(LiveTables(i, seen)), target.physicalId) EXCEPT
            !.tables = [binding |-> "physical", target |-> target.physicalId, operations |-> LiveTables(i, seen)]]
    [] OTHER -> Unseen(i)

(* enrichTagAssignments, on what is planned of the item and of its tags.    *)
Tagged(p, i, carried, tagPlans) ==
  LET missing == i.tags \ carried
  IN  IF i.tags = {} THEN p
      ELSE IF p.action \in {"blocked", "unknown"} \/ \E g \in tagPlans : g.action \in {"blocked", "unknown"}
           THEN [p EXCEPT !.tagging = AllMissing(i, "blocked")]
      ELSE IF p.physicalId = 0 \/ \E g \in tagPlans : g.physicalId = 0
           THEN [p EXCEPT !.tagging = AllMissing(i, "update")]
      ELSE [p EXCEPT !.tagging = TagsOf(i, IF missing = {} THEN "no-op" ELSE "update", missing)]

(* enrichPlanWithFabric, of the items: those that refer to others last.     *)
PlainItem(i, seen) ==
  IF i.state = "absent" THEN DeletedItem(i, seen[i.id].there) ELSE AdapterItem(i, seen[i.id].there)
EnrichedItem(items, i, seen) ==
  LET look == seen[i.id]
      referred == ById(items, i.target)
      target == PlainItem(referred, seen)
  IN  IF i.state = "absent" \/ i.target = 0 THEN PlainItem(i, seen)
      ELSE CASE i.type \in Symbolizes -> SymbolicItem(i, look.there, target)
             [] i.type = "SparkJobDefinition" -> SparkJob(i, look, target)
             [] i.type = "LakehouseTables" -> TablesItem(i, look, target, referred.enableSchemas)
             [] OTHER -> PlainItem(i, seen)
PlanItems(items, seen) ==
  {Tagged(EnrichedItem(items, i, seen), i, seen[i.id].tags, {EnrichedItem(items, ById(items, g), seen) : g \in i.tags}) :
     i \in items}
(* blockItemUntilWorkspaceExists.                                           *)
BlockUntilWorkspaceExists(p) == [p EXCEPT !.action = "blocked", !.observed = TRUE]
-----------------------------------------------------------------------------
(* isPlannedLakehouseTables, isPlannedSparkJobArtifacts,                    *)
(* isPlannedItemTagAssignment, isPlannedItem.                               *)
IsPlannedTables(t) ==
  /\ t.binding = "physical" <=> t.target # 0
  /\ \A k \in DOMAIN t.operations :
       /\ t.operations[k].action \in {"create", "adopt", "no-op", "blocked"}
       /\ t.operations[k].kind = "schema" => t.operations[k].action \in {"create", "no-op"}
IsPlannedArtifacts(s) ==
  /\ s.files # <<>> /\ (s.binding = "physical" <=> s.target # 0)
  /\ \A k \in DOMAIN s.files :
       s.files[k].action \in {"create", "no-op", "blocked"} /\ (s.binding = "physical" <=> s.files[k].uri)
IsPlannedTagging(t) ==
  /\ t.tags # {} /\ t.missing \subseteq t.tags /\ t.action \in {"update", "no-op", "blocked", "unknown"}
  /\ t.action = "no-op" => t.missing = {}
  /\ t.action = "update" => t.missing # {}
IsPlannedItem(p) ==
  /\ p.action \in {"create", "update", "delete", "no-op", "blocked", "unknown"}
  /\ IF p.state = "absent"
     THEN p.action \notin {"create", "update"} /\ p.tagging = NoTags /\ p.tables = NoTables /\ p.artifacts = NoArtifacts
     ELSE p.action # "delete"
  /\ p.action = "delete" => p.physicalId # 0 /\ p.observed
  /\ IF p.tables = NoTables THEN p.type = "LakehouseTables" => p.action \in {"blocked", "unknown"}
     ELSE p.type = "LakehouseTables" /\ IsPlannedTables(p.tables)
  /\ p.artifacts # NoArtifacts => p.type = "SparkJobDefinition" /\ IsPlannedArtifacts(p.artifacts)
  /\ p.tagging # NoTags => p.type \notin Untaggable /\ IsPlannedTagging(p.tagging)
IsPlannedItems(items, stages) ==
  /\ \A p \in items : IsPlannedItem(p)
  /\ \A p \in items : \A g \in p.tagging.tags :
       g \in p.deps /\ \E q \in items : q.id = g /\ q.type = "FabricTag"
  /\ UNION Range(stages) = Ids(items)
  /\ \A k, l \in DOMAIN stages : k # l => stages[k] \cap stages[l] = {}
-----------------------------------------------------------------------------
(* The identity of the workspace, and its roles in others and in its own,   *)
(* named by ID or not (0).                                                  *)
IdentityValid(roles, workspace) == workspace = 0 \/ ~({0, workspace} \subseteq roles)
RoleTarget(r, workspace) == IF r = 0 THEN workspace ELSE r
Role(target, action) == [target |-> target, action |-> action]
Identity(action, roles) == [action |-> action, roles |-> roles]
OfflineIdentity(roles, workspace) == Identity("unknown", {Role(RoleTarget(r, workspace), "unknown") : r \in roles})
BlockedIdentity(p) == Identity("blocked", {Role(r.target, "blocked") : r \in p.roles})
(* planRoleAssignment: none, the same, or conflicting ones.                 *)
RoleAction(there) == CASE there = "absent" -> "create" [] there = "same" -> "no-op" [] there = "differs" -> "blocked"
DuplicateRole(roles, workspace) == {0, workspace} \subseteq roles
PlanIdentity(roles, workspace, exists, there) ==
  LET planned == {Role(RoleTarget(r, workspace), RoleAction(there[r])) : r \in roles}
      actions == {r.action : r \in planned}
  IN  IF ~exists THEN Identity("create", {Role(RoleTarget(r, workspace), "blocked") : r \in roles})
      ELSE Identity(IF "blocked" \in actions THEN "blocked" ELSE IF "create" \in actions THEN "update" ELSE "no-op",
                    planned)
IsPlannedIdentity(p) ==
  /\ p.action \in {"create", "update", "no-op", "blocked", "unknown"}
  /\ \A r \in p.roles : r.action \in {"create", "no-op", "blocked", "unknown"}
  /\ \A r, q \in p.roles : r.target = q.target => r = q
=============================================================================
