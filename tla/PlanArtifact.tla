---------------------------- MODULE PlanArtifact ----------------------------
(***************************************************************************)
(* The life of a plan: the manifest is checked (src/src/manifest.ts), a    *)
(* plan built without Fabric (planner.ts), completed by a look at Fabric   *)
(* (fabric/live-planner.ts), written, and read as an approved plan         *)
(* (plan-artifact.ts), whose demands are written independently of what the *)
(* planner does.                                                           *)
(***************************************************************************)
EXTENDS PlannedNetwork, PlannedItems

CONSTANT Cases  \* what is declared, and what Fabric shows, to choose from

(* What the schema of a manifest allows, and what an adapter may answer.    *)
ASSUME CasesAssumption ==
  \A c \in Cases :
    /\ IsFiniteSet(c.declared.items)
    /\ \A i \in c.declared.items :
         /\ i.id \in Nat \ {0} /\ i.state \in {"present", "absent"}
         /\ i.target # 0 => i.type \in DOMAIN Refers
         /\ i.artifacts \in Seq({"small", "large"})
         /\ c.seen.items[i.id].there \in {"absent", "same", "differs", "ambiguous"}
         /\ c.seen.items[i.id].table \in {"absent", "owned", "unowned", "conflicting", "differs"}
         /\ \A k \in DOMAIN i.artifacts : c.seen.items[i.id].stored[k] \in {"absent", "same", "other"}
    /\ \A r \in c.declared.roles : c.seen.roles[r] \in {"absent", "same", "differs"}
    /\ \A d \in c.declared.network :
         IsFiniteSet(d.endpoints) /\ \A e \in d.endpoints : e.name \in Nat /\ e.state \in {"present", "absent"}
    /\ c.seen.network.firewall # 0 /\ c.seen.network.shares \in {"Allow", "Deny"}
    /\ \A l \in c.seen.network.endpoints : l.id # 0
    /\ \A g \in c.declared.gateways : g.state \in {"present", "absent"}
    /\ \A l \in c.seen.gateways : l.id # 0

VARIABLES
  stage,     \* "declared", "loaded", "offline", "planned", "thrown", "accepted" or "refused"
  declared,  \* the manifest
  seen,      \* Fabric, as the adapters read it
  plan       \* the plan

planVars == <<stage, declared, seen, plan>>

Given == 1    \* the ID of a workspace that is declared,
Found == 2    \* of one that is found by its name,
Pending == 9  \* and what stands for it before
NoPlanYet == [items |-> {}]

PlanInit ==
  /\ \E c \in Cases : declared = c.declared /\ seen = c.seen
  /\ stage = "declared" /\ plan = NoPlanYet
-----------------------------------------------------------------------------
DeclaredWorkspace == IF declared.workspace = "given" THEN Given ELSE 0
(* loadManifest, of what it declares: logical IDs are compared as they are. *)
ManifestValid ==
  /\ ItemsValid(declared.items) /\ GatewaysValid(declared.gateways)
  /\ IdentityValid(declared.roles, DeclaredWorkspace)
  /\ \A d \in declared.network : NetworkValid(d)
LoadPlanned ==
  /\ stage = "declared" /\ stage' = IF ManifestValid THEN "loaded" ELSE "thrown"
  /\ UNCHANGED <<declared, seen, plan>>

(* buildPlan.                                                               *)
OfflineWorkspace == IF declared.workspace = "given" THEN Given ELSE Pending
OfflinePlan ==
  [workspaceId |-> OfflineWorkspace,
   workspace |-> IF declared.workspace = "given" THEN "none" ELSE "unknown",
   identity |-> IF declared.identity THEN {OfflineIdentity(declared.roles, OfflineWorkspace)} ELSE {},
   gateways |-> {OfflineGateway(g) : g \in declared.gateways},
   network |-> {StaticNetwork(d, "unknown", FALSE) : d \in declared.network},
   stages |-> Stages(declared.items),
   items |-> {OfflineItem(i) : i \in declared.items}]
BuildPlan ==
  /\ stage = "loaded"
  /\ IF Acyclic(Stages(declared.items)) THEN stage' = "offline" /\ plan' = OfflinePlan
     ELSE stage' = "thrown" /\ UNCHANGED plan
  /\ UNCHANGED <<declared, seen>>

(* The workspace adapter's plan, of a workspace named.                      *)
WorkspaceAction ==
  IF declared.workspace = "given" THEN "none"
  ELSE CASE seen.workspace = "absent" -> "create" [] seen.workspace = "same" -> "no-op"
         [] seen.workspace = "differs" -> "update" [] seen.workspace = "ambiguous" -> "blocked"
(* planVirtualNetworkGatewaysIfConfigured, before all else.                 *)
LivePlan == [plan EXCEPT !.gateways = {PlanGateway(g, seen.gateways) : g \in declared.gateways},
                         !.workspace = WorkspaceAction]
(* Without a workspace all that is in it is blocked; only the protection of *)
(* another one is planned.                                                  *)
WithoutWorkspace ==
  [LivePlan EXCEPT
     !.identity = {BlockedIdentity(p) : p \in plan.identity},
     !.network = {IF d.workspace = 0 THEN StaticNetwork(d, "blocked", TRUE)
                  ELSE PlanNetwork(d, seen.network, d.workspace) : d \in declared.network},
     !.items = {BlockUntilWorkspaceExists(p) : p \in plan.items}]
Workspace == IF declared.workspace = "given" THEN Given ELSE Found
WithWorkspace ==
  [LivePlan EXCEPT
     !.workspaceId = Workspace,
     !.identity = IF declared.identity
                  THEN {PlanIdentity(declared.roles, Workspace, seen.identity, seen.roles)} ELSE {},
     !.network = {PlanNetwork(d, seen.network, Workspace) : d \in declared.network},
     !.items = PlanItems(declared.items, seen.items)]
Throws ==
  \/ declared.identity /\ DuplicateRole(declared.roles, Workspace)
  \/ \E p \in WithWorkspace.items : p.action = "throws"
(* enrichPlanWithFabric.                                                    *)
EnrichPlan ==
  /\ stage = "offline"
  /\ IF WorkspaceAction \in {"create", "blocked"} THEN plan' = WithoutWorkspace /\ stage' = "planned"
     ELSE IF Throws THEN stage' = "thrown" /\ UNCHANGED plan
     ELSE plan' = WithWorkspace /\ stage' = "planned"
  /\ UNCHANGED <<declared, seen>>
-----------------------------------------------------------------------------
(* isDeploymentPlan: logical IDs are compared without their case.           *)
IsDeploymentPlan ==
  /\ \A p \in plan.identity : IsPlannedIdentity(p)
  /\ IsPlannedGateways(plan.gateways)
  /\ \A n \in plan.network : IsPlannedNetwork(n)
  /\ IsPlannedItems(plan.items, plan.stages)
  /\ \A g \in plan.gateways : ~\E p \in plan.items : p.id = g.like
(* loadApprovedPlan.                                                        *)
LoadApprovedPlan ==
  /\ stage \in {"offline", "planned"}
  /\ stage' = IF IsDeploymentPlan THEN "accepted" ELSE "refused"
  /\ UNCHANGED <<declared, seen, plan>>

PlanNext == LoadPlanned \/ BuildPlan \/ EnrichPlan \/ LoadApprovedPlan
-----------------------------------------------------------------------------
(* Where the planner and the reader of its plans disagree: two entries that *)
(* mean one gateway, an ID that differs from an item's by its case alone,   *)
(* and a file too large to be uploaded to a Lakehouse that is there.        *)
SharedGateway ==
  \E g, h \in plan.gateways : g # h /\ g.physicalId # 0 /\ g.physicalId = h.physicalId
CaseOnlyApart == \E g \in declared.gateways : g.like \in Ids(declared.items)
LargeArtifact ==
  \E p \in plan.items : /\ p.artifacts.binding = "physical"
                        /\ \E k \in DOMAIN p.artifacts.files : ~p.artifacts.files[k].uri

(* What the planner writes can be applied, with or without a look at        *)
(* Fabric: whatever is declared and found there, the reader refuses only    *)
(* the three kinds of plan above, and those always.                         *)
WrittenIsAccepted ==
  stage \in {"accepted", "refused"} => (stage = "refused" <=> SharedGateway \/ CaseOnlyApart \/ LargeArtifact)

Present(p) == p.state = "present"
Comes(early, late) ==
  \E k, l \in DOMAIN plan.stages : k < l /\ early \in plan.stages[k] /\ late \in plan.stages[l]
(* The stages respect every dependency: among present items what is needed  *)
(* comes first, among absent ones last, and all deletions come at the end.  *)
StagesRespectDependencies ==
  \A p \in plan.items : \A q \in plan.items :
    /\ q.id \in p.deps /\ p.state = q.state => IF Present(p) THEN Comes(q.id, p.id) ELSE Comes(p.id, q.id)
    /\ Present(q) /\ ~Present(p) => Comes(q.id, p.id)

(* No item is to be written while what it refers to or is tagged with is    *)
(* blocked or unknown, and a bundle only where nothing would be altered.    *)
WritesOnSafeGround ==
  \A i \in declared.items : \A p \in plan.items :
    p.id = i.id /\ Present(p) /\ p.action \in {"create", "update"} =>
      /\ \A q \in plan.items : q.id = i.target => q.action \notin {"blocked", "unknown"}
      /\ \A k \in DOMAIN p.tables.operations : p.tables.operations[k].action \in {"create", "no-op"}
      /\ \A k \in DOMAIN p.artifacts.files : p.artifacts.files[k].action # "blocked"

(* Outbound access is not closed on an endpoint that is not approved, and   *)
(* what is deleted is exactly what was declared.                            *)
NetworkIsCautious ==
  \A n \in plan.network :
    /\ n.policy.action = "update" /\ n.policy.desired[2] = "Deny" /\ n.policy.observed[2] = "Allow" =>
         \A k \in DOMAIN n.endpoints : n.endpoints[k].state = "present" => n.endpoints[k].connection = "approved"
    /\ \A k \in DOMAIN n.endpoints : n.endpoints[k].action = "delete" =>
         \E l \in seen.network.endpoints :
           l.id = n.endpoints[k].physicalId /\ l.target = n.endpoints[k].target
           /\ n.endpoints[k].sub \in {0, l.sub} /\ l.provisioning \notin {"failed", "deleting"}

(* Of what the accepted plans do.                                           *)
PlanIsCautious ==
  stage \in {"planned", "accepted"} => StagesRespectDependencies /\ WritesOnSafeGround /\ NetworkIsCautious
=============================================================================
