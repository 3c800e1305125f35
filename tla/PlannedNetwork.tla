--------------------------- MODULE PlannedNetwork ---------------------------
(***************************************************************************)
(* What a plan says of the network: the protection of the workspace with   *)
(* its managed private endpoints, and the virtual network gateways.  How   *)
(* the planner writes it, without and with a look at Fabric                *)
(* (src/src/fabric/network-protection.ts, managed-private-endpoints.ts,    *)
(* virtual-network-gateway.ts), and what the reader of the plan file asks  *)
(* of it (src/src/plan-artifact.ts).  A hash is what it is taken of; an    *)
(* absent number is 0, an absent word "none", an absent hash <<>>.  Azure  *)
(* resource rules are planned as those of the firewall are, and the rules   *)
(* for gateways as those for cloud connections.                             *)
(***************************************************************************)
EXTENDS Naturals, Sequences, FiniteSets, SequencesExt

Discovered == {"update", "no-op"}
Undiscovered == {"blocked", "unknown"}
SurfaceActions == Discovered \cup Undiscovered

(* Names are compared without their case, and sorted by it: numbers stand   *)
(* for them.                                                                *)
Ascending(names) == \A i \in 1..Len(names) - 1 : names[i] < names[i + 1]
Sorted(names) == CHOOSE s \in [1..Cardinality(names) -> names] : Ascending(s)
ByName(set) ==
  LET names == Sorted({e.name : e \in set})
  IN  [k \in DOMAIN names |-> CHOOSE e \in set : e.name = names[k]]
Distinct(set, key(_)) == \A x, y \in set : key(x) = key(y) => x = y
-----------------------------------------------------------------------------
(* A managed private endpoint as declared: name, state, target and          *)
(* subresource (0: any).  As seen: id, name and whether its case is the     *)
(* declared one, target, subresource, provisioning and connection.          *)
EndpointIdentity(e) == <<e.name, e.target, e.sub>>
Message(e) == IF e.state = "present" THEN 1 ELSE 0
Operation(e) == <<e.name, e.state, e.target, e.sub, Message(e)>>
EndpointBase(e, action) ==
  [name |-> e.name, state |-> e.state, target |-> e.target, sub |-> e.sub, action |-> action,
   operation |-> Operation(e), identity |-> EndpointIdentity(e), message |-> Message(e),
   physicalId |-> 0, observed |-> <<>>, provisioning |-> "none", connection |-> "none",
   approvalRequired |-> FALSE, bootstrapBlocked |-> FALSE]
StaticEndpoint(e, action, bootstrap) == [EndpointBase(e, action) EXCEPT !.bootstrapBlocked = bootstrap]
ObservedEndpoint(e, l, action) ==
  [EndpointBase(e, action) EXCEPT
     !.physicalId = l.id, !.observed = EndpointIdentity(l),
     !.provisioning = l.provisioning, !.connection = l.connection]

\* Mutant: a subresource is compared only if both name one.
ExactMatchAnySub(e, l) == l.exact /\ l.target = e.target /\ (e.sub = 0 \/ l.sub = 0 \/ l.sub = e.sub)
(* isExactManagedPrivateEndpointMatch, of an endpoint of that name.         *)
ExactMatch(e, l) == l.exact /\ l.target = e.target /\ (e.sub = 0 \/ l.sub = e.sub)
Connections == {"pending", "approved"}
Provisionings == {"provisioning", "updating", "succeeded", "deleting", "failed"}
ApprovalRequired(l) == l.connection = "pending" \/ l.provisioning \in {"provisioning", "updating"}

(* What becomes of the one endpoint of that name.                           *)
EndpointAction(e, l) ==
  CASE ~ExactMatch(e, l) -> "blocked"
    [] ExactMatch(e, l) /\ l.provisioning \notin Provisionings -> "unknown"
    [] ExactMatch(e, l) /\ l.provisioning \in Provisionings ->
         IF l.connection \in {"rejected", "disconnected"} THEN "blocked"
         ELSE IF l.connection \notin Connections \cup {"none"} THEN "unknown"
         ELSE IF l.provisioning \in {"failed", "deleting"} THEN "blocked"
         ELSE IF l.provisioning = "succeeded" /\ l.connection = "none" THEN "unknown"
         ELSE IF e.state = "absent" THEN "delete" ELSE "no-op"

PlanEndpoint(e, live) ==
  LET named == {l \in live : l.name = e.name}
  IN  IF named = {} THEN EndpointBase(e, IF e.state = "present" THEN "create" ELSE "no-op")
      ELSE IF Cardinality(named) > 1 \/ \E l \in named : ~l.exact THEN EndpointBase(e, "blocked")
      ELSE LET l == CHOOSE l \in named : TRUE
               p == ObservedEndpoint(e, l, EndpointAction(e, l))
           IN  [p EXCEPT !.approvalRequired = (p.action = "no-op" /\ ApprovalRequired(l))]

(* managedPrivateEndpointOapBlockers.                                       *)
EndpointApproved(p) == p.action = "no-op" /\ p.provisioning = "succeeded" /\ p.connection = "approved"
Blockers(endpoints) ==
  Sorted({endpoints[k].name : k \in {k \in DOMAIN endpoints :
            endpoints[k].state = "present" /\ ~EndpointApproved(endpoints[k])}})
-----------------------------------------------------------------------------
(* The protection declared: workspace (0: the deployment's), default        *)
(* actions, and per surface 0 (not declared), 1 (no rules) or 2 (a rule).   *)
NetworkValid(d) ==
  /\ Distinct(d.endpoints, LAMBDA e : e.name)
  /\ d.inbound = "Deny" => d.firewall = 2
  /\ d.outbound # "Deny" => d.rules = 0

Policy(d) == <<d.inbound, d.outbound>>
Relaxes(observed, desired) == \E i \in 1..2 : observed[i] = "Deny" /\ desired[i] = "Allow"
BlankPolicy(d, action) ==
  [action |-> action, desired |-> Policy(d), hash |-> Policy(d), observed |-> <<>>,
   observedHash |-> <<>>, relaxation |-> "none", blockers |-> <<>>]
BlankSurface(value, action) == [action |-> action, hash |-> value, observed |-> 0, count |-> value - 1]
BlankShares(value, action) ==
  [action |-> action, desired |-> value, observed |-> "none", relaxation |-> "none"]
NoSurface == BlankSurface(1, "none")

StaticNetwork(d, action, bootstrap) ==
  LET declared == ByName(d.endpoints)
  IN  [workspace |-> d.workspace, policy |-> BlankPolicy(d, action),
       firewall |-> IF d.firewall = 0 THEN NoSurface ELSE BlankSurface(d.firewall, action),
       rules |-> IF d.rules = 0 THEN NoSurface ELSE BlankSurface(d.rules, action),
       shares |-> BlankShares(d.shares, IF d.shares = "none" THEN "none" ELSE action),
       endpoints |-> [i \in DOMAIN declared |-> StaticEndpoint(declared[i], action, bootstrap)]]

Bool(b) == IF b THEN "yes" ELSE "no"
Compare(same) == IF same THEN "no-op" ELSE "update"
PlanSurface(value, there) ==
  IF value = 0 THEN NoSurface
  ELSE [BlankSurface(value, Compare(value = there)) EXCEPT !.observed = there]
(* While outbound access is open the rules cannot be read: any will do.     *)
NotEnabled == 9
PlanRules(d, there) ==
  IF d.rules # 0 /\ there.outbound # "Deny"
  THEN [BlankSurface(d.rules, "update") EXCEPT !.observed = NotEnabled]
  ELSE PlanSurface(d.rules, there.rules)
PlanShares(value, there) ==
  IF value = "none" THEN BlankShares(value, "none")
  ELSE [action |-> Compare(value = there), desired |-> value, observed |-> there,
        relaxation |-> Bool(there = "Deny" /\ value = "Allow")]

(* Outbound access is closed only on endpoints that are approved.           *)
BlockedByEndpoints(d, there, blockers) ==
  there.outbound = "Allow" /\ d.outbound = "Deny" /\ blockers # <<>>
PlanPolicy(d, there, endpoints) ==
  LET found == Policy(there)
      planned == [BlankPolicy(d, Compare(Policy(d) = found)) EXCEPT
                    !.observed = found, !.observedHash = found,
                    !.relaxation = Bool(Relaxes(found, Policy(d)))]
  IN  IF BlockedByEndpoints(d, there, Blockers(endpoints))
      THEN [planned EXCEPT !.action = "blocked", !.blockers = Blockers(endpoints)] ELSE planned

(* NetworkProtectionAdapter.plan, for the workspace resolved.               *)
PlanNetwork(d, there, workspace) ==
  LET declared == ByName(d.endpoints)
      endpoints == [i \in DOMAIN declared |-> PlanEndpoint(declared[i], there.endpoints)]
  IN  IF ~there.found THEN StaticNetwork(d, "blocked", FALSE)
      ELSE [workspace |-> IF d.workspace = 0 THEN workspace ELSE d.workspace,
            policy |-> PlanPolicy(d, there, endpoints),
            firewall |-> PlanSurface(d.firewall, there.firewall), rules |-> PlanRules(d, there),
            shares |-> PlanShares(d.shares, there.shares), endpoints |-> endpoints]
-----------------------------------------------------------------------------
(* The reader: isPlannedNetworkProtection.                                  *)
SafeState(p) ==
  /\ p.provisioning \in {"provisioning", "updating", "succeeded"}
  /\ p.connection \in Connections \cup {"none"}
  /\ p.provisioning = "succeeded" => p.connection \in Connections
Unobserved(p) == p.physicalId = 0 /\ p.observed = <<>> /\ p.provisioning = "none" /\ p.connection = "none"
IsPlannedEndpoint(p) ==
  /\ p.identity = EndpointIdentity(p) /\ p.operation = <<p.name, p.state, p.target, p.sub, p.message>>
  /\ p.state = "present" <=> p.message # 0
  /\ p.sub # 0 /\ (p.action = "delete" \/ (p.action = "no-op" /\ p.state = "present")) => p.observed = p.identity
  /\ p.action = "create" => p.state = "present" /\ Unobserved(p)
  /\ p.action = "delete" => p.state = "absent" /\ p.physicalId # 0 /\ p.observed # <<>> /\ SafeState(p)
  /\ p.action = "no-op" =>
       \/ p.state = "absent" /\ Unobserved(p) /\ ~p.approvalRequired
       \/ /\ p.state = "present" /\ p.physicalId # 0 /\ p.observed # <<>> /\ SafeState(p)
          /\ p.approvalRequired <=> p.provisioning # "succeeded" \/ p.connection = "pending"
  /\ p.approvalRequired => p.action = "no-op"
  /\ p.bootstrapBlocked => p.action = "blocked" /\ Unobserved(p)
IsPlannedEndpoints(endpoints) ==
  /\ \A i \in DOMAIN endpoints : IsPlannedEndpoint(endpoints[i])
  /\ Ascending([i \in DOMAIN endpoints |-> endpoints[i].name])

IsPolicyBlock(p) == p.blockers # <<>> /\ Ascending(p.blockers)
IsPlannedPolicy(p) ==
  /\ p.action \in SurfaceActions /\ p.hash = p.desired
  /\ IF p.action \in Undiscovered /\ ~(p.action = "blocked" /\ IsPolicyBlock(p))
     THEN p.blockers = <<>> /\ p.observed = <<>> /\ p.observedHash = <<>> /\ p.relaxation = "none"
     ELSE /\ p.observed # <<>> /\ p.observedHash = p.observed
          /\ p.relaxation = Bool(Relaxes(p.observed, p.desired))
          /\ IF p.action = "blocked"
             THEN p.observed[2] = "Allow" /\ p.desired[2] = "Deny"
             ELSE p.blockers = <<>> /\ (p.action = "no-op" <=> p.desired = p.observed)
IsPlannedSurface(s) == s # NoSurface => s.action \in SurfaceActions /\ s.hash # 0
IsPlannedFirewall(s) == IsPlannedSurface(s) /\ (s.action \in Discovered <=> s.observed # 0)
IsPlannedShares(s) ==
  \/ s.desired = "none"
  \/ s.action \in Undiscovered /\ s.observed = "none" /\ s.relaxation = "none"
  \/ /\ s.action \in Discovered /\ s.observed # "none"
     /\ s.relaxation = Bool(s.observed = "Deny" /\ s.desired = "Allow")
     /\ s.action = "no-op" <=> s.desired = s.observed

IsPlannedNetwork(n) ==
  /\ IsPlannedPolicy(n.policy) /\ IsPlannedEndpoints(n.endpoints)
  /\ IsPlannedFirewall(n.firewall) /\ IsPlannedSurface(n.rules) /\ IsPlannedShares(n.shares)
  /\ n.policy.blockers = <<>> \/ n.policy.blockers = Blockers(n.endpoints)
  /\ n.workspace = 0 =>
       /\ n.policy.action \notin Discovered /\ ~IsPolicyBlock(n.policy)
       /\ \A i \in DOMAIN n.endpoints : n.endpoints[i].action \in Undiscovered
  /\ n.policy.desired[1] = "Deny" => n.firewall # NoSurface /\ n.firewall.count > 0
-----------------------------------------------------------------------------
(* A gateway as declared: its logical ID (like: the item that has the same  *)
(* but for the case, or 0), ID (0: found by name), state, name, placement   *)
(* and configuration.  As seen: ID, type, name, placement, configuration.   *)
GatewaysValid(gateways) ==
  /\ Distinct(gateways, LAMBDA g : g.logicalId) /\ Distinct(gateways, LAMBDA g : g.name)
  /\ Distinct({g \in gateways : g.id # 0}, LAMBDA g : g.id)
  /\ \A g \in gateways : g.state = "absent" => g.id # 0

PlannedGateway(g, action, id) ==
  [logicalId |-> g.logicalId, like |-> g.like, state |-> g.state, name |-> g.name,
   action |-> action, physicalId |-> id]
OfflineGateway(g) == PlannedGateway(g, "unknown", g.id)
(* planDiscovered, of the gateway found.                                    *)
GatewayAction(g, l) ==
  CASE l.type # "VirtualNetwork" \/ l.place # g.place -> "blocked"
    [] l.type = "VirtualNetwork" /\ l.place = g.place ->
         IF g.state = "absent" THEN IF l.name = g.name THEN "delete" ELSE "blocked"
         ELSE Compare(l.name = g.name /\ l.config = g.config)
(* The result overrides an ID only if it has one.                           *)
PlanGateway(g, live) ==
  LET found == {l \in live : IF g.id # 0 THEN l.id = g.id ELSE l.name = g.name}
  IN  IF found = {}
      THEN PlannedGateway(g, IF g.state = "absent" THEN "no-op" ELSE IF g.id # 0 THEN "blocked" ELSE "create", g.id)
      ELSE IF Cardinality(found) > 1 THEN PlannedGateway(g, "blocked", g.id)
      ELSE LET l == CHOOSE l \in found : TRUE IN PlannedGateway(g, GatewayAction(g, l), l.id)

(* isPlannedVirtualNetworkGateways.                                         *)
IsPlannedGateways(gateways) ==
  /\ Distinct(gateways, LAMBDA g : g.logicalId) /\ Distinct(gateways, LAMBDA g : g.name)
  /\ Distinct({g \in gateways : g.physicalId # 0}, LAMBDA g : g.physicalId)
  /\ \A g \in gateways :
       /\ g.state = "absent" => g.physicalId # 0 /\ g.action \notin {"create", "update"}
       /\ g.state = "present" => g.action # "delete"
       /\ g.action = "create" => g.physicalId = 0
       /\ g.action \in {"update", "delete", "no-op"} => g.physicalId # 0
=============================================================================
