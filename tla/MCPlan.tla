------------------------------- MODULE MCPlan -------------------------------
(* Declarations of each kind, each with what Fabric may show of it.         *)
EXTENDS Plan

MCBudgets == {[faults |-> f, edits |-> 2 - f] : f \in 0..2}

There == {"absent", "same", "differs", "ambiguous"}
Deployment ==
  [workspace |-> "given", identity |-> FALSE, roles |-> {}, items |-> {}, gateways |-> {}, network |-> {}]
OpenNetwork ==
  [found |-> TRUE, inbound |-> "Allow", outbound |-> "Allow", firewall |-> 1, rules |-> 1,
   shares |-> "Allow", endpoints |-> {}]
Quiet ==
  [workspace |-> "same", identity |-> TRUE, roles |-> [r \in 0..3 |-> "absent"], items |-> <<>>,
   gateways |-> {}, network |-> OpenNetwork]
Case(d, s) == [declared |-> d, seen |-> s]

Declare(id, type, state, deps) ==
  [id |-> id, type |-> type, state |-> state, deps |-> deps, tags |-> {}, target |-> 0, adopt |-> FALSE,
   enableSchemas |-> TRUE, schema |-> "dbo", artifacts |-> <<>>]
On(target, item) == [item EXCEPT !.target = target, !.deps = {target}]
Look(there) == [there |-> there, schemaThere |-> TRUE, table |-> "absent", stored |-> <<"absent", "absent">>, tags |-> {}]
ItemCase(items, looks) == Case([Deployment EXCEPT !.items = items], [Quiet EXCEPT !.items = looks])

(* A bundle of tables on its Lakehouse.                                     *)
TableCases ==
  {ItemCase({[Declare(1, "Lakehouse", "present", {}) EXCEPT !.enableSchemas = schemas],
             [On(1, Declare(2, "LakehouseTables", "present", {})) EXCEPT !.schema = schema, !.adopt = adopt]},
            <<Look(there), [Look("absent") EXCEPT !.schemaThere = schemaThere, !.table = table]>>) :
     schemas \in BOOLEAN, schema \in {"dbo", "managed", "other"}, adopt \in BOOLEAN, there \in There,
     schemaThere \in BOOLEAN, table \in {"absent", "owned", "unowned", "conflicting", "differs"}}
(* A Spark job with and without files, on a Lakehouse.                      *)
SparkCases ==
  {ItemCase({Declare(1, "Lakehouse", "present", {}),
             [On(1, Declare(2, "SparkJobDefinition", "present", {})) EXCEPT !.artifacts = sizes]},
            <<Look(lakehouse), [Look(there) EXCEPT !.stored = <<stored, "absent">>]>>) :
     sizes \in {<<>>, <<"small">>, <<"small", "large">>}, lakehouse \in There, there \in There,
     stored \in {"absent", "same", "other"}}
(* Tags and a Notebook that carries some of them.                           *)
TagCases ==
  {ItemCase({Declare(1, "FabricTag", "present", {}), Declare(2, "FabricTag", "present", {}),
             [Declare(3, "Notebook", "present", {1, 2}) EXCEPT !.tags = tags]},
            <<Look(one), Look(two), [Look(there) EXCEPT !.tags = carried]>>) :
     tags \in {{1}, {1, 2}}, one \in There, two \in {"absent", "same"}, there \in There, carried \in {{}, {1}, {1, 2}}}
SymbolicCases ==
  {ItemCase({Declare(1, Refers[type], "present", {}), On(1, Declare(2, type, "present", {}))}, <<Look(one), Look(two)>>) :
     type \in Symbolizes, one \in There, two \in There}
(* All dependencies among three items, to be present or absent: half of     *)
(* them cyclic or otherwise invalid.                                        *)
StageCases ==
  {ItemCase({Declare(i, "Notebook", states[i], deps[i]) : i \in 1..3}, [i \in 1..3 |-> Look("same")]) :
     states \in [1..3 -> {"present", "absent"}],
     deps \in {d \in [1..3 -> SUBSET (1..3)] : 2 \notin d[2] /\ 3 \notin d[3]}}

(* One endpoint declared, in all states; then two.                          *)
Endpoint(name, state, sub) == [name |-> name, state |-> state, target |-> 7, sub |-> sub]
LiveEndpoint(id, name, sub, provisioning, connection) ==
  [id |-> id, name |-> name, exact |-> TRUE, target |-> 7, sub |-> sub,
   provisioning |-> provisioning, connection |-> connection]
AsDeclared(sub) ==
  {LiveEndpoint(1, 1, sub, p, c) : p \in Provisionings \cup {"odd"},
                                   c \in {"none", "pending", "approved", "rejected", "odd"}}
OneLive ==
  {{}} \cup {{l} : l \in UNION {AsDeclared(sub) : sub \in 0..2}}
  \cup {{[LiveEndpoint(1, 1, 1, "succeeded", "approved") EXCEPT !.target = 8]},
        {[LiveEndpoint(1, 1, 1, "succeeded", "approved") EXCEPT !.exact = FALSE]},
        {LiveEndpoint(1, 1, 1, "succeeded", "approved"), LiveEndpoint(2, 1, 1, "succeeded", "approved")}}
Protection ==
  [workspace |-> 0, inbound |-> "Allow", outbound |-> "Deny", firewall |-> 0, rules |-> 0, shares |-> "none", endpoints |-> {}]
NetworkCase(d, there) == Case([Deployment EXCEPT !.network = {d}], [Quiet EXCEPT !.network = there])
EndpointCases ==
  {NetworkCase([Protection EXCEPT !.endpoints = {Endpoint(1, state, sub)}],
               [OpenNetwork EXCEPT !.outbound = outbound, !.endpoints = around]) :
     state \in {"present", "absent"}, sub \in 0..1, outbound \in {"Allow", "Deny"}, around \in OneLive}
  \cup
  {NetworkCase([Protection EXCEPT !.endpoints = {Endpoint(1, "present", 1), Endpoint(2, "present", 1)}],
               [OpenNetwork EXCEPT !.endpoints = one \cup two]) :
     one \in {{}} \cup {{LiveEndpoint(1, 1, 1, "succeeded", c)} : c \in {"pending", "approved"}},
     two \in {{}} \cup {{LiveEndpoint(2, 2, 1, "succeeded", c)} : c \in {"pending", "approved"}}}
(* All policies and rules, on a network that has none of them or all.       *)
PolicyCases ==
  {NetworkCase([workspace |-> 0, inbound |-> in, outbound |-> out, firewall |-> firewall, rules |-> rules,
                shares |-> shares, endpoints |-> {}],
               [OpenNetwork EXCEPT !.inbound = liveIn, !.outbound = liveOut, !.firewall = surface, !.rules = surface,
                  !.shares = IF surface = 1 THEN "Allow" ELSE "Deny"]) :
     in \in {"Allow", "Deny"}, out \in {"Allow", "Deny"}, liveIn \in {"Allow", "Deny"}, liveOut \in {"Allow", "Deny"},
     firewall \in 0..2, rules \in {0, 2}, shares \in {"none", "Allow", "Deny"}, surface \in 1..2}

(* Up to two gateways, found by ID or by name, on up to two that are there. *)
Gateway(logicalId, state, name, id) ==
  [logicalId |-> logicalId, like |-> 0, state |-> state, name |-> name, id |-> id, place |-> 1, config |-> 1]
LiveGateway(id, type, name, place, config) ==
  [id |-> id, type |-> type, name |-> name, place |-> place, config |-> config]
FirstLiveGateway ==
  {LiveGateway(5, "VirtualNetwork", n, p, c) : n \in 1..2, p \in 1..2, c \in 1..2} \cup {LiveGateway(5, "OnPremises", 1, 1, 1)}
LiveGateways ==
  {{}} \cup {{l} : l \in FirstLiveGateway}
  \cup {{l, LiveGateway(6, "VirtualNetwork", n, 1, 1)} : l \in FirstLiveGateway, n \in 1..3}
States == {"present", "absent"}
GatewayCases ==
  {Case([Deployment EXCEPT !.gateways = {Gateway(1, state, 1, id)} \cup others], [Quiet EXCEPT !.gateways = around]) :
     state \in States, id \in {0, 5}, around \in LiveGateways,
     others \in {{}} \cup {{Gateway(2, s, 2, i)} : s \in States, i \in {0, 5, 6}}}

(* A deployment with something of everything, on a workspace that is given  *)
(* or to be found, with roles there and elsewhere; and IDs alike.           *)
Whole(workspace, roles, network, like) ==
  [workspace |-> workspace, identity |-> TRUE, roles |-> roles,
   items |-> {Declare(1, "FabricTag", "present", {}), Declare(2, "Lakehouse", "present", {}),
              On(2, Declare(3, "LakehouseTables", "present", {})),
              [On(2, Declare(4, "SparkJobDefinition", "present", {})) EXCEPT
                 !.artifacts = <<"small">>, !.deps = {1, 2}, !.tags = {1}],
              Declare(5, "Notebook", "absent", {})},
   gateways |-> {[Gateway(1, "present", 1, 0) EXCEPT !.like = like]},
   network |-> {[Protection EXCEPT !.workspace = network, !.endpoints = {Endpoint(1, "present", 1)}]}]
WholeCases ==
  {Case(Whole(workspace, roles, network, like),
        [Quiet EXCEPT !.workspace = there, !.identity = exists, !.roles = [r \in 0..3 |-> role],
                      !.items = [i \in 1..5 |-> Look("same")], !.network.found = found]) :
     workspace \in {"given", "managed"}, there \in There, roles \in SUBSET (0..3), exists \in BOOLEAN,
     role \in {"absent", "same", "differs"}, network \in {0, 3}, like \in {0}, found \in {TRUE}}
  \cup
  {Case(Whole(workspace, {0}, network, like),
        [Quiet EXCEPT !.workspace = there, !.items = [i \in 1..5 |-> Look("same")], !.network.found = found]) :
     workspace \in {"given", "managed"}, there \in There, network \in {0, 3}, like \in {0, 2}, found \in BOOLEAN}

MCCases ==
  TableCases \cup SparkCases \cup TagCases \cup SymbolicCases \cup StageCases \cup EndpointCases
  \cup PolicyCases \cup GatewayCases \cup WholeCases
=============================================================================
