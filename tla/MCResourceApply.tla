--------------------------- MODULE MCResourceApply ---------------------------
(* Plans for four resources: two gateways around two endpoints.              *)
EXTENDS ResourceApply

(* Copies for every edit and for the one copy a request may make.            *)
ASSUME CopiesSuffice == MaxCopies > MaxEdits

Gateway(state, action)  == [kind |-> "gateway", state |-> state, action |-> action]
Endpoint(state, action) == [kind |-> "endpoint", state |-> state, action |-> action]

(* One of each kind is new and one of each kind goes.                        *)
Replacing == [res |-> <<Gateway("present", "create"), Gateway("absent", "delete"),
                        Endpoint("present", "create"), Endpoint("absent", "delete")>>,
              rules |-> "apply"]

(* The same while the rules wait for an endpoint to be approved.             *)
Deferred == [res |-> <<Gateway("present", "update"), Gateway("absent", "delete"),
                       Endpoint("present", "no-op"), Endpoint("absent", "delete")>>,
             rules |-> "deferred"]

(* No rules at all, and resources only to be checked.                        *)
Checking == [res |-> <<Gateway("present", "no-op"), Gateway("absent", "delete"),
                       Endpoint("present", "create"), Endpoint("absent", "no-op")>>,
             rules |-> "none"]

MCPlans == {Replacing, Deferred, Checking}
OnePlan == {Replacing}
AnyGrants == {Flags} \cup {Flags \ {f} : f \in Flags}
AllGrants == {Flags}
=============================================================================
