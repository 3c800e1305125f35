---------------------------- MODULE ResourceApply ----------------------------
(***************************************************************************)
(* Virtual network gateways and managed private endpoints                  *)
(* (src/src/virtual-network-gateway-apply.ts,                              *)
(* src/src/managed-private-endpoint-apply.ts, called from main.ts and      *)
(* apply.ts): resources a plan creates, updates, deletes or only checks    *)
(* around the network surfaces of NetworkApply.  A run first recovers what *)
(* an earlier one left in flight, then checks everything, and works in     *)
(* stages: gateways to be present, the items, endpoints to be present, the *)
(* network rules, endpoints to be absent, gateways to be absent.  Runs     *)
(* crash and lose answers, the service is slow, safeguards are revoked     *)
(* between runs, and somebody else edits the resources.                    *)
(*                                                                         *)
(* Resources are numbered in the order of the plan.  A resource is the     *)
(* copies that carry its name; copy 1 is the approved one of a resource    *)
(* that is there, and new copies get the next number.                      *)
(***************************************************************************)
EXTENDS Integers

CONSTANTS
  Resources,  \* the resources, in plan order
  Plans,      \* approved plans the checkpoint may be for
  Grants,     \* sets of safeguards a run may be given
  Shaky,      \* resources for which a server error may hide an executed request
  MaxCopies,  \* bound: copies of one resource
  MaxEdits,   \* bound: edits made by somebody else
  MaxFaults   \* bound: crashes, failures, lost or rejected requests

Ids == 1..MaxCopies

(* What the planner and assertApplicableAction let through: endpoints are   *)
(* never updated.                                                           *)
Entries ==
  [kind : {"gateway", "endpoint"}, state : {"present"}, action : {"create", "no-op"}]
    \cup [kind : {"gateway"}, state : {"present"}, action : {"update"}]
    \cup [kind : {"gateway", "endpoint"}, state : {"absent"}, action : {"delete", "no-op"}]

ASSUME ResourcesAssumption == Resources \subseteq Nat /\ Shaky \subseteq Resources
ASSUME PlansAssumption ==
  Plans \subseteq [res : [Resources -> Entries], rules : {"none", "apply", "deferred"}]

(* allow-vnet-gateway-create ... allow-managed-private-endpoint-delete.     *)
Flags == {"gateway"} \X {"create", "update", "delete"} \cup {"endpoint"} \X {"create", "delete"}

ASSUME GrantsAssumption == Grants \subseteq SUBSET Flags
ASSUME BoundsAssumption ==
  MaxCopies \in Nat \ {0} /\ MaxEdits \in Nat /\ MaxFaults \in Nat

VARIABLES
  plan,     \* the approved plan
  live,     \* the copies of each resource
  cp,       \* the checkpointed phase of each resource, and its physical ID
  rules,    \* the outbound gateway rules: untouched, started or verified
  pc,       \* what the run does
  stage,    \* the stage it does it in
  granted,  \* the safeguards the run was given
  settled,  \* resources this stage has applied or verified
  late,     \* resources with a request the service may yet execute
  applied,  \* how often a request of each resource had its effect
  spoiled,  \* a request was lost for good, or provisioning failed
  edits, faults

checkpoint == <<cp, rules>>
service    == <<live, late, applied, spoiled, edits>>
vars == <<plan, checkpoint, pc, stage, granted, settled, service, faults>>

Kind(r)   == plan.res[r].kind
Action(r) == plan.res[r].action
Present(r) == plan.res[r].state = "present"
Gateways  == {r \in Resources : Kind(r) = "gateway"}
Endpoints == {r \in Resources : Kind(r) = "endpoint"}

Existing(r) == Action(r) \in {"update", "delete"} \/ (Action(r) = "no-op" /\ Present(r))
ApprovedContent(r) == IF Action(r) = "no-op" THEN "desired" ELSE "planned"

There(r, i) == live[r][i] \notin {"unborn", "gone"}
Copies(r) == {i \in Ids : There(r, i)}

(* What a plan of the live state finds: an absent gateway is looked up by   *)
(* its ID, anything else by its name.                                       *)
Found(r) == IF Kind(r) = "gateway" /\ ~Present(r) THEN Copies(r) \cap {1} ELSE Copies(r)

(* What the check right before a request looks at: endpoints that are there *)
(* are then read by their ID.                                               *)
Seen(r) == IF Kind(r) = "endpoint" /\ Existing(r) THEN Copies(r) \cap {1} ELSE Found(r)

AsApproved(r, found) ==
  IF Existing(r) THEN found = {1} /\ live[r][1] = ApprovedContent(r) ELSE found = {}

(* The action a plan of the live state would propose for a gateway.         *)
CurrentAction(r) ==
  CASE Found(r) = {} -> IF Present(r) THEN "create" ELSE "no-op"
    [] \E i, j \in Found(r) : i # j -> "blocked"
    [] ~Present(r) -> "delete"
    [] \E i \in Found(r) : live[r][i] = "desired" -> "no-op"
    [] OTHER -> "update"

InFlight(r) == cp[r].phase \in {"submitting", "accepted"}
Expected(r) == IF cp[r].id # 0 THEN cp[r].id ELSE 1

(* assertCurrentPlanHasNotDrifted, assertManagedPrivateEndpointPlansNotDrifted. *)
Undrifted(r) ==
  IF cp[r].phase = "none" THEN AsApproved(r, Found(r))
  ELSE Kind(r) = "gateway" =>
         /\ CurrentAction(r) \in {"no-op", Action(r)}
         /\ Found(r) \subseteq {Expected(r)}

Flag(r) == <<Kind(r), Action(r)>>
Authorized(R) ==
  \A r \in R : cp[r].phase # "verified" /\ Action(r) # "no-op" => Flag(r) \in granted

Confirmed(r) ==
  IF Present(r) THEN live[r][Expected(r)] = "desired"
  ELSE IF Kind(r) = "gateway" THEN ~There(r, Expected(r)) ELSE Copies(r) = {}

(* Only an endpoint that is provisioning is waited for.                     *)
Waiting(r) ==
  Kind(r) = "endpoint" /\ Present(r) /\ live[r][Expected(r)] = "provisioning"

(* The copies a create whose answer was lost may have made.                 *)
Adoptable(r) ==
  IF Kind(r) = "gateway" THEN {i \in Ids : live[r][i] = "desired"}
  ELSE IF \E i \in Copies(r) : live[r][i] \notin {"desired", "provisioning"} THEN {}
  ELSE Copies(r)

(* The resources a stage works on, and the one whose turn it is.            *)
Due ==
  CASE stage = "recover gateways"  -> {r \in Gateways : InFlight(r)}
    [] stage = "recover endpoints" -> {r \in Endpoints : InFlight(r)}
    [] stage = "gateways present"  -> {r \in Gateways : Present(r)} \ settled
    [] stage = "endpoints present" -> {r \in Endpoints : Present(r)} \ settled
    [] stage = "endpoints absent"  -> {r \in Endpoints : ~Present(r)} \ settled
    [] stage = "gateways absent"   -> {r \in Gateways : ~Present(r)} \ settled
    [] OTHER -> {}
Turn(r) == r \in Due /\ \A q \in Due : r <= q

Init ==
  /\ plan \in Plans
  /\ live = [r \in Resources |-> [i \in Ids |->
               IF i = 1 /\ Existing(r) THEN ApprovedContent(r) ELSE "unborn"]]
  /\ cp = [r \in Resources |-> [phase |-> "none", id |-> 0]] /\ rules = "none"
  /\ pc = "idle" /\ stage = "preflight" /\ granted = {} /\ settled = {}
  /\ late = {} /\ applied = [r \in Resources |-> 0] /\ spoiled = FALSE
  /\ edits = 0 /\ faults = 0
-----------------------------------------------------------------------------
Fail  == pc' = "idle" /\ UNCHANGED <<stage, settled>>
Fault == faults < MaxFaults /\ faults' = faults + 1
NoFault == UNCHANGED faults
Enter(next) == stage' = next /\ settled' = {} /\ pc' = "enter"
Work(next)  == stage' = next /\ settled' = {} /\ pc' = "stage"
Finish == pc' = "done" /\ UNCHANGED <<stage, settled>>
Same == pc' = "stage" /\ UNCHANGED <<stage, settled>>
Settle(r) == pc' = "stage" /\ settled' = settled \cup {r} /\ UNCHANGED stage

(* A run or rerun, with whatever safeguards it is given.                    *)
Start(flags) ==
  /\ pc \in {"idle", "done"}
  /\ granted' = flags
  /\ Enter("recover gateways")
  /\ UNCHANGED <<plan, checkpoint, service>> /\ NoFault

(* Before the manifest is read in full: gateways left in flight.            *)
RecoverGateways ==
  /\ pc = "enter" /\ stage = "recover gateways"
  /\ IF \A r \in Gateways : ~InFlight(r) THEN Enter("recover endpoints")
     ELSE IF Authorized(Gateways) THEN Work(stage)
     ELSE Fail
  /\ UNCHANGED <<plan, checkpoint, granted, service>> /\ NoFault

(* Then endpoints and rules left in flight.                                 *)
RecoverEndpoints ==
  /\ pc = "enter" /\ stage = "recover endpoints"
  /\ IF rules # "started" /\ \A r \in Endpoints : ~InFlight(r) THEN Enter("preflight")
     ELSE IF Authorized(Endpoints) /\ \A r \in Endpoints : Undrifted(r) THEN Work(stage)
     ELSE Fail
  /\ UNCHANGED <<plan, checkpoint, granted, service>> /\ NoFault

(* Every safeguard and every resource, before anything is begun.            *)
Preflight ==
  /\ pc = "enter" /\ stage = "preflight"
  /\ IF Authorized(Resources) /\ \A r \in Resources : Undrifted(r)
     THEN Work("gateways present")
     ELSE Fail
  /\ UNCHANGED <<plan, checkpoint, granted, service>> /\ NoFault

(* canApplyAbsentVirtualNetworkGateways: the rules still name the gateways  *)
(* unless this run has applied them.                                        *)
\* Mutant: a deferred change of the rules is taken for one that is done.
CanApplyAbsentAlways(done) == TRUE
CanApplyAbsent(done) == plan.rules = "none" \/ (done /\ plan.rules = "apply")
AbsentGateways(done) == IF CanApplyAbsent(done) THEN Work("gateways absent") ELSE Finish

EndStage ==
  /\ pc = "stage" /\ Due = {}
  /\ \/ stage = "recover gateways" /\ Enter("recover endpoints")
     \/ /\ stage = "recover endpoints"
        /\ IF rules = "started" THEN Work("recover rules") ELSE Enter("preflight")
     \/ stage = "gateways present" /\ Work("items")
     \/ stage = "endpoints present" /\ Work("rules")
     \/ stage = "endpoints absent" /\ AbsentGateways(TRUE)
     \/ stage = "gateways absent" /\ Finish
  /\ UNCHANGED <<plan, checkpoint, granted, service>> /\ NoFault

(* The items come through, or a new workspace identity calls for a new plan *)
(* and only gateways are left to do.                                        *)
ApplyItems ==
  /\ pc = "stage" /\ stage = "items"
  /\ \/ Work("endpoints present") /\ NoFault
     \/ AbsentGateways(FALSE) /\ Fault
  /\ UNCHANGED <<plan, checkpoint, granted, service>>

(* The network surfaces (module NetworkApply): deferred, applied, or begun  *)
(* and left to the next run.                                                *)
ApplyRules ==
  /\ pc = "stage" /\ stage \in {"rules", "recover rules"}
  /\ LET next == IF stage = "rules" THEN Work("endpoints absent") ELSE Enter("preflight") IN
     IF plan.rules = "apply"
     THEN \/ rules' = "verified" /\ next /\ NoFault
          \/ rules' = (IF rules = "none" THEN "started" ELSE rules) /\ Fail /\ Fault
     ELSE UNCHANGED rules /\ next /\ NoFault
  /\ UNCHANGED <<plan, cp, granted, service>>
-----------------------------------------------------------------------------
(* One resource: applyOne, applyManagedPrivateEndpoint.                     *)
Record(r, phase, id) ==
  cp' = [cp EXCEPT ![r] = [phase |-> phase, id |-> id]] /\ UNCHANGED rules
Clear(r) == Record(r, "none", 0)

(* Something is recorded, or was just answered: it is read back, never      *)
(* sent.                                                                    *)
NeedsAdoption(r) == Action(r) = "create" /\ cp[r].phase = "submitting"

Confirm(r) ==
  /\ pc = "stage" /\ Turn(r)
  /\ cp[r].phase # "none" /\ ~NeedsAdoption(r) /\ ~Waiting(r)
  /\ IF Confirmed(r)
     THEN Record(r, "verified", Expected(r)) /\ Settle(r)
     ELSE Fail /\ UNCHANGED checkpoint
  /\ UNCHANGED <<plan, granted, service>> /\ NoFault

(* A create whose answer was lost: exactly one copy must be its work.       *)
Adopt(r) ==
  /\ pc = "stage" /\ Turn(r) /\ NeedsAdoption(r)
  /\ \/ \E i \in Ids : Adoptable(r) = {i} /\ Record(r, "accepted", i) /\ Same
     \/ (\A i \in Ids : Adoptable(r) # {i}) /\ Fail /\ UNCHANGED checkpoint
  /\ UNCHANGED <<plan, granted, service>> /\ NoFault

(* Nothing is recorded: it must still be as approved.                       *)
Approach(r) ==
  /\ pc = "stage" /\ Turn(r) /\ cp[r].phase = "none"
  /\ IF AsApproved(r, Seen(r)) THEN pc' = "fresh" /\ UNCHANGED <<stage, settled>> ELSE Fail
  /\ UNCHANGED <<plan, checkpoint, granted, service>> /\ NoFault

ConfirmNoOp(r) ==
  /\ pc = "fresh" /\ Turn(r) /\ Action(r) = "no-op" /\ ~Waiting(r)
  /\ IF Confirmed(r)
     THEN Record(r, "verified", Expected(r)) /\ Settle(r)
     ELSE Fail /\ UNCHANGED checkpoint
  /\ UNCHANGED <<plan, granted, service>> /\ NoFault

(* onDispatch records the intent, then the request leaves.                  *)
\* Mutant: the intent is recorded when the answer is in.
SendUnrecorded(r) ==
  /\ pc = "fresh" /\ Turn(r) /\ Action(r) # "no-op"
  /\ pc' = "sent"
  /\ UNCHANGED <<plan, checkpoint, granted, stage, settled, service>> /\ NoFault
Send(r) ==
  /\ pc = "fresh" /\ Turn(r) /\ Action(r) # "no-op"
  /\ Record(r, "submitting", IF Action(r) = "create" THEN 0 ELSE 1)
  /\ pc' = "sent"
  /\ UNCHANGED <<plan, granted, stage, settled, service>> /\ NoFault

(* The service carries out a request.  New endpoints are provisioned over   *)
(* time; nothing is left to do of a request for a copy that is gone.        *)
NextCopy(r, i) == live[r][i] = "unborn" /\ \A j \in 1..(i - 1) : live[r][j] # "unborn"
Change(r, i, content) ==
  live' = [live EXCEPT ![r][i] = content] /\ applied' = [applied EXCEPT ![r] = @ + 1]
Execute(r) ==
  \/ /\ Action(r) = "create"
     /\ \E i \in Ids : NextCopy(r, i)
          /\ Change(r, i, IF Kind(r) = "endpoint" THEN "provisioning" ELSE "desired")
  \/ Action(r) = "update" /\ There(r, 1) /\ Change(r, 1, "desired")
  \/ Action(r) = "delete" /\ There(r, 1) /\ Change(r, 1, "gone")
  \/ Action(r) # "create" /\ ~There(r, 1) /\ UNCHANGED <<live, applied>>

(* 201 or 200: the ID is in the checkpoint before anything else happens.    *)
(* An endpoint's DELETE has nothing to record; a gateway that is already    *)
(* gone (404) is not read back.                                             *)
Accepted(r) ==
  /\ pc = "sent" /\ Turn(r)
  /\ Action(r) = "update" => There(r, 1)
  /\ Execute(r)
  /\ IF Action(r) = "create"
     THEN (\E i \in Ids : NextCopy(r, i) /\ Record(r, "accepted", i)) /\ Same
     ELSE IF Kind(r) = "endpoint" THEN UNCHANGED checkpoint /\ Same
     ELSE IF There(r, 1) THEN Record(r, "accepted", 1) /\ Same
     ELSE Record(r, "verified", 1) /\ Settle(r)
  /\ UNCHANGED <<plan, granted, late, spoiled, edits>> /\ NoFault

(* An answer that proves the request did nothing.  An endpoint that was to  *)
(* be deleted is looked at once more.                                       *)
\* Mutant: the record of a rejected request is left behind.
KeepRejected(r) ==
  /\ pc = "sent" /\ Turn(r)
  /\ IF Action(r) = "update" /\ ~There(r, 1) THEN NoFault ELSE Fault
  /\ Fail /\ UNCHANGED checkpoint
  /\ UNCHANGED <<plan, granted, service>>
Rejected(r) ==
  /\ pc = "sent" /\ Turn(r)
  /\ IF Action(r) = "update" /\ ~There(r, 1) THEN NoFault ELSE Fault
  /\ Clear(r)
  /\ IF Flag(r) = <<"endpoint", "delete">>
     THEN pc' = "rejected" /\ UNCHANGED <<stage, settled>>
     ELSE Fail
  /\ UNCHANGED <<plan, granted, service>>

ConfirmRejected(r) ==
  /\ pc = "rejected" /\ Turn(r)
  /\ IF Confirmed(r)
     THEN Record(r, "verified", 1) /\ Settle(r)
     ELSE Fail /\ UNCHANGED checkpoint
  /\ UNCHANGED <<plan, granted, service>> /\ NoFault

(* A request out of hand: executed, to be executed late, or lost for good.  *)
OutOfHand(r) ==
  \/ Execute(r) /\ UNCHANGED <<late, spoiled>>
  \/ late' = late \cup {r} /\ UNCHANGED <<live, applied, spoiled>>
  \/ spoiled' = TRUE /\ UNCHANGED <<live, applied, late>>

(* No answer, or one that cannot be read: the record stays.  An endpoint is *)
(* looked for at once, a gateway by the next run.                           *)
NoAnswer(r) ==
  /\ pc = "sent" /\ Turn(r)
  /\ OutOfHand(r)
  /\ IF Kind(r) = "endpoint" THEN Same ELSE Fail
  /\ Fault
  /\ UNCHANGED <<plan, checkpoint, granted, edits>>

(* A server error that may hide an executed request: isDefinitiveRejection  *)
(* of the gateways takes it for a rejection, that of the endpoints does not. *)
\* Mutant: endpoints take it for a rejection as well.
ServerErrorRejects(r) ==
  /\ pc = "sent" /\ Turn(r) /\ r \in Shaky
  /\ OutOfHand(r)
  /\ Fail /\ Clear(r)
  /\ Fault
  /\ UNCHANGED <<plan, granted, edits>>
ServerError(r) ==
  /\ pc = "sent" /\ Turn(r) /\ r \in Shaky
  /\ OutOfHand(r)
  /\ IF Kind(r) = "endpoint" THEN Same /\ UNCHANGED checkpoint ELSE Fail /\ Clear(r)
  /\ Fault
  /\ UNCHANGED <<plan, granted, edits>>
-----------------------------------------------------------------------------
(* A read fails, the wait for an endpoint times out, or the runner dies.    *)
Interrupted ==
  /\ pc \in {"enter", "stage", "fresh", "rejected"}
  /\ Fail /\ Fault
  /\ UNCHANGED <<plan, checkpoint, granted, service>>

(* The runner dies with a request under way, which is out of hand.          *)
Crash ==
  /\ pc = "sent"
  /\ \E r \in Resources : Turn(r) /\ OutOfHand(r)
  /\ Fail /\ Fault
  /\ UNCHANGED <<plan, checkpoint, granted, edits>>

(* The service gets to a request nobody waits for.                          *)
ExecuteLate(r) ==
  /\ r \in late
  /\ late' = late \ {r}
  /\ Execute(r)
  /\ UNCHANGED <<plan, checkpoint, pc, stage, granted, settled, spoiled, edits, faults>>

(* Provisioning ends well or not.                                           *)
Provision(r) ==
  /\ \E i \in Ids :
       /\ live[r][i] = "provisioning"
       /\ \/ live' = [live EXCEPT ![r][i] = "desired"] /\ UNCHANGED spoiled /\ NoFault
          \/ live' = [live EXCEPT ![r][i] = "other"] /\ spoiled' = TRUE /\ Fault
  /\ UNCHANGED <<plan, checkpoint, pc, stage, granted, settled, late, applied, edits>>

(* Somebody else changes or deletes a copy, or makes one of the same name.  *)
Edit(r) ==
  /\ edits < MaxEdits /\ edits' = edits + 1
  /\ \E i \in Ids :
       \/ There(r, i) /\ \E content \in {"desired", "other", "gone"} :
            live' = [live EXCEPT ![r][i] = content]
       \/ NextCopy(r, i) /\ \E content \in {"desired", "other"} :
            live' = [live EXCEPT ![r][i] = content]
  /\ UNCHANGED <<plan, checkpoint, pc, stage, granted, settled, late, applied, spoiled, faults>>

Resource(r) ==
  \/ Confirm(r) \/ Adopt(r) \/ Approach(r) \/ ConfirmNoOp(r) \/ Send(r)
  \/ Accepted(r) \/ Rejected(r) \/ ConfirmRejected(r)
Run ==
  \/ RecoverGateways \/ RecoverEndpoints \/ Preflight \/ EndStage \/ ApplyItems \/ ApplyRules
  \/ \E r \in Resources : Resource(r)
Faulty == Interrupted \/ Crash \/ \E r \in Resources : NoAnswer(r) \/ ServerError(r)
Service == \E r \in Resources : ExecuteLate(r) \/ Provision(r)

Next ==
  \/ \E flags \in Grants : Start(flags)
  \/ Run \/ Faulty \/ Service
  \/ \E r \in Resources : Edit(r)

(* Requests settle, the service gets to what it accepted, and the operator  *)
(* keeps rerunning with the safeguards granted now and then.                *)
Spec == /\ Init /\ [][Next]_vars
        /\ WF_vars(Run) /\ WF_vars(Service) /\ SF_vars(Start(Flags))
-----------------------------------------------------------------------------
(* The variables keep their types.                                          *)
Contents == {"unborn", "planned", "provisioning", "desired", "other", "gone"}
Stages ==
  {"recover gateways", "recover endpoints", "recover rules", "preflight", "gateways present",
   "items", "endpoints present", "rules", "endpoints absent", "gateways absent"}
TypeOK ==
  /\ plan \in Plans
  /\ live \in [Resources -> [Ids -> Contents]]
  /\ cp \in [Resources -> [phase : {"none", "submitting", "accepted", "verified"},
                            id : {0} \cup Ids]]
  /\ rules \in {"none", "started", "verified"}
  /\ pc \in {"idle", "enter", "stage", "fresh", "sent", "rejected", "done"}
  /\ stage \in Stages
  /\ granted \in SUBSET Flags
  /\ settled \subseteq Resources /\ late \subseteq Resources
  /\ applied \in [Resources -> Nat]
  /\ spoiled \in BOOLEAN
  /\ edits \in Nat /\ faults \in Nat

Untouched == edits = 0
Verified(r) == cp[r].phase = "verified"

(* Over all reruns a mutation takes effect at most once, and no second      *)
(* request is ever out: what is ambiguous is read back, not repeated.       *)
OnlyOnce(r) == applied[r] <= 1 /\ (r \in late => applied[r] = 0)
NeverRepeated == \A r \in Resources : OnlyOnce(r)

(* Left alone, a verified resource is what was approved - not still being   *)
(* provisioned, not half removed, and the only one of its name - and no     *)
(* request for it is still out.                                             *)
InPlace(r) ==
  /\ IF Present(r) THEN live[r][1] = "desired" ELSE live[r][1] \in {"unborn", "gone"}
  /\ \A i \in Ids \ {1} : live[r][i] = "unborn"
VerifiedIsThere ==
  Untouched => \A r \in Resources : Verified(r) => InPlace(r) /\ r \notin late

(* The network is tightened only once everything that is to be reached      *)
(* through it is there, and nothing the rules in force still name is taken  *)
(* away - whichever runs it took.                                           *)
PresentFirst == rules # "none" => \A r \in Resources : Present(r) => Verified(r)
AbsentLast ==
  \A r \in Resources : ~Present(r) /\ cp[r].phase # "none" =>
    IF Kind(r) = "gateway" THEN plan.rules = "none" \/ rules = "verified"
    ELSE /\ plan.rules = "apply" => rules = "verified"
         /\ \A q \in Endpoints : Present(q) => Verified(q)
ConnectivityOrder == PresentFirst /\ AbsentLast

(* A run that lacks the safeguard of a mutation not yet verified - begun by *)
(* an earlier run or not - gets to no resource, item or rule; one that only *)
(* recovers gateways needs the safeguards of gateways.                      *)
Uncovered(R) == {r \in R : ~Verified(r) /\ Action(r) # "no-op" /\ Flag(r) \notin granted}
RevokedMeansStopped ==
  pc \in {"stage", "fresh", "sent", "rejected"} =>
    CASE stage = "recover gateways" -> Uncovered(Gateways) = {}
      [] stage \in {"recover endpoints", "recover rules"} -> Uncovered(Endpoints) = {}
      [] OTHER -> Uncovered(Resources) = {}

(* Rerun with its safeguards, an apply completes unless a request was lost  *)
(* for good or somebody else edited the resources.                          *)
Complete ==
  /\ pc = "done"
  /\ \A r \in Resources :
       Verified(r) \/ (plan.rules = "deferred" /\ Kind(r) = "gateway" /\ ~Present(r))
Converges == <>(Complete \/ spoiled \/ edits > 0)
-----------------------------------------------------------------------------
(* The inductive invariant.                                                 *)
Applying == {"fresh", "sent", "rejected"}
Running  == {"enter", "stage"} \cup Applying
ApplyStages == {"gateways present", "endpoints present", "endpoints absent", "gateways absent"}

(* isDefinitiveRejection tells the truth about it.                          *)
Trusted(r) == Kind(r) = "endpoint" \/ r \notin Shaky

(* What a run does next fits what is recorded.                              *)
WorkOf(r) ==
  /\ pc \in Applying /\ Turn(r) =>
       cp[r].phase = (IF pc = "sent" THEN "submitting" ELSE "none")
  /\ pc = "sent" /\ Turn(r) => Action(r) # "no-op"
  /\ pc = "rejected" /\ Turn(r) => Flag(r) = <<"endpoint", "delete">>
  /\ Action(r) = "no-op" => applied[r] = 0 /\ r \notin late /\ ~InFlight(r)
WorkInv == (pc \in Applying => stage \in ApplyStages) /\ \A r \in Resources : WorkOf(r)

(* Nothing is out or has had its effect that is not recorded.               *)
LedgerOf(r) ==
  /\ OnlyOnce(r)
  /\ applied[r] > 0 \/ r \in late => cp[r].phase # "none"
  /\ pc = "sent" /\ Turn(r) => applied[r] = 0 /\ r \notin late
LedgerInv == \A r \in Resources : Trusted(r) => LedgerOf(r)

(* Left alone, a resource is what the requests that had their effect made   *)
(* of it.                                                                   *)
LiveOf(r) ==
  /\ \A i \in Ids \ {1} : live[r][i] = "unborn"
  /\ IF applied[r] = 0 THEN live[r][1] = (IF Existing(r) THEN ApprovedContent(r) ELSE "unborn")
     ELSE IF Action(r) = "create" THEN live[r][1] \in {"provisioning", "desired", "other"}
     ELSE live[r][1] = (IF Action(r) = "update" THEN "desired" ELSE "gone")
  /\ cp[r].id \in {0, 1}
  /\ cp[r].phase \in {"accepted", "verified"} /\ Action(r) # "no-op" => applied[r] = 1
  /\ Verified(r) => InPlace(r)
LiveInv == Untouched => \A r \in Resources : Trusted(r) => LiveOf(r)

(* The stages of a run come in order.                                       *)
StageInv ==
  /\ \A r \in settled : Verified(r)
  /\ rules # "none" => plan.rules = "apply"
  /\ pc \in Running =>
       /\ stage \in {"items", "endpoints present", "rules", "endpoints absent", "gateways absent"}
            => \A r \in Gateways : Present(r) => Verified(r)
       /\ stage \in {"rules", "endpoints absent"}
            => \A r \in Endpoints : Present(r) => Verified(r)
       /\ stage = "recover rules" => rules # "none"
       /\ stage = "endpoints absent" /\ plan.rules = "apply" => rules = "verified"
       /\ stage = "gateways absent" => plan.rules = "none" \/ rules = "verified"

ResourceInv ==
  /\ TypeOK /\ WorkInv /\ LedgerInv /\ LiveInv /\ StageInv
  /\ ConnectivityOrder /\ RevokedMeansStopped
=============================================================================
