------------------------- MODULE ResourceApplyProofs -------------------------
(***************************************************************************)
(* Safety of ResourceApply for every set of resources and plans and every  *)
(* bound.  The record that precedes each request gives that nothing is     *)
(* repeated and that what is verified is there; the stages, and what each  *)
(* leaves recorded, give the order around the network rules.               *)
(***************************************************************************)
EXTENDS ResourceApply, TLAPS

LEMMA EntryFacts ==
  ASSUME TypeOK, NEW r \in Resources
  PROVE  /\ Kind(r) \in {"gateway", "endpoint"}
         /\ Action(r) \in {"create", "update", "delete", "no-op"}
         /\ plan.res[r].state \in {"present", "absent"}
         /\ Action(r) = "create" => Present(r)
         /\ Action(r) = "update" => Present(r) /\ Kind(r) = "gateway"
         /\ Action(r) = "delete" => ~Present(r)
         /\ plan.rules \in {"none", "apply", "deferred"}
<1>1. plan \in [res : [Resources -> Entries], rules : {"none", "apply", "deferred"}]
  BY PlansAssumption DEF TypeOK
<1>2. plan.res[r] \in Entries /\ plan.rules \in {"none", "apply", "deferred"}
  BY <1>1
<1> QED
  BY <1>2 DEF Entries, Kind, Action, Present

LEMMA OneId == 1 \in Ids /\ Ids \subseteq Nat
  BY BoundsAssumption DEF Ids

LEMMA TurnFacts ==
  ASSUME NEW r \in Resources, Turn(r)
  PROVE  r \in Due /\ \A q \in Resources : Turn(q) => q = r
<1>1. ASSUME NEW q \in Resources, Turn(q) PROVE q = r
  <2>1. q <= r /\ r <= q /\ q \in Nat /\ r \in Nat
    BY <1>1, ResourcesAssumption DEF Turn
  <2> QED
    BY <2>1
<1> QED
  BY <1>1 DEF Turn

(* Whose turn it is in a stage of the apply depends on nothing else.        *)
LEMMA TurnKept ==
  ASSUME plan' = plan, stage' = stage, settled' = settled, stage \in ApplyStages,
         NEW r \in Resources
  PROVE  Turn(r)' <=> Turn(r)
<1>1. Due' = Due
  <2>1. Gateways' = Gateways /\ Endpoints' = Endpoints
    BY DEF Gateways, Endpoints, Kind
  <2>2. \A q \in Resources : Present(q)' <=> Present(q)
    BY DEF Present
  <2>3. {q \in Gateways : Present(q)}' = {q \in Gateways : Present(q)}
    BY <2>1, <2>2 DEF Gateways
  <2>4. {q \in Endpoints : Present(q)}' = {q \in Endpoints : Present(q)}
    BY <2>1, <2>2 DEF Endpoints
  <2>5. {q \in Gateways : ~Present(q)}' = {q \in Gateways : ~Present(q)}
    BY <2>1, <2>2 DEF Gateways
  <2>6. {q \in Endpoints : ~Present(q)}' = {q \in Endpoints : ~Present(q)}
    BY <2>1, <2>2 DEF Endpoints
  <2> QED
    BY <2>3, <2>4, <2>5, <2>6 DEF Due, ApplyStages
<1> QED
  BY <1>1 DEF Turn

-----------------------------------------------------------------------------
(* The types.                                                               *)
LEMMA RecordType ==
  ASSUME TypeOK, NEW r \in Resources,
         NEW phase \in {"none", "submitting", "accepted", "verified"},
         NEW id \in {0} \cup Ids, Record(r, phase, id)
  PROVE  cp' \in [Resources -> [phase : {"none", "submitting", "accepted", "verified"},
                                id : {0} \cup Ids]]
         /\ rules' \in {"none", "started", "verified"}
  BY DEF TypeOK, Record

LEMMA ChangeType ==
  ASSUME TypeOK, NEW r \in Resources, NEW i \in Ids, NEW content \in Contents,
         Change(r, i, content)
  PROVE  live' \in [Resources -> [Ids -> Contents]] /\ applied' \in [Resources -> Nat]
  BY DEF TypeOK, Change

LEMMA ExecuteType ==
  ASSUME TypeOK, NEW r \in Resources, Execute(r)
  PROVE  live' \in [Resources -> [Ids -> Contents]] /\ applied' \in [Resources -> Nat]
<1>1. 1 \in Ids
  BY OneId
<1>2. {"provisioning", "desired", "gone"} \subseteq Contents
  BY DEF Contents
<1>3. CASE \E i \in Ids : \E content \in {"provisioning", "desired", "gone"} : Change(r, i, content)
  BY <1>3, <1>2, ChangeType
<1>4. CASE UNCHANGED <<live, applied>>
  BY <1>4 DEF TypeOK
<1> QED
  BY <1>1, <1>3, <1>4 DEF Execute

LEMMA OutOfHandType ==
  ASSUME TypeOK, NEW r \in Resources, OutOfHand(r)
  PROVE  /\ live' \in [Resources -> [Ids -> Contents]] /\ applied' \in [Resources -> Nat]
         /\ late' \subseteq Resources /\ spoiled' \in BOOLEAN
<1>1. live \in [Resources -> [Ids -> Contents]] /\ applied \in [Resources -> Nat]
      /\ late \subseteq Resources
  BY DEF TypeOK
<1>2. spoiled \in BOOLEAN
  BY DEF TypeOK
<1>3. CASE Execute(r) /\ UNCHANGED <<late, spoiled>>
  BY <1>1, <1>2, <1>3, ExecuteType
<1>4. CASE late' = late \cup {r} /\ UNCHANGED <<live, applied, spoiled>>
  BY <1>1, <1>2, <1>4
<1>5. CASE spoiled' = TRUE /\ UNCHANGED <<live, applied, late>>
  BY <1>1, <1>5
<1> QED
  BY <1>3, <1>4, <1>5 DEF OutOfHand

(* A step of the run, as far as its place in the apply is concerned.        *)
Placed ==
  /\ plan' = plan
  /\ pc' \in {"idle", "enter", "stage", "fresh", "sent", "rejected", "done"}
  /\ stage' \in Stages /\ settled' \subseteq Resources
  /\ granted' \in SUBSET Flags
  /\ edits' \in Nat /\ faults' \in Nat
Recorded ==
  /\ cp' \in [Resources -> [phase : {"none", "submitting", "accepted", "verified"},
                             id : {0} \cup Ids]]
  /\ rules' \in {"none", "started", "verified"}
Served ==
  /\ live' \in [Resources -> [Ids -> Contents]] /\ applied' \in [Resources -> Nat]
  /\ late' \subseteq Resources /\ spoiled' \in BOOLEAN

LEMMA SameType ==
  ASSUME TypeOK
  PROVE  /\ UNCHANGED checkpoint => Recorded
         /\ UNCHANGED service => Served
         /\ UNCHANGED <<pc, stage, settled, plan, granted, edits, faults>> => Placed
<1>1. UNCHANGED checkpoint => Recorded
  BY DEF TypeOK, Recorded, checkpoint
<1>2. UNCHANGED service => Served
  BY DEF TypeOK, Served, service
<1>3. UNCHANGED <<pc, stage, settled, plan, granted, edits, faults>> => Placed
  BY DEF TypeOK, Placed
<1> QED
  BY <1>1, <1>2, <1>3

LEMMA TypeFromParts == ASSUME TypeOK, Placed, Recorded, Served PROVE TypeOK'
<1>1. spoiled' \in BOOLEAN
  BY DEF Served
<1>2. plan' \in Plans
  BY DEF TypeOK, Placed
<1> QED
  BY <1>1, <1>2 DEF TypeOK, Placed, Recorded, Served

LEMMA MoveType ==
  ASSUME TypeOK, NEW r \in Resources,
         \/ Fail \/ Finish \/ Same \/ Settle(r)
         \/ \E next \in Stages : Enter(next) \/ Work(next)
  PROVE  /\ pc' \in {"idle", "enter", "stage", "fresh", "sent", "rejected", "done"}
         /\ stage' \in Stages /\ settled' \subseteq Resources
  BY DEF TypeOK, Fail, Finish, Same, Settle, Enter, Work

LEMMA ControlType ==
  ASSUME TypeOK,
         \/ Fail \/ Finish
         \/ \E next \in Stages : Enter(next) \/ Work(next)
  PROVE  /\ pc' \in {"idle", "enter", "stage", "fresh", "sent", "rejected", "done"}
         /\ stage' \in Stages /\ settled' \subseteq Resources
  BY DEF TypeOK, Fail, Finish, Enter, Work

LEMMA FaultType == ASSUME TypeOK, Fault \/ NoFault PROVE faults' \in Nat
  BY DEF TypeOK, Fault, NoFault

(* The steps that touch neither a resource nor its record.                  *)
Quiet ==
  \/ \E flags \in Grants : Start(flags)
  \/ RecoverGateways \/ RecoverEndpoints \/ Preflight \/ EndStage \/ ApplyItems
  \/ Interrupted

LEMMA QuietControl ==
  ASSUME TypeOK, Quiet
  PROVE  /\ Fail \/ Finish \/ \E next \in Stages : Enter(next) \/ Work(next)
         /\ UNCHANGED <<plan, checkpoint, service>>
         /\ Fault \/ NoFault
         /\ granted' = granted \/ granted' \in Grants
<1>1. ASSUME NEW flags \in Grants, Start(flags)
      PROVE  /\ \E next \in Stages : Enter(next) \/ Work(next)
             /\ UNCHANGED <<plan, checkpoint, service>> /\ NoFault /\ granted' \in Grants
  BY <1>1 DEF Start, Stages
<1>2. CASE RecoverGateways
  <2>1. Fail \/ \E next \in Stages : Enter(next) \/ Work(next)
    BY <1>2 DEF RecoverGateways, Stages
  <2> QED
    BY <1>2, <2>1 DEF RecoverGateways
<1>3. CASE RecoverEndpoints
  <2>1. Fail \/ \E next \in Stages : Enter(next) \/ Work(next)
    BY <1>3 DEF RecoverEndpoints, Stages
  <2> QED
    BY <1>3, <2>1 DEF RecoverEndpoints
<1>4. CASE Preflight
  <2>1. Fail \/ \E next \in Stages : Enter(next) \/ Work(next)
    BY <1>4 DEF Preflight, Stages
  <2> QED
    BY <1>4, <2>1 DEF Preflight
<1>5. CASE EndStage
  <2>1. Finish \/ \E next \in Stages : Enter(next) \/ Work(next)
    BY <1>5 DEF EndStage, AbsentGateways, Stages
  <2> QED
    BY <1>5, <2>1 DEF EndStage
<1>6. CASE ApplyItems
  <2>1. Finish \/ \E next \in Stages : Enter(next) \/ Work(next)
    BY <1>6 DEF ApplyItems, AbsentGateways, Stages
  <2> QED
    BY <1>6, <2>1 DEF ApplyItems
<1>7. CASE Interrupted
  BY <1>7 DEF Interrupted
<1> QED
  BY <1>1, <1>2, <1>3, <1>4, <1>5, <1>6, <1>7 DEF Quiet

LEMMA QuietType == ASSUME TypeOK, Quiet PROVE TypeOK'
<1>1. UNCHANGED <<plan, checkpoint, service>> /\ faults' \in Nat
  BY QuietControl, FaultType
<1>2. /\ pc' \in {"idle", "enter", "stage", "fresh", "sent", "rejected", "done"}
      /\ stage' \in Stages /\ settled' \subseteq Resources
  BY QuietControl, ControlType
<1>3. granted' \in SUBSET Flags
  BY QuietControl, GrantsAssumption DEF TypeOK
<1>4. edits' \in Nat
  BY <1>1 DEF service, TypeOK
<1>5. Recorded /\ Served
  BY <1>1, SameType
<1> QED
  BY <1>1, <1>2, <1>3, <1>4, <1>5, TypeFromParts DEF Placed

LEMMA RulesType == ASSUME TypeOK, ApplyRules PROVE TypeOK'
<1>1. /\ Fail \/ \E next \in Stages : Enter(next) \/ Work(next)
      /\ rules' \in {"none", "started", "verified"}
      /\ Fault \/ NoFault
  BY DEF ApplyRules, TypeOK, Stages
<1>2. UNCHANGED <<plan, cp, granted, service>>
  BY DEF ApplyRules
<1>3. Recorded
  BY <1>1, <1>2 DEF Recorded, TypeOK
<1>4. Served /\ edits' = edits
  BY <1>2, SameType DEF service
<1>5. Placed
  BY <1>1, <1>2, <1>4, ControlType, FaultType DEF Placed, TypeOK
<1> QED
  BY <1>3, <1>4, <1>5, TypeFromParts

LEMMA ExpectedType == ASSUME TypeOK, NEW r \in Resources PROVE Expected(r) \in Ids
<1>1. cp[r] \in [phase : {"none", "submitting", "accepted", "verified"}, id : {0} \cup Ids]
  BY DEF TypeOK
<1> QED
  BY <1>1, OneId DEF Expected

(* A step of one resource keeps the plan, the safeguards and the edits.     *)
LEMMA StepType ==
  ASSUME TypeOK, NEW r \in Resources,
         Fail \/ Same \/ Settle(r) \/ (pc' \in Applying /\ UNCHANGED <<stage, settled>>),
         Fault \/ NoFault, UNCHANGED <<plan, granted, edits>>, Recorded, Served
  PROVE  TypeOK'
<1>1. /\ pc' \in {"idle", "enter", "stage", "fresh", "sent", "rejected", "done"}
      /\ stage' \in Stages /\ settled' \subseteq Resources
  <2>1. CASE Fail \/ Same \/ Settle(r)
    BY <2>1, MoveType
  <2>2. CASE pc' \in Applying /\ UNCHANGED <<stage, settled>>
    BY <2>2 DEF Applying, TypeOK
  <2> QED
    BY <2>1, <2>2
<1>2. Placed
  BY <1>1, FaultType DEF Placed, TypeOK
<1> QED
  BY <1>2, TypeFromParts

LEMMA RecordedType ==
  ASSUME TypeOK, NEW r \in Resources
  PROVE  /\ \A phase \in {"none", "submitting", "accepted", "verified"}, id \in {0} \cup Ids :
              Record(r, phase, id) => Recorded
         /\ Clear(r) => Recorded
         /\ UNCHANGED checkpoint => Recorded
<1>1. ASSUME NEW phase \in {"none", "submitting", "accepted", "verified"},
             NEW id \in {0} \cup Ids, Record(r, phase, id)
      PROVE  Recorded
  BY <1>1, RecordType DEF Recorded
<1> QED
  BY <1>1, SameType DEF Clear

LEMMA ResourceType ==
  ASSUME TypeOK, NEW r \in Resources, Resource(r)
  PROVE  TypeOK'
<1> USE RecordedType, ExpectedType, OneId
<1> DEFINE Moved == Fail \/ Same \/ Settle(r) \/ (pc' \in Applying /\ UNCHANGED <<stage, settled>>)
<1>1. CASE Confirm(r)
  BY <1>1, SameType, StepType DEF Confirm, service
<1>2. CASE Adopt(r)
  BY <1>2, SameType, StepType DEF Adopt, service
<1>3. CASE Approach(r)
  BY <1>3, SameType, StepType DEF Approach, service, Applying
<1>4. CASE ConfirmNoOp(r)
  BY <1>4, SameType, StepType DEF ConfirmNoOp, service
<1>5. CASE Send(r)
  <2>1. Recorded
    BY <1>5 DEF Send
  <2> QED
    BY <1>5, <2>1, SameType, StepType DEF Send, service, Applying
<1>6. CASE Accepted(r)
  <2>1. Recorded
    BY <1>6 DEF Accepted
  <2>2. Served
    <3>1. late' = late /\ spoiled' = spoiled /\ late \subseteq Resources
      BY <1>6 DEF Accepted, TypeOK
    <3>2. spoiled' \in BOOLEAN
      BY <1>6 DEF Accepted, TypeOK
    <3> QED
      BY <1>6, <3>1, <3>2, ExecuteType DEF Accepted, Served
  <2>3. Same \/ Settle(r)
    BY <1>6 DEF Accepted
  <2> QED
    BY <1>6, <2>1, <2>2, <2>3, StepType DEF Accepted
<1>7. CASE Rejected(r)
  <2>1. Fault \/ NoFault
    BY <1>7 DEF Rejected
  <2> QED
    BY <1>7, <2>1, SameType, StepType DEF Rejected, service, Applying
<1>8. CASE ConfirmRejected(r)
  BY <1>8, SameType, StepType DEF ConfirmRejected, service
<1> QED
  BY <1>1, <1>2, <1>3, <1>4, <1>5, <1>6, <1>7, <1>8 DEF Resource

LEMMA FaultyType ==
  ASSUME TypeOK, NEW r \in Resources, NoAnswer(r) \/ ServerError(r) \/ (Crash /\ OutOfHand(r))
  PROVE  TypeOK'
<1>1. Served
  BY OutOfHandType DEF NoAnswer, ServerError, Served
<1>2. Recorded
  BY RecordedType DEF NoAnswer, ServerError, Crash
<1>3. Fail \/ Same
  BY DEF NoAnswer, ServerError, Crash
<1> QED
  BY <1>1, <1>2, <1>3, StepType DEF NoAnswer, ServerError, Crash

LEMMA PutType ==
  ASSUME TypeOK, NEW r \in Resources, NEW i \in Ids, NEW content \in Contents,
         live' = [live EXCEPT ![r][i] = content]
  PROVE  live' \in [Resources -> [Ids -> Contents]]
  BY DEF TypeOK

LEMMA OutsideType ==
  ASSUME TypeOK, NEW r \in Resources, ExecuteLate(r) \/ Provision(r) \/ Edit(r)
  PROVE  TypeOK'
<1>1. CASE ExecuteLate(r)
  <2>1. late' \subseteq Resources /\ spoiled' = spoiled /\ spoiled \in BOOLEAN
    BY <1>1 DEF ExecuteLate, TypeOK
  <2>2. Served
    BY <1>1, <2>1, ExecuteType DEF ExecuteLate, Served
  <2>3. Placed /\ Recorded
    BY <1>1, SameType DEF ExecuteLate
  <2> QED
    BY <2>2, <2>3, TypeFromParts
<1>2. CASE Provision(r)
  <2>1. live' \in [Resources -> [Ids -> Contents]]
    <3>1. \E i \in Ids : \E content \in Contents : live' = [live EXCEPT ![r][i] = content]
      BY <1>2 DEF Provision, Contents
    <3> QED
      BY <3>1, PutType
  <2>2. spoiled' \in BOOLEAN
    BY <1>2 DEF Provision, TypeOK
  <2>3. Served
    BY <1>2, <2>1, <2>2 DEF Provision, Served, TypeOK
  <2>4. Fault \/ NoFault
    BY <1>2 DEF Provision
  <2>5. Placed
    BY <1>2, <2>4, FaultType DEF Provision, Placed, TypeOK
  <2>6. Recorded
    BY <1>2, SameType DEF Provision
  <2> QED
    BY <2>3, <2>5, <2>6, TypeFromParts
<1>3. CASE Edit(r)
  <2>1. live' \in [Resources -> [Ids -> Contents]]
    <3>1. \E i \in Ids : \E content \in Contents : live' = [live EXCEPT ![r][i] = content]
      BY <1>3 DEF Edit, Contents
    <3> QED
      BY <3>1, PutType
  <2>2. spoiled' \in BOOLEAN
    BY <1>3 DEF Edit, TypeOK
  <2>3. Served
    BY <1>3, <2>1, <2>2 DEF Edit, Served, TypeOK
  <2>4. Placed
    BY <1>3 DEF Edit, Placed, TypeOK
  <2>5. Recorded
    BY <1>3, SameType DEF Edit
  <2> QED
    BY <2>3, <2>4, <2>5, TypeFromParts
<1> QED
  BY <1>1, <1>2, <1>3

(* What a step can be.                                                      *)
Outside(r) == ExecuteLate(r) \/ Provision(r) \/ Edit(r)
Failing(r) == NoAnswer(r) \/ ServerError(r) \/ (Crash /\ Turn(r) /\ OutOfHand(r))

LEMMA NextCases ==
  ASSUME Next
  PROVE  \/ Quiet \/ ApplyRules
         \/ \E r \in Resources : Resource(r) \/ Failing(r) \/ Outside(r)
<1>1. CASE Run
  BY <1>1 DEF Run, Quiet
<1>2. CASE Faulty
  BY <1>2 DEF Faulty, Quiet, Failing, Crash
<1>3. CASE Service
  BY <1>3 DEF Service, Outside
<1> QED
  BY <1>1, <1>2, <1>3 DEF Next, Quiet, Outside

LEMMA NextType == ASSUME TypeOK, Next PROVE TypeOK'
  BY NextCases, QuietType, RulesType, ResourceType, FaultyType, OutsideType DEF Failing, Outside
-----------------------------------------------------------------------------
(* The stages, the order around the rules, and the safeguards.              *)
LEMMA PlanKept ==
  ASSUME plan' = plan, NEW r \in Resources
  PROVE  /\ Kind(r)' = Kind(r) /\ Action(r)' = Action(r) /\ Flag(r)' = Flag(r)
         /\ Present(r)' <=> Present(r)
         /\ Existing(r)' <=> Existing(r)
         /\ ApprovedContent(r)' = ApprovedContent(r)
         /\ Trusted(r)' <=> Trusted(r)
         /\ Gateways' = Gateways /\ Endpoints' = Endpoints
  BY DEF Kind, Action, Flag, Present, Existing, ApprovedContent, Trusted, Gateways, Endpoints

LEMMA RecordFacts ==
  ASSUME TypeOK, NEW r \in Resources,
         NEW phase, NEW id, Record(r, phase, id)
  PROVE  /\ cp'[r].phase = phase /\ cp'[r].id = id
         /\ \A q \in Resources : q # r => cp'[q] = cp[q]
         /\ rules' = rules
  BY DEF Record, TypeOK

(* What steps of a resource have in common: they stay in their stage, and   *)
(* what is verified stays so.                                               *)
Working == {"stage"} \cup Applying
Stays(r) ==
  /\ UNCHANGED <<plan, granted, stage, rules>>
  /\ pc' \in {pc, "idle"} \/ {pc, pc'} \subseteq Working
  /\ settled' = settled \/ (settled' = settled \cup {r} /\ Verified(r)')
  /\ Verified(r) => Verified(r)'
  /\ \A q \in Resources : q # r => cp'[q] = cp[q]
  /\ cp'[r] # cp[r] => pc \in Working /\ Turn(r)

LEMMA ResourceStays ==
  ASSUME TypeOK, WorkInv, NEW r \in Resources, Resource(r) \/ Failing(r) \/ Outside(r)
  PROVE  Stays(r)
<1> USE DEF Working, Applying
<1>1. /\ pc \in Applying /\ Turn(r) =>
            cp[r].phase = (IF pc = "sent" THEN "submitting" ELSE "none")
  BY DEF WorkInv, WorkOf
<1>2. ASSUME NEW phase, NEW id, Record(r, phase, id), pc \in Working, Turn(r),
             UNCHANGED <<plan, granted>>, phase = "verified" \/ ~Verified(r),
             \/ Fail \/ Same \/ (pc' \in Applying /\ UNCHANGED <<stage, settled>>)
             \/ Settle(r) /\ phase = "verified"
      PROVE  Stays(r)
  <2>1. /\ Verified(r)' <=> phase = "verified"
        /\ \A q \in Resources : q # r => cp'[q] = cp[q]
        /\ rules' = rules
    BY <1>2, RecordFacts DEF Verified
  <2> QED
    BY <1>2, <2>1 DEF Stays, Fail, Same, Settle
<1>3. ASSUME UNCHANGED checkpoint, UNCHANGED <<plan, granted>>,
             \/ pc \in Working /\ (Fail \/ Same \/ (pc' \in Applying /\ UNCHANGED <<stage, settled>>))
             \/ UNCHANGED <<pc, stage, settled>>
      PROVE  Stays(r)
  <2>1. cp' = cp /\ rules' = rules
    BY <1>3 DEF checkpoint
  <2>2. Verified(r)' <=> Verified(r)
    BY <2>1 DEF Verified
  <2> QED
    BY <1>3, <2>1, <2>2 DEF Stays, Fail, Same
<1>4. CASE Confirm(r)
  BY <1>4, <1>2, <1>3 DEF Confirm
<1>5. CASE Adopt(r)
  <2>1. ~Verified(r)
    BY <1>5 DEF Adopt, NeedsAdoption, Verified
  <2> QED
    BY <1>5, <2>1, <1>2, <1>3 DEF Adopt
<1>6. CASE Approach(r)
  BY <1>6, <1>3 DEF Approach
<1>7. CASE ConfirmNoOp(r)
  BY <1>7, <1>2, <1>3 DEF ConfirmNoOp
<1>8. CASE Send(r)
  <2>1. ~Verified(r)
    BY <1>8, <1>1 DEF Send, Verified
  <2> QED
    BY <1>8, <2>1, <1>2 DEF Send
<1>9. CASE Accepted(r)
  <2>1. ~Verified(r)
    BY <1>9, <1>1 DEF Accepted, Verified
  <2> QED
    BY <1>9, <2>1, <1>2, <1>3 DEF Accepted
<1>10. CASE Rejected(r)
  <2>1. ~Verified(r)
    BY <1>10, <1>1 DEF Rejected, Verified
  <2> QED
    BY <1>10, <2>1, <1>2 DEF Rejected, Clear
<1>11. CASE ConfirmRejected(r)
  BY <1>11, <1>2, <1>3 DEF ConfirmRejected
<1>12. CASE NoAnswer(r)
  BY <1>12, <1>3 DEF NoAnswer
<1>13. CASE ServerError(r)
  <2>1. ~Verified(r)
    BY <1>13, <1>1 DEF ServerError, Verified
  <2> QED
    BY <1>13, <2>1, <1>2, <1>3 DEF ServerError, Clear
<1>14. CASE Crash /\ Turn(r) /\ OutOfHand(r)
  BY <1>14, <1>3 DEF Crash
<1>15. CASE Outside(r)
  BY <1>15, <1>3 DEF Outside, ExecuteLate, Provision, Edit
<1> QED
  BY <1>4, <1>5, <1>6, <1>7, <1>8, <1>9, <1>10, <1>11, <1>12, <1>13, <1>14, <1>15
     DEF Resource, Failing

(* What is due in a stage.                                                  *)
LEMMA DueFacts ==
  ASSUME TypeOK, NEW r \in Resources, Turn(r)
  PROVE  /\ stage \in {"recover gateways", "recover endpoints"} => InFlight(r)
         /\ stage \in {"gateways present", "gateways absent", "recover gateways"} => Kind(r) = "gateway"
         /\ stage \in {"endpoints present", "endpoints absent", "recover endpoints"} => Kind(r) = "endpoint"
         /\ stage \in {"gateways present", "endpoints present"} => Present(r)
         /\ stage \in {"gateways absent", "endpoints absent"} => ~Present(r)
         /\ stage \in ApplyStages \cup {"recover gateways", "recover endpoints"}
<1>1. r \in Due
  BY TurnFacts
<1>2. stage \in {"recover gateways", "recover endpoints", "gateways present",
                "endpoints present", "endpoints absent", "gateways absent"}
  BY <1>1 DEF Due
<1> QED
  BY <1>1, <1>2 DEF Due, Gateways, Endpoints, ApplyStages

LEMMA StaysStages ==
  ASSUME TypeOK, StageInv, NEW r \in Resources, Stays(r)
  PROVE  StageInv'
<1>1. \A q \in Resources : Verified(q) => Verified(q)'
  BY DEF Stays, Verified
<1>2. \A q \in settled' : Verified(q)'
  BY <1>1 DEF Stays, StageInv, TypeOK
<1>3. pc' \in Running => pc \in Running
  BY DEF Stays, Running, Working, Applying
<1>4. /\ plan' = plan /\ rules' = rules /\ stage' = stage
  BY DEF Stays
<1>5. /\ Gateways' = Gateways /\ Endpoints' = Endpoints
      /\ Gateways \subseteq Resources /\ Endpoints \subseteq Resources
      /\ \A q \in Resources : Present(q)' <=> Present(q)
  BY <1>4 DEF Gateways, Endpoints, Kind, Present
<1> QED
  BY <1>1, <1>2, <1>3, <1>4, <1>5 DEF StageInv

LEMMA StaysOrdered ==
  ASSUME TypeOK, StageInv, ConnectivityOrder, NEW r \in Resources, Stays(r)
  PROVE  ConnectivityOrder'
<1>1. \A q \in Resources : Verified(q) => Verified(q)'
  BY DEF Stays, Verified
<1>2. plan' = plan /\ rules' = rules
  BY DEF Stays
<1>3. \A q \in Resources : (Present(q)' <=> Present(q)) /\ Kind(q)' = Kind(q)
  BY <1>2 DEF Present, Kind
<1>4. PresentFirst'
  BY <1>1, <1>2, <1>3 DEF ConnectivityOrder, PresentFirst
<1>5. ASSUME NEW q \in Resources, ~Present(q), cp'[q].phase # "none"
      PROVE  IF Kind(q) = "gateway" THEN plan.rules = "none" \/ rules = "verified"
             ELSE /\ plan.rules = "apply" => rules = "verified"
                  /\ \A e \in Endpoints : Present(e) => Verified(e)
  <2>1. CASE cp'[q] = cp[q]
    BY <1>5, <2>1 DEF ConnectivityOrder, AbsentLast
  <2>2. CASE cp'[q] # cp[q]
    <3>1. q = r /\ pc \in Running /\ Turn(q)
      BY <2>2 DEF Stays, Running, Working, Applying
    <3>2. CASE InFlight(q)
      BY <1>5, <3>2 DEF ConnectivityOrder, AbsentLast, InFlight
    <3>3. CASE ~InFlight(q)
      BY <1>5, <3>1, <3>3, DueFacts DEF StageInv, ApplyStages
    <3> QED
      BY <3>2, <3>3
  <2> QED
    BY <2>1, <2>2
<1>6. Endpoints' = Endpoints /\ Endpoints \subseteq Resources
  BY <1>3 DEF Endpoints
<1>7. AbsentLast'
  BY <1>1, <1>2, <1>3, <1>5, <1>6 DEF AbsentLast
<1> QED
  BY <1>4, <1>7 DEF ConnectivityOrder

LEMMA StaysCovered ==
  ASSUME TypeOK, RevokedMeansStopped, NEW r \in Resources, Stays(r)
  PROVE  RevokedMeansStopped'
<1>1. \A q \in Resources : Verified(q) => Verified(q)'
  BY DEF Stays, Verified
<1>2. plan' = plan /\ granted' = granted /\ stage' = stage
  BY DEF Stays
<1>3. pc' \in Working => pc \in Working
  BY DEF Stays, Working, Applying
<1>4. Gateways' = Gateways /\ Endpoints' = Endpoints
  BY <1>2 DEF Gateways, Endpoints, Kind
<1>5. /\ Uncovered(Gateways)' \subseteq Uncovered(Gateways)
      /\ Uncovered(Endpoints)' \subseteq Uncovered(Endpoints)
      /\ Uncovered(Resources)' \subseteq Uncovered(Resources)
  BY <1>1, <1>2, <1>4 DEF Uncovered, Action, Flag, Kind, Gateways, Endpoints
<1> QED
  BY <1>2, <1>3, <1>5 DEF RevokedMeansStopped, Working, Applying

(* What a finished stage leaves behind.                                     *)
LEMMA StageDone ==
  ASSUME TypeOK, StageInv, pc = "stage", Due = {}
  PROVE  /\ stage = "gateways present" => \A r \in Gateways : Present(r) => Verified(r)
         /\ stage = "endpoints present" => \A r \in Endpoints : Present(r) => Verified(r)
<1>1. stage = "gateways present" => {r \in Gateways : Present(r)} \subseteq settled
  BY DEF Due
<1>2. stage = "endpoints present" => {r \in Endpoints : Present(r)} \subseteq settled
  BY DEF Due
<1> QED
  BY <1>1, <1>2 DEF StageInv

LEMMA QuietStages ==
  ASSUME TypeOK, StageInv, Quiet
  PROVE  StageInv'
<1>1. UNCHANGED <<plan, cp, rules>>
  BY QuietControl DEF checkpoint
<1>2. /\ Gateways' = Gateways /\ Endpoints' = Endpoints
      /\ Gateways \subseteq Resources /\ Endpoints \subseteq Resources
      /\ \A r \in Resources : (Present(r)' <=> Present(r)) /\ (Verified(r)' <=> Verified(r))
  BY <1>1 DEF Gateways, Endpoints, Kind, Present, Verified
<1>3. rules # "none" => plan.rules = "apply"
  BY DEF StageInv
<1>4. ASSUME settled' = {}, pc' \in Running =>
                stage' \in {"recover gateways", "recover endpoints", "preflight", "gateways present"}
      PROVE  StageInv'
  BY <1>1, <1>3, <1>4 DEF StageInv
<1>5. ASSUME pc' \notin Running, settled' = settled PROVE StageInv'
  <2>1. \A r \in settled' : Verified(r)'
    BY <1>2, <1>5 DEF StageInv, TypeOK
  <2> QED
    BY <2>1, <1>1, <1>3, <1>5 DEF StageInv
<1>6. ASSUME settled' = {}, stage' \in Stages,
             stage' \in {"items", "endpoints present", "rules", "endpoints absent", "gateways absent"}
                => \A r \in Gateways : Present(r) => Verified(r),
             stage' \in {"rules", "endpoints absent"} => \A r \in Endpoints : Present(r) => Verified(r),
             stage' = "recover rules" => rules # "none",
             stage' = "endpoints absent" /\ plan.rules = "apply" => rules = "verified",
             stage' = "gateways absent" => plan.rules = "none" \/ rules = "verified"
      PROVE  StageInv'
  BY <1>1, <1>2, <1>3, <1>6 DEF StageInv
<1> USE DEF Running, Applying, Fail, Finish, Enter, Work
<1>7. CASE \E flags \in Grants : Start(flags)
  BY <1>7, <1>4 DEF Start
<1>8. CASE RecoverGateways
  BY <1>8, <1>4, <1>5 DEF RecoverGateways
<1>9. CASE RecoverEndpoints
  BY <1>9, <1>4, <1>5 DEF RecoverEndpoints
<1>10. CASE Preflight
  BY <1>10, <1>4, <1>5 DEF Preflight
<1>11. CASE EndStage
  <2>1. CASE stage = "recover gateways"
    BY <1>11, <2>1, <1>4 DEF EndStage
  <2>2. CASE stage = "recover endpoints"
    <3>1. CASE rules = "started"
      BY <1>11, <2>2, <3>1, <1>6 DEF EndStage, Stages
    <3>2. CASE rules # "started"
      BY <1>11, <2>2, <3>2, <1>4 DEF EndStage
    <3> QED
      BY <3>1, <3>2
  <2>3. CASE stage = "gateways present"
    BY <1>11, <2>3, <1>6, StageDone DEF EndStage, Stages
  <2>4. CASE stage = "endpoints present"
    BY <1>11, <2>4, <1>6, StageDone DEF EndStage, Stages, StageInv
  <2>5. CASE stage = "endpoints absent"
    <3>1. CASE CanApplyAbsent(TRUE)
      BY <1>11, <2>5, <3>1, <1>6 DEF EndStage, AbsentGateways, CanApplyAbsent, Stages, StageInv
    <3>2. CASE ~CanApplyAbsent(TRUE)
      BY <1>11, <2>5, <3>2, <1>5 DEF EndStage, AbsentGateways
    <3> QED
      BY <3>1, <3>2
  <2>6. CASE stage = "gateways absent"
    BY <1>11, <2>6, <1>5 DEF EndStage
  <2> QED
    BY <1>11, <2>1, <2>2, <2>3, <2>4, <2>5, <2>6 DEF EndStage
<1>12. CASE ApplyItems
  <2>1. CASE Work("endpoints present")
    BY <1>12, <2>1, <1>6 DEF ApplyItems, Stages, StageInv
  <2>2. CASE AbsentGateways(FALSE) /\ CanApplyAbsent(FALSE)
    BY <1>12, <2>2, <1>6 DEF ApplyItems, AbsentGateways, CanApplyAbsent, Stages, StageInv
  <2>3. CASE AbsentGateways(FALSE) /\ ~CanApplyAbsent(FALSE)
    BY <1>12, <2>3, <1>5 DEF ApplyItems, AbsentGateways
  <2> QED
    BY <1>12, <2>1, <2>2, <2>3 DEF ApplyItems
<1>13. CASE Interrupted
  BY <1>13, <1>5 DEF Interrupted
<1> QED
  BY <1>7, <1>8, <1>9, <1>10, <1>11, <1>12, <1>13 DEF Quiet

LEMMA RulesStages ==
  ASSUME TypeOK, StageInv, ApplyRules
  PROVE  StageInv'
<1>1. UNCHANGED <<plan, cp>> /\ pc = "stage" /\ stage \in {"rules", "recover rules"}
  BY DEF ApplyRules
<1>2. /\ Gateways' = Gateways /\ Endpoints' = Endpoints
      /\ Gateways \subseteq Resources /\ Endpoints \subseteq Resources
      /\ \A r \in Resources : (Present(r)' <=> Present(r)) /\ (Verified(r)' <=> Verified(r))
  BY <1>1 DEF Gateways, Endpoints, Kind, Present, Verified
<1>3. rules' # "none" => plan.rules = "apply"
  BY DEF ApplyRules, StageInv
<1> USE DEF Running, Applying, Fail, Enter, Work
<1>4. CASE pc' = "idle" /\ settled' = settled
  <2>1. \A r \in settled' : Verified(r)'
    BY <1>2, <1>4 DEF StageInv, TypeOK
  <2> QED
    BY <2>1, <1>1, <1>3, <1>4 DEF StageInv
<1>5. CASE stage = "rules" /\ Work("endpoints absent")
  <2>1. plan.rules = "apply" => rules' = "verified"
    BY <1>1, <1>5 DEF ApplyRules
  <2> QED
    BY <1>1, <1>2, <1>3, <1>5, <2>1 DEF StageInv
<1>6. CASE stage = "recover rules" /\ Enter("preflight")
  BY <1>1, <1>3, <1>6 DEF StageInv
<1> QED
  BY <1>1, <1>4, <1>5, <1>6 DEF ApplyRules

LEMMA QuietOrdered ==
  ASSUME TypeOK, ConnectivityOrder, Quiet
  PROVE  ConnectivityOrder'
<1>1. UNCHANGED <<plan, cp, rules>>
  BY QuietControl DEF checkpoint
<1> QED
  BY <1>1 DEF ConnectivityOrder, PresentFirst, AbsentLast, Present, Kind, Verified, Endpoints

LEMMA RulesOrdered ==
  ASSUME TypeOK, StageInv, ConnectivityOrder, ApplyRules
  PROVE  ConnectivityOrder'
<1>1. UNCHANGED <<plan, cp>> /\ pc = "stage" /\ stage \in {"rules", "recover rules"}
  BY DEF ApplyRules
<1>2. rules = "verified" => rules' = "verified"
  BY DEF ApplyRules
<1>3. \A r \in Resources : Present(r) => Verified(r)
  <2>1. CASE stage = "rules"
    BY <1>1, <2>1, EntryFacts DEF StageInv, Running, Gateways, Endpoints
  <2>2. CASE stage = "recover rules"
    BY <1>1, <2>2 DEF StageInv, Running, ConnectivityOrder, PresentFirst
  <2> QED
    BY <1>1, <2>1, <2>2
<1>4. PresentFirst'
  BY <1>1, <1>3 DEF PresentFirst, Present, Verified
<1>5. AbsentLast'
  BY <1>1, <1>2 DEF ConnectivityOrder, AbsentLast, Present, Kind, Verified, Endpoints
<1> QED
  BY <1>4, <1>5 DEF ConnectivityOrder

(* Once authorized, a run stays within its safeguards.                      *)
LEMMA SameCover ==
  ASSUME TypeOK, UNCHANGED <<plan, cp, granted>>
  PROVE  /\ Uncovered(Gateways)' = Uncovered(Gateways)
         /\ Uncovered(Endpoints)' = Uncovered(Endpoints)
         /\ Uncovered(Resources)' = Uncovered(Resources)
  BY DEF Uncovered, Verified, Action, Flag, Kind, Gateways, Endpoints

LEMMA AuthorizedCovers ==
  /\ Authorized(Gateways) => Uncovered(Gateways) = {}
  /\ Authorized(Endpoints) => Uncovered(Endpoints) = {}
  /\ Authorized(Resources) => Uncovered(Resources) = {}
  BY DEF Authorized, Uncovered, Verified

LEMMA QuietCovered ==
  ASSUME TypeOK, RevokedMeansStopped, Quiet \/ ApplyRules
  PROVE  RevokedMeansStopped'
<1> USE DEF Applying, Fail, Finish, Enter, Work
<1>1. ASSUME pc' \notin {"stage", "fresh", "sent", "rejected"} PROVE RevokedMeansStopped'
  BY <1>1 DEF RevokedMeansStopped
<1>2. ASSUME UNCHANGED <<plan, cp, granted>>,
             stage' \notin {"recover gateways", "recover endpoints", "recover rules"},
             Uncovered(Resources) = {}
      PROVE  RevokedMeansStopped'
  BY <1>2, SameCover DEF RevokedMeansStopped
<1>3. ASSUME UNCHANGED <<plan, cp, granted>>, stage' = "recover gateways", Uncovered(Gateways) = {}
      PROVE  RevokedMeansStopped'
  BY <1>3, SameCover DEF RevokedMeansStopped
<1>4. ASSUME UNCHANGED <<plan, cp, granted>>, stage' \in {"recover endpoints", "recover rules"},
             Uncovered(Endpoints) = {}
      PROVE  RevokedMeansStopped'
  BY <1>4, SameCover DEF RevokedMeansStopped
<1>5. CASE \E flags \in Grants : Start(flags)
  BY <1>5, <1>1 DEF Start
<1>6. CASE RecoverGateways
  BY <1>6, <1>1, <1>3, AuthorizedCovers DEF RecoverGateways, checkpoint
<1>7. CASE RecoverEndpoints
  BY <1>7, <1>1, <1>4, AuthorizedCovers DEF RecoverEndpoints, checkpoint
<1>8. CASE Preflight
  BY <1>8, <1>1, <1>2, AuthorizedCovers DEF Preflight, checkpoint
<1>9. CASE EndStage
  <2>1. UNCHANGED <<plan, cp, granted>> /\ pc = "stage"
    BY <1>9 DEF EndStage, checkpoint
  <2>2. CASE stage = "recover endpoints" /\ Work("recover rules")
    BY <2>1, <2>2, <1>4 DEF RevokedMeansStopped
  <2>3. CASE /\ stage \in {"gateways present", "endpoints present", "endpoints absent"}
             /\ stage' \in {"items", "rules", "gateways absent"}
    BY <2>1, <2>3, <1>2 DEF RevokedMeansStopped
  <2>4. CASE pc' \in {"enter", "done"}
    BY <2>4, <1>1
  <2> QED
    BY <1>9, <2>2, <2>3, <2>4 DEF EndStage, AbsentGateways
<1>10. CASE ApplyItems
  <2>1. UNCHANGED <<plan, cp, granted>> /\ pc = "stage" /\ stage = "items"
    BY <1>10 DEF ApplyItems, checkpoint
  <2>2. CASE stage' \in {"endpoints present", "gateways absent"}
    BY <2>1, <2>2, <1>2 DEF RevokedMeansStopped
  <2>3. CASE pc' = "done"
    BY <2>3, <1>1
  <2> QED
    BY <1>10, <2>2, <2>3 DEF ApplyItems, AbsentGateways
<1>11. CASE Interrupted
  BY <1>11, <1>1 DEF Interrupted
<1>12. CASE ApplyRules
  <2>1. UNCHANGED <<plan, cp, granted>> /\ pc = "stage"
    BY <1>12 DEF ApplyRules
  <2>2. CASE stage = "rules" /\ Work("endpoints absent")
    BY <2>1, <2>2, <1>2 DEF RevokedMeansStopped
  <2>3. CASE pc' \in {"enter", "idle"}
    BY <2>3, <1>1
  <2> QED
    BY <1>12, <2>2, <2>3 DEF ApplyRules
<1> QED
  BY <1>5, <1>6, <1>7, <1>8, <1>9, <1>10, <1>11, <1>12 DEF Quiet

ControlInv == StageInv /\ ConnectivityOrder /\ RevokedMeansStopped
LEMMA ControlStep ==
  ASSUME TypeOK, WorkInv, ControlInv, Next
  PROVE  ControlInv'
<1> USE DEF ControlInv
<1>1. CASE Quiet
  BY <1>1, QuietStages, QuietOrdered, QuietCovered
<1>2. CASE ApplyRules
  BY <1>2, RulesStages, RulesOrdered, QuietCovered
<1>3. ASSUME NEW r \in Resources, Resource(r) \/ Failing(r) \/ Outside(r) PROVE ControlInv'
  BY <1>3, ResourceStays, StaysStages, StaysOrdered, StaysCovered
<1> QED
  BY <1>1, <1>2, <1>3, NextCases
-----------------------------------------------------------------------------
(* What is recorded, what is out and what is there.                         *)

(* A resource a step does not concern.                                      *)
Unconcerned(r) ==
  /\ plan' = plan
  /\ cp'[r] = cp[r] /\ live'[r] = live[r] /\ applied'[r] = applied[r]
  /\ r \in late' <=> r \in late
  /\ pc' \in Applying /\ Turn(r)' => pc' = pc /\ Turn(r)

LEMMA UnconcernedKept ==
  ASSUME TypeOK, NEW r \in Resources, Unconcerned(r)
  PROVE  /\ WorkOf(r) => WorkOf(r)'
         /\ LedgerOf(r) => LedgerOf(r)'
         /\ LiveOf(r) => LiveOf(r)'
<1>1. /\ Action(r)' = Action(r) /\ Flag(r)' = Flag(r)
      /\ Present(r)' <=> Present(r)
      /\ Existing(r)' <=> Existing(r)
      /\ ApprovedContent(r)' = ApprovedContent(r)
  BY PlanKept DEF Unconcerned
<1>2. WorkOf(r) => WorkOf(r)'
  BY <1>1 DEF WorkOf, Unconcerned, InFlight, Applying
<1>3. LedgerOf(r) => LedgerOf(r)'
  BY <1>1 DEF LedgerOf, OnlyOnce, Unconcerned, Applying
<1>4. LiveOf(r) => LiveOf(r)'
  BY <1>1 DEF LiveOf, InPlace, Verified, Unconcerned
<1> QED
  BY <1>2, <1>3, <1>4

(* A step that works on one resource keeps the turn.                        *)
LEMMA TurnDuringWork ==
  ASSUME TypeOK, WorkInv, NEW r \in Resources, Resource(r) \/ Failing(r) \/ Outside(r),
         pc' \in Applying
  PROVE  /\ stage' = stage /\ stage \in ApplyStages
         /\ \A q \in Resources : Turn(q)' <=> Turn(q)
<1>1. UNCHANGED <<plan, stage, settled>>
  <2>1. CASE Resource(r)
    BY <2>1 DEF Resource, Confirm, Adopt, Approach, ConfirmNoOp, Send, Accepted, Rejected,
                ConfirmRejected, Applying, Fail, Same, Settle
  <2>2. CASE Failing(r)
    BY <2>2 DEF Failing, NoAnswer, ServerError, Crash, Applying, Fail, Same
  <2>3. CASE Outside(r)
    BY <2>3 DEF Outside, ExecuteLate, Provision, Edit
  <2> QED
    BY <2>1, <2>2, <2>3
<1>2. stage \in ApplyStages
  <2>1. CASE pc \in Applying
    BY <2>1 DEF WorkInv
  <2>2. CASE pc \notin Applying
    <3>1. Approach(r)
      <4>1. ~Outside(r)
        BY <2>2 DEF Outside, ExecuteLate, Provision, Edit
      <4>2. ~Failing(r)
        BY DEF Failing, NoAnswer, ServerError, Crash, Applying, Fail, Same
      <4>3. ~Confirm(r) /\ ~Adopt(r) /\ ~ConfirmNoOp(r) /\ ~Accepted(r) /\ ~ConfirmRejected(r)
        BY DEF Confirm, Adopt, ConfirmNoOp, Accepted, ConfirmRejected, Applying, Fail, Same, Settle
      <4>4. ~Send(r) /\ ~Rejected(r)
        BY <2>2 DEF Send, Rejected, Applying
      <4> QED
        BY <4>1, <4>2, <4>3, <4>4 DEF Resource
    <3>2. Turn(r) /\ ~InFlight(r)
      BY <3>1 DEF Approach, InFlight
    <3> QED
      BY <3>2, DueFacts
  <2> QED
    BY <2>1, <2>2
<1> QED
  BY <1>1, <1>2, TurnKept

LEMMA ExecuteFacts ==
  ASSUME TypeOK, NEW r \in Resources, Execute(r)
  PROVE  /\ \A q \in Resources : q # r => live'[q] = live[q] /\ applied'[q] = applied[q]
         /\ applied'[r] \in {applied[r], applied[r] + 1}
<1>1. live \in [Resources -> [Ids -> Contents]] /\ applied \in [Resources -> Nat]
  BY DEF TypeOK
<1>2. ASSUME NEW i, NEW content, Change(r, i, content)
      PROVE  /\ \A q \in Resources : q # r => live'[q] = live[q] /\ applied'[q] = applied[q]
             /\ applied'[r] = applied[r] + 1
  BY <1>1, <1>2 DEF Change
<1>3. CASE UNCHANGED <<live, applied>>
  BY <1>3
<1> QED
  BY <1>2, <1>3 DEF Execute

LEMMA OutOfHandFacts ==
  ASSUME TypeOK, NEW r \in Resources, OutOfHand(r)
  PROVE  \A q \in Resources : q # r =>
           /\ live'[q] = live[q] /\ applied'[q] = applied[q]
           /\ q \in late' <=> q \in late
  BY ExecuteFacts DEF OutOfHand

LEMMA OthersUnconcerned ==
  ASSUME TypeOK, WorkInv, NEW r \in Resources, Resource(r) \/ Failing(r) \/ Outside(r),
         NEW q \in Resources, q # r
  PROVE  Unconcerned(q)
<1>1. plan' = plan /\ cp'[q] = cp[q]
  BY ResourceStays DEF Stays
<1>2. live'[q] = live[q] /\ applied'[q] = applied[q] /\ (q \in late' <=> q \in late)
  <2>1. CASE UNCHANGED <<live, applied, late>>
    BY <2>1
  <2>2. CASE Execute(r) /\ late' \in {late, late \ {r}}
    BY <2>2, ExecuteFacts
  <2>3. CASE OutOfHand(r)
    BY <2>3, OutOfHandFacts
  <2>4. ASSUME NEW i, NEW content, live' = [live EXCEPT ![r][i] = content], UNCHANGED <<applied, late>>
        PROVE  live'[q] = live[q] /\ applied'[q] = applied[q] /\ (q \in late' <=> q \in late)
    BY <2>4 DEF TypeOK
  <2>5. CASE Resource(r) /\ ~Accepted(r)
    BY <2>5, <2>1 DEF Resource, Confirm, Adopt, Approach, ConfirmNoOp, Send, Rejected,
                      ConfirmRejected, service
  <2>6. CASE Accepted(r)
    BY <2>6, <2>2 DEF Accepted
  <2>7. CASE Failing(r)
    BY <2>7, <2>3 DEF Failing, NoAnswer, ServerError
  <2>8. CASE ExecuteLate(r)
    BY <2>8, <2>2 DEF ExecuteLate
  <2>9. CASE Provision(r)
    BY <2>9, <2>4 DEF Provision
  <2>10. CASE Edit(r)
    BY <2>10, <2>4 DEF Edit
  <2> QED
    BY <2>5, <2>6, <2>7, <2>8, <2>9, <2>10 DEF Outside
<1>3. ASSUME pc' \in Applying, Turn(q)' PROVE pc' = pc /\ Turn(q)
  <2>1. Turn(q)
    BY <1>3, TurnDuringWork
  <2>2. ~Turn(r)
    BY <2>1, TurnFacts
  <2>3. Outside(r)
    BY <2>2 DEF Resource, Confirm, Adopt, Approach, ConfirmNoOp, Send, Accepted, Rejected,
                ConfirmRejected, Failing, NoAnswer, ServerError
  <2> QED
    BY <2>1, <2>3 DEF Outside, ExecuteLate, Provision, Edit
<1> QED
  BY <1>1, <1>2, <1>3 DEF Unconcerned

LEMMA WorkStep ==
  ASSUME TypeOK, WorkInv, NEW r \in Resources, Resource(r) \/ Failing(r) \/ Outside(r)
  PROVE  WorkOf(r)'
<1>1. plan' = plan /\ Action(r)' = Action(r) /\ Flag(r)' = Flag(r)
  BY ResourceStays, PlanKept DEF Stays
<1>2. WorkOf(r)
  BY DEF WorkInv
<1>3. pc' \in Applying => (Turn(r)' <=> Turn(r))
  BY TurnDuringWork
<1>4. ASSUME pc' \notin Applying, Action(r) # "no-op" PROVE WorkOf(r)'
  BY <1>1, <1>4 DEF WorkOf, Applying
<1>5. ASSUME pc' \notin Applying, UNCHANGED <<applied, late>>,
             cp'[r].phase \notin {"submitting", "accepted"} \/ cp'[r] = cp[r]
      PROVE  WorkOf(r)'
  BY <1>1, <1>2, <1>5 DEF WorkOf, Applying, InFlight
<1>6. ASSUME NEW phase, NEW id, Record(r, phase, id) PROVE cp'[r].phase = phase
  BY <1>6, RecordFacts
<1>7. ASSUME UNCHANGED checkpoint PROVE cp' = cp
  BY <1>7 DEF checkpoint
<1>8. ASSUME pc = "sent", Turn(r) PROVE Action(r) # "no-op"
  BY <1>2, <1>8 DEF WorkOf
<1> USE DEF service
<1>9. CASE Confirm(r)
  <2>1. pc' \notin Applying
    BY <1>9 DEF Confirm, Settle, Fail, Applying
  <2>2. cp'[r].phase \notin {"submitting", "accepted"} \/ cp'[r] = cp[r]
    BY <1>9, <1>6, <1>7 DEF Confirm
  <2> QED
    BY <1>9, <2>1, <2>2, <1>5 DEF Confirm
<1>10. CASE Adopt(r)
  BY <1>10, <1>4 DEF Adopt, NeedsAdoption, Same, Fail, Applying
<1>11. CASE Approach(r)
  <2>1. cp' = cp /\ UNCHANGED <<applied, late>> /\ cp[r].phase = "none" /\ pc' \in {"fresh", "idle"}
    BY <1>11, <1>7 DEF Approach, Fail
  <2> QED
    BY <2>1, <1>1, <1>2 DEF WorkOf, InFlight, Applying
<1>12. CASE ConfirmNoOp(r)
  <2>1. pc' \notin Applying
    BY <1>12 DEF ConfirmNoOp, Settle, Fail, Applying
  <2>2. cp'[r].phase \notin {"submitting", "accepted"} \/ cp'[r] = cp[r]
    BY <1>12, <1>6, <1>7 DEF ConfirmNoOp
  <2> QED
    BY <1>12, <2>1, <2>2, <1>5 DEF ConfirmNoOp
<1>13. CASE Send(r)
  <2>1. pc' = "sent" /\ Action(r) # "no-op" /\ cp'[r].phase = "submitting"
    BY <1>13, <1>6 DEF Send
  <2> QED
    BY <2>1, <1>1 DEF WorkOf
<1>14. CASE Accepted(r)
  BY <1>14, <1>4, <1>8 DEF Accepted, Same, Settle, Applying
<1>15. CASE Rejected(r)
  <2>1. Action(r) # "no-op" /\ cp'[r].phase = "none"
    BY <1>15, <1>6, <1>8 DEF Rejected, Clear
  <2>2. pc' = "idle" \/ (pc' = "rejected" /\ Flag(r) = <<"endpoint", "delete">>)
    BY <1>15 DEF Rejected, Fail
  <2> QED
    BY <2>1, <2>2, <1>1 DEF WorkOf, Applying
<1>16. CASE ConfirmRejected(r)
  <2>1. pc' \notin Applying
    BY <1>16 DEF ConfirmRejected, Settle, Fail, Applying
  <2>2. cp'[r].phase \notin {"submitting", "accepted"} \/ cp'[r] = cp[r]
    BY <1>16, <1>6, <1>7 DEF ConfirmRejected
  <2> QED
    BY <1>16, <2>1, <2>2, <1>5 DEF ConfirmRejected
<1>17. CASE Failing(r)
  BY <1>17, <1>4, <1>8 DEF Failing, NoAnswer, ServerError, Crash, Same, Fail, Applying
<1>18. CASE ExecuteLate(r)
  <2>1. Action(r) # "no-op"
    BY <1>18, <1>2 DEF ExecuteLate, WorkOf
  <2>2. pc' = pc /\ cp' = cp
    BY <1>18 DEF ExecuteLate, checkpoint
  <2> QED
    BY <2>1, <2>2, <1>1, <1>2, <1>3 DEF WorkOf, Applying
<1>19. CASE Provision(r) \/ Edit(r)
  <2>1. UNCHANGED <<pc, cp, applied, late>>
    BY <1>19 DEF Provision, Edit, checkpoint
  <2> QED
    BY <2>1, <1>1, <1>2, <1>3 DEF WorkOf, Applying, InFlight
<1> QED
  BY <1>9, <1>10, <1>11, <1>12, <1>13, <1>14, <1>15, <1>16, <1>17, <1>18, <1>19 DEF Resource, Outside

LEMMA LedgerStep ==
  ASSUME TypeOK, WorkInv, NEW r \in Resources, Resource(r) \/ Failing(r) \/ Outside(r),
         Trusted(r), LedgerOf(r)
  PROVE  LedgerOf(r)'
<1>1. applied[r] \in Nat /\ WorkOf(r)
  BY DEF TypeOK, WorkInv
<1>2. pc' \in Applying => (Turn(r)' <=> Turn(r))
  BY TurnDuringWork
<1>3. ASSUME pc' # "sent", UNCHANGED <<applied, late>>,
             cp'[r].phase # "none" \/ cp'[r] = cp[r] \/ (applied[r] = 0 /\ r \notin late)
      PROVE  LedgerOf(r)'
  BY <1>1, <1>3 DEF LedgerOf, OnlyOnce
<1>4. ASSUME NEW phase, NEW id, Record(r, phase, id) PROVE cp'[r].phase = phase
  BY <1>4, RecordFacts
<1>5. ASSUME UNCHANGED checkpoint PROVE cp' = cp
  BY <1>5 DEF checkpoint
<1>6. ASSUME pc = "sent", Turn(r)
      PROVE  applied[r] = 0 /\ r \notin late /\ cp[r].phase = "submitting"
  BY <1>1, <1>6 DEF LedgerOf, WorkOf, Applying
<1>7. ASSUME pc' # "sent", applied'[r] \in {0, 1}, r \in late' => applied'[r] = 0,
             cp'[r].phase # "none"
      PROVE  LedgerOf(r)'
  BY <1>7 DEF LedgerOf, OnlyOnce
<1> USE DEF service
<1>8. CASE Confirm(r)
  <2>1. pc' # "sent" /\ UNCHANGED <<applied, late>>
    BY <1>8 DEF Confirm, Settle, Fail
  <2> QED
    BY <1>8, <2>1, <1>3, <1>4, <1>5 DEF Confirm
<1>9. CASE Adopt(r)
  <2>1. pc' # "sent" /\ UNCHANGED <<applied, late>>
    BY <1>9 DEF Adopt, Same, Fail
  <2> QED
    BY <1>9, <2>1, <1>3, <1>4, <1>5 DEF Adopt
<1>10. CASE Approach(r)
  <2>1. pc' # "sent" /\ UNCHANGED <<applied, late>>
    BY <1>10 DEF Approach, Fail
  <2> QED
    BY <1>10, <2>1, <1>3, <1>5 DEF Approach
<1>11. CASE ConfirmNoOp(r)
  <2>1. pc' # "sent" /\ UNCHANGED <<applied, late>>
    BY <1>11 DEF ConfirmNoOp, Settle, Fail
  <2> QED
    BY <1>11, <2>1, <1>3, <1>4, <1>5 DEF ConfirmNoOp
<1>12. CASE Send(r)
  <2>1. cp[r].phase = "none"
    BY <1>12, <1>1 DEF Send, WorkOf, Applying
  <2>2. applied[r] = 0 /\ r \notin late
    BY <2>1, <1>1 DEF LedgerOf
  <2>3. cp'[r].phase = "submitting" /\ UNCHANGED <<applied, late>>
    BY <1>12, <1>4 DEF Send
  <2> QED
    BY <2>2, <2>3 DEF LedgerOf, OnlyOnce
<1>13. CASE Accepted(r)
  <2>1. pc' # "sent" /\ late' = late /\ applied'[r] \in {0, 1}
    BY <1>13, <1>6, ExecuteFacts DEF Accepted, Same, Settle
  <2>2. cp'[r].phase # "none"
    BY <1>13, <1>4, <1>5, <1>6 DEF Accepted
  <2> QED
    BY <1>13, <1>6, <1>7, <2>1, <2>2 DEF Accepted
<1>14. CASE Rejected(r)
  <2>1. pc' # "sent" /\ UNCHANGED <<applied, late>>
    BY <1>14 DEF Rejected, Fail
  <2> QED
    BY <1>14, <2>1, <1>3, <1>6 DEF Rejected
<1>15. CASE ConfirmRejected(r)
  <2>1. pc' # "sent" /\ UNCHANGED <<applied, late>>
    BY <1>15 DEF ConfirmRejected, Settle, Fail
  <2> QED
    BY <1>15, <2>1, <1>3, <1>4, <1>5 DEF ConfirmRejected
<1>16. CASE Failing(r)
  <2>1. OutOfHand(r) /\ Turn(r) /\ pc = "sent" /\ pc' # "sent"
    BY <1>16 DEF Failing, NoAnswer, ServerError, Crash, Same, Fail
  <2>2. cp' = cp
    BY <1>16, <1>5 DEF Failing, NoAnswer, ServerError, Crash, Trusted
  <2>3. applied'[r] \in {0, 1} /\ (r \in late' => applied'[r] = 0)
    BY <2>1, <1>6, ExecuteFacts DEF OutOfHand
  <2> QED
    BY <2>1, <2>2, <2>3, <1>6, <1>7
<1>17. CASE ExecuteLate(r)
  <2>1. r \in late /\ r \notin late' /\ applied[r] = 0 /\ cp[r].phase # "none"
    BY <1>17, <1>1 DEF ExecuteLate, LedgerOf, OnlyOnce
  <2>2. cp' = cp /\ pc' = pc /\ applied'[r] \in {0, 1}
    BY <1>17, <2>1, ExecuteFacts DEF ExecuteLate, checkpoint
  <2>3. ~(pc' = "sent" /\ Turn(r)')
    BY <2>1, <2>2, <1>2, <1>6 DEF Applying
  <2> QED
    BY <2>1, <2>2, <2>3 DEF LedgerOf, OnlyOnce
<1>18. CASE Provision(r) \/ Edit(r)
  <2>1. UNCHANGED <<pc, cp, applied, late>>
    BY <1>18 DEF Provision, Edit, checkpoint
  <2> QED
    BY <2>1, <1>2 DEF LedgerOf, OnlyOnce, Applying
<1> QED
  BY <1>8, <1>9, <1>10, <1>11, <1>12, <1>13, <1>14, <1>15, <1>16, <1>17, <1>18 DEF Resource, Outside

(* Carried out, a request makes of the one copy what was asked for.         *)
LEMMA ExecuteLive ==
  ASSUME TypeOK, NEW r \in Resources, Execute(r), LiveOf(r), applied[r] = 0, Action(r) # "no-op"
  PROVE  /\ applied'[r] = 1
         /\ \A i \in Ids \ {1} : live'[r][i] = "unborn"
         /\ Action(r) = "create" => live'[r][1] \in {"provisioning", "desired"}
         /\ Action(r) = "update" => live'[r][1] = "desired"
         /\ Action(r) = "delete" => live'[r][1] = "gone"
         /\ \A i \in Ids : Action(r) = "create" /\ NextCopy(r, i) => i = 1
<1>1. live \in [Resources -> [Ids -> Contents]] /\ applied \in [Resources -> Nat]
  BY DEF TypeOK
<1>2. /\ Action(r) \in {"create", "update", "delete"}
      /\ \A i \in Ids \ {1} : live[r][i] = "unborn"
      /\ Action(r) = "create" => live[r][1] = "unborn"
      /\ Action(r) # "create" => live[r][1] = "planned" /\ There(r, 1)
  BY EntryFacts DEF LiveOf, Existing, ApprovedContent, There
<1>3. ASSUME NEW i \in Ids, Action(r) = "create", NextCopy(r, i) PROVE i = 1
  <2>1. i \in Nat /\ 1 <= i
    BY DEF Ids
  <2>2. 1 \notin 1..(i - 1)
    BY <1>2, <1>3 DEF NextCopy
  <2> QED
    BY <2>1, <2>2
<1>4. ASSUME NEW content, Change(r, 1, content)
      PROVE  /\ applied'[r] = 1 /\ live'[r][1] = content
             /\ \A i \in Ids \ {1} : live'[r][i] = "unborn"
  BY <1>1, <1>2, <1>4, OneId DEF Change
<1> QED
  BY <1>2, <1>3, <1>4 DEF Execute

(* Read back as asked for, a resource is in place and its request has had   *)
(* its effect.                                                              *)
LEMMA ConfirmedInPlace ==
  ASSUME TypeOK, NEW r \in Resources, LiveOf(r), LedgerOf(r), Confirmed(r)
  PROVE  /\ InPlace(r) /\ Expected(r) = 1
         /\ Action(r) # "no-op" => applied[r] = 1
<1>1. Expected(r) = 1
  BY DEF LiveOf, Expected
<1>2. IF Present(r) THEN live[r][1] = "desired" ELSE live[r][1] \in {"unborn", "gone"}
  BY <1>1, OneId DEF Confirmed, Copies, There
<1>3. Action(r) # "no-op" => applied[r] # 0
  BY <1>2, EntryFacts DEF LiveOf, Existing, ApprovedContent
<1>4. applied[r] \in Nat /\ applied[r] <= 1
  BY DEF TypeOK, LedgerOf, OnlyOnce
<1> QED
  BY <1>1, <1>2, <1>3, <1>4 DEF LiveOf, InPlace

LEMMA AdoptableIsFirst ==
  ASSUME TypeOK, NEW r \in Resources, LiveOf(r), NEW i \in Ids, Adoptable(r) = {i}
  PROVE  i = 1 /\ (Action(r) = "create" => applied[r] # 0)
<1>1. i \in Ids /\ live[r][i] # "unborn"
  BY DEF Adoptable, Copies, There
<1>2. i = 1
  BY <1>1 DEF LiveOf
<1> QED
  BY <1>1, <1>2 DEF LiveOf, Existing

LEMMA LiveStep ==
  ASSUME TypeOK, WorkInv, NEW r \in Resources, Resource(r) \/ Failing(r) \/ Outside(r),
         Trusted(r), LedgerOf(r), LiveOf(r), edits' = 0
  PROVE  LiveOf(r)'
<1>1. /\ plan' = plan /\ Action(r)' = Action(r)
      /\ Present(r)' <=> Present(r)
      /\ Existing(r)' <=> Existing(r)
      /\ ApprovedContent(r)' = ApprovedContent(r)
  BY ResourceStays, PlanKept DEF Stays
<1>2. WorkOf(r) /\ applied[r] \in Nat /\ live \in [Resources -> [Ids -> Contents]]
  BY DEF WorkInv, TypeOK
<1>3. ASSUME UNCHANGED <<live, applied>>, cp'[r] = cp[r] PROVE LiveOf(r)'
  BY <1>1, <1>3 DEF LiveOf, InPlace, Verified
<1>4. ASSUME UNCHANGED <<live, applied>>, cp'[r].id \in {0, 1},
             cp'[r].phase \in {"accepted", "verified"} /\ Action(r) # "no-op" => applied[r] = 1,
             cp'[r].phase = "verified" => InPlace(r)
      PROVE  LiveOf(r)'
  BY <1>1, <1>4 DEF LiveOf, InPlace, Verified
<1>5. ASSUME Execute(r), applied[r] = 0, Action(r) # "no-op",
             cp'[r].id \in {0, 1}, cp'[r].phase # "verified"
      PROVE  LiveOf(r)'
  BY <1>1, <1>5, ExecuteLive, EntryFacts DEF LiveOf, Verified
<1>6. ASSUME NEW phase, NEW id, Record(r, phase, id) PROVE cp'[r].phase = phase /\ cp'[r].id = id
  BY <1>6, RecordFacts
<1>7. ASSUME UNCHANGED checkpoint PROVE cp' = cp
  BY <1>7 DEF checkpoint
<1>8. ASSUME pc = "sent", Turn(r)
      PROVE  /\ applied[r] = 0 /\ cp[r].phase = "submitting" /\ cp[r].id \in {0, 1}
             /\ Action(r) # "no-op"
  BY <1>2, <1>8 DEF LedgerOf, LiveOf, WorkOf, Applying
<1>9. ASSUME Record(r, "verified", Expected(r)), Confirmed(r), UNCHANGED service PROVE LiveOf(r)'
  BY <1>9, <1>4, <1>6, ConfirmedInPlace DEF service
<1>10. ASSUME UNCHANGED checkpoint, UNCHANGED service PROVE LiveOf(r)'
  BY <1>10, <1>3, <1>7 DEF service
<1>11. CASE Confirm(r)
  BY <1>11, <1>9, <1>10 DEF Confirm
<1>12. CASE Adopt(r)
  <2>1. Action(r) = "create" /\ UNCHANGED <<live, applied>>
    BY <1>12 DEF Adopt, NeedsAdoption, service
  <2>2. ASSUME NEW i \in Ids, Adoptable(r) = {i}, Record(r, "accepted", i) PROVE LiveOf(r)'
    <3>1. i = 1 /\ applied[r] = 1
      BY <2>1, <2>2, <1>2, AdoptableIsFirst DEF LedgerOf, OnlyOnce
    <3> QED
      BY <2>1, <2>2, <3>1, <1>4, <1>6
  <2>3. CASE UNCHANGED checkpoint
    BY <1>12, <2>3, <1>10 DEF Adopt
  <2> QED
    BY <1>12, <2>2, <2>3 DEF Adopt
<1>13. CASE Approach(r)
  BY <1>13, <1>10 DEF Approach
<1>14. CASE ConfirmNoOp(r)
  BY <1>14, <1>9, <1>10 DEF ConfirmNoOp
<1>15. CASE Send(r)
  <2>1. UNCHANGED <<live, applied>> /\ cp'[r].phase = "submitting" /\ cp'[r].id \in {0, 1}
    BY <1>15, <1>6 DEF Send, service
  <2> QED
    BY <2>1, <1>4
<1>16. CASE Accepted(r)
  <2>1. Execute(r) /\ applied[r] = 0 /\ Action(r) # "no-op"
    BY <1>16, <1>8 DEF Accepted
  <2>2. There(r, 1) \/ Action(r) = "create"
    BY <2>1, EntryFacts DEF LiveOf, Existing, ApprovedContent, There
  <2>3. CASE Action(r) = "create"
    BY <1>16, <2>1, <2>3, <1>5, <1>6, ExecuteLive DEF Accepted
  <2>4. CASE Action(r) # "create" /\ Kind(r) = "endpoint"
    BY <1>16, <2>1, <2>4, <1>5, <1>7, <1>8 DEF Accepted
  <2>5. CASE Action(r) # "create" /\ Kind(r) # "endpoint"
    BY <1>16, <2>1, <2>2, <2>5, <1>5, <1>6 DEF Accepted
  <2> QED
    BY <2>3, <2>4, <2>5
<1>17. CASE Rejected(r)
  <2>1. UNCHANGED <<live, applied>> /\ cp'[r].phase = "none" /\ cp'[r].id = 0
    BY <1>17, <1>6 DEF Rejected, Clear, service
  <2> QED
    BY <2>1, <1>4
<1>18. CASE ConfirmRejected(r)
  <2>1. CASE Confirmed(r)
    <3>1. Record(r, "verified", 1) /\ UNCHANGED service
      BY <1>18, <2>1 DEF ConfirmRejected
    <3> QED
      BY <2>1, <3>1, <1>9, ConfirmedInPlace
  <2>2. CASE ~Confirmed(r)
    BY <1>18, <2>2, <1>10 DEF ConfirmRejected
  <2> QED
    BY <2>1, <2>2
<1>19. CASE Failing(r)
  <2>1. OutOfHand(r) /\ Turn(r) /\ pc = "sent"
    BY <1>19 DEF Failing, NoAnswer, ServerError, Crash
  <2>2. cp' = cp
    BY <1>19, <1>7 DEF Failing, NoAnswer, ServerError, Crash, Trusted
  <2>3. CASE Execute(r)
    BY <2>1, <2>2, <2>3, <1>5, <1>8
  <2>4. CASE UNCHANGED <<live, applied>>
    BY <2>2, <2>4, <1>3
  <2> QED
    BY <2>1, <2>3, <2>4 DEF OutOfHand
<1>20. CASE ExecuteLate(r)
  <2>1. applied[r] = 0 /\ Action(r) # "no-op" /\ Execute(r) /\ cp' = cp
    BY <1>20, <1>2, <1>7 DEF ExecuteLate, LedgerOf, OnlyOnce, WorkOf
  <2>2. cp[r].id \in {0, 1} /\ cp[r].phase # "verified"
    BY <2>1 DEF LiveOf
  <2> QED
    BY <2>1, <2>2, <1>5
<1>21. CASE Provision(r)
  <2>1. cp' = cp /\ applied' = applied
    BY <1>21, <1>7 DEF Provision
  <2>2. PICK i \in Ids : /\ live[r][i] = "provisioning"
                         /\ \E content \in {"desired", "other"} :
                              live' = [live EXCEPT ![r][i] = content]
    BY <1>21 DEF Provision
  <2>3. i = 1
    BY <2>2 DEF LiveOf
  <2>4. applied[r] # 0 /\ Action(r) = "create"
    BY <2>2, <2>3 DEF LiveOf, Existing, ApprovedContent
  <2>5. ~Verified(r)
    BY <2>2, <2>3 DEF LiveOf, InPlace
  <2>6. live'[r][1] \in {"desired", "other"} /\ \A j \in Ids \ {1} : live'[r][j] = live[r][j]
    BY <2>2, <2>3, <1>2
  <2> QED
    BY <2>1, <2>4, <2>5, <2>6, <1>1 DEF LiveOf, Verified
<1>22. CASE Edit(r)
  <2>1. edits' = edits + 1 /\ edits \in Nat
    BY <1>22 DEF Edit, TypeOK
  <2> QED
    BY <2>1
<1> QED
  BY <1>11, <1>12, <1>13, <1>14, <1>15, <1>16, <1>17, <1>18, <1>19, <1>20, <1>21, <1>22
     DEF Resource, Outside

(* A step of the run as a whole leaves every resource alone.                *)
LEMMA ControlUnconcerned ==
  ASSUME TypeOK, Quiet \/ ApplyRules, NEW r \in Resources
  PROVE  Unconcerned(r) /\ pc' \notin Applying /\ plan' = plan /\ edits' = edits
<1>1. UNCHANGED <<plan, cp, service>>
  BY QuietControl DEF ApplyRules, checkpoint
<1>2. pc' \notin Applying
  BY QuietControl DEF ApplyRules, Applying, Fail, Finish, Enter, Work
<1> QED
  BY <1>1, <1>2 DEF Unconcerned, service

LEMMA ServiceStep ==
  ASSUME TypeOK, WorkInv, LedgerInv, LiveInv, Next
  PROVE  WorkInv' /\ LedgerInv' /\ LiveInv'
<1>1. ASSUME Quiet \/ ApplyRules PROVE WorkInv' /\ LedgerInv' /\ LiveInv'
  <2>1. \A r \in Resources : /\ Unconcerned(r) /\ pc' \notin Applying
                              /\ plan' = plan /\ edits' = edits
    BY <1>1, ControlUnconcerned
  <2>2. pc' \notin Applying
    BY <1>1, QuietControl DEF ApplyRules, Applying, Fail, Finish, Enter, Work
  <2>3. \A r \in Resources : Trusted(r)' <=> Trusted(r)
    BY <2>1, PlanKept
  <2>4. WorkInv'
    BY <2>1, <2>2, UnconcernedKept DEF WorkInv
  <2>5. LedgerInv'
    BY <2>1, <2>3, UnconcernedKept DEF LedgerInv
  <2>6. LiveInv'
    BY <2>1, <2>3, UnconcernedKept DEF LiveInv, Untouched
  <2> QED
    BY <2>4, <2>5, <2>6
<1>2. ASSUME NEW r \in Resources, Resource(r) \/ Failing(r) \/ Outside(r)
      PROVE  WorkInv' /\ LedgerInv' /\ LiveInv'
  <2>1. \A q \in Resources : q # r => Unconcerned(q)
    BY <1>2, OthersUnconcerned
  <2>2. plan' = plan
    BY <1>2, ResourceStays DEF Stays
  <2>3. \A q \in Resources : Trusted(q)' <=> Trusted(q)
    BY <2>2, PlanKept
  <2>4. WorkInv'
    <3>1. pc' \in Applying => stage' \in ApplyStages
      BY <1>2, TurnDuringWork
    <3>2. \A q \in Resources : WorkOf(q)'
      BY <1>2, <2>1, WorkStep, UnconcernedKept DEF WorkInv
    <3> QED
      BY <3>1, <3>2 DEF WorkInv
  <2>5. LedgerInv'
    BY <1>2, <2>1, <2>3, LedgerStep, UnconcernedKept DEF LedgerInv
  <2>6. ASSUME Untouched', NEW q \in Resources, Trusted(q) PROVE LiveOf(q)'
    <3>1. edits' \in {edits, edits + 1} /\ edits \in Nat
      BY <1>2 DEF Resource, Confirm, Adopt, Approach, ConfirmNoOp, Send, Accepted, Rejected,
                  ConfirmRejected, Failing, NoAnswer, ServerError, Crash, Outside, ExecuteLate,
                  Provision, Edit, service, TypeOK
    <3>2. edits = 0 /\ edits' = 0
      BY <2>6, <3>1 DEF Untouched
    <3>3. LedgerOf(q) /\ LiveOf(q)
      BY <2>6, <3>2 DEF LedgerInv, LiveInv, Untouched
    <3> QED
      BY <1>2, <2>1, <2>6, <3>2, <3>3, LiveStep, UnconcernedKept
  <2>7. LiveInv'
    BY <2>3, <2>6 DEF LiveInv
  <2> QED
    BY <2>4, <2>5, <2>7
<1> QED
  BY <1>1, <1>2, NextCases

LEMMA InitInv == ASSUME Init PROVE ResourceInv
<1>1. TypeOK
  <2>1. \A r \in Resources : ApprovedContent(r) \in Contents
    BY DEF ApprovedContent, Contents
  <2>2. live \in [Resources -> [Ids -> Contents]]
    BY <2>1 DEF Init, Contents
  <2>3. cp \in [Resources -> [phase : {"none", "submitting", "accepted", "verified"},
                              id : {0} \cup Ids]]
    BY DEF Init
  <2> QED
    BY <2>2, <2>3 DEF Init, TypeOK, Stages
<1>2. \A r \in Resources : /\ cp[r].phase = "none" /\ cp[r].id = 0
                            /\ applied[r] = 0 /\ r \notin late
  BY DEF Init
<1>3. WorkInv
  BY <1>2 DEF Init, WorkInv, WorkOf, Applying, InFlight
<1>4. LedgerInv
  BY <1>2 DEF Init, LedgerInv, LedgerOf, OnlyOnce
<1>5. LiveInv
  <2>1. ASSUME NEW r \in Resources PROVE LiveOf(r)
    <3>1. /\ \A i \in Ids \ {1} : live[r][i] = "unborn"
          /\ live[r][1] = (IF Existing(r) THEN ApprovedContent(r) ELSE "unborn")
      BY OneId DEF Init
    <3> QED
      BY <1>2, <3>1 DEF LiveOf, Verified
  <2> QED
    BY <2>1 DEF LiveInv
<1>6. StageInv
  BY DEF Init, StageInv, Running, Applying
<1>7. ConnectivityOrder /\ RevokedMeansStopped
  BY <1>2 DEF Init, ConnectivityOrder, PresentFirst, AbsentLast, RevokedMeansStopped
<1> QED
  BY <1>1, <1>3, <1>4, <1>5, <1>6, <1>7 DEF ResourceInv

LEMMA StutterInv == ASSUME ResourceInv, UNCHANGED vars PROVE ResourceInv'
<1>1. TypeOK'
  BY DEF ResourceInv, vars, checkpoint, service, TypeOK
<1>2. /\ plan' = plan /\ cp' = cp /\ rules' = rules /\ pc' = pc /\ stage' = stage
      /\ granted' = granted /\ settled' = settled /\ live' = live /\ late' = late
      /\ applied' = applied /\ edits' = edits
  BY DEF vars, checkpoint, service
<1>3. \A r \in Resources : (Trusted(r)' <=> Trusted(r)) /\ (pc \in Applying => (Turn(r)' <=> Turn(r)))
  BY <1>2, PlanKept, TurnKept DEF ResourceInv, WorkInv
<1>4. \A r \in Resources : Unconcerned(r)
  BY <1>2, <1>3 DEF Unconcerned
<1>5. WorkInv' /\ LedgerInv' /\ LiveInv'
  <2>1. WorkInv'
    BY <1>2, <1>4, UnconcernedKept DEF ResourceInv, WorkInv
  <2>2. LedgerInv'
    BY <1>3, <1>4, UnconcernedKept DEF ResourceInv, LedgerInv
  <2>3. LiveInv'
    BY <1>2, <1>3, <1>4, UnconcernedKept DEF ResourceInv, LiveInv, Untouched
  <2> QED
    BY <2>1, <2>2, <2>3
<1>6. /\ Gateways' = Gateways /\ Endpoints' = Endpoints
      /\ \A r \in Resources : (Present(r)' <=> Present(r)) /\ (Verified(r)' <=> Verified(r))
                              /\ Kind(r)' = Kind(r)
  BY <1>2 DEF Verified, Present, Kind, Gateways, Endpoints
<1>7. StageInv'
  BY <1>2 DEF ResourceInv, StageInv, Gateways, Endpoints, Kind, Present, Verified
<1>8. ConnectivityOrder'
  BY <1>2, <1>6 DEF ResourceInv, ConnectivityOrder, PresentFirst, AbsentLast, Endpoints
<1>9. RevokedMeansStopped'
  BY <1>2, SameCover DEF ResourceInv, RevokedMeansStopped
<1> QED
  BY <1>1, <1>5, <1>7, <1>8, <1>9 DEF ResourceInv
-----------------------------------------------------------------------------
(* The inductive invariant holds throughout: records and effects agree, a   *)
(* resource left alone is what its requests made of it, and the stages have *)
(* done their work.                                                         *)
THEOREM ResourceInvariant == Spec => []ResourceInv
<1>1. Init => ResourceInv
  BY InitInv
<1>2. ResourceInv /\ [Next]_vars => ResourceInv'
  <2> SUFFICES ASSUME ResourceInv, [Next]_vars PROVE ResourceInv'
    OBVIOUS
  <2>1. CASE Next
    <3>1. TypeOK /\ WorkInv /\ LedgerInv /\ LiveInv /\ ControlInv
      BY DEF ResourceInv, ControlInv
    <3>2. TypeOK' /\ WorkInv' /\ LedgerInv' /\ LiveInv' /\ ControlInv'
      BY <2>1, <3>1, NextType, ServiceStep, ControlStep
    <3> QED
      BY <3>2 DEF ResourceInv, ControlInv
  <2>2. CASE UNCHANGED vars
    BY <2>2, StutterInv
  <2> QED
    BY <2>1, <2>2
<1> QED
  BY <1>1, <1>2, PTL DEF Spec

(* For every plan and whatever fails, rules change only when all that is to *)
(* be reached is there, and what they still name is not taken away.         *)
THEOREM ConnectivityOrderCorrect == Spec => []ConnectivityOrder
<1>1. ResourceInv => ConnectivityOrder
  BY DEF ResourceInv
<1> QED
  BY <1>1, ResourceInvariant, PTL

(* A run without the safeguard of a mutation that is not yet verified gets  *)
(* to no resource, item or rule.                                            *)
THEOREM RevokedMeansStoppedCorrect == Spec => []RevokedMeansStopped
<1>1. ResourceInv => RevokedMeansStopped
  BY DEF ResourceInv
<1> QED
  BY <1>1, ResourceInvariant, PTL

(* Where only endpoint requests may have been carried out behind a server   *)
(* error, no mutation has its effect twice, over all reruns: the record of  *)
(* an endpoint survives such an error (isDefinitiveRejection).              *)
THEOREM NeverRepeatedCorrect ==
  ASSUME \A p \in Plans, r \in Shaky : p.res[r].kind = "endpoint"
  PROVE  Spec => []NeverRepeated
<1>1. ResourceInv => NeverRepeated
  <2> SUFFICES ASSUME ResourceInv, NEW r \in Resources PROVE OnlyOnce(r)
    BY DEF NeverRepeated
  <2>1. Trusted(r)
    BY DEF ResourceInv, TypeOK, Trusted, Kind
  <2> QED
    BY <2>1 DEF ResourceInv, LedgerInv, LedgerOf
<1> QED
  BY <1>1, ResourceInvariant, PTL

(* Under the same assumption, and while nobody else edits, what is verified *)
(* is what was approved, the only one of its name, with no request out.     *)
THEOREM VerifiedIsThereCorrect ==
  ASSUME \A p \in Plans, r \in Shaky : p.res[r].kind = "endpoint"
  PROVE  Spec => []VerifiedIsThere
<1>1. ResourceInv => VerifiedIsThere
  <2> SUFFICES ASSUME ResourceInv, Untouched, NEW r \in Resources, Verified(r)
               PROVE  InPlace(r) /\ r \notin late
    BY DEF VerifiedIsThere
  <2>1. Trusted(r)
    BY DEF ResourceInv, TypeOK, Trusted, Kind
  <2>2. LedgerOf(r) /\ LiveOf(r) /\ WorkOf(r)
    BY <2>1 DEF ResourceInv, LedgerInv, LiveInv, WorkInv
  <2>3. InPlace(r)
    BY <2>2 DEF LiveOf
  <2>4. r \notin late
    BY <2>2 DEF LiveOf, LedgerOf, OnlyOnce, WorkOf, Verified
  <2> QED
    BY <2>3, <2>4
<1> QED
  BY <1>1, ResourceInvariant, PTL
=============================================================================
