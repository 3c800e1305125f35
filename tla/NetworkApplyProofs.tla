------------------------- MODULE NetworkApplyProofs -------------------------
(***************************************************************************)
(* Safety of NetworkApply for every set of plans and every bound: the      *)
(* order of the surfaces, kept by the checkpoint across reruns, gives that  *)
(* access is never cut off; the record written before each request gives   *)
(* that no replacement is executed twice.                                  *)
(***************************************************************************)
EXTENDS NetworkApply, TLAPS

(* Surfaces take their turns one at a time.                                 *)
LEMMA RankType ==
  ASSUME NEW s \in Surfaces
  PROVE  Place[s] \in 1..6 /\ Rank(s) \in Nat
<1>1. Place[s] \in 1..6
  BY DEF Surfaces, Inbound, Outbound, Place
<1> QED
  BY <1>1 DEF Rank

LEMMA RankInjective ==
  ASSUME NEW s \in Surfaces, NEW t \in Surfaces, Rank(s) = Rank(t)
  PROVE  s = t
<1>1. Place[s] \in 1..6 /\ Place[t] \in 1..6
  BY RankType
<1>2. Place[s] = Place[t]
  BY <1>1 DEF Rank
<1>3. s \in {"policy", "firewall", "azure", "shares", "cloud", "gateway"}
      /\ t \in {"policy", "firewall", "azure", "shares", "cloud", "gateway"}
  BY DEF Surfaces, Inbound, Outbound
<1> QED
  BY <1>2, <1>3 DEF Place

LEMMA TurnFacts ==
  ASSUME TypeOK, NEW s \in Surfaces, Turn(s)
  PROVE  /\ s \in plan.configured \ settled
         /\ \A t \in Surfaces : Turn(t) => t = s
         /\ \A t \in plan.configured : Rank(t) < Rank(s) => t \in settled
<1>1. plan.configured \subseteq Surfaces
  BY PlansAssumption DEF TypeOK
<1>2. \A t \in plan.configured : Rank(t) \in Nat
  BY <1>1, RankType
<1>3. ASSUME NEW t \in Surfaces, Turn(t) PROVE t = s
  <2>1. Rank(s) <= Rank(t) /\ Rank(t) <= Rank(s)
    BY <1>3 DEF Turn
  <2>2. Rank(s) = Rank(t)
    BY <2>1, RankType
  <2> QED
    BY <2>2, RankInjective
<1>4. ASSUME NEW t \in plan.configured, Rank(t) < Rank(s) PROVE t \in settled
  <2> SUFFICES ASSUME t \notin settled PROVE FALSE
    OBVIOUS
  <2>1. Rank(s) <= Rank(t)
    BY DEF Turn
  <2> QED
    BY <2>1, <1>1, <1>4, RankType
<1> QED
  BY <1>3, <1>4 DEF Turn

(* Where the policy stands in the order.                                    *)
LEMMA PolicyRank ==
  /\ Rank("policy") = 6
  /\ \A s \in Inbound : plan.inbound = "tighten" => Rank(s) < Rank("policy")
  /\ \A s \in Inbound : plan.inbound = "relax" => Rank("policy") < Rank(s)
  /\ \A s \in Outbound : plan.outbound = "tighten" => Rank("policy") < Rank(s)
<1>1. Rank("policy") = 6
  BY DEF Rank, Place, AfterPolicy, Inbound, Outbound
<1>2. \A s \in Inbound : Place[s] \in 1..3
  BY DEF Inbound, Place
<1>3. \A s \in Outbound : Place[s] \in 4..5
  BY DEF Outbound, Place
<1>4. ASSUME NEW s \in Inbound
      PROVE  /\ plan.inbound = "tighten" => Rank(s) = Place[s]
             /\ plan.inbound = "relax" => Rank(s) = Place[s] + 6
  <2>1. s \notin Outbound
    BY DEF Inbound, Outbound
  <2>2. AfterPolicy(s) <=> plan.inbound = "relax"
    BY <2>1 DEF AfterPolicy, InboundRelaxing
  <2>3. Place[s] + 0 = Place[s]
    BY <1>2
  <2> QED
    BY <2>2, <2>3 DEF Rank
<1>5. ASSUME NEW s \in Outbound, plan.outbound = "tighten" PROVE Rank(s) = Place[s] + 6
  BY <1>5 DEF Rank, AfterPolicy, OutboundTightening
<1> QED
  BY <1>1, <1>2, <1>3, <1>4, <1>5

LEMMA PlanFacts ==
  ASSUME TypeOK
  PROVE  /\ Applicable(plan)
         /\ plan.configured \subseteq Surfaces /\ plan.update \subseteq plan.configured
         /\ "policy" \in plan.configured
<1>1. plan \in Plans
  BY DEF TypeOK
<1>2. /\ Applicable(plan)
      /\ plan \in [configured : SUBSET Surfaces, update : SUBSET Surfaces,
                   inbound : Changes, outbound : Changes]
  BY <1>1, PlansAssumption
<1> QED
  BY <1>2 DEF Applicable

(* What is approached and whatever goes before it, left alone, is in place.  *)
LEMMA InPlace ==
  ASSUME TypeOK, OrderInv, IntentInv, LiveInv, Untouched,
         NEW s \in plan.configured, s \in plan.update, Matches(s),
         NEW t \in plan.configured, Rank(t) < Rank(s)
  PROVE  Matches(t)
<1>1. s \in Surfaces /\ t \in Surfaces
  BY PlanFacts
<1>2. applied[s] > 0
  BY <1>1 DEF LiveInv
<1>3. cp[s] # "none"
  BY <1>1, <1>2 DEF IntentInv, AppliedOnce
<1>4. cp[t] = "verified"
  BY <1>3 DEF OrderInv
<1> QED
  BY <1>1, <1>4 DEF LiveInv

LEMMA LockoutFromInv == NetworkInv => NeverLockedOut /\ RulesAfterDeny
<1> SUFFICES ASSUME NetworkInv PROVE NeverLockedOut /\ RulesAfterDeny
  OBVIOUS
<1> USE DEF NetworkInv
<1>1. /\ plan.configured \subseteq Surfaces /\ "policy" \in plan.configured
      /\ plan.update \subseteq plan.configured
      /\ Applicable(plan)
  BY PlanFacts
<1>2. NeverLockedOut
  <2> SUFFICES ASSUME Untouched, "policy" \in plan.update,
                      NEW s \in plan.configured \cap Inbound
               PROVE  /\ plan.inbound = "tighten" /\ Matches("policy") => Matches(s)
                      /\ plan.inbound = "relax" /\ s \in plan.update /\ Matches(s)
                           => Matches("policy")
    BY DEF NeverLockedOut
  <2>1. ASSUME plan.inbound = "tighten", Matches("policy") PROVE Matches(s)
    BY <1>1, <2>1, PolicyRank, InPlace
  <2>2. ASSUME plan.inbound = "relax", s \in plan.update, Matches(s) PROVE Matches("policy")
    BY <1>1, <2>2, PolicyRank, InPlace
  <2> QED
    BY <2>1, <2>2
<1>3. RulesAfterDeny
  <2> SUFFICES ASSUME Untouched, plan.outbound = "tighten",
                      NEW s \in plan.configured \cap Outbound, Matches(s)
               PROVE  Matches("policy")
    BY DEF RulesAfterDeny
  <2>1. s \in plan.update
    BY <1>1 DEF Applicable
  <2> QED
    BY <1>1, <2>1, PolicyRank, InPlace
<1> QED
  BY <1>2, <1>3

LEMMA DoneFromInv == NetworkInv => CompletedIsDone
<1> SUFFICES ASSUME NetworkInv, Untouched, completed
             PROVE  late = {} /\ \A s \in plan.configured : Matches(s)
  BY DEF CompletedIsDone
<1> USE DEF NetworkInv
<1>1. plan.configured \subseteq Surfaces /\ plan.update \subseteq plan.configured
  BY PlanFacts
<1>2. \A s \in plan.configured : Matches(s)
  BY <1>1 DEF OrderInv, LiveInv
<1>3. ASSUME NEW s \in late PROVE FALSE
  <2>1. s \in Surfaces
    BY DEF TypeOK
  <2>2. s \in plan.update /\ s \in plan.configured
    BY <1>1, <2>1 DEF IntentInv
  <2>3. applied[s] > 0
    BY <1>2, <2>1, <2>2 DEF LiveInv
  <2> QED
    BY <2>1, <2>3 DEF IntentInv, AppliedOnce
<1> QED
  BY <1>2, <1>3

(* TypeOK without and with the flags, which are typed apart.                *)
Shape ==
  /\ plan \in Plans
  /\ live \in [Surfaces -> {"planned", "desired", "foreign"}]
  /\ cp \in [Surfaces -> {"none", "submitting", "verified"}]
  /\ pc \in {"idle", "plan", "items", "surface", "sent", "accepted", "rejected", "done"}
  /\ stage \in {"recovery preflight", "recovery", "preflight", "final"}
  /\ read \subseteq plan.configured /\ settled \subseteq plan.configured
  /\ moved \subseteq Surfaces /\ late \subseteq Surfaces
  /\ applied \in [Surfaces -> Nat]
  /\ edits \in Nat /\ faults \in Nat
Flags == completed \in BOOLEAN /\ granted \in BOOLEAN /\ dropped \in BOOLEAN

LEMMA TypeParts == TypeOK <=> Shape /\ Flags
  BY DEF TypeOK, Shape, Flags

LEMMA FaultType ==
  ASSUME faults \in Nat, Fault \/ NoFault
  PROVE  faults' \in Nat
  BY DEF Fault, NoFault

LEMMA ExecuteType ==
  ASSUME Shape, NEW s \in Surfaces, Execute(s)
  PROVE  /\ live' \in [Surfaces -> {"planned", "desired", "foreign"}]
         /\ applied' \in [Surfaces -> Nat]
         /\ moved' \subseteq Surfaces
<1>1. applied \in [Surfaces -> Nat] /\ applied' = [applied EXCEPT ![s] = applied[s] + 1]
  BY DEF Shape, Execute
<1>2. applied' \in [Surfaces -> Nat]
  BY ONLY <1>1, s \in Surfaces
<1>3. live' \in [Surfaces -> {"planned", "desired", "foreign"}] /\ moved' \subseteq Surfaces
  BY Zenon DEF Shape, Execute
<1> QED
  BY <1>2, <1>3

(* What the request of the surface whose turn it is may do.                 *)
LEMMA OutOfHandType ==
  ASSUME Shape, NEW s \in Surfaces, OutOfHand(s)
  PROVE  /\ live' \in [Surfaces -> {"planned", "desired", "foreign"}]
         /\ applied' \in [Surfaces -> Nat]
         /\ moved' \subseteq Surfaces /\ late' \subseteq Surfaces
<1>1. CASE Execute(s) /\ late' = late
  BY <1>1, ExecuteType DEF Shape
<1>2. CASE late' = late \cup {s} /\ live' = live /\ applied' = applied /\ moved' = moved
  BY <1>2 DEF Shape
<1>3. CASE late' = late /\ live' = live /\ applied' = applied /\ moved' = moved
  BY <1>3 DEF Shape
<1> QED
  BY <1>1, <1>2, <1>3, Zenon DEF OutOfHand

LEMMA OutOfHandDropped ==
  ASSUME dropped \in BOOLEAN, NEW s \in Surfaces, OutOfHand(s)
  PROVE  dropped' \in BOOLEAN
  BY Zenon DEF OutOfHand

LEMMA ShapeNext == TypeOK /\ [Next]_vars => Shape'
<1> SUFFICES ASSUME TypeOK, [Next]_vars PROVE Shape'
  OBVIOUS
<1>0. plan.configured \subseteq Surfaces
  BY PlanFacts
<1>b. Shape
  BY TypeParts
<1> USE FaultType DEF Shape, Fail, Replan, checkpoint, service
<1>1. CASE \E g \in BOOLEAN : Start(g)
  BY <1>b, <1>1 DEF Start
<1>2. CASE Preflight \/ ApplyItems \/ Begin \/ Complete
  BY <1>b, <1>2 DEF Preflight, ApplyItems, Begin, Complete
<1>3. ASSUME NEW s \in plan.configured, Surface(s) PROVE Shape'
  <2>0. s \in Surfaces
    BY <1>b, <1>0
  <2>1. CASE ReadSurface(s)
    BY <1>b, <2>0, <2>1 DEF ReadSurface
  <2>2. CASE VerifySurface(s) \/ Send(s)
    BY <1>b, <2>0, <2>2 DEF VerifySurface, Send, Record, Settle
  <2>3. CASE Accepted(s)
    BY <1>b, <2>0, <2>3, ExecuteType DEF Accepted
  <2>4. CASE Rejected(s)
    BY <1>b, <2>4 DEF Rejected
  <2>5. CASE VerifyAccepted(s) \/ VerifyRejected(s)
    BY <1>b, <2>0, <2>5 DEF VerifyAccepted, VerifyRejected, Record, Settle, Clear
  <2> QED
    BY <1>b, <1>3, <2>1, <2>2, <2>3, <2>4, <2>5 DEF Surface
<1>4. CASE Interrupted
  BY <1>b, <1>4 DEF Interrupted
<1>5. CASE Crash
  <2>1. CASE \E s \in plan.configured : Turn(s) /\ OutOfHand(s)
    BY <1>b, <1>5, <2>1, <1>0, OutOfHandType DEF Crash
  <2>2. CASE UNCHANGED <<live, moved, late, applied, edits>>
    BY <1>b, <1>5, <2>2 DEF Crash
  <2> QED
    BY <1>b, <1>5, <2>1, <2>2 DEF Crash
<1>6. ASSUME NEW s \in plan.configured, LoseReply(s) PROVE Shape'
  BY <1>b, <1>0, <1>6, OutOfHandType DEF LoseReply
<1>7. CASE Service
  BY <1>b, <1>7, ExecuteType DEF Service, ExecuteLate
<1>8. ASSUME NEW s \in plan.configured, Edit(s) PROVE Shape'
  <2>1. edits' = edits + 1
    BY <1>8, Zenon DEF Edit
  <2>0. edits \in Nat
    BY <1>b
  <2>2. edits' \in Nat
    BY ONLY <2>0, <2>1
  <2>3. UNCHANGED <<plan, cp, pc, stage, read, settled, applied, faults>>
    BY <1>8, Zenon DEF Edit
  <2>4. /\ \E value \in {"planned", "desired", "foreign"} : live' = [live EXCEPT ![s] = value]
        /\ moved' = moved \cup {s}
        /\ late' \subseteq late
    BY <1>8 DEF Edit
  <2> QED
    BY <1>b, <1>0, <2>2, <2>3, <2>4
<1>9. CASE UNCHANGED vars
  BY <1>b, <1>9 DEF vars
<1> HIDE DEF Shape
<1> QED
  BY <1>b, <1>1, <1>2, <1>3, <1>4, <1>5, <1>6, <1>7, <1>8, <1>9 DEF Next, Run, Faulty

LEMMA FlagsNext == TypeOK /\ [Next]_vars => Flags'
<1> SUFFICES ASSUME TypeOK, [Next]_vars PROVE Flags'
  OBVIOUS
<1>0. plan.configured \subseteq Surfaces
  BY PlanFacts
<1>a. completed \in BOOLEAN /\ granted \in BOOLEAN /\ dropped \in BOOLEAN
  BY DEF TypeOK
<1> USE DEF Flags, checkpoint, service
<1>1. CASE \E g \in BOOLEAN : Start(g)
  BY ONLY <1>a, <1>1, Zenon DEF Start, Flags, checkpoint, service
<1>2. CASE Preflight \/ ApplyItems \/ Begin
  BY <1>a, <1>2 DEF Preflight, ApplyItems, Begin
<1>3. CASE Complete
  BY <1>a, <1>3, Zenon DEF Complete
<1>4. ASSUME NEW s \in plan.configured, Surface(s) PROVE Flags'
  BY <1>a, <1>4, Zenon DEF Surface, ReadSurface, VerifySurface, Send, Accepted, Rejected,
     VerifyAccepted, VerifyRejected, Record, Clear
<1>5. CASE Interrupted
  BY <1>a, <1>5, Zenon DEF Interrupted
<1>6. CASE Crash
  <2>1. ASSUME NEW s \in plan.configured, OutOfHand(s) PROVE dropped' \in BOOLEAN
    BY <1>a, <1>0, <2>1, OutOfHandDropped
  <2>2. completed' \in BOOLEAN /\ granted' \in BOOLEAN
    BY <1>a, <1>6 DEF Crash
  <2>3. dropped' \in BOOLEAN
    BY <1>a, <1>6, <2>1, Zenon DEF Crash
  <2> QED
    BY <2>2, <2>3
<1>7. ASSUME NEW s \in plan.configured, LoseReply(s) PROVE Flags'
  <2>1. dropped' \in BOOLEAN
    BY <1>a, <1>0, <1>7, OutOfHandDropped DEF LoseReply
  <2>2. completed' \in BOOLEAN /\ granted' \in BOOLEAN
    BY <1>a, <1>7 DEF LoseReply
  <2> QED
    BY <2>1, <2>2
<1>8. CASE Service
  BY <1>a, <1>8, Zenon DEF Service, ExecuteLate
<1>9. ASSUME NEW s \in plan.configured, Edit(s) PROVE Flags'
  BY <1>a, <1>9 DEF Edit
<1>10. CASE UNCHANGED vars
  BY <1>a, <1>10 DEF vars
<1> HIDE DEF Flags
<1> QED
  BY <1>1, <1>2, <1>3, <1>4, <1>5, <1>6, <1>7, <1>8, <1>9, <1>10 DEF Next, Run, Faulty

LEMMA TypeNext == TypeOK /\ [Next]_vars => TypeOK'
<1>1. TypeOK /\ [Next]_vars => (Shape /\ Flags)'
  BY ShapeNext, FlagsNext
<1> QED
  BY <1>1, TypeParts DEF TypeOK, Shape, Flags

-----------------------------------------------------------------------------
(* What a step may do to the checkpoint.                                    *)
Keeps == cp' = cp /\ completed' = completed /\ settled' \subseteq settled
Verifies(s) == Turn(s) /\ Matches(s) /\ Record(s, "verified") /\ settled' = settled \cup {s}
Submits(s) ==
  Turn(s) /\ s \in plan.update /\ cp[s] = "none" /\ Record(s, "submitting") /\ settled' = settled
Clears(s) == pc = "rejected" /\ Turn(s) /\ Clear(s) /\ settled' = settled
Completes ==
  /\ cp' = cp /\ settled' \subseteq settled
  /\ completed' <=> \A s \in plan.configured : cp[s] = "verified"

LEMMA PlanNext == [Next]_vars => plan' = plan
  BY DEF Next, vars, Start, Run, Preflight, ApplyItems, Begin, Complete, Surface, ReadSurface,
     VerifySurface, Send, Accepted, Rejected, VerifyAccepted, VerifyRejected, Faulty,
     Interrupted, Crash, LoseReply, Service, ExecuteLate, Edit

LEMMA CheckpointNext ==
  ASSUME [Next]_vars
  PROVE  \/ Keeps \/ Completes
         \/ \E s \in plan.configured : Verifies(s) \/ Submits(s) \/ Clears(s)
<1> USE DEF Keeps, Verifies, Submits, Clears, Settle, Fail, Replan, checkpoint
<1>1. CASE \E g \in BOOLEAN : Start(g)
  BY <1>1, Zenon DEF Start
<1>2. CASE Preflight
  BY <1>2, Zenon DEF Preflight
<1>3. CASE ApplyItems \/ Begin
  BY <1>3, Zenon DEF ApplyItems, Begin
<1>4. CASE Complete
  BY <1>4, Zenon DEF Complete, Completes
<1>5. ASSUME NEW s \in plan.configured, Surface(s)
      PROVE  Keeps \/ Verifies(s) \/ Submits(s) \/ Clears(s)
  <2>1. CASE ReadSurface(s) \/ Accepted(s) \/ Rejected(s)
    BY <2>1, Zenon DEF ReadSurface, Accepted, Rejected
  <2>2. CASE VerifySurface(s)
    BY <2>2, Zenon DEF VerifySurface
  <2>3. CASE Send(s)
    BY <2>3, Zenon DEF Send
  <2>4. CASE VerifyAccepted(s)
    BY <2>4, Zenon DEF VerifyAccepted
  <2>5. CASE VerifyRejected(s)
    BY <2>5, Zenon DEF VerifyRejected
  <2> HIDE DEF Keeps, Verifies, Submits, Clears
  <2> QED
    BY <1>5, <2>1, <2>2, <2>3, <2>4, <2>5 DEF Surface
<1>6. CASE Interrupted \/ Crash
  BY <1>6, Zenon DEF Interrupted, Crash
<1>7. ASSUME NEW s \in plan.configured, LoseReply(s) PROVE Keeps
  BY <1>7, Zenon DEF LoseReply
<1>8. CASE Service
  BY <1>8, Zenon DEF Service, ExecuteLate
<1>9. ASSUME NEW s \in plan.configured, Edit(s) PROVE Keeps
  BY <1>9, Zenon DEF Edit
<1>10. CASE UNCHANGED vars
  BY <1>10, Zenon DEF vars
<1> HIDE DEF Keeps, Verifies, Submits, Clears
<1> QED
  BY <1>1, <1>2, <1>3, <1>4, <1>5, <1>6, <1>7, <1>8, <1>9, <1>10 DEF Next, Run, Faulty

LEMMA OrderNext == TypeOK /\ OrderInv /\ IntentInv /\ [Next]_vars => OrderInv'
<1> SUFFICES ASSUME TypeOK, OrderInv, IntentInv, [Next]_vars PROVE OrderInv'
  OBVIOUS
<1>1. plan' = plan /\ plan.configured \subseteq Surfaces
  BY PlanNext, PlanFacts
<1>2. \A s : Rank(s)' = Rank(s)
  BY <1>1 DEF Rank, AfterPolicy, InboundRelaxing, OutboundTightening
<1>3. settled \subseteq plan.configured /\ cp \in [Surfaces -> {"none", "submitting", "verified"}]
  BY DEF TypeOK
<1>4. ASSUME \A s \in settled' : cp'[s] = "verified",
             \A s, t \in plan.configured :
               Rank(t) < Rank(s) /\ cp'[s] # "none" => cp'[t] = "verified",
             completed' => \A s \in plan.configured : cp'[s] = "verified"
      PROVE  OrderInv'
  BY <1>1, <1>2, <1>4 DEF OrderInv
<1>5. CASE Keeps
  BY <1>4, <1>5 DEF Keeps, OrderInv
<1>6. CASE Completes
  BY <1>4, <1>6 DEF Completes, OrderInv
<1>7. ASSUME NEW s \in plan.configured, Verifies(s) PROVE OrderInv'
  <2>1. /\ s \in Surfaces /\ Turn(s)
        /\ cp' = [cp EXCEPT ![s] = "verified"] /\ settled' = settled \cup {s}
        /\ completed' = completed
    BY <1>1, <1>7 DEF Verifies, Record
  <2>2. \A t \in plan.configured : cp'[t] = IF t = s THEN "verified" ELSE cp[t]
    BY <1>1, <1>3, <2>1
  <2>3. \A t \in plan.configured : Rank(t) < Rank(s) => cp[t] = "verified"
    BY <2>1, TurnFacts DEF OrderInv
  <2>4. \A u, t \in plan.configured :
          Rank(t) < Rank(u) /\ cp'[u] # "none" => cp'[t] = "verified"
    BY <2>2, <2>3 DEF OrderInv
  <2> QED
    BY <1>3, <1>4, <2>1, <2>2, <2>4 DEF OrderInv
<1>8. ASSUME NEW s \in plan.configured, Submits(s) PROVE OrderInv'
  <2>1. /\ s \in Surfaces /\ Turn(s) /\ cp[s] = "none"
        /\ cp' = [cp EXCEPT ![s] = "submitting"] /\ settled' = settled
        /\ completed' = completed
    BY <1>1, <1>8 DEF Submits, Record
  <2>2. \A t \in plan.configured : cp'[t] = IF t = s THEN "submitting" ELSE cp[t]
    BY <1>1, <1>3, <2>1
  <2>3. \A t \in plan.configured : Rank(t) < Rank(s) => t # s /\ cp[t] = "verified"
    BY <2>1, TurnFacts DEF OrderInv
  <2>4. s \notin settled /\ ~completed
    BY <2>1 DEF OrderInv
  <2>5. \A u, t \in plan.configured :
          Rank(t) < Rank(u) /\ cp'[u] # "none" => cp'[t] = "verified"
    BY <2>1, <2>2, <2>3 DEF OrderInv
  <2> QED
    BY <1>3, <1>4, <2>1, <2>2, <2>4, <2>5 DEF OrderInv
<1>9. ASSUME NEW s \in plan.configured, Clears(s) PROVE OrderInv'
  <2>1. /\ s \in Surfaces /\ Turn(s) /\ cp[s] = "submitting"
        /\ cp' = [cp EXCEPT ![s] = "none"] /\ settled' = settled
        /\ ~completed'
    BY <1>1, <1>9 DEF Clears, Clear, IntentInv
  <2>2. \A t \in plan.configured : cp'[t] = IF t = s THEN "none" ELSE cp[t]
    BY <1>1, <1>3, <2>1
  <2>3. s \notin settled
    BY <2>1 DEF OrderInv
  <2>4. \A u, t \in plan.configured :
          Rank(t) < Rank(u) /\ cp'[u] # "none" => cp'[t] = "verified"
    BY <2>1, <2>2 DEF OrderInv
  <2> QED
    BY <1>3, <1>4, <2>1, <2>2, <2>3, <2>4 DEF OrderInv
<1> QED
  BY CheckpointNext, <1>5, <1>6, <1>7, <1>8, <1>9

-----------------------------------------------------------------------------
(* What a step may do to the workspace and to the requests that are out.    *)
Sending == {"sent", "accepted", "rejected"}
Reads(s) ==
  /\ read' = read \cup {s} /\ moved' = moved \ {s} /\ ~Drifted(s)
  /\ pc' = "plan" /\ cp' = cp
Calm ==
  /\ UNCHANGED <<live, applied, late>> /\ edits' = edits
  /\ \/ read' = {}
     \/ read' = read /\ moved' = moved
     \/ \E s \in plan.configured : Reads(s)
Executes(s) ==
  /\ pc = "sent" /\ Turn(s) /\ Preconditions(s) /\ Execute(s)
  /\ late' = late /\ edits' = edits /\ cp' = cp /\ settled' = settled /\ read' = read
  /\ pc' \in {"accepted", "idle"}
Delays(s) ==
  /\ pc = "sent" /\ Turn(s) /\ Preconditions(s)
  /\ late' = late \cup {s} /\ UNCHANGED <<live, applied, moved>>
  /\ edits' = edits /\ cp' = cp /\ pc' = "idle" /\ read' = read
ExecutesLate(s) ==
  /\ s \in late /\ late' = late \ {s} /\ Execute(s)
  /\ edits' = edits /\ cp' = cp /\ settled' = settled /\ pc' = pc /\ read' = read
Edits(s) ==
  /\ edits' = edits + 1
  /\ late' = IF s \in Tagged THEN late \ {s} ELSE late
  /\ moved' = moved \cup {s} /\ read' = read
  /\ \E value : live' = [live EXCEPT ![s] = value]
  /\ applied' = applied /\ cp' = cp /\ settled' = settled /\ pc' = pc

(* Outside a request nothing is sent; a request begins with its record.     *)
Stays ==
  \/ pc' \notin Sending
  \/ \E s \in plan.configured : Submits(s) /\ pc' = "sent"
  \/ pc = "sent" /\ pc' = "rejected" /\ cp' = cp /\ settled' = settled
  \/ pc' = pc /\ cp' = cp /\ settled' = settled

LEMMA ServiceNext ==
  ASSUME [Next]_vars
  PROVE  \/ Calm /\ Stays
         \/ \E s \in plan.configured : Executes(s) \/ Delays(s) \/ Edits(s)
         \/ \E s \in Surfaces : ExecutesLate(s)
<1> USE DEF Calm, Stays, Sending, Settle, Fail, Replan, checkpoint, service
<1>1. CASE \E g \in BOOLEAN : Start(g)
  BY <1>1 DEF Start
<1>2. CASE Preflight
  BY <1>2 DEF Preflight
<1>3. CASE ApplyItems \/ Begin
  BY <1>3 DEF ApplyItems, Begin
<1>4. CASE Complete
  BY <1>4 DEF Complete
<1>5. ASSUME NEW s \in plan.configured, Surface(s)
      PROVE  (Calm /\ Stays) \/ Executes(s)
  <2>1. CASE ReadSurface(s)
    <3>1. CASE ~Drifted(s) /\ read' = read \cup {s} /\ moved' = moved \ {s} /\ pc' = pc
      <4>1. Reads(s)
        BY <2>1, <3>1, Zenon DEF ReadSurface, Reads
      <4> QED
        BY <2>1, <4>1, Zenon DEF ReadSurface, Reads
    <3>2. CASE Fail /\ UNCHANGED moved
      BY <2>1, <3>2, Zenon DEF ReadSurface
    <3> QED
      BY <2>1, <3>1, <3>2, Zenon DEF ReadSurface
  <2>2. CASE VerifySurface(s)
    BY <2>2 DEF VerifySurface
  <2>3. CASE Send(s)
    <3>1. CASE granted
      <4>1. Calm /\ pc' = "sent" /\ Submits(s)
        BY <2>3, <3>1, Zenon DEF Send, Submits
      <4> QED
        BY <4>1, Zenon
    <3>2. CASE ~granted
      BY <2>3, <3>2 DEF Send
    <3> QED
      BY <3>1, <3>2
  <2>4. CASE Accepted(s)
    BY <2>4, Zenon DEF Accepted, Executes
  <2>5. CASE Rejected(s)
    BY <2>5, Zenon DEF Rejected
  <2>6. CASE VerifyAccepted(s)
    BY <2>6 DEF VerifyAccepted
  <2>7. CASE VerifyRejected(s)
    BY <2>7 DEF VerifyRejected
  <2> HIDE DEF Calm, Stays
  <2> QED
    BY <1>5, <2>1, <2>2, <2>3, <2>4, <2>5, <2>6, <2>7 DEF Surface
<1>6. CASE Interrupted
  BY <1>6 DEF Interrupted
<1>o. ASSUME NEW s \in plan.configured, pc = "sent", Turn(s), OutOfHand(s), pc' = "idle",
             edits' = edits, cp' = cp, settled' = settled, read' = read
      PROVE  (Calm /\ Stays) \/ Executes(s) \/ Delays(s)
  <2>1. CASE Preconditions(s) /\ Execute(s) /\ late' = late
    BY <1>o, <2>1, Zenon DEF Executes
  <2>2. CASE Preconditions(s) /\ late' = late \cup {s} /\ UNCHANGED <<live, applied, moved>>
    BY <1>o, <2>2, Zenon DEF Delays
  <2>3. CASE UNCHANGED <<live, applied, moved, late>>
    BY <1>o, <2>3, Zenon
  <2> QED
    BY <1>o, <2>1, <2>2, <2>3, Zenon DEF OutOfHand
<1>7. CASE Crash
  <2>1. CASE pc = "sent"
    <3>1. /\ \E s \in plan.configured : Turn(s) /\ OutOfHand(s)
          /\ pc' = "idle" /\ edits' = edits /\ cp' = cp /\ settled' = settled /\ read' = read
      BY <1>7, <2>1, Zenon DEF Crash
    <3> HIDE DEF Calm, Stays
    <3> QED
      BY <2>1, <3>1, <1>o
  <2>2. CASE pc # "sent"
    BY <1>7, <2>2, Zenon DEF Crash
  <2> QED
    BY <2>1, <2>2
<1>8. ASSUME NEW s \in plan.configured, LoseReply(s)
      PROVE  (Calm /\ Stays) \/ Executes(s) \/ Delays(s)
  <2>1. /\ pc = "sent" /\ Turn(s) /\ OutOfHand(s) /\ pc' = "idle"
        /\ edits' = edits /\ cp' = cp /\ settled' = settled /\ read' = read
    BY <1>8, Zenon DEF LoseReply
  <2> HIDE DEF Calm, Stays
  <2> QED
    BY <2>1, <1>o
<1>9. CASE Service
  BY <1>9, Zenon DEF Service, ExecuteLate, ExecutesLate
<1>10. ASSUME NEW s \in plan.configured, Edit(s) PROVE Edits(s)
  BY <1>10, Zenon DEF Edit, Edits
<1>11. CASE UNCHANGED vars
  BY <1>11, Zenon DEF vars
<1> HIDE DEF Calm, Stays
<1> QED
  BY <1>1, <1>2, <1>3, <1>4, <1>5, <1>6, <1>7, <1>8, <1>9, <1>10, <1>11 DEF Next, Run, Faulty

-----------------------------------------------------------------------------
LEMMA SameTurn == plan' = plan /\ settled' = settled => \A s : Turn(s)' = Turn(s)
  BY DEF Turn, Rank, AfterPolicy, InboundRelaxing, OutboundTightening

(* The record comes before the request, and there is but one request.       *)
LEMMA IntentNext == TypeOK /\ OrderInv /\ IntentInv /\ [Next]_vars => IntentInv'
<1> SUFFICES ASSUME TypeOK, OrderInv, IntentInv, [Next]_vars PROVE IntentInv'
  OBVIOUS
<1>1. /\ plan' = plan /\ plan.configured \subseteq Surfaces
      /\ plan.update \subseteq plan.configured
  BY PlanNext, PlanFacts
<1>2. /\ cp \in [Surfaces -> {"none", "submitting", "verified"}]
      /\ applied \in [Surfaces -> Nat] /\ late \subseteq Surfaces
  BY DEF TypeOK
<1>3. ASSUME NEW s \in Surfaces, Turn(s)
      PROVE  \A t \in Surfaces : Turn(t) => t = s
  BY <1>3, TurnFacts
<1> DEFINE Recorded == \A s \in Surfaces :
             /\ applied'[s] <= 1 /\ (s \in late' => applied'[s] = 0)
             /\ applied'[s] > 0 \/ s \in late' => cp'[s] # "none" /\ s \in plan.update
           Doing == /\ pc' \in Sending => \A s \in Surfaces : Turn(s)' =>
                         cp'[s] = "submitting" /\ s \in plan.update
                    /\ pc' \in {"sent", "rejected"} => \A s \in Surfaces : Turn(s)' =>
                         applied'[s] = 0 /\ s \notin late'
<1>4. ASSUME Recorded, Doing PROVE IntentInv'
  BY <1>1, <1>4 DEF IntentInv, AppliedOnce, Sending
<1>5. ASSUME Calm, Stays PROVE IntentInv'
  <2>1. live' = live /\ applied' = applied /\ late' = late
    BY <1>5 DEF Calm
  <2>2. Recorded
    <3>1. CASE Keeps \/ Completes
      BY <1>1, <2>1, <3>1 DEF Keeps, Completes, IntentInv, AppliedOnce
    <3>2. ASSUME NEW s \in plan.configured, Verifies(s) \/ Submits(s) PROVE Recorded
      BY <1>1, <1>2, <2>1, <3>2 DEF Verifies, Submits, Record, IntentInv, AppliedOnce
    <3>3. ASSUME NEW s \in plan.configured, Clears(s) PROVE Recorded
      BY <1>1, <1>2, <2>1, <3>3 DEF Clears, Clear, IntentInv, AppliedOnce
    <3> QED
      BY <3>1, <3>2, <3>3, CheckpointNext
  <2>3. Doing
    <3>1. CASE pc' \notin Sending
      BY <3>1 DEF Sending
    <3>2. ASSUME NEW s \in plan.configured, Submits(s), pc' = "sent" PROVE Doing
      <4>1. s \in Surfaces /\ Turn(s) /\ s \in plan.update /\ cp'[s] = "submitting"
        BY <1>1, <1>2, <3>2 DEF Submits, Record
      <4>2. applied[s] = 0 /\ s \notin late
        BY <1>2, <3>2, <4>1 DEF Submits, IntentInv, AppliedOnce
      <4>3. \A t \in Surfaces : Turn(t)' => t = s
        BY <1>1, <1>3, <3>2, <4>1, SameTurn DEF Submits
      <4> QED
        BY <2>1, <4>1, <4>2, <4>3
    <3>3. CASE \/ pc = "sent" /\ pc' = "rejected" /\ cp' = cp /\ settled' = settled
               \/ pc' = pc /\ cp' = cp /\ settled' = settled
      BY <1>1, <2>1, <3>3, SameTurn DEF IntentInv, Sending
    <3> QED
      BY <1>5, <3>1, <3>2, <3>3 DEF Stays
  <2> QED
    BY <1>4, <2>2, <2>3
<1>6. ASSUME NEW s \in plan.configured, Executes(s) PROVE IntentInv'
  <2>1. /\ s \in Surfaces /\ Turn(s) /\ pc = "sent" /\ pc' \in {"accepted", "idle"}
        /\ late' = late /\ cp' = cp /\ settled' = settled
        /\ applied' = [applied EXCEPT ![s] = applied[s] + 1]
    BY <1>1, <1>6 DEF Executes, Execute
  <2>2. applied[s] = 0 /\ s \notin late /\ cp[s] = "submitting" /\ s \in plan.update
    BY <2>1 DEF IntentInv
  <2>3. Recorded
    BY <1>2, <2>1, <2>2 DEF IntentInv, AppliedOnce
  <2>4. Doing
    BY <1>1, <2>1, SameTurn DEF IntentInv, Sending
  <2> QED
    BY <1>4, <2>3, <2>4
<1>7. ASSUME NEW s \in plan.configured, Delays(s) PROVE IntentInv'
  <2>1. /\ s \in Surfaces /\ Turn(s) /\ pc = "sent" /\ pc' = "idle"
        /\ late' = late \cup {s} /\ cp' = cp /\ applied' = applied
    BY <1>1, <1>7 DEF Delays
  <2>2. applied[s] = 0 /\ cp[s] = "submitting" /\ s \in plan.update
    BY <2>1 DEF IntentInv
  <2>3. Recorded
    BY <2>1, <2>2 DEF IntentInv, AppliedOnce
  <2> QED
    BY <1>4, <2>1, <2>3 DEF Sending
<1>8. ASSUME NEW s \in Surfaces, ExecutesLate(s) PROVE IntentInv'
  <2>1. /\ s \in late /\ late' = late \ {s} /\ cp' = cp /\ settled' = settled /\ pc' = pc
        /\ applied' = [applied EXCEPT ![s] = applied[s] + 1]
    BY <1>8 DEF ExecutesLate, Execute
  <2>2. Recorded
    BY <1>2, <2>1 DEF IntentInv, AppliedOnce
  <2>3. Doing
    BY <1>1, <1>2, <2>1, SameTurn DEF IntentInv, Sending
  <2> QED
    BY <1>4, <2>2, <2>3
<1>9. ASSUME NEW s \in plan.configured, Edits(s) PROVE IntentInv'
  <2>1. /\ late' \subseteq late /\ cp' = cp /\ settled' = settled /\ pc' = pc
        /\ applied' = applied
    BY <1>9 DEF Edits
  <2>2. Recorded
    BY <2>1 DEF IntentInv, AppliedOnce
  <2>3. Doing
    BY <1>1, <2>1, SameTurn DEF IntentInv, Sending
  <2> QED
    BY <1>4, <2>2, <2>3
<1> QED
  BY ServiceNext, <1>5, <1>6, <1>7, <1>8, <1>9

(* Left alone, the workspace holds what was executed.                       *)
LEMMA LiveNext == TypeOK /\ OrderInv /\ IntentInv /\ LiveInv /\ [Next]_vars => LiveInv'
<1> SUFFICES ASSUME TypeOK, IntentInv, LiveInv, [Next]_vars, Untouched' PROVE LiveInv'
  BY DEF LiveInv
<1>1. plan' = plan /\ plan.configured \subseteq Surfaces
  BY PlanNext, PlanFacts
<1>2. /\ cp \in [Surfaces -> {"none", "submitting", "verified"}]
      /\ live \in [Surfaces -> {"planned", "desired", "foreign"}]
      /\ applied \in [Surfaces -> Nat] /\ edits \in Nat
  BY DEF TypeOK
<1>3. ASSUME \A s \in Surfaces :
               /\ live'[s] = "desired" <=> s \notin plan.update \/ applied'[s] > 0
               /\ s \in plan.configured /\ cp'[s] = "verified" => live'[s] = "desired"
      PROVE  LiveInv'
  BY <1>1, <1>3 DEF LiveInv, Matches
<1>4. ASSUME Calm PROVE LiveInv'
  <2>1. live' = live /\ applied' = applied /\ Untouched
    BY <1>4 DEF Calm, Untouched
  <2>2. CASE Keeps \/ Completes
    BY <1>1, <1>3, <2>1, <2>2 DEF Keeps, Completes, LiveInv, Matches
  <2>3. ASSUME NEW s \in plan.configured, Verifies(s) \/ Submits(s) \/ Clears(s) PROVE LiveInv'
    <3>1. s \in Surfaces
      BY <1>1
    <3>2. \A t \in Surfaces : cp'[t] = "verified" => live[t] = "desired" \/ cp[t] = "verified"
      BY <1>2, <2>3, <3>1 DEF Verifies, Submits, Clears, Record, Clear, Matches
    <3> QED
      BY <1>3, <2>1, <3>2 DEF LiveInv, Matches
  <2> QED
    BY <2>2, <2>3, CheckpointNext
<1>5. ASSUME NEW s \in Surfaces, Execute(s), cp' = cp, edits' = edits PROVE LiveInv'
  <2>1. /\ \A t \in Surfaces : live'[t] = IF t = s THEN "desired" ELSE live[t]
        /\ \A t \in Surfaces : applied'[t] = IF t = s THEN applied[t] + 1 ELSE applied[t]
        /\ Untouched
    BY <1>2, <1>5 DEF Execute, Untouched
  <2>2. \A t \in Surfaces : applied[t] \in Nat
    BY <1>2
  <2> QED
    BY <1>3, <1>5, <2>1, <2>2 DEF LiveInv, Matches
<1>6. ASSUME NEW s \in plan.configured, Delays(s) PROVE LiveInv'
  <2>1. UNCHANGED <<live, applied, cp>> /\ Untouched
    BY <1>6 DEF Delays, Untouched
  <2> QED
    BY <1>3, <2>1 DEF LiveInv, Matches
<1>7. ASSUME NEW s \in plan.configured, Edits(s) PROVE FALSE
  BY <1>2, <1>7 DEF Edits, Untouched
<1> QED
  BY ServiceNext, <1>1, <1>4, <1>5, <1>6, <1>7 DEF Executes, ExecutesLate

(* A pass has read every surface.                                           *)
LEMMA ReadNext ==
  ASSUME [Next]_vars, pc' \in Applying
  PROVE  read' = read /\ (pc \in Applying \/ read = plan.configured)
<1> USE DEF Applying, Settle, Fail, Replan, PlanRead, checkpoint, service
<1>1. CASE (\E g \in BOOLEAN : Start(g)) \/ Preflight \/ ApplyItems \/ Begin \/ Complete
  BY <1>1, Zenon DEF Start, Preflight, ApplyItems, Begin, Complete
<1>2. ASSUME NEW s \in plan.configured, Surface(s)
      PROVE  read' = read /\ (pc \in Applying \/ read = plan.configured)
  <2>1. CASE ReadSurface(s)
    BY <2>1 DEF ReadSurface
  <2>2. CASE VerifySurface(s) \/ Send(s)
    BY <2>2, Zenon DEF VerifySurface, Send
  <2>3. CASE Accepted(s) \/ Rejected(s)
    BY <2>3, Zenon DEF Accepted, Rejected
  <2>4. CASE VerifyAccepted(s) \/ VerifyRejected(s)
    BY <2>4, Zenon DEF VerifyAccepted, VerifyRejected
  <2> QED
    BY <1>2, <2>1, <2>2, <2>3, <2>4 DEF Surface
<1>3. CASE Faulty
  BY <1>3 DEF Faulty, Interrupted, Crash, LoseReply
<1>4. CASE Service
  BY <1>4, Zenon DEF Service, ExecuteLate
<1>5. ASSUME NEW s \in plan.configured, Edit(s)
      PROVE  read' = read /\ pc \in Applying
  BY <1>5, Zenon DEF Edit
<1>6. CASE UNCHANGED vars
  BY <1>6, Zenon DEF vars
<1> QED
  BY <1>1, <1>2, <1>3, <1>4, <1>5, <1>6 DEF Next, Run

LEMMA FreshNext == TypeOK /\ IntentInv /\ FreshInv /\ [Next]_vars => FreshInv'
<1> SUFFICES ASSUME TypeOK, IntentInv, FreshInv, [Next]_vars PROVE FreshInv'
  OBVIOUS
<1>1. /\ plan' = plan /\ plan.configured \subseteq Surfaces
      /\ plan.update \subseteq plan.configured
  BY PlanNext, PlanFacts
<1>2. /\ cp \in [Surfaces -> {"none", "submitting", "verified"}]
      /\ live \in [Surfaces -> {"planned", "desired", "foreign"}]
      /\ late \subseteq Surfaces
  BY DEF TypeOK
<1>3. Tagged \subseteq Surfaces /\ Tagged \cap Outbound = {}
  BY BoundsAssumption
<1>4. \A s : Observed(s)' = Observed(s)
  BY <1>1 DEF Observed
<1>5. pc' \in Applying => read' = plan.configured
  BY ReadNext DEF FreshInv
<1> DEFINE Old(s) == cp[s] = "none" \/ (pc \in {"sent", "rejected"} /\ Turn(s))
           New(s) == cp'[s] = "none" \/ (pc' \in {"sent", "rejected"} /\ Turn(s)')
<1>6. ASSUME \A s \in Tagged : s \in late' => live'[s] = "planned",
             \A s \in Tagged : s \in read' \ moved' /\ New(s) => live'[s] = Observed(s)
      PROVE  FreshInv'
  BY <1>1, <1>4, <1>5, <1>6 DEF FreshInv
<1>7. /\ \A s \in Tagged : s \in late => live[s] = "planned"
      /\ \A s \in Tagged : s \in read \ moved /\ Old(s) => live[s] = Observed(s)
  BY DEF FreshInv
<1>8. ASSUME Stays PROVE \A s \in plan.configured : New(s) => Old(s)
  <2>1. \A s \in plan.configured : cp'[s] = "none" => Old(s)
    <3>1. CASE Keeps \/ Completes
      BY <3>1 DEF Keeps, Completes
    <3>2. ASSUME NEW s \in plan.configured, Verifies(s) \/ Submits(s)
          PROVE  \A t \in plan.configured : cp'[t] = "none" => cp[t] = "none"
      BY <1>1, <1>2, <3>2 DEF Verifies, Submits, Record
    <3>3. ASSUME NEW s \in plan.configured, Clears(s)
          PROVE  \A t \in plan.configured : cp'[t] = "none" => Old(t)
      BY <1>1, <1>2, <3>3 DEF Clears, Clear
    <3> QED
      BY <3>1, <3>2, <3>3, CheckpointNext
  <2>2. ASSUME NEW s \in plan.configured, pc' \in {"sent", "rejected"}, Turn(s)' PROVE Old(s)
    <3>1. ASSUME NEW t \in plan.configured, Submits(t) PROVE Old(s)
      <4>1. Turn(s) /\ Turn(t) /\ s \in Surfaces /\ t \in Surfaces
        BY <1>1, <2>2, <3>1, SameTurn DEF Submits
      <4>2. s = t
        BY <4>1, TurnFacts
      <4> QED
        BY <3>1, <4>2 DEF Submits
    <3>2. CASE \/ pc = "sent" /\ pc' = "rejected" /\ cp' = cp /\ settled' = settled
               \/ pc' = pc /\ cp' = cp /\ settled' = settled
      BY <1>1, <2>2, <3>2, SameTurn
    <3> QED
      BY <1>8, <2>2, <3>1, <3>2 DEF Stays, Sending
  <2> QED
    BY <2>1, <2>2
<1>9. read \subseteq plan.configured
  BY DEF TypeOK
<1>10. ASSUME Calm, Stays PROVE FreshInv'
  <2>1. live' = live /\ late' = late
    BY <1>10 DEF Calm
  <2>2. CASE read' = {}
    BY <1>6, <1>7, <2>1, <2>2
  <2>3. CASE read' = read /\ moved' = moved
    BY <1>6, <1>7, <1>8, <1>9, <1>10, <2>1, <2>3
  <2>4. ASSUME NEW s \in plan.configured, Reads(s) PROVE FreshInv'
    <3>1. /\ read' = read \cup {s} /\ moved' = moved \ {s}
          /\ ~Drifted(s) /\ pc' = "plan" /\ cp' = cp
      BY <2>4 DEF Reads
    <3>2. s \in Tagged /\ cp[s] = "none" => live[s] = Observed(s)
      BY <1>3, <3>1 DEF Drifted
    <3> QED
      BY <1>6, <1>7, <2>1, <3>1, <3>2
  <2> QED
    BY <1>10, <2>2, <2>3, <2>4 DEF Calm
<1>11. ASSUME NEW s \in plan.configured, Executes(s) PROVE FreshInv'
  <2>1. /\ s \in Surfaces /\ Turn(s) /\ pc = "sent" /\ pc' \in {"accepted", "idle"}
        /\ late' = late /\ cp' = cp /\ read' = read
        /\ live' = [live EXCEPT ![s] = "desired"] /\ moved' = moved \cup {s}
    BY <1>1, <1>11 DEF Executes, Execute
  <2>2. s \notin late
    BY <2>1 DEF IntentInv
  <2> QED
    BY <1>2, <1>3, <1>6, <1>7, <2>1, <2>2
<1>12. ASSUME NEW s \in plan.configured, Delays(s) PROVE FreshInv'
  <2>1. /\ s \in Surfaces /\ Turn(s) /\ pc = "sent" /\ pc' = "idle"
        /\ late' = late \cup {s} /\ cp' = cp /\ read' = read
        /\ live' = live /\ moved' = moved
        /\ (s \in Tagged => s \notin moved)
    BY <1>1, <1>12 DEF Delays, Preconditions
  <2>2. read = plan.configured
    BY <2>1 DEF FreshInv, Applying
  <2>3. s \in plan.update
    BY <2>1 DEF IntentInv
  <2>4. s \in Tagged => live[s] = "planned"
    BY <1>7, <2>1, <2>2, <2>3 DEF Observed
  <2> QED
    BY <1>6, <1>7, <2>1, <2>4
<1>13. ASSUME NEW s \in Surfaces, ExecutesLate(s) PROVE FreshInv'
  <2>1. /\ late' = late \ {s} /\ cp' = cp /\ read' = read /\ pc' = pc /\ settled' = settled
        /\ live' = [live EXCEPT ![s] = "desired"] /\ moved' = moved \cup {s}
    BY <1>13 DEF ExecutesLate, Execute
  <2>2. \A t : New(t) => Old(t)
    BY <1>1, <2>1, SameTurn
  <2> QED
    BY <1>2, <1>3, <1>6, <1>7, <2>1, <2>2
<1>14. ASSUME NEW s \in plan.configured, Edits(s) PROVE FreshInv'
  <2>1. /\ late' = (IF s \in Tagged THEN late \ {s} ELSE late)
        /\ cp' = cp /\ read' = read /\ pc' = pc /\ settled' = settled
        /\ \A t \in Surfaces \ {s} : live'[t] = live[t]
        /\ moved' = moved \cup {s}
    BY <1>1, <1>2, <1>14 DEF Edits
  <2>2. \A t : New(t) => Old(t)
    BY <1>1, <2>1, SameTurn
  <2> QED
    BY <1>3, <1>6, <1>7, <2>1, <2>2
<1> QED
  BY ServiceNext, <1>10, <1>11, <1>12, <1>13, <1>14

(* Nothing goes past the preflight without the safeguards it needs.         *)
Cleared == \/ pc \in Applying \cup {"items"}
           \/ pc = "plan" /\ stage \in {"recovery", "final"}

LEMMA ClearedNext ==
  ASSUME [Next]_vars, Cleared'
  PROVE  (granted' <=> granted) /\ (Cleared \/ SurfacesAuthorized)
<1> USE DEF Cleared, Applying, Settle, Fail, Replan, PlanRead, checkpoint, service
<1>1. CASE \E g \in BOOLEAN : Start(g)
  BY <1>1 DEF Start
<1>2. CASE Preflight
  BY <1>2, Zenon DEF Preflight
<1>3. CASE ApplyItems \/ Begin \/ Complete
  <2>1. granted' = granted
    BY <1>3, Zenon DEF ApplyItems, Begin, Complete
  <2>2. Cleared
    BY <1>3 DEF ApplyItems, Begin, Complete
  <2> QED
    BY <2>1, <2>2
<1>4. ASSUME NEW s \in plan.configured, Surface(s) PROVE (granted' <=> granted) /\ Cleared
  <2>1. CASE ReadSurface(s)
    BY <2>1, Zenon DEF ReadSurface
  <2>2. CASE VerifySurface(s) \/ Send(s)
    <3>1. granted' = granted
      BY <2>2, Zenon DEF VerifySurface, Send
    <3>2. Cleared
      BY <2>2 DEF VerifySurface, Send
    <3> QED
      BY <3>1, <3>2
  <2>3. CASE Accepted(s) \/ Rejected(s)
    <3>1. granted' = granted
      BY <2>3, Zenon DEF Accepted, Rejected
    <3>2. Cleared
      BY <2>3 DEF Accepted, Rejected
    <3> QED
      BY <3>1, <3>2
  <2>4. CASE VerifyAccepted(s) \/ VerifyRejected(s)
    <3>1. granted' = granted
      BY <2>4, Zenon DEF VerifyAccepted, VerifyRejected
    <3>2. Cleared
      BY <2>4 DEF VerifyAccepted, VerifyRejected
    <3> QED
      BY <3>1, <3>2
  <2> HIDE DEF Cleared
  <2> QED
    BY <1>4, <2>1, <2>2, <2>3, <2>4 DEF Surface
<1>5. CASE Faulty
  BY <1>5 DEF Faulty, Interrupted, Crash, LoseReply
<1>6. CASE Service
  <2>1. granted' = granted /\ pc' = pc /\ stage' = stage
    BY <1>6, Zenon DEF Service, ExecuteLate
  <2> QED
    BY <2>1
<1>7. ASSUME NEW s \in plan.configured, Edit(s) PROVE (granted' <=> granted) /\ Cleared
  BY <1>7, Zenon DEF Edit
<1>8. CASE UNCHANGED vars
  BY <1>8, Zenon DEF vars
<1> HIDE DEF Cleared
<1> QED
  BY <1>1, <1>2, <1>3, <1>4, <1>5, <1>6, <1>7, <1>8 DEF Next, Run

LEMMA GrantNext == TypeOK /\ IntentInv /\ GrantInv /\ [Next]_vars => GrantInv'
<1> SUFFICES ASSUME TypeOK, IntentInv, GrantInv, [Next]_vars, Cleared'
             PROVE  SurfacesAuthorized'
  BY DEF GrantInv, Cleared
<1>1. /\ plan' = plan /\ plan.configured \subseteq Surfaces
      /\ plan.update \subseteq plan.configured
  BY PlanNext, PlanFacts
<1>2. cp \in [Surfaces -> {"none", "submitting", "verified"}]
  BY DEF TypeOK
<1>3. (granted' <=> granted) /\ SurfacesAuthorized
  BY ClearedNext DEF GrantInv, Cleared
<1>4. CASE granted
  BY <1>3, <1>4 DEF SurfacesAuthorized
<1>5. CASE \A s \in plan.update : cp[s] = "verified"
  <2>1. CASE Keeps \/ Completes
    BY <1>1, <1>5, <2>1 DEF Keeps, Completes, SurfacesAuthorized
  <2>2. ASSUME NEW s \in plan.configured, Verifies(s) PROVE SurfacesAuthorized'
    <3>1. \A t \in plan.update : cp'[t] = "verified"
      BY <1>1, <1>2, <1>5, <2>2 DEF Verifies, Record
    <3> QED
      BY <1>1, <3>1 DEF SurfacesAuthorized
  <2>3. ASSUME NEW s \in plan.configured, Submits(s) \/ Clears(s) PROVE FALSE
    BY <1>1, <1>5, <2>3 DEF Submits, Clears, IntentInv
  <2> QED
    BY <2>1, <2>2, <2>3, CheckpointNext
<1> QED
  BY <1>3, <1>4, <1>5 DEF SurfacesAuthorized

-----------------------------------------------------------------------------
LEMMA InitInv == Init => NetworkInv
<1> SUFFICES ASSUME Init PROVE NetworkInv
  OBVIOUS
<1> USE DEF Init
<1>1. TypeOK
  BY DEF TypeOK, Observed
<1>2. OrderInv
  <2>1. plan.configured \subseteq Surfaces
    BY <1>1, PlanFacts
  <2> QED
    BY <2>1 DEF OrderInv
<1>3. IntentInv
  BY DEF IntentInv, AppliedOnce
<1>4. LiveInv
  BY <1>1, PlanFacts DEF LiveInv, Matches, Observed
<1>5. FreshInv
  BY DEF FreshInv, Applying
<1>6. GrantInv
  BY DEF GrantInv, Applying
<1> QED
  BY <1>1, <1>2, <1>3, <1>4, <1>5, <1>6 DEF NetworkInv

(* The invariant behind every property below.                               *)
THEOREM NetworkInvariant == Spec => []NetworkInv
<1>1. Init => NetworkInv
  BY InitInv
<1>2. NetworkInv /\ [Next]_vars => NetworkInv'
  BY TypeNext, OrderNext, IntentNext, LiveNext, FreshNext, GrantNext DEF NetworkInv
<1> QED
  BY <1>1, <1>2, PTL DEF Spec

(* For every plan and whatever fails: while nobody else edits, inbound Deny  *)
(* is never live without its exceptions.                                    *)
THEOREM NeverLockedOutCorrect == Spec => []NeverLockedOut
<1>1. NetworkInv => NeverLockedOut
  BY LockoutFromInv
<1> QED
  BY <1>1, NetworkInvariant, PTL

(* Outbound rules are live only under outbound Deny.                        *)
THEOREM RulesAfterDenyCorrect == Spec => []RulesAfterDeny
<1>1. NetworkInv => RulesAfterDeny
  BY LockoutFromInv
<1> QED
  BY <1>1, NetworkInvariant, PTL

(* No replacement is executed twice over all reruns.                        *)
THEOREM AppliedOnceCorrect == Spec => []AppliedOnce
<1>1. NetworkInv => AppliedOnce
  BY DEF NetworkInv, IntentInv
<1> QED
  BY <1>1, NetworkInvariant, PTL

(* A completed apply is done.                                               *)
THEOREM CompletedIsDoneCorrect == Spec => []CompletedIsDone
<1>1. NetworkInv => CompletedIsDone
  BY DoneFromInv
<1> QED
  BY <1>1, NetworkInvariant, PTL

(* A request under If-Match only ever replaces the approved state.          *)
THEOREM ReplacesApprovedCorrect == Spec => ReplacesApproved
<1> DEFINE Step == \A s \in Tagged : applied'[s] # applied[s] => live[s] = "planned"
<1>1. NetworkInv /\ [Next]_vars => Step
  <2> SUFFICES ASSUME NetworkInv, [Next]_vars, NEW s \in Tagged, applied'[s] # applied[s]
               PROVE  live[s] = "planned"
    OBVIOUS
  <2>1. /\ plan.configured \subseteq Surfaces /\ Tagged \subseteq Surfaces
        /\ applied \in [Surfaces -> Nat]
    BY PlanFacts, BoundsAssumption DEF NetworkInv, TypeOK
  <2>2. ASSUME NEW t \in plan.configured, Executes(t) PROVE live[s] = "planned"
    <3>1. /\ t \in Surfaces /\ Turn(t) /\ pc = "sent" /\ Preconditions(t)
          /\ applied' = [applied EXCEPT ![t] = applied[t] + 1]
      BY <2>1, <2>2 DEF Executes, Execute
    <3>2. s = t
      BY <2>1, <3>1
    <3>3. s \in read \ moved /\ s \in plan.update
      BY <3>1, <3>2 DEF NetworkInv, FreshInv, IntentInv, Applying, Preconditions, Turn
    <3> QED
      BY <3>1, <3>2, <3>3 DEF NetworkInv, FreshInv, Observed
  <2>3. ASSUME NEW t \in Surfaces, ExecutesLate(t) PROVE live[s] = "planned"
    <3>1. t \in late /\ applied' = [applied EXCEPT ![t] = applied[t] + 1]
      BY <2>3 DEF ExecutesLate, Execute
    <3>2. s = t
      BY <2>1, <3>1
    <3> QED
      BY <3>1, <3>2 DEF NetworkInv, FreshInv
  <2>4. CASE applied' = applied
    BY <2>4
  <2> QED
    BY ServiceNext, <2>2, <2>3, <2>4 DEF Calm, Delays, Edits
<1>2. Step => [\A s \in Tagged : applied'[s] # applied[s] => live[s] = "planned"]_vars
  OBVIOUS
<1> QED
  BY <1>1, <1>2, NetworkInvariant, PTL DEF Spec, ReplacesApproved

(* A run that lacks a safeguard it needs is stopped before it does anything. *)
THEOREM RevokedMeansStoppedCorrect == Spec => RevokedMeansStopped
<1> DEFINE Lacking == ~granted /\ \E s \in plan.update : cp[s] # "verified"
           Step == Lacking => pc' \notin {"items", "surface", "sent"}
<1>1. NetworkInv /\ [Next]_vars => Step
  <2> SUFFICES ASSUME NetworkInv, [Next]_vars, Lacking, pc' \in {"items", "surface", "sent"}
               PROVE  FALSE
    OBVIOUS
  <2>1. Cleared'
    BY DEF Cleared, Applying
  <2>2. SurfacesAuthorized
    BY <2>1, ClearedNext DEF NetworkInv, GrantInv, Cleared
  <2> QED
    BY <2>2 DEF SurfacesAuthorized
<1>2. Step => [Lacking => pc' \notin {"items", "surface", "sent"}]_vars
  OBVIOUS
<1> QED
  BY <1>1, <1>2, NetworkInvariant, PTL DEF Spec, RevokedMeansStopped
=============================================================================
