---------------------------- MODULE NetworkApply ----------------------------
(***************************************************************************)
(* Applying an approved network protection plan                            *)
(* (src/src/network-apply.ts, called from main.ts and apply.ts): the       *)
(* recovery of an interrupted unit, the preflight, the item stages, and    *)
(* then every configured surface in an order that depends on whether       *)
(* access is being tightened or relaxed.  Each surface is replaced by one  *)
(* PUT whose intent is in the checkpoint before it is sent and which is    *)
(* believed only once it has been read back.  Runs crash, are rerun with   *)
(* or without their safeguards, replies are lost, requests are executed    *)
(* late, and somebody else edits the workspace.                            *)
(*                                                                         *)
(* Managed private endpoints are taken to be approved or absent.           *)
(***************************************************************************)
EXTENDS Integers

CONSTANTS
  Plans,      \* approved plans the checkpoint may be for
  Tagged,     \* surfaces for which the service returns an ETag
  MaxEdits,   \* bound: edits made by somebody else
  MaxFaults   \* bound: crashes, lost or rejected requests, failed stages

Inbound  == {"firewall", "azure", "shares"}
Outbound == {"cloud", "gateway"}
Surfaces == {"policy"} \cup Inbound \cup Outbound
Changes  == {"tighten", "relax", "same"}

(* What normalizeNetworkProtection, the planner and assertPlanIsApplicable  *)
(* let through: inbound Deny has firewall rules, outbound rules come with   *)
(* outbound Deny, and are always updated when that Deny is new.             *)
Applicable(p) ==
  /\ {"policy"} \cup p.update \subseteq p.configured
  /\ "policy" \in p.update <=> p.inbound # "same" \/ p.outbound # "same"
  /\ p.inbound = "tighten" => "firewall" \in p.configured
  /\ p.outbound = "relax" => p.configured \cap Outbound = {}
  /\ p.outbound = "tighten" => p.configured \cap Outbound \subseteq p.update

ASSUME PlansAssumption ==
  /\ Plans \subseteq [configured : SUBSET Surfaces, update : SUBSET Surfaces,
                      inbound : Changes, outbound : Changes]
  /\ \A p \in Plans : Applicable(p)
ASSUME BoundsAssumption ==
  Tagged \subseteq Surfaces \ Outbound /\ MaxEdits \in Nat /\ MaxFaults \in Nat

VARIABLES
  plan,       \* the approved plan
  live,       \* the workspace: each surface as planned, as desired, or foreign
  cp,         \* the checkpointed phase of each surface
  completed,  \* completedAt is in the checkpoint
  pc,         \* what the run does
  stage,      \* what it does it for
  granted,    \* the run was given its safeguards
  read,       \* surfaces of the fresh plan read so far
  moved,      \* surfaces whose ETag is no longer the one read
  settled,    \* surfaces this pass has applied or verified
  late,       \* surfaces with a request the service may yet execute
  applied,    \* how often a PUT of each surface was executed
  dropped,    \* a request was lost for good, or its rejection forgotten
  edits, faults

checkpoint == <<cp, completed>>
service    == <<live, moved, late, applied, dropped, edits>>
vars == <<plan, checkpoint, pc, stage, granted, read, settled, service, faults>>

Observed(s) == IF s \in plan.update THEN "planned" ELSE "desired"
Matches(s)  == live[s] = "desired"

\* Mutants: the transition is not looked at, or only where it tightens.
InboundTightening  == plan.inbound = "tighten"
InboundRelaxing    == plan.inbound = "relax"
OutboundTightening == plan.outbound = "tighten"

AfterPolicy(s) ==
  \/ s \in Inbound /\ InboundRelaxing
  \/ s \in Outbound /\ OutboundTightening

(* The order of a pass: which surfaces come after the policy depends on the *)
(* transition.                                                              *)
Place == [firewall |-> 1, azure |-> 2, shares |-> 3, cloud |-> 4, gateway |-> 5,
          policy |-> 6]
Rank(s) == Place[s] + IF AfterPolicy(s) THEN 6 ELSE 0

(* The surface whose turn it is.                                            *)
Turn(s) ==
  /\ s \in plan.configured \ settled
  /\ \A t \in plan.configured \ settled : Rank(s) <= Rank(t)

(* networkProtectionRequiresRecovery                                        *)
RequiresRecovery ==
  IF completed THEN \E s \in plan.configured : cp[s] # "verified"
               ELSE \E s \in plan.configured : cp[s] # "none"

\* Mutant: the fresh plan is not compared with the approved one.
DriftedNever(s) == FALSE

(* A surface nobody has approached must be as it was approved; outbound     *)
(* rules could not be seen before outbound Deny.                            *)
Drifted(s) ==
  /\ cp[s] = "none"
  /\ ~(s \in Outbound /\ OutboundTightening)
  /\ live[s] # Observed(s)

LockoutAuthorized == plan.inbound = "tighten" /\ ~completed => granted
SurfacesAuthorized == (\A s \in plan.update : cp[s] = "verified") \/ granted

Init ==
  /\ plan \in Plans
  /\ live = [s \in Surfaces |-> Observed(s)]
  /\ cp = [s \in Surfaces |-> "none"] /\ completed = FALSE
  /\ pc = "idle" /\ stage = "final" /\ granted = FALSE
  /\ read = {} /\ moved = {} /\ settled = {}
  /\ late = {} /\ applied = [s \in Surfaces |-> 0] /\ dropped = FALSE
  /\ edits = 0 /\ faults = 0
-----------------------------------------------------------------------------
Fail == pc' = "idle" /\ UNCHANGED <<stage, read, settled>>
Fault == faults < MaxFaults /\ faults' = faults + 1
NoFault == UNCHANGED faults

(* The run asks for the plan of the workspace as it is.                     *)
Replan(for) == pc' = "plan" /\ stage' = for /\ read' = {} /\ settled' = {}

(* A run or rerun, with or without its safeguards: an interrupted unit is   *)
(* recovered before anything else is looked at.                             *)
Start(safeguards) ==
  /\ pc \in {"idle", "done"}
  /\ granted' = safeguards
  /\ Replan(IF RequiresRecovery THEN "recovery preflight" ELSE "preflight")
  /\ UNCHANGED <<plan, checkpoint, service>> /\ NoFault

(* One surface of the fresh plan is read, with its ETag.  A policy edited   *)
(* to outbound Allow hides the outbound rules.                              *)
ReadSurface(s) ==
  /\ pc = "plan" /\ s \in plan.configured \ read
  /\ \/ /\ ~Drifted(s)
        /\ read' = read \cup {s}
        /\ moved' = moved \ {s}
        /\ UNCHANGED <<pc, stage, settled>>
     \/ /\ Drifted(s) \/ (s \in Outbound /\ cp[s] = "none" /\ ~OutboundTightening /\ edits > 0)
        /\ Fail /\ UNCHANGED moved
  /\ UNCHANGED <<plan, checkpoint, granted, live, late, applied, dropped, edits>> /\ NoFault

PlanRead == pc = "plan" /\ read = plan.configured

(* preflightNetworkProtection: every safeguard before any change.           *)
Preflight ==
  /\ PlanRead /\ stage \in {"recovery preflight", "preflight"}
  /\ IF LockoutAuthorized /\ SurfacesAuthorized
     THEN IF stage = "preflight"
          THEN pc' = "items" /\ UNCHANGED <<stage, read, settled>>
          ELSE Replan("recovery")
     ELSE Fail
  /\ UNCHANGED <<plan, checkpoint, granted, service>> /\ NoFault

(* The workspace and every item stage, which fail or come through.          *)
ApplyItems ==
  /\ pc = "items"
  /\ \/ Replan("final") /\ NoFault
     \/ Fail /\ Fault
  /\ UNCHANGED <<plan, checkpoint, granted, service>>

(* applyNetworkProtection begins.                                           *)
Begin ==
  /\ PlanRead /\ stage \in {"recovery", "final"}
  /\ IF LockoutAuthorized
     THEN pc' = "surface" /\ UNCHANGED <<stage, read, settled>>
     ELSE Fail
  /\ UNCHANGED <<plan, checkpoint, granted, service>> /\ NoFault
-----------------------------------------------------------------------------
(* applySurface.                                                            *)
Record(s, phase) == cp' = [cp EXCEPT ![s] = phase] /\ UNCHANGED completed
Settle(s) == pc' = "surface" /\ settled' = settled \cup {s} /\ UNCHANGED <<stage, read>>

NeedsAuthority(s) == cp[s] = "submitting"

(* A surface that needs no request of this run: read back only.             *)
VerifySurface(s) ==
  /\ pc = "surface" /\ Turn(s)
  /\ cp[s] # "none" \/ s \notin plan.update
  /\ IF Matches(s) /\ (NeedsAuthority(s) => granted)
     THEN Record(s, "verified") /\ Settle(s)
     ELSE Fail /\ UNCHANGED checkpoint
  /\ UNCHANGED <<plan, granted, service>> /\ NoFault

\* Mutant: the checkpoint is written when the reply is in.
SendUnrecorded(s) ==
  /\ pc = "surface" /\ Turn(s)
  /\ cp[s] = "none" /\ s \in plan.update /\ granted
  /\ pc' = "sent"
  /\ UNCHANGED <<plan, checkpoint, granted, stage, read, settled, service>> /\ NoFault

(* A surface to update: onDispatch records the intent, then the PUT leaves. *)
Send(s) ==
  /\ pc = "surface" /\ Turn(s)
  /\ cp[s] = "none" /\ s \in plan.update
  /\ IF granted
     THEN pc' = "sent" /\ Record(s, "submitting") /\ UNCHANGED <<stage, read, settled>>
     ELSE Fail /\ UNCHANGED checkpoint
  /\ UNCHANGED <<plan, granted, service>> /\ NoFault

(* A read-back or a token cannot be had.  After a rejection this leaves the *)
(* record of a request that did nothing.                                    *)
Interrupted ==
  /\ pc \in {"plan", "surface", "accepted", "rejected"}
  /\ Fail /\ Fault
  /\ dropped' = (dropped \/ pc = "rejected")
  /\ UNCHANGED <<plan, checkpoint, granted, live, moved, late, applied, edits>>

(* The service executes a PUT whose If-Match still holds.                   *)
\* Mutant: If-Match is not sent.
PreconditionsNone(s) == TRUE
Preconditions(s) == s \in Tagged => s \notin moved
Execute(s) ==
  /\ live' = [live EXCEPT ![s] = "desired"]
  /\ applied' = [applied EXCEPT ![s] = @ + 1]
  /\ moved' = moved \cup {s}

Accepted(s) ==
  /\ pc = "sent" /\ Turn(s)
  /\ Preconditions(s)
  /\ Execute(s)
  /\ pc' = "accepted"
  /\ UNCHANGED <<plan, checkpoint, granted, stage, read, settled, late, dropped, edits>>
  /\ NoFault

(* A definitive rejection: 412, or any other answer that proves the request *)
(* did nothing.                                                             *)
Rejected(s) ==
  /\ pc = "sent" /\ Turn(s)
  /\ IF Preconditions(s) THEN Fault ELSE NoFault
  /\ pc' = "rejected"
  /\ UNCHANGED <<plan, checkpoint, granted, stage, read, settled, service>>

(* A request out of hand: executed, to be executed late, or lost for good.  *)
OutOfHand(s) ==
  \/ /\ Preconditions(s) /\ Execute(s)
     /\ UNCHANGED <<late, dropped>>
  \/ /\ Preconditions(s) /\ late' = late \cup {s}
     /\ UNCHANGED <<live, applied, moved, dropped>>
  \/ /\ dropped' = TRUE
     /\ UNCHANGED <<live, applied, moved, late>>

(* No reply, or one that says nothing: the record stays.                    *)
LoseReply(s) ==
  /\ pc = "sent" /\ Turn(s)
  /\ OutOfHand(s)
  /\ Fail /\ Fault
  /\ UNCHANGED <<plan, checkpoint, granted, edits>>

VerifyAccepted(s) ==
  /\ pc = "accepted" /\ Turn(s)
  /\ IF Matches(s)
     THEN Record(s, "verified") /\ Settle(s)
     ELSE Fail /\ UNCHANGED checkpoint
  /\ UNCHANGED <<plan, granted, service>> /\ NoFault

\* Mutant: the record of a rejected request is left behind.
ClearNothing(s) == UNCHANGED checkpoint
Clear(s) == cp' = [cp EXCEPT ![s] = "none"] /\ completed' = FALSE

VerifyRejected(s) ==
  /\ pc = "rejected" /\ Turn(s)
  /\ IF Matches(s)
     THEN Record(s, "verified") /\ Settle(s)
     ELSE Fail /\ Clear(s)
  /\ UNCHANGED <<plan, granted, service>> /\ NoFault

(* markNetworkProtectionCompleted: the pass is over.  A recovery is         *)
(* followed by the run it preceded.                                         *)
Complete ==
  /\ pc = "surface" /\ settled = plan.configured
  /\ completed' = (\A s \in plan.configured : cp[s] = "verified")
  /\ IF stage = "recovery"
     THEN Replan("preflight")
     ELSE pc' = "done" /\ UNCHANGED <<stage, read, settled>>
  /\ UNCHANGED <<plan, cp, granted, service>> /\ NoFault
-----------------------------------------------------------------------------
(* The runner dies; a request under way is out of hand.                     *)
Crash ==
  /\ pc \notin {"idle", "done"}
  /\ Fail /\ Fault
  /\ IF pc = "sent"
     THEN (\E s \in plan.configured : Turn(s) /\ OutOfHand(s)) /\ UNCHANGED edits
     ELSE /\ dropped' = (dropped \/ pc = "rejected")
          /\ UNCHANGED <<live, moved, late, applied, edits>>
  /\ UNCHANGED <<plan, checkpoint, granted>>

(* The service gets to a request nobody waits for.                          *)
ExecuteLate(s) ==
  /\ s \in late
  /\ late' = late \ {s}
  /\ Execute(s)
  /\ UNCHANGED <<plan, checkpoint, pc, stage, granted, read, settled, dropped, edits, faults>>

(* Somebody else edits the workspace: a late request whose If-Match named   *)
(* the state before is refused.                                             *)
Edit(s) ==
  /\ edits < MaxEdits /\ edits' = edits + 1
  /\ \E value \in {"planned", "desired", "foreign"} : live' = [live EXCEPT ![s] = value]
  /\ moved' = moved \cup {s}
  /\ late' = IF s \in Tagged THEN late \ {s} ELSE late
  /\ UNCHANGED <<plan, checkpoint, pc, stage, granted, read, settled, applied, dropped, faults>>

Surface(s) ==
  \/ ReadSurface(s) \/ VerifySurface(s) \/ Send(s)
  \/ Accepted(s) \/ Rejected(s) \/ VerifyAccepted(s) \/ VerifyRejected(s)
Run == Preflight \/ ApplyItems \/ Begin \/ Complete \/ \E s \in plan.configured : Surface(s)
Faulty == Interrupted \/ Crash \/ \E s \in plan.configured : LoseReply(s)
Service == \E s \in Surfaces : ExecuteLate(s)

Next ==
  \/ \E safeguards \in BOOLEAN : Start(safeguards)
  \/ Run \/ Faulty \/ Service
  \/ \E s \in plan.configured : Edit(s)

(* Requests settle, the service gets to what it accepted, and the operator  *)
(* keeps rerunning with the safeguards granted now and then.                *)
Spec == /\ Init /\ [][Next]_vars
        /\ WF_vars(Run) /\ WF_vars(Service) /\ SF_vars(Start(TRUE))
-----------------------------------------------------------------------------
(* The variables keep their types.                                          *)
TypeOK ==
  /\ plan \in Plans
  /\ live \in [Surfaces -> {"planned", "desired", "foreign"}]
  /\ cp \in [Surfaces -> {"none", "submitting", "verified"}]
  /\ pc \in {"idle", "plan", "items", "surface", "sent", "accepted", "rejected", "done"}
  /\ stage \in {"recovery preflight", "recovery", "preflight", "final"}
  /\ completed \in BOOLEAN /\ granted \in BOOLEAN /\ dropped \in BOOLEAN
  /\ read \subseteq plan.configured /\ settled \subseteq plan.configured
  /\ moved \subseteq Surfaces /\ late \subseteq Surfaces
  /\ applied \in [Surfaces -> Nat]
  /\ edits \in Nat /\ faults \in Nat

Untouched == edits = 0

(* Access is never cut off: while nobody else edits, whatever crashed, was  *)
(* lost or is late, inbound Deny is live only with every configured         *)
(* exception live, and exceptions are given up only once inbound is Allow.  *)
NeverLockedOut ==
  Untouched /\ "policy" \in plan.update =>
    \A s \in plan.configured \cap Inbound :
      /\ plan.inbound = "tighten" /\ Matches("policy") => Matches(s)
      /\ plan.inbound = "relax" /\ s \in plan.update /\ Matches(s) => Matches("policy")

(* Outbound rules are in place only where outbound Deny is: their API is    *)
(* unavailable before.                                                      *)
RulesAfterDeny ==
  Untouched /\ plan.outbound = "tighten" =>
    \A s \in plan.configured \cap Outbound : Matches(s) => Matches("policy")

(* Over all reruns a replacement takes effect at most once, and never       *)
(* without a record of the intent: a rerun may trust an empty checkpoint.   *)
AppliedOnce ==
  \A s \in Surfaces :
    /\ applied[s] <= 1 /\ (s \in late => applied[s] = 0)
    /\ applied[s] > 0 \/ s \in late => cp[s] # "none"

(* A completed apply leaves every surface as desired and nothing in flight. *)
CompletedIsDone ==
  Untouched /\ completed => late = {} /\ \A s \in plan.configured : Matches(s)

(* A PUT under If-Match replaces nothing but the state that was approved.   *)
ReplacesApproved ==
  [][\A s \in Tagged : applied'[s] # applied[s] => live[s] = "planned"]_vars

(* A run without its safeguards gets to no item and no surface while one is *)
(* still to be changed or confirmed - whatever an earlier run began.        *)
RevokedMeansStopped ==
  [][~granted /\ (\E s \in plan.update : cp[s] # "verified")
       => pc' \notin {"items", "surface", "sent"}]_vars

(* Rerun with its safeguards, an apply completes unless a request was lost  *)
(* for good or somebody else edited the workspace.                          *)
Converges == <>(pc = "done" \/ dropped \/ edits > 0)
-----------------------------------------------------------------------------
(* The inductive invariant.                                                 *)
Applying == {"surface", "sent", "accepted", "rejected"}

(* The order holds across reruns: a surface is approached only when all     *)
(* that go before it are verified.                                          *)
OrderInv ==
  /\ \A s \in settled : cp[s] = "verified"
  /\ \A s, t \in plan.configured : Rank(t) < Rank(s) /\ cp[s] # "none" => cp[t] = "verified"
  /\ completed => \A s \in plan.configured : cp[s] = "verified"

(* Only recorded intents are ever sent, and a request that is out is the    *)
(* only one of its surface.                                                 *)
IntentInv ==
  /\ AppliedOnce
  /\ \A s \in Surfaces : applied[s] > 0 \/ s \in late => s \in plan.update
  /\ pc \in {"sent", "accepted", "rejected"} =>
       \A s \in Surfaces : Turn(s) => cp[s] = "submitting" /\ s \in plan.update
  /\ pc \in {"sent", "rejected"} =>
       \A s \in Surfaces : Turn(s) => applied[s] = 0 /\ s \notin late

(* Left alone, the workspace is what was approved and executed; what was    *)
(* verified is there.                                                       *)
LiveInv ==
  Untouched => \A s \in Surfaces :
    /\ Matches(s) <=> s \notin plan.update \/ applied[s] > 0
    /\ s \in plan.configured /\ cp[s] = "verified" => Matches(s)

(* An ETag that still holds names the approved state.                       *)
FreshInv ==
  /\ pc \in Applying => read = plan.configured
  /\ \A s \in Tagged :
       /\ s \in late => live[s] = "planned"
       /\ s \in read \ moved /\ (cp[s] = "none" \/ (pc \in {"sent", "rejected"} /\ Turn(s)))
            => live[s] = Observed(s)

(* Past the preflight the safeguards are there or nothing needs them.       *)
GrantInv ==
  pc \in Applying \cup {"items"} \/ (pc = "plan" /\ stage \in {"recovery", "final"}) =>
    SurfacesAuthorized

NetworkInv ==
  /\ TypeOK /\ OrderInv /\ IntentInv /\ LiveInv /\ FreshInv /\ GrantInv
=============================================================================
