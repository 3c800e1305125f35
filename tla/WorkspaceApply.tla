--------------------------- MODULE WorkspaceApply ---------------------------
(***************************************************************************)
(* The managed workspace of a deployment: planned by name or by ID         *)
(* (src/src/fabric/workspace.ts), created or updated and put on its        *)
(* capacity under a checkpoint (src/src/workspace-apply.ts).  A create, a  *)
(* metadata PATCH and a capacity assignment are each recorded before they  *)
(* are sent; what became of one whose reply was lost is only ever read     *)
(* from the service.                                                       *)
(*                                                                         *)
(* One step is one read, one request sent or one reply taken, with the     *)
(* checkpoint writes that go with it.  Case-insensitive name collisions    *)
(* and unsupported workspace types block like a second workspace of the    *)
(* name, and are not told apart from one.                                  *)
(***************************************************************************)
EXTENDS ApplyRun, FiniteSets

CONSTANTS
  FirstSpaces, \* what the first of them may be like
  MaxSpaces,   \* bound: workspaces that may come to be
  SpaceGrants  \* sets of safeguards a run may be given

Safeguards == {"create", "update", "capacity"}

ASSUME WorkspaceBounds == MaxSpaces \in Nat \ {0} /\ SpaceGrants \subseteq SUBSET Safeguards

Ids == 1..MaxSpaces
NoId == 0

VARIABLES
  wanted,      \* the manifest: an explicit ID or none, a capacity or none
  spaces,      \* the workspaces the caller can see
  spacesLate,  \* requests the service may yet execute
  spaceCp,     \* checkpoint.workspace
  approvedSpace, currentSpace,  \* the approved plan, and that of this run
  wid,         \* the workspace in hand
  lenient,     \* polling tolerates another capacity while in progress
  spaceFlags,  \* the safeguards of the run
  created,     \* workspaces the POSTs of this plan made
  assigned,    \* capacity assignments of this plan that were executed
  seen,        \* the PATCH last sent was seen in effect
  blind        \* a PATCH was sent again although nobody had seen the first

spaceService == <<spaces, spacesLate, created, assigned>>
spacePlans   == <<wanted, approvedSpace>>
spaceRun     == <<wid, lenient>>
spaceReads   == <<currentSpace, spaceFlags>>
patchGhosts  == <<seen, blind>>
spaceVars == <<spaceService, spacePlans, spaceCp, spaceRun, spaceReads, patchGhosts>>

Metas     == {"desired", "described", "renamed"}
Caps      == {"desired", "other"}
Progresses == {"Completed", "InProgress", "Failed"}
Space     == [meta : Metas, cap : Caps, prog : Progresses]
Gone      == [meta |-> "gone", cap |-> "other", prog |-> "Completed"]
ASSUME FirstSpacesAssumption == FirstSpaces \subseteq Space \cup {Gone}
Phases    == {"create-submitting", "create-accepted", "metadata-update-submitting",
              "metadata-update-accepted", "capacity-assignment-submitting",
              "capacity-assignment-accepted", "completed"}
NoRecord  == [phase |-> "none", id |-> NoId]
Metadata(w) == spaces[w].meta = "desired"
OnCapacity(w) == spaces[w].cap = "desired" /\ spaces[w].prog = "Completed"
Exists(w) == spaces[w] # Gone
Named == {w \in Ids : spaces[w].meta \in {"desired", "described"}}

(* What hashObservedWorkspace covers: not the progress of an assignment.    *)
ObservedSpace(w) == [id |-> w, meta |-> spaces[w].meta, cap |-> spaces[w].cap]

(* planCapacity.                                                            *)
CapacityBlocked(w) ==
  /\ wanted.capacity
  /\ IF spaces[w].cap = "desired" THEN spaces[w].prog = "Failed"
                                  ELSE spaces[w].prog = "InProgress"
AssignmentRequired(w) ==
  wanted.capacity /\ spaces[w].cap # "desired" /\ spaces[w].prog # "InProgress"
PollRequired(w) ==
  wanted.capacity /\ spaces[w].cap = "desired" /\ spaces[w].prog = "InProgress"

SpacePlan(action, observed, metadata, assign) ==
  [action |-> action, observed |-> observed, metadata |-> metadata, assign |-> assign]
NoSpace == [id |-> NoId, meta |-> "gone", cap |-> "other"]

PlanExisting(w) ==
  LET action == IF CapacityBlocked(w) THEN "blocked"
                ELSE IF ~Metadata(w) \/ AssignmentRequired(w) \/ PollRequired(w)
                     THEN "update" ELSE "no-op"
  IN  SpacePlan(action, ObservedSpace(w), ~Metadata(w), AssignmentRequired(w))

(* WorkspaceAdapter.plan: by ID when there is one, else by its exact name.  *)
PlanWorkspace ==
  LET none(action) == SpacePlan(action, NoSpace, TRUE, wanted.capacity)
  IN  IF wanted.id # NoId
      THEN IF Exists(wanted.id) THEN PlanExisting(wanted.id) ELSE none("blocked")
      ELSE CASE Cardinality(Named) = 0 -> none("create")
             [] Cardinality(Named) = 1 -> PlanExisting(CHOOSE w \in Named : TRUE)
             [] OTHER                  -> none("blocked")

CreatesSpace == approvedSpace.action = "create"

SpaceInit ==
  /\ wanted \in [id : {NoId, 1}, capacity : BOOLEAN]
  /\ spaces \in {[w \in Ids |-> IF w = 1 THEN first ELSE Gone] : first \in FirstSpaces}
  /\ approvedSpace = PlanWorkspace /\ currentSpace = approvedSpace
  /\ spacesLate = {} /\ created = 0 /\ assigned = 0
  /\ spaceCp = NoRecord
  /\ wid = NoId /\ lenient = FALSE /\ spaceFlags = {}
  /\ seen = FALSE /\ blind = FALSE
-----------------------------------------------------------------------------
RecordSpace(phase, id) == spaceCp' = [phase |-> phase, id |-> id]
KeepSpace == UNCHANGED spaceCp
ClearSpace == spaceCp' = NoRecord

(* A run or rerun plans afresh, with the safeguards its inputs grant.       *)
ReadSpacePlan ==
  /\ currentSpace' = PlanWorkspace
  /\ spaceFlags' \in SpaceGrants
  /\ wid' = NoId /\ lenient' = FALSE
  /\ UNCHANGED <<spacePlans, spaceCp, spaceService, patchGhosts>>

SpaceAuthorized ==
  /\ CreatesSpace => "create" \in spaceFlags
  /\ approvedSpace.action = "update" /\ approvedSpace.metadata => "update" \in spaceFlags
  /\ approvedSpace.assign => "capacity" \in spaceFlags

SpaceDrifted == currentSpace # approvedSpace

(* A create whose workspace is recorded must find that workspace by name.   *)
OtherWorkspace ==
  /\ CreatesSpace /\ spaceCp.id # NoId /\ currentSpace.observed.id # NoId
  /\ spaceCp.id # currentSpace.observed.id

(* applyManagedWorkspace: where an attempt begins or an interrupted one is  *)
(* taken up.                                                                *)
Route ==
  IF spaceCp.phase = "none"
  THEN CASE CreatesSpace -> "create" [] approvedSpace.action = "update" -> "update" [] OTHER -> "verify"
  ELSE CASE spaceCp.phase = "completed" -> "verify"
         [] spaceCp.phase # "completed" /\ CreatesSpace -> "resume create"
         [] OTHER -> "resume update"

PollOnly ==
  approvedSpace.action = "update" /\ ~approvedSpace.metadata /\ ~approvedSpace.assign /\ wanted.capacity

ApplyManagedWorkspace ==
  /\ pc = "workspace"
  /\ IF /\ approvedSpace.action \in {"create", "update", "no-op"}
        /\ SpaceAuthorized
        /\ IF spaceCp.phase = "none" THEN ~SpaceDrifted ELSE ~OtherWorkspace
     THEN /\ Goto(Route)
          /\ wid' = IF spaceCp.phase = "none" THEN approvedSpace.observed.id ELSE spaceCp.id
          /\ IF spaceCp.phase = "none" /\ PollOnly
             THEN RecordSpace("capacity-assignment-accepted", wid') ELSE KeepSpace
     ELSE Fail /\ KeepSpace /\ UNCHANGED wid
  /\ currentSpace' = approvedSpace /\ spaceFlags' = {}  \* not looked at again
  /\ UNCHANGED <<spacePlans, lenient, spaceService, patchGhosts>> /\ NoFault
-----------------------------------------------------------------------------
(* The three requests.  A request is recorded, sent, and then answered,     *)
(* definitively rejected, or out of hand.                                   *)

SubmittingPhase(request) ==
  CASE request = "create" -> "create-submitting"
    [] request = "patch"  -> "metadata-update-submitting"
    [] request = "assign" -> "capacity-assignment-submitting"
AcceptedPhase(request) ==
  CASE request = "create" -> "create-accepted"
    [] request = "patch"  -> "metadata-update-accepted"
    [] request = "assign" -> "capacity-assignment-accepted"
Assigning == spaceCp.phase \in {SubmittingPhase("assign"), AcceptedPhase("assign")}
Patching  == spaceCp.phase \in {SubmittingPhase("patch"), AcceptedPhase("patch")}
SpaceRequests == {"create", "patch", "assign"}
SpaceSent(request) == CASE request = "create" -> "create sent"
                   [] request = "patch"  -> "patch sent"
                   [] request = "assign" -> "assign sent"

\* Mutant: a request is recorded when its reply is in.
SendSpaceUnrecorded(request) ==
  /\ pc = request
  /\ Goto(SpaceSent(request))
  /\ UNCHANGED <<spacePlans, spaceReads, spaceCp, spaceRun, spaceService, patchGhosts>> /\ NoFault

SendSpace(request) ==
  /\ pc = request
  /\ RecordSpace(SubmittingPhase(request), IF request = "create" THEN NoId ELSE wid)
  /\ blind' = (blind \/ (request = "patch" /\ Patching /\ ~seen))
  /\ seen' = (seen /\ request # "patch")
  /\ Goto(SpaceSent(request))
  /\ UNCHANGED <<spacePlans, spaceReads, spaceRun, spaceService>> /\ NoFault

NewSpace == [meta |-> "desired", cap |-> "other", prog |-> "Completed"]
FreeIds == {w \in Ids : ~Exists(w)}
NewId == CHOOSE w \in FreeIds : TRUE

(* The service executes a request: a create makes one more workspace, an    *)
(* assignment begins.                                                       *)
ExecuteOnSpace(request, w) ==
  CASE request = "create" ->
         /\ FreeIds # {}
         /\ spaces' = [spaces EXCEPT ![NewId] = NewSpace]
         /\ created' = created + 1 /\ UNCHANGED assigned
    [] request = "patch" ->
         /\ spaces' = [spaces EXCEPT ![w].meta = "desired"]
         /\ UNCHANGED <<created, assigned>>
    [] request = "assign" ->
         /\ \E cap \in {"desired", spaces[w].cap} :
              spaces' = [spaces EXCEPT ![w].cap = cap, ![w].prog = "InProgress"]
         /\ assigned' = assigned + 1 /\ UNCHANGED created

AfterAccept(request) ==
  CASE request = "create" -> IF wanted.capacity THEN "assign" ELSE "verify"
    [] request = "patch"  -> "capacity"
    [] request = "assign" -> "poll"

TakeSpaceAnswer(request) ==
  /\ pc = SpaceSent(request)
  /\ ExecuteOnSpace(request, wid)
  /\ wid' = IF request = "create" THEN NewId ELSE wid
  /\ lenient' = (lenient \/ request = "assign")
  /\ RecordSpace(AcceptedPhase(request), wid')
  /\ Goto(AfterAccept(request))
  /\ UNCHANGED <<spacePlans, spaceReads, spacesLate, patchGhosts>> /\ NoFault

(* What a definitive rejection leaves: a rejected assignment falls back to  *)
(* what was accepted before it.                                             *)
RejectedSpaceRecord(request) ==
  IF request = "assign"
  THEN CASE CreatesSpace           -> RecordSpace("create-accepted", wid)
         [] ~CreatesSpace /\ approvedSpace.metadata -> RecordSpace("metadata-update-accepted", wid)
         [] OTHER             -> ClearSpace
  ELSE ClearSpace

TakeSpaceRejection(request) ==
  /\ pc = SpaceSent(request)
  /\ RejectedSpaceRecord(request)
  /\ Fail /\ Fault
  /\ UNCHANGED <<spacePlans, spaceReads, spaceRun, spaceService, patchGhosts>>

(* Executed, to be executed late, or lost for good.                         *)
SpaceOutOfHand(request) ==
  \/ ExecuteOnSpace(request, wid) /\ UNCHANGED spacesLate /\ Fault
  \/ /\ spacesLate' = spacesLate \cup {[request |-> request, id |-> wid]}
     /\ UNCHANGED <<spaces, created, assigned>> /\ Fault
  \/ UNCHANGED spaceService /\ Loss

(* No reply, 408, 429 or 5xx, or the runner dies waiting: the record stays. *)
LoseSpaceReply(request) ==
  /\ pc = SpaceSent(request)
  /\ SpaceOutOfHand(request)
  /\ Fail /\ KeepSpace
  /\ UNCHANGED <<spacePlans, spaceReads, spaceRun, patchGhosts>>
-----------------------------------------------------------------------------
(* ensureDesiredCapacity: what to do about the capacity of a workspace just *)
(* read.  A capacity somebody else is assigning is left alone.              *)
Capacity(w, fresh) ==
  IF spaces[w].cap = "desired"
  THEN CASE spaces[w].prog = "Completed"  -> "verify"
         [] spaces[w].prog = "InProgress" -> "poll"
         [] OTHER                         -> "idle"
  ELSE IF spaces[w].prog # "InProgress" /\ fresh THEN "assign" ELSE "idle"

(* An assignment already sent is waited for or found complete, never sent   *)
(* again.                                                                   *)
TakeUpAssignment(w) ==
  CASE spaces[w].prog = "InProgress" -> "poll"
    [] OnCapacity(w)                 -> "verify"
    [] OTHER                         -> "idle"

ReadSpace == UNCHANGED <<spacePlans, spaceReads, spaceService>> /\ NoFault

(* resumeCreate: the recorded workspace, or the only one of that name.      *)
ResumeCreate ==
  /\ pc = "resume create"
  /\ LET w == IF spaceCp.id # NoId THEN spaceCp.id ELSE CHOOSE v \in Named : TRUE
     IN  IF /\ spaceCp.id = NoId => Cardinality(Named) = 1
            /\ w \in Ids
            /\ Metadata(w)
         THEN /\ wid' = w
              /\ Goto(IF ~wanted.capacity THEN "verify"
                      ELSE IF Assigning THEN TakeUpAssignment(w)
                      ELSE Capacity(w, TRUE))
              /\ lenient' = Assigning
         ELSE Fail /\ UNCHANGED <<wid, lenient>>
  /\ KeepSpace /\ UNCHANGED patchGhosts /\ ReadSpace

(* resumeUpdate: a PATCH of which nothing shows is not sent again.          *)
ResumeUpdate ==
  /\ pc = "resume update"
  /\ IF ~Exists(wid) \/ (Patching /\ ~Metadata(wid))
     THEN Fail /\ UNCHANGED <<lenient, seen>>
     ELSE /\ Goto(IF Assigning THEN TakeUpAssignment(wid) ELSE "update")
          /\ lenient' = Assigning
          /\ seen' = (seen \/ Patching)
  /\ KeepSpace /\ UNCHANGED <<wid, blind>> /\ ReadSpace

(* update, up to the PATCH: what differs from the manifest is replaced if   *)
(* the plan was to.                                                         *)
UpdateSpace ==
  /\ pc = "update"
  /\ Goto(CASE ~Exists(wid) \/ (~Metadata(wid) /\ ~approvedSpace.metadata) -> "idle"
            [] Exists(wid) /\ ~Metadata(wid) /\ approvedSpace.metadata -> "patch"
            [] OTHER -> IF wanted.capacity THEN Capacity(wid, approvedSpace.assign) ELSE "verify")
  /\ KeepSpace /\ UNCHANGED <<wid, lenient, patchGhosts>> /\ ReadSpace

(* update, after the PATCH.                                                 *)
UpdateCapacity ==
  /\ pc = "capacity"
  /\ Goto(CASE ~Exists(wid) -> "idle"
            [] Exists(wid) /\ wanted.capacity -> Capacity(wid, approvedSpace.assign)
            [] OTHER -> "verify")
  /\ KeepSpace /\ UNCHANGED <<wid, lenient, patchGhosts>> /\ ReadSpace

(* pollCapacityAssignment: one answer that ends the wait.                   *)
PollCapacity ==
  /\ pc = "poll"
  /\ \/ OnCapacity(wid) /\ Goto("verify")
     \/ /\ \/ ~Exists(wid)
           \/ spaces[wid].prog = "Failed"
           \/ spaces[wid].prog = "Completed" /\ spaces[wid].cap # "desired"
           \/ spaces[wid].prog = "InProgress" /\ spaces[wid].cap # "desired" /\ ~lenient
        /\ Fail
  /\ lenient' = FALSE /\ KeepSpace /\ UNCHANGED <<wid, patchGhosts>> /\ ReadSpace

(* verify and completeWorkspace.                                            *)
VerifiedSpace(w) == Exists(w) /\ Metadata(w) /\ (wanted.capacity => OnCapacity(w))

VerifySpace ==
  /\ pc = "verify"
  /\ IF VerifiedSpace(wid) THEN RecordSpace("completed", wid) /\ Goto("workspace done")
                      ELSE KeepSpace /\ Fail
  /\ UNCHANGED <<wid, lenient, patchGhosts>> /\ ReadSpace
-----------------------------------------------------------------------------
ExecuteSpaceLate(l) ==
  /\ l \in spacesLate /\ spacesLate' = spacesLate \ {l}
  /\ ExecuteOnSpace(l.request, l.id)
  /\ UNCHANGED <<spacePlans, spaceReads, spaceCp, pc, spaceRun, patchGhosts>> /\ NoFault

(* Fabric completes an assignment, or does not.                             *)
FinishAssignment(w) ==
  /\ spaces[w].prog = "InProgress"
  /\ \/ spaces' = [spaces EXCEPT ![w].cap = "desired", ![w].prog = "Completed"] /\ NoFault
     \/ spaces[w].cap = "other" /\ spaces' = [spaces EXCEPT ![w].prog = "Completed"] /\ Loss
     \/ spaces' = [spaces EXCEPT ![w].prog = "Failed"] /\ Loss
  /\ UNCHANGED <<spacesLate, created, assigned, spacePlans, spaceReads, spaceCp, pc, spaceRun,
                 patchGhosts>>

(* Somebody else edits a workspace, or makes one.                           *)
EditSpace(w) ==
  /\ Foreign
  /\ \/ /\ Exists(w)
        /\ \/ \E meta \in Metas : spaces' = [spaces EXCEPT ![w].meta = meta]
           \/ spaces' = [spaces EXCEPT ![w].cap = "other", ![w].prog = "Completed"]
     \/ ~Exists(w) /\ spaces' = [spaces EXCEPT ![w] = NewSpace]
  /\ UNCHANGED <<spacesLate, created, assigned, spacePlans, spaceReads, spaceCp, pc, spaceRun,
                 patchGhosts>>

AskSpace == \E q \in SpaceRequests :
  SendSpace(q) \/ TakeSpaceAnswer(q) \/ TakeSpaceRejection(q) \/ LoseSpaceReply(q)
ApplySpace ==
  \/ ApplyManagedWorkspace \/ ResumeCreate \/ ResumeUpdate
  \/ UpdateSpace \/ UpdateCapacity \/ PollCapacity \/ VerifySpace
SpaceServes == (\E l \in spacesLate : ExecuteSpaceLate(l)) \/ \E w \in Ids : FinishAssignment(w)
-----------------------------------------------------------------------------
SpaceTypeOK ==
  /\ wanted \in [id : {NoId, 1}, capacity : BOOLEAN]
  /\ spaces \in [Ids -> Space \cup {Gone}]
  /\ spacesLate \subseteq [request : SpaceRequests, id : Ids \cup {NoId}]
  /\ spaceCp \in [phase : Phases \cup {"none"}, id : Ids \cup {NoId}]
  /\ wid \in Ids \cup {NoId} /\ lenient \in BOOLEAN /\ spaceFlags \subseteq Safeguards
  /\ created \in Nat /\ assigned \in Nat /\ seen \in BOOLEAN /\ blind \in BOOLEAN

(* Under one approved plan the requests of all its runs make at most one    *)
(* workspace and begin at most one capacity assignment, whatever became of  *)
(* the replies (resumeCreate, resumeUpdate: "will not be redispatched").    *)
WorkspaceOnce == created <= 1 /\ assigned <= 1

(* A metadata PATCH is sent again only after somebody saw the one before in *)
(* effect (resumeUpdate, "ambiguous recovery state").                       *)
PatchNotBlind == ~blind

(* Whatever the service executed for this plan, or may yet execute, the     *)
(* checkpoint speaks of it: no crash between a request and its reply leaves *)
(* a workspace or an assignment nobody knows of.                            *)
WorkspaceTracked ==
  /\ created > 0 \/ (\E l \in spacesLate : l.request = "create") => spaceCp.phase # "none"
  /\ assigned > 0 \/ (\E l \in spacesLate : l.request = "assign") =>
       spaceCp.phase \in {SubmittingPhase("assign"), AcceptedPhase("assign"), "completed"}
=============================================================================
