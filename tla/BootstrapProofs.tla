--------------------------- MODULE BootstrapProofs ---------------------------
(***************************************************************************)
(* The bootstrap of a workspace and of its identity, proved for any number *)
(* of workspaces, principals, target workspaces, faults, edits and runs:   *)
(* every request is recorded before it leaves and leaves once, and items   *)
(* are touched only in a workspace that is ready for them.                 *)
(***************************************************************************)
EXTENDS Bootstrap, FiniteSetTheorems, TLAPS

SpaceSteps == {"workspace", "create", "create sent", "patch", "patch sent", "assign", "assign sent",
               "resume create", "resume update", "update", "capacity", "poll", "verify", "workspace done"}
RoleSteps == {"roles", "role sent", "role created"}
ProvisionSteps == {"provision", "provision sent", "find identity", "operation", "read provisioned",
                   "verify provisioned"}
IdentitySteps == {"identity preflight", "identity", "verify identity", "identity done"}
                 \cup RoleSteps \cup ProvisionSteps

(* What the approved plan may say of the workspace, and of the identity.    *)
SpacePlanned ==
  /\ approvedSpace.action \in {"create", "update", "no-op", "blocked"}
  /\ approvedSpace.observed.id \in Ids \cup {NoId}
  /\ approvedSpace.action \in {"update", "no-op"} => approvedSpace.observed.id \in Ids
  /\ CreatesSpace => approvedSpace.observed.id = NoId
  /\ approvedSpace.metadata \in BOOLEAN /\ approvedSpace.assign \in BOOLEAN
PlannedRole(t) ==
  \/ approvedIdentity.roles[t].action = "create" /\ approvedIdentity.roles[t].managed = {}
  \/ /\ approvedIdentity.roles[t].action = "no-op"
     /\ \E a \in approvedIdentity.roles[t].managed :
          approvedIdentity.roles[t].managed = {a} /\ Fits(a, approvedIdentity.who)
IdentityPlanned ==
  /\ approvedIdentity.who \in Principals \cup {NoOne}
  /\ ProvisionsIdentity <=> approvedIdentity.who = NoOne
  /\ approvedIdentity.action \notin {"create", "blocked"} => \A t \in asked : PlannedRole(t)

(* A workspace that anything speaks of is there.                            *)
Known(w) == w = NoId \/ (w \in Ids /\ Exists(w))
SpacesKnown ==
  /\ Known(wid) /\ Known(approvedSpace.observed.id) /\ Known(spaceCp.id)
  /\ \A l \in spacesLate : Known(l.id)

(* No request leaves twice: what was executed, what is out and what is yet  *)
(* to be sent exclude each other, over all reruns of a plan.                *)
Out(request) == \E l \in spacesLate : l.request = request
SpaceRequestsInv ==
  /\ \A l, m \in spacesLate : l.request = m.request /\ l.request # "patch" => l = m
  /\ \A l \in spacesLate : /\ l.request = "create" => l.id = NoId
                           /\ l.request = "assign" => l.id \in Ids
  /\ created \in {0, 1} /\ (created = 1 => ~Out("create"))
  /\ assigned \in {0, 1} /\ (assigned = 1 => ~Out("assign"))
  /\ pc \in {"create", "create sent"} \/ spaceCp.phase = "none" => created = 0 /\ ~Out("create")
  /\ ~CreatesSpace => created = 0 /\ ~Out("create")
  /\ pc \in {"assign", "assign sent"} \/ (~Assigning /\ spaceCp.phase # "completed") =>
       assigned = 0 /\ ~Out("assign")

(* What the record and the run say at each step.                            *)
SpaceCursor ==
  /\ pc \in SpaceSteps \ {"workspace"} => approvedSpace.action # "blocked"
  /\ pc = "create" => spaceCp.phase = "none"
  /\ pc \in {"create", "create sent"} => wid = NoId
  /\ pc \in {"create", "create sent", "resume create"} => CreatesSpace
  /\ pc \in {"update", "patch", "patch sent", "capacity", "resume update"} => ~CreatesSpace
  /\ pc = "create sent" => spaceCp.phase = "create-submitting"
  /\ pc = "patch sent"  => spaceCp.phase = "metadata-update-submitting"
  /\ pc = "assign sent" => spaceCp.phase = "capacity-assignment-submitting"
  /\ pc = "capacity"    => spaceCp.phase = "metadata-update-accepted"
  /\ pc \in {"resume create", "resume update"} => spaceCp.phase \notin {"none", "completed"}
  /\ pc \in {"update", "patch", "assign"} => spaceCp.phase # "completed"
  /\ pc \in {"patch", "assign"} => ~Assigning
  /\ pc = "update" /\ Assigning => ~approvedSpace.metadata /\ ~approvedSpace.assign
  /\ pc \in {"assign", "assign sent"} => wid \in Ids
  /\ pc \in {"update", "patch"} /\ Patching => seen
  /\ ~CreatesSpace /\ spaceCp.phase # "none" => spaceCp.id = approvedSpace.observed.id
  /\ ~CreatesSpace /\ pc \in SpaceSteps \ {"workspace"} => wid = approvedSpace.observed.id

(* A capacity about to be assigned is not assigned or being assigned yet,   *)
(* unless somebody else has a hand in it.                                   *)
Unassigned(w) == spaces[w].cap = "other" /\ spaces[w].prog # "InProgress"
AssignInv ==
  ~edited => /\ \A l \in spacesLate : l.request = "assign" => Unassigned(l.id)
             /\ pc \in {"assign", "assign sent"} => Unassigned(wid)

(* The workspace stays as it was verified until the items are touched.      *)
AfterSpace == {"workspace done", "items"} \cup (IdentitySteps \ {"identity preflight"})
ReadyInv ==
  /\ pc \in AfterSpace /\ ~CreatesSpace =>
       /\ approvedSpace.action # "blocked" /\ wid = approvedSpace.observed.id
       /\ ~edited => VerifiedSpace(wid)
  /\ pc \in AfterSpace \ {"workspace done"} => ~CreatesSpace

SpaceInv ==
  /\ SpaceTypeOK /\ edited \in BOOLEAN /\ ~blind
  /\ SpacePlanned /\ SpacesKnown /\ SpaceRequestsInv /\ SpaceCursor /\ AssignInv /\ ReadyInv

(* Likewise for the roles: one request for each, which finds the roles as   *)
(* they were approved and leaves one that fits.                             *)
RoleOut(t) == \E l \in identityLate : l.request = "role" /\ l.target = t
RoleRequestInv(t) ==
  /\ \A l, m \in identityLate :
       l.request = "role" /\ m.request = "role" /\ l.target = t /\ m.target = t => l = m
  /\ given[t] \in {0, 1} /\ (given[t] = 1 => ~RoleOut(t))
  /\ (pc = "role sent" /\ RoleTurn(t)) \/ roleCp[t].phase = "none" => given[t] = 0 /\ ~RoleOut(t)
  /\ (pc = "role sent" /\ RoleTurn(t)) \/ given[t] = 1 \/ RoleOut(t) =>
       /\ t \in asked /\ ~ProvisionsIdentity
       /\ approvedIdentity.action # "blocked" /\ approvedIdentity.roles[t].action = "create"
RoleRequestsInv == \A t \in Targets : RoleRequestInv(t)
LateRolesTyped ==
  \A l \in identityLate :
    \/ l = Pending("provision", 0, NoOne)
    \/ /\ l = Pending("role", l.target, l.who) /\ l.target \in Targets /\ l.who \in Principals
       /\ ~ProvisionsIdentity => l.who = approvedIdentity.who
RolesInv ==
  ~edited /\ ~ProvisionsIdentity =>
    /\ identity = approvedIdentity.who
    /\ \A t \in asked : IF given[t] = 0 THEN Managed(t, identity) = approvedIdentity.roles[t].managed
                        ELSE \E a \in roles[t] : Managed(t, identity) = {a} /\ Fits(a, identity)

IdentityCursor ==
  /\ pc \in ProvisionSteps => ProvisionsIdentity
  /\ pc \in RoleSteps \cup {"verify identity"} => ~ProvisionsIdentity /\ approvedIdentity.action # "blocked"
  /\ pc \in RoleSteps => who = approvedIdentity.who
  /\ ProvisionsIdentity => settled = {}
  /\ ~edited => \A t \in settled : Managed(t, identity) # {}
  /\ pc = "identity done" /\ ~ProvisionsIdentity =>
       approvedIdentity.action # "blocked" /\ settled = asked
  /\ pc \in {"role sent", "role created"} =>
       \A t \in Targets : RoleTurn(t) => roleCp[t].phase # "none"
  /\ pc = "identity done" => identity # NoOne /\ ~RolesAwaitReplan
  /\ pc = "verify provisioned" => provisionCp.phase = "verified"
  /\ provisionCp.phase = "verified" => provisionCp.who # NoOne

IdentityInv ==
  /\ IdentityTypeOK /\ edited \in BOOLEAN
  /\ DOMAIN roles = Targets /\ \A t \in Targets : IsFiniteSet(roles[t])
  /\ provisioned \in {0, 1} /\ (provisioned = 1 => identity # NoOne)
  /\ ~ProvisionsIdentity => identity # NoOne
  /\ IdentityPlanned /\ RoleRequestsInv /\ LateRolesTyped /\ RolesInv /\ IdentityCursor

(* How the two follow each other.                                           *)
JoinInv ==
  /\ pc \in {"idle", "replan", "replan required", "succeeded", "items"} \cup SpaceSteps \cup IdentitySteps
  /\ pc \in IdentitySteps => managesIdentity
  /\ pc = "identity preflight" => ~CreatesSpace
  /\ pc = "items" /\ managesIdentity => identity # NoOne /\ ~RolesAwaitReplan
  /\ touched => ~CreatesSpace /\ (managesIdentity => ~RolesAwaitReplan)

IInv == SpaceInv /\ IdentityInv /\ JoinInv
-----------------------------------------------------------------------------
(* What executing a request does to the workspaces.                         *)
LEMMA Executed ==
  ASSUME SpaceTypeOK, NEW q \in SpaceRequests, NEW w, Known(w), ExecuteOnSpace(q, w)
  PROVE  /\ spaces' \in [Ids -> Space \cup {Gone}]
         /\ \A v \in Ids : Exists(v) => Exists(v)'
         /\ \A v \in Ids : Exists(v) /\ Metadata(v) => Metadata(v)'
         /\ \A v \in Ids : Exists(v) /\ (q # "assign" \/ v # w) =>
              spaces'[v].cap = spaces[v].cap /\ spaces'[v].prog = spaces[v].prog
         /\ created' = (IF q = "create" THEN created + 1 ELSE created)
         /\ assigned' = (IF q = "assign" THEN assigned + 1 ELSE assigned)
         /\ q = "create" => NewId \in Ids /\ spaces'[NewId] = NewSpace
<1>1. spaces \in [Ids -> Space \cup {Gone}] /\ created \in Nat /\ assigned \in Nat
  BY DEF SpaceTypeOK
<1>2. CASE q = "create"
  <2>1. NewId \in FreeIds /\ spaces' = [spaces EXCEPT ![NewId] = NewSpace]
    BY <1>2 DEF ExecuteOnSpace, NewId, FreeIds
  <2>2. NewId \in Ids /\ ~Exists(NewId)
    BY <2>1 DEF FreeIds
  <2>3. NewSpace \in Space
    BY DEF NewSpace, Space, Metas, Caps, Progresses
  <2>4. spaces'[NewId] = NewSpace /\ \A v \in Ids : v # NewId => spaces'[v] = spaces[v]
    BY <1>1, <2>1, <2>2
  <2>5. spaces' \in [Ids -> Space \cup {Gone}]
    BY <1>1, <2>1, <2>3
  <2> QED BY <1>1, <1>2, <2>2, <2>4, <2>5 DEF ExecuteOnSpace, Exists, Metadata
<1>3. CASE q # "create" /\ w \notin Ids
  <2>1. CASE q = "patch"
    BY <1>1, <1>3, <2>1 DEF ExecuteOnSpace, Exists, Metadata
  <2>2. CASE q = "assign"
    <3>1. PICK cap \in {"desired", spaces[w].cap} :
            spaces' = [spaces EXCEPT ![w] = [spaces[w] EXCEPT !.cap = cap, !.prog = "InProgress"]]
      BY <2>2 DEF ExecuteOnSpace
    <3>2. spaces' = spaces
      BY <1>1, <1>3, <3>1
    <3> QED BY <1>1, <1>3, <2>2, <3>2 DEF ExecuteOnSpace, Exists, Metadata
  <2> QED BY <1>3, <2>1, <2>2 DEF SpaceRequests
<1>4. CASE q # "create" /\ w \in Ids
  <2>1. spaces[w] \in Space /\ spaces[w] # Gone
    BY <1>1, <1>4 DEF Known, Exists, NoId, Ids
  <2>2. PICK s \in Space : /\ spaces' = [spaces EXCEPT ![w] = s]
                           /\ spaces[w].meta = "desired" => s.meta = "desired"
                           /\ q # "assign" => s.cap = spaces[w].cap /\ s.prog = spaces[w].prog
    <3>1. CASE q = "patch"
      <4>1. [spaces[w] EXCEPT !.meta = "desired"] \in Space
        BY <2>1 DEF Space, Metas
      <4> QED BY <1>1, <2>1, <3>1, <4>1 DEF ExecuteOnSpace, Space
    <3>2. CASE q = "assign"
      <4>1. PICK cap \in {"desired", spaces[w].cap} :
              spaces' = [spaces EXCEPT ![w] = [spaces[w] EXCEPT !.cap = cap, !.prog = "InProgress"]]
        BY <3>2 DEF ExecuteOnSpace
      <4>2. [spaces[w] EXCEPT !.cap = cap, !.prog = "InProgress"] \in Space
        BY <2>1 DEF Space, Caps, Progresses
      <4> QED BY <2>1, <3>2, <4>1, <4>2 DEF Space
    <3> QED BY <1>4, <3>1, <3>2 DEF SpaceRequests
  <2>3. spaces'[w] = s /\ s # Gone /\ \A v \in Ids : v # w => spaces'[v] = spaces[v]
    BY <1>1, <1>4, <2>2 DEF Space, Gone, Metas
  <2>4. spaces' \in [Ids -> Space \cup {Gone}]
    BY <1>1, <2>2
  <2>5. UNCHANGED created /\ assigned' = (IF q = "assign" THEN assigned + 1 ELSE assigned)
    BY <1>4 DEF ExecuteOnSpace, SpaceRequests
  <2> QED BY <1>1, <1>4, <2>2, <2>3, <2>4, <2>5 DEF Exists, Metadata
<1> QED BY <1>2, <1>3, <1>4
-----------------------------------------------------------------------------
(* A step of the run that only reads the service: what it may change, and   *)
(* that nothing else of the workspace's invariant can be disturbed by it.   *)
SpaceReadsOnly == UNCHANGED <<spaceService, spacePlans, edited, blind>>

LEMMA ReadsKeep ==
  ASSUME SpaceInv, SpaceReadsOnly, SpaceCursor', ReadyInv',
         spaceCp' \in [phase : Phases \cup {"none"}, id : Ids \cup {NoId}],
         wid' \in Ids \cup {NoId}, lenient' \in BOOLEAN, spaceFlags' \subseteq Safeguards,
         seen' \in BOOLEAN, Known(wid'), Known(spaceCp'.id),
         pc' \in {"create", "create sent"} \/ spaceCp'.phase = "none" => created = 0 /\ ~Out("create"),
         pc' \in {"assign", "assign sent"} \/ ~(Assigning \/ spaceCp.phase = "completed")' =>
           assigned = 0 /\ ~Out("assign"),
         ~edited /\ pc' \in {"assign", "assign sent"} => Unassigned(wid')
  PROVE  SpaceInv'
<1>1. SpaceTypeOK' /\ edited' \in BOOLEAN /\ ~blind'
  BY DEF SpaceInv, SpaceTypeOK, SpaceReadsOnly, spaceService, spacePlans
<1>2. SpacePlanned' /\ SpacesKnown'
  BY DEF SpaceInv, SpacePlanned, SpacesKnown, Known, Exists, SpaceReadsOnly, spaceService, spacePlans,
         CreatesSpace
<1>3. SpaceRequestsInv'
  BY DEF SpaceInv, SpaceRequestsInv, Out, SpaceReadsOnly, spaceService, spacePlans, CreatesSpace
<1>4. AssignInv'
  BY DEF SpaceInv, AssignInv, Unassigned, SpaceReadsOnly, spaceService, spacePlans
<1> QED BY <1>1, <1>2, <1>3, <1>4 DEF SpaceInv

(* Where a run takes the workspace up.                                      *)
LEMMA Routed ==
  ASSUME SpaceInv, ApplyManagedWorkspace
  PROVE  SpaceInv'
<1> USE DEF SpaceInv
<1>1. /\ SpaceReadsOnly /\ UNCHANGED <<lenient, seen>> /\ spaceFlags' = {} /\ pc = "workspace"
      /\ \/ pc' = "idle" /\ UNCHANGED <<spaceCp, wid>>
         \/ /\ pc' = Route /\ pc' # "idle" /\ approvedSpace.action \in {"create", "update", "no-op"}
            /\ wid' = (IF spaceCp.phase = "none" THEN approvedSpace.observed.id ELSE spaceCp.id)
            /\ \/ UNCHANGED spaceCp
               \/ /\ spaceCp.phase = "none" /\ PollOnly
                  /\ spaceCp' = [phase |-> "capacity-assignment-accepted", id |-> wid']
  BY DEF ApplyManagedWorkspace, Goto, Fail, NoFault, KeepSpace, RecordSpace, patchGhosts,
         SpaceReadsOnly, Route
<1>2. CASE pc' = "idle" /\ UNCHANGED <<spaceCp, wid>>
  <2>1. SpaceCursor' /\ ReadyInv'
    BY <1>1, <1>2 DEF SpaceCursor, ReadyInv, AfterSpace, IdentitySteps, RoleSteps, ProvisionSteps,
      SpaceSteps, SpaceReadsOnly, spacePlans, CreatesSpace, VerifiedSpace
  <2> QED BY <1>1, <1>2, <2>1, ReadsKeep DEF SpaceTypeOK, SpacesKnown, SpaceRequestsInv, Assigning
<1>3. CASE spaceCp.phase = "none" /\ pc' # "idle"
  <2>1. /\ approvedSpace.action # "blocked" /\ wid' = approvedSpace.observed.id
        /\ \/ CreatesSpace /\ pc' = "create" /\ UNCHANGED spaceCp
           \/ /\ approvedSpace.action = "update" /\ pc' = "update"
              /\ \/ UNCHANGED spaceCp
                 \/ /\ spaceCp' = [phase |-> "capacity-assignment-accepted", id |-> wid']
                    /\ ~approvedSpace.metadata /\ ~approvedSpace.assign
           \/ approvedSpace.action = "no-op" /\ pc' = "verify" /\ UNCHANGED spaceCp
    BY <1>1, <1>3 DEF Route, PollOnly, CreatesSpace
  <2>2. ReadyInv'
    BY <2>1 DEF ReadyInv, AfterSpace, IdentitySteps, RoleSteps, ProvisionSteps
  <2>3. SpaceCursor'
    <3>1. UNCHANGED approvedSpace
      BY <1>1 DEF SpaceReadsOnly, spacePlans
    <3>2. CASE pc' = "create"
      BY <1>3, <2>1, <3>1, <3>2 DEF SpaceCursor, SpacePlanned, CreatesSpace
    <3>3. CASE pc' = "update"
      <4>1. approvedSpace.action = "update" /\ wid' = approvedSpace'.observed.id /\ ~CreatesSpace'
        BY <2>1, <3>1, <3>3 DEF CreatesSpace
      <4>2. CASE UNCHANGED spaceCp
        BY <1>3, <2>1, <3>1, <3>3, <4>1, <4>2 DEF SpaceCursor, Assigning, Patching, SubmittingPhase,
          AcceptedPhase
      <4>3. CASE /\ spaceCp' = [phase |-> "capacity-assignment-accepted", id |-> wid']
                 /\ ~approvedSpace.metadata /\ ~approvedSpace.assign
        BY <3>1, <3>3, <4>1, <4>3 DEF SpaceCursor, Patching, SubmittingPhase, AcceptedPhase
      <4> QED BY <2>1, <3>3, <4>2, <4>3
    <3>4. CASE pc' = "verify"
      BY <1>3, <2>1, <3>1, <3>4 DEF SpaceCursor, CreatesSpace
    <3> QED BY <2>1, <3>2, <3>3, <3>4
  <2>4. spaceCp' \in [phase : Phases \cup {"none"}, id : Ids \cup {NoId}] /\ Known(wid') /\ Known(spaceCp'.id)
    BY <1>1, <2>1 DEF SpaceTypeOK, SpacePlanned, SpacesKnown, Phases
  <2>5. created = 0 /\ ~Out("create") /\ assigned = 0 /\ ~Out("assign")
    BY <1>3 DEF SpaceRequestsInv, Assigning, SubmittingPhase, AcceptedPhase
  <2> QED BY <1>1, <2>1, <2>2, <2>3, <2>4, <2>5, ReadsKeep DEF SpaceTypeOK, SpacePlanned
<1>4. CASE spaceCp.phase # "none" /\ pc' # "idle"
  <2>1. /\ approvedSpace.action # "blocked" /\ wid' = spaceCp.id /\ UNCHANGED spaceCp
        /\ \/ spaceCp.phase = "completed" /\ pc' = "verify"
           \/ spaceCp.phase # "completed" /\ CreatesSpace /\ pc' = "resume create"
           \/ spaceCp.phase # "completed" /\ ~CreatesSpace /\ pc' = "resume update"
    BY <1>1, <1>4 DEF Route
  <2>2. ReadyInv'
    BY <2>1 DEF ReadyInv, AfterSpace, IdentitySteps, RoleSteps, ProvisionSteps
  <2>3. SpaceCursor'
    BY <1>1, <1>4, <2>1 DEF SpaceCursor, CreatesSpace, SpaceReadsOnly, spacePlans,
      Assigning, Patching, SubmittingPhase, AcceptedPhase, SpaceSteps
  <2> QED BY <1>1, <1>4, <2>1, <2>2, <2>3, ReadsKeep DEF SpaceTypeOK, SpacesKnown, SpaceRequestsInv, Assigning
<1> QED BY <1>1, <1>2, <1>3, <1>4

(* Steps that wait, verify or give up.                                      *)
LEMMA ReadsQuietly ==
  ASSUME SpaceInv, SpaceReadsOnly, pc \in SpaceSteps \ {"workspace"}, pc' \in {"idle", "poll", "verify"},
         UNCHANGED <<spaceCp, spaceFlags>>, Known(wid'), ~CreatesSpace => wid' = wid,
         lenient' \in BOOLEAN, seen' \in BOOLEAN
  PROVE  SpaceInv'
<1> USE DEF SpaceInv
<1>1. SpaceCursor'
  BY DEF SpaceCursor, SpaceReadsOnly, spacePlans, CreatesSpace, Assigning
<1>2. ReadyInv'
  BY DEF ReadyInv, AfterSpace, IdentitySteps, RoleSteps, ProvisionSteps
<1> QED BY <1>1, <1>2, ReadsKeep DEF SpaceTypeOK, SpacesKnown, SpaceRequestsInv, Known, Assigning

LEMMA CapacityNext ==
  ASSUME NEW w, NEW fresh \in BOOLEAN
  PROVE  /\ Capacity(w, fresh) \in {"idle", "poll", "verify", "assign"}
         /\ Capacity(w, fresh) = "assign" =>
              fresh /\ spaces[w].cap # "desired" /\ spaces[w].prog # "InProgress"
         /\ TakeUpAssignment(w) \in {"idle", "poll", "verify"}
<1> QED BY DEF Capacity, TakeUpAssignment

(* Steps that find the capacity yet to be assigned.                         *)
LEMMA ReadsUnassigned ==
  ASSUME SpaceInv, SpaceReadsOnly, pc \in SpaceSteps \ {"workspace", "create", "create sent"}, pc' = "assign",
         UNCHANGED <<spaceCp, spaceFlags>>, wid' \in Ids, Exists(wid'), ~CreatesSpace => wid' = wid,
         lenient' \in BOOLEAN, seen' \in BOOLEAN, spaceCp.phase # "none" \/ ~CreatesSpace,
         ~Assigning /\ spaceCp.phase # "completed",
         spaces[wid'].cap # "desired" /\ spaces[wid'].prog # "InProgress"
  PROVE  SpaceInv'
<1> USE DEF SpaceInv
<1>1. SpaceCursor'
  BY DEF SpaceCursor, SpaceReadsOnly, spacePlans, CreatesSpace, Assigning
<1>2. ReadyInv'
  BY DEF ReadyInv, AfterSpace, IdentitySteps, RoleSteps, ProvisionSteps
<1>3. Unassigned(wid')
  BY DEF Unassigned, SpaceTypeOK, Exists, Space, Caps
<1> QED BY <1>1, <1>2, <1>3, ReadsKeep DEF SpaceTypeOK, SpacesKnown, SpaceRequestsInv, Known, Assigning

LEMMA CreateResumed ==
  ASSUME SpaceInv, ResumeCreate
  PROVE  SpaceInv'
<1> USE DEF SpaceInv
<1> DEFINE w == IF spaceCp.id # NoId THEN spaceCp.id ELSE CHOOSE v \in Named : TRUE
<1>1. /\ SpaceReadsOnly /\ UNCHANGED <<spaceCp, spaceFlags, seen>> /\ pc = "resume create"
      /\ \/ pc' = "idle" /\ UNCHANGED <<wid, lenient>>
         \/ /\ wid' = w /\ w \in Ids /\ Metadata(w) /\ lenient' = Assigning
            /\ pc' = (IF ~wanted.capacity THEN "verify" ELSE IF Assigning THEN TakeUpAssignment(w)
                      ELSE Capacity(w, TRUE))
  BY DEF ResumeCreate, Goto, Fail, NoFault, KeepSpace, ReadSpace, patchGhosts, spaceReads, SpaceReadsOnly
<1>2. CreatesSpace /\ spaceCp.phase \notin {"none", "completed"}
  BY <1>1 DEF SpaceCursor
<1>3. CASE pc' = "idle" /\ UNCHANGED <<wid, lenient>>
  BY <1>1, <1>2, <1>3, ReadsQuietly DEF SpaceTypeOK, SpacesKnown, SpaceSteps
<1>4. CASE ~(pc' = "idle" /\ UNCHANGED <<wid, lenient>>)
  <2>1. Assigning \in BOOLEAN
    BY DEF Assigning
  <2> HIDE DEF w
  <2>2. wid' = w /\ w \in Ids /\ Metadata(w) /\ lenient' = Assigning
    BY <1>1, <1>4
  <2>3. Exists(w) /\ Known(w) /\ lenient' \in BOOLEAN
    BY <2>1, <2>2 DEF Exists, Metadata, Gone, Known
  <2>4. CASE pc' \in {"idle", "poll", "verify"}
    BY <1>1, <1>2, <2>2, <2>3, <2>4, ReadsQuietly DEF SpaceTypeOK, SpaceSteps
  <2>5. CASE pc' \notin {"idle", "poll", "verify"}
    <3>1. ~Assigning /\ pc' = "assign" /\ spaces[w].cap # "desired" /\ spaces[w].prog # "InProgress"
      BY <1>1, <1>4, <2>5, CapacityNext
    <3> QED BY <1>1, <1>2, <2>2, <2>3, <3>1, ReadsUnassigned DEF SpaceTypeOK, SpaceSteps
  <2> QED BY <2>4, <2>5
<1> QED BY <1>3, <1>4

LEMMA UpdateResumed ==
  ASSUME SpaceInv, ResumeUpdate
  PROVE  SpaceInv'
<1> USE DEF SpaceInv
<1>1. /\ SpaceReadsOnly /\ UNCHANGED <<spaceCp, spaceFlags, wid>> /\ pc = "resume update"
      /\ \/ pc' = "idle" /\ UNCHANGED <<lenient, seen>>
         \/ /\ pc' = (IF Assigning THEN TakeUpAssignment(wid) ELSE "update")
            /\ lenient' = Assigning /\ seen' = (seen \/ Patching)
  BY DEF ResumeUpdate, Goto, Fail, NoFault, KeepSpace, ReadSpace, spaceReads, SpaceReadsOnly
<1>2. /\ ~CreatesSpace /\ spaceCp.phase \notin {"none", "completed"} /\ Known(wid)
      /\ lenient' \in BOOLEAN /\ seen' \in BOOLEAN
  <2>1. lenient \in BOOLEAN /\ seen \in BOOLEAN /\ Assigning \in BOOLEAN
    BY DEF SpaceTypeOK, Assigning
  <2>2. lenient' \in BOOLEAN /\ seen' \in BOOLEAN
    BY <1>1, <2>1
  <2> QED BY <1>1, <2>2 DEF SpaceCursor, SpacesKnown
<1>3. CASE pc' # "update"
  BY <1>1, <1>2, <1>3, CapacityNext, ReadsQuietly DEF SpaceSteps
<1>4. CASE pc' = "update"
  <2>1. ~Assigning /\ (Patching => seen')
    BY <1>1, <1>4, CapacityNext
  <2>2. SpaceCursor'
    BY <1>1, <1>2, <1>4, <2>1 DEF SpaceCursor, SpaceReadsOnly, spacePlans, CreatesSpace, Assigning,
      Patching, SpaceSteps
  <2>3. ReadyInv'
    BY <1>4 DEF ReadyInv, AfterSpace, IdentitySteps, RoleSteps, ProvisionSteps
  <2> QED BY <1>1, <1>2, <1>4, <2>1, <2>2, <2>3, ReadsKeep
          DEF SpaceTypeOK, SpacesKnown, SpaceRequestsInv, Assigning
<1> QED BY <1>3, <1>4

LEMMA Updated ==
  ASSUME SpaceInv, UpdateSpace \/ UpdateCapacity
  PROVE  SpaceInv'
<1> USE DEF SpaceInv
<1>1. /\ SpaceReadsOnly /\ UNCHANGED <<spaceCp, spaceFlags, wid, lenient, seen>>
      /\ pc \in {"update", "capacity"}
      /\ \/ pc' \in {"idle", "verify"}
         \/ pc = "update" /\ pc' = "patch" /\ Exists(wid) /\ approvedSpace.metadata
         \/ pc' = Capacity(wid, approvedSpace.assign) /\ Exists(wid)
  BY DEF UpdateSpace, UpdateCapacity, Goto, NoFault, KeepSpace, ReadSpace, patchGhosts, spaceReads,
         SpaceReadsOnly
<1>2. /\ ~CreatesSpace /\ spaceCp.phase # "completed" /\ Known(wid) /\ lenient \in BOOLEAN /\ seen \in BOOLEAN
      /\ pc = "capacity" => ~Assigning
  BY <1>1 DEF SpaceCursor, SpacesKnown, SpaceTypeOK, Assigning, SubmittingPhase, AcceptedPhase
<1>3. CASE pc' \in {"idle", "poll", "verify"}
  BY <1>1, <1>2, <1>3, ReadsQuietly DEF SpaceSteps
<1>4. CASE pc' = "patch"
  <2>1. pc = "update" /\ ~Assigning
    BY <1>1, <1>4, CapacityNext DEF SpaceCursor, SpacePlanned
  <2>2. SpaceCursor'
    BY <1>1, <1>2, <1>4, <2>1 DEF SpaceCursor, SpaceReadsOnly, spacePlans, CreatesSpace, Assigning,
      Patching, SpaceSteps
  <2>3. ReadyInv'
    BY <1>4 DEF ReadyInv, AfterSpace, IdentitySteps, RoleSteps, ProvisionSteps
  <2> QED BY <1>1, <1>2, <1>4, <2>1, <2>2, <2>3, ReadsKeep
          DEF SpaceTypeOK, SpacesKnown, SpaceRequestsInv, Assigning
<1>5. CASE pc' \notin {"idle", "poll", "verify", "patch"}
  <2>1. /\ pc' = "assign" /\ approvedSpace.assign /\ Exists(wid)
        /\ spaces[wid].cap # "desired" /\ spaces[wid].prog # "InProgress"
    BY <1>1, <1>5, CapacityNext DEF SpacePlanned
  <2>2. ~Assigning
    BY <1>1, <1>2, <2>1 DEF SpaceCursor
  <2>3. wid \in Ids
    BY <1>1, <1>2 DEF SpaceCursor, SpacePlanned, SpaceSteps, CreatesSpace
  <2> QED BY <1>1, <1>2, <2>1, <2>2, <2>3, ReadsUnassigned DEF SpaceSteps
<1> QED BY <1>3, <1>4, <1>5

LEMMA Polled ==
  ASSUME SpaceInv, PollCapacity
  PROVE  SpaceInv'
<1>1. /\ SpaceReadsOnly /\ UNCHANGED <<spaceCp, spaceFlags, wid, seen>> /\ lenient' = FALSE
      /\ pc = "poll" /\ pc' \in {"idle", "verify"}
  BY DEF PollCapacity, Goto, Fail, NoFault, KeepSpace, ReadSpace, patchGhosts, spaceReads, SpaceReadsOnly
<1> QED BY <1>1, ReadsQuietly DEF SpaceInv, SpacesKnown, SpaceTypeOK, SpaceSteps

LEMMA Verified ==
  ASSUME SpaceInv, VerifySpace
  PROVE  SpaceInv'
<1> USE DEF SpaceInv
<1>1. /\ SpaceReadsOnly /\ UNCHANGED <<spaceFlags, wid, lenient, seen>> /\ pc = "verify"
      /\ \/ UNCHANGED spaceCp /\ pc' = "idle"
         \/ /\ VerifiedSpace(wid) /\ pc' = "workspace done"
            /\ spaceCp' = [phase |-> "completed", id |-> wid]
  BY DEF VerifySpace, Goto, Fail, NoFault, KeepSpace, RecordSpace, ReadSpace, patchGhosts, spaceReads,
         SpaceReadsOnly
<1>2. CASE UNCHANGED spaceCp /\ pc' = "idle"
  BY <1>1, <1>2, ReadsQuietly DEF SpacesKnown, SpaceTypeOK, SpaceSteps
<1>3. CASE pc' = "workspace done"
  <2>1. spaceCp' = [phase |-> "completed", id |-> wid] /\ VerifiedSpace(wid)
    BY <1>1, <1>3
  <2>2. approvedSpace.action # "blocked" /\ (~CreatesSpace => wid = approvedSpace.observed.id)
    BY <1>1 DEF SpaceCursor, SpaceSteps
  <2>3. SpaceCursor'
    BY <1>1, <1>3, <2>1, <2>2 DEF SpaceCursor, SpaceReadsOnly, spacePlans, CreatesSpace
  <2>4. ReadyInv'
    BY <1>1, <1>3, <2>1, <2>2 DEF ReadyInv, AfterSpace, SpaceReadsOnly, spacePlans, spaceService,
      CreatesSpace, VerifiedSpace, Exists, Metadata, OnCapacity
  <2> QED BY <1>1, <1>3, <2>1, <2>3, <2>4, ReadsKeep DEF SpaceTypeOK, SpacesKnown, SpaceRequestsInv, Phases
<1> QED BY <1>1, <1>2, <1>3
-----------------------------------------------------------------------------
(* The requests: each is recorded, then sent, then answered or lost.        *)
LEMMA SpaceAsked ==
  ASSUME SpaceInv, NEW q \in SpaceRequests, SendSpace(q)
  PROVE  SpaceInv'
<1> USE DEF SpaceInv
<1>1. /\ pc = q /\ pc' = SpaceSent(q) /\ UNCHANGED <<spaceService, spacePlans, spaceFlags, wid, lenient, edited>>
      /\ spaceCp' = [phase |-> SubmittingPhase(q), id |-> IF q = "create" THEN NoId ELSE wid]
      /\ blind' = (blind \/ (q = "patch" /\ Patching /\ ~seen)) /\ seen' = (seen /\ q # "patch")
  BY DEF SendSpace, Goto, NoFault, RecordSpace, spaceReads, spaceRun
<1>2. /\ approvedSpace.action # "blocked" /\ Known(wid) /\ Known(NoId)
      /\ ~CreatesSpace => wid = approvedSpace.observed.id
      /\ seen' \in BOOLEAN /\ wid \in Ids \cup {NoId}
  BY <1>1 DEF SpaceCursor, SpaceRequests, SpaceSteps, SpacesKnown, Known, SpaceTypeOK
<1>3. SpaceReadsOnly
  <2>1. ~(q = "patch" /\ Patching /\ ~seen) /\ blind = FALSE
    BY <1>1 DEF SpaceCursor, SpaceTypeOK
  <2>2. UNCHANGED blind
    BY <1>1, <2>1
  <2> QED BY <1>1, <2>2 DEF SpaceReadsOnly
<1>4. /\ q = "create" => created = 0 /\ ~Out("create")
      /\ assigned = 0 /\ ~Out("assign")
  BY <1>1 DEF SpaceRequestsInv, SpaceCursor, SpaceRequests, Assigning, SubmittingPhase, AcceptedPhase
<1>5. ReadyInv'
  BY <1>1 DEF ReadyInv, AfterSpace, IdentitySteps, RoleSteps, ProvisionSteps, SpaceSent, SpaceRequests
<1>6. SpaceCursor' /\ spaceCp' \in [phase : Phases \cup {"none"}, id : Ids \cup {NoId}] /\ Known(spaceCp'.id)
  <2>0. UNCHANGED <<approvedSpace, wid>>
    BY <1>1 DEF spacePlans
  <2>1. CASE q = "create"
    BY <1>1, <1>2, <2>0, <2>1 DEF SpaceCursor, SpaceSent, SubmittingPhase, CreatesSpace, Phases
  <2>2. CASE q = "patch"
    BY <1>1, <1>2, <2>0, <2>2 DEF SpaceCursor, SpaceSent, SubmittingPhase, CreatesSpace, Phases
  <2>3. CASE q = "assign"
    BY <1>1, <1>2, <2>0, <2>3 DEF SpaceCursor, SpaceSent, SubmittingPhase, CreatesSpace, Phases
  <2> QED BY <2>1, <2>2, <2>3 DEF SpaceRequests
<1>7. pc' \in {"create", "create sent"} \/ spaceCp'.phase = "none" => q = "create"
  BY <1>1 DEF SpaceSent, SubmittingPhase, SpaceRequests
<1>8. pc' \in {"assign", "assign sent"} => q = "assign"
  BY <1>1 DEF SpaceSent, SpaceRequests
<1> QED BY <1>1, <1>2, <1>3, <1>4, <1>5, <1>6, <1>7, <1>8, ReadsKeep DEF SpaceTypeOK, AssignInv

LEMMA SpaceRejected ==
  ASSUME SpaceInv, NEW q \in SpaceRequests, TakeSpaceRejection(q)
  PROVE  SpaceInv'
<1> USE DEF SpaceInv
<1>1. /\ pc = SpaceSent(q) /\ pc' = "idle" /\ UNCHANGED <<spaceFlags, wid, lenient, seen>> /\ SpaceReadsOnly
      /\ \/ spaceCp' = NoRecord /\ (q = "assign" => ~CreatesSpace)
         \/ spaceCp' = [phase |-> "create-accepted", id |-> wid] /\ q = "assign" /\ CreatesSpace
         \/ spaceCp' = [phase |-> "metadata-update-accepted", id |-> wid] /\ q = "assign" /\ ~CreatesSpace
  BY DEF TakeSpaceRejection, RejectedSpaceRecord, RecordSpace, ClearSpace, Fail, Fault, SpendFault, spaceReads,
         spaceRun, patchGhosts, SpaceReadsOnly
<1>2. /\ Known(wid) /\ wid \in Ids \cup {NoId}
      /\ ~CreatesSpace => wid = approvedSpace.observed.id
      /\ q = "patch" => ~CreatesSpace
  BY <1>1 DEF SpaceCursor, SpaceRequests, SpaceSent, SpaceSteps, SpacesKnown, SpaceTypeOK
<1>3. SpaceCursor' /\ spaceCp' \in [phase : Phases \cup {"none"}, id : Ids \cup {NoId}] /\ Known(spaceCp'.id)
  <2>1. UNCHANGED approvedSpace
    BY <1>1 DEF SpaceReadsOnly, spacePlans
  <2>2. CASE spaceCp' = NoRecord
    BY <1>1, <1>2, <2>1, <2>2 DEF SpaceCursor, SpaceSteps, CreatesSpace, NoRecord, Phases, Known
  <2>3. CASE spaceCp' = [phase |-> "create-accepted", id |-> wid] /\ CreatesSpace
    BY <1>1, <1>2, <2>1, <2>3 DEF SpaceCursor, SpaceSteps, CreatesSpace, Phases
  <2>4. CASE spaceCp' = [phase |-> "metadata-update-accepted", id |-> wid] /\ ~CreatesSpace
    BY <1>1, <1>2, <2>1, <2>4 DEF SpaceCursor, SpaceSteps, CreatesSpace, Phases
  <2> QED BY <1>1, <2>2, <2>3, <2>4
<1>4. ReadyInv'
  BY <1>1 DEF ReadyInv, AfterSpace, IdentitySteps, RoleSteps, ProvisionSteps
<1>5. spaceCp'.phase = "none" => created = 0 /\ ~Out("create")
  <2>1. q = "create" => pc = "create sent"
    BY <1>1 DEF SpaceSent
  <2>2. spaceCp'.phase = "none" => q = "create" \/ ~CreatesSpace
    BY <1>1, <1>2 DEF SpaceRequests
  <2> QED BY <2>1, <2>2 DEF SpaceRequestsInv
<1>6. assigned = 0 /\ ~Out("assign")
  BY <1>1 DEF SpaceRequestsInv, SpaceCursor, SpaceSent, SpaceRequests, Assigning, SubmittingPhase, AcceptedPhase
<1> QED BY <1>1, <1>2, <1>3, <1>4, <1>5, <1>6, ReadsKeep DEF SpaceTypeOK
-----------------------------------------------------------------------------
(* Steps that change the workspaces themselves: what was there stays there. *)
SpacesGrow == /\ spaces' \in [Ids -> Space \cup {Gone}]
              /\ \A v \in Ids : Exists(v) => Exists(v)'

LEMMA KnownGrows ==
  ASSUME SpaceInv, SpacesGrow
  PROVE  \A v : Known(v) => Known(v)'
<1> QED BY DEF Known, SpacesGrow

(* A request answered.                                                      *)
LEMMA CreateAnswered ==
  ASSUME SpaceInv, TakeSpaceAnswer("create")
  PROVE  SpaceInv'
<1> USE DEF SpaceInv
<1>1. /\ pc = "create sent" /\ pc' = (IF wanted.capacity THEN "assign" ELSE "verify")
      /\ ExecuteOnSpace("create", wid) /\ wid' = NewId /\ (lenient' = (lenient \/ FALSE))
      /\ spaceCp' = [phase |-> "create-accepted", id |-> wid']
      /\ UNCHANGED <<spacePlans, spaceFlags, spacesLate, seen, blind, edited>>
  BY DEF TakeSpaceAnswer, SpaceSent, AfterAccept, AcceptedPhase, RecordSpace, Goto, NoFault, spaceReads,
         patchGhosts
<1>2. /\ wid = NoId /\ CreatesSpace /\ spaceCp.phase = "create-submitting" /\ UNCHANGED approvedSpace
      /\ created = 0 /\ ~Out("create") /\ assigned = 0 /\ ~Out("assign")
  BY <1>1 DEF SpaceCursor, SpaceRequestsInv, spacePlans, Assigning, SubmittingPhase, AcceptedPhase
<1>3. /\ SpacesGrow /\ wid' \in Ids /\ spaces'[wid'] = NewSpace /\ created' = 1 /\ assigned' = 0
  <2>1. "create" \in SpaceRequests /\ Known(wid)
    BY <1>2 DEF SpaceRequests, Known
  <2>2. /\ SpacesGrow /\ created' = created + 1 /\ assigned' = assigned
        /\ NewId \in Ids /\ spaces'[NewId] = NewSpace
    BY <1>1, <2>1, Executed, Zenon DEF SpacesGrow
  <2>3. created' = 1 /\ assigned' = 0
    BY <1>2, <2>2
  <2> QED BY <1>1, <2>2, <2>3, Zenon
<1>4. SpaceTypeOK'
  BY <1>1, <1>3 DEF SpaceTypeOK, SpacesGrow, spacePlans, Phases
<1>5. SpacePlanned'
  BY <1>2 DEF SpacePlanned, CreatesSpace
<1>6. SpacesKnown'
  <2>1. Known(wid)' /\ Known(spaceCp.id)'
    <3>1. NewSpace # Gone /\ spaceCp'.id = wid'
      BY <1>1 DEF NewSpace, Gone
    <3> QED BY <1>3, <3>1 DEF Known, Exists
  <2> QED BY <1>1, <1>2, <1>3, <2>1, KnownGrows DEF SpacesKnown
<1>7. SpaceRequestsInv'
  BY <1>1, <1>2, <1>3 DEF SpaceRequestsInv, Out, CreatesSpace
<1>8. SpaceCursor'
  BY <1>1, <1>2, <1>3 DEF SpaceCursor, CreatesSpace, Assigning, Patching, SubmittingPhase, AcceptedPhase
<1>9. AssignInv' /\ ReadyInv'
  <2>1. Unassigned(wid)'
    BY <1>3 DEF Unassigned, NewSpace
  <2>2. AssignInv'
    BY <1>1, <1>2, <2>1 DEF AssignInv, Out
  <2> QED BY <1>1, <2>2 DEF ReadyInv, AfterSpace, IdentitySteps, RoleSteps, ProvisionSteps
<1> QED BY <1>1, <1>4, <1>5, <1>6, <1>7, <1>8, <1>9

LEMMA PatchAnswered ==
  ASSUME SpaceInv, TakeSpaceAnswer("patch")
  PROVE  SpaceInv'
<1> USE DEF SpaceInv
<1>1. /\ pc = "patch sent" /\ pc' = "capacity" /\ ExecuteOnSpace("patch", wid)
      /\ wid' = wid /\ (lenient' = (lenient \/ FALSE))
      /\ spaceCp' = [phase |-> "metadata-update-accepted", id |-> wid]
      /\ UNCHANGED <<spacePlans, spaceFlags, spacesLate, seen, blind, edited>>
  BY DEF TakeSpaceAnswer, SpaceSent, AfterAccept, AcceptedPhase, RecordSpace, Goto, NoFault, spaceReads,
         patchGhosts
<1>2. /\ Known(wid) /\ ~CreatesSpace /\ spaceCp.phase = "metadata-update-submitting" /\ UNCHANGED approvedSpace
      /\ wid = approvedSpace.observed.id /\ approvedSpace.action # "blocked"
      /\ created = 0 /\ ~Out("create") /\ assigned = 0 /\ ~Out("assign")
  BY <1>1 DEF SpaceCursor, SpaceRequestsInv, spacePlans, Assigning, SubmittingPhase, AcceptedPhase,
    SpacesKnown, SpaceSteps
<1>3. /\ SpacesGrow /\ created' = 0 /\ assigned' = 0
  BY <1>1, <1>2, Executed DEF SpaceRequests, SpacesGrow
<1>4. SpaceTypeOK'
  BY <1>1, <1>3 DEF SpaceTypeOK, SpacesGrow, spacePlans, Phases
<1>5. SpacePlanned'
  BY <1>2 DEF SpacePlanned, CreatesSpace
<1>6. SpacesKnown'
  BY <1>1, <1>2, <1>3, KnownGrows DEF SpacesKnown
<1>7. SpaceRequestsInv'
  BY <1>1, <1>2, <1>3 DEF SpaceRequestsInv, Out, CreatesSpace
<1>8. SpaceCursor'
  BY <1>1, <1>2, <1>3 DEF SpaceCursor, CreatesSpace, Assigning, Patching, SubmittingPhase, AcceptedPhase
<1>9. AssignInv' /\ ReadyInv'
  BY <1>1, <1>2, <1>3 DEF AssignInv, Unassigned, Out, ReadyInv, AfterSpace, IdentitySteps,
    RoleSteps, ProvisionSteps
<1> QED BY <1>1, <1>4, <1>5, <1>6, <1>7, <1>8, <1>9

LEMMA AssignAnswered ==
  ASSUME SpaceInv, TakeSpaceAnswer("assign")
  PROVE  SpaceInv'
<1> USE DEF SpaceInv
<1>1. /\ pc = "assign sent" /\ pc' = "poll" /\ ExecuteOnSpace("assign", wid)
      /\ wid' = wid /\ (lenient' = (lenient \/ TRUE))
      /\ spaceCp' = [phase |-> "capacity-assignment-accepted", id |-> wid]
      /\ UNCHANGED <<spacePlans, spaceFlags, spacesLate, seen, blind, edited>>
  BY DEF TakeSpaceAnswer, SpaceSent, AfterAccept, AcceptedPhase, RecordSpace, Goto, NoFault, spaceReads,
         patchGhosts
<1>2. /\ Known(wid) /\ spaceCp.phase = "capacity-assignment-submitting" /\ UNCHANGED approvedSpace
      /\ ~CreatesSpace => wid = approvedSpace.observed.id
      /\ approvedSpace.action # "blocked" /\ wid \in Ids /\ assigned = 0 /\ ~Out("assign")
      /\ created \in {0, 1} /\ (created = 1 => ~Out("create")) /\ (~CreatesSpace => created = 0 /\ ~Out("create"))
  BY <1>1 DEF SpaceCursor, SpaceRequestsInv, spacePlans, SpacesKnown, SpaceSteps
<1>3. /\ SpacesGrow /\ created' = created /\ assigned' = 1
  <2>1. "assign" \in SpaceRequests
    BY DEF SpaceRequests
  <2>2. SpacesGrow /\ created' = created /\ assigned' = assigned + 1
    BY <1>1, <1>2, <2>1, Executed, Zenon DEF SpacesGrow
  <2> QED BY <1>2, <2>2
<1>4. SpaceTypeOK'
  BY <1>1, <1>3 DEF SpaceTypeOK, SpacesGrow, spacePlans, Phases
<1>5. SpacePlanned'
  BY <1>2 DEF SpacePlanned, CreatesSpace
<1>6. SpacesKnown'
  BY <1>1, <1>2, <1>3, KnownGrows DEF SpacesKnown
<1>7. SpaceRequestsInv'
  BY <1>1, <1>2, <1>3 DEF SpaceRequestsInv, Out, CreatesSpace, Assigning, SubmittingPhase, AcceptedPhase
<1>8. SpaceCursor'
  BY <1>1, <1>2, <1>3 DEF SpaceCursor, CreatesSpace
<1>9. AssignInv' /\ ReadyInv'
  BY <1>1, <1>2, <1>3 DEF AssignInv, Unassigned, Out, ReadyInv, AfterSpace, IdentitySteps,
    RoleSteps, ProvisionSteps
<1> QED BY <1>1, <1>4, <1>5, <1>6, <1>7, <1>8, <1>9

(* A request whose reply was lost: the record of it stays.                  *)
LEMMA SpaceReplyLost ==
  ASSUME SpaceInv, NEW q \in SpaceRequests, LoseSpaceReply(q)
  PROVE  SpaceInv'
<1> USE DEF SpaceInv
<1>1. /\ pc = SpaceSent(q) /\ pc' = "idle" /\ SpaceOutOfHand(q)
      /\ UNCHANGED <<spacePlans, spaceFlags, spaceCp, wid, lenient, seen, blind, edited>>
  BY DEF LoseSpaceReply, SpaceOutOfHand, Fail, KeepSpace, Fault, Loss, SpendFault, spaceReads, spaceRun, patchGhosts
<1>2. /\ q = "create" => pc = "create sent" /\ wid = NoId /\ created = 0 /\ ~Out("create") /\ CreatesSpace
      /\ q = "assign" => pc = "assign sent" /\ wid \in Ids /\ assigned = 0 /\ ~Out("assign") /\ Assigning
      /\ UNCHANGED approvedSpace /\ Known(wid) /\ spaceCp.phase # "none"
      /\ (CreatesSpace' <=> CreatesSpace) /\ (Assigning' <=> Assigning)
  BY <1>1 DEF CreatesSpace, SpaceCursor, SpaceRequestsInv, SpaceSent, spacePlans, SpacesKnown, SpaceRequests, Assigning,
    SubmittingPhase
<1>3. CASE ExecuteOnSpace(q, wid) /\ UNCHANGED spacesLate
  <2>1. /\ SpacesGrow /\ created' = (IF q = "create" THEN created + 1 ELSE created)
        /\ assigned' = (IF q = "assign" THEN assigned + 1 ELSE assigned)
        /\ \A v \in Ids : Exists(v) /\ (q # "assign" \/ v # wid) =>
             spaces'[v].cap = spaces[v].cap /\ spaces'[v].prog = spaces[v].prog
    BY <1>2, <1>3, Executed DEF SpacesGrow
  <2>2. SpaceRequestsInv'
    <3>1. \A r : Out(r)' <=> Out(r)
      BY <1>3 DEF Out
    <3>2. \A l, m \in spacesLate' : l.request = m.request /\ l.request # "patch" => l = m
      BY <1>3 DEF SpaceRequestsInv
    <3>3. \A l \in spacesLate' : /\ l.request = "create" => l.id = NoId
                                 /\ l.request = "assign" => l.id \in Ids
      BY <1>3 DEF SpaceRequestsInv
    <3>4. created' \in {0, 1} /\ (created' = 1 => ~Out("create"))
      <4>1. created \in {0, 1} /\ (created = 1 => ~Out("create"))
        BY DEF SpaceRequestsInv
      <4>2. q = "create" => created = 0 /\ ~Out("create")
        BY <1>2
      <4>3. created' = (IF q = "create" THEN created + 1 ELSE created)
        BY <2>1
      <4> QED BY <4>1, <4>2, <4>3
    <3>5. assigned' \in {0, 1} /\ (assigned' = 1 => ~Out("assign"))
      <4>1. assigned \in {0, 1} /\ (assigned = 1 => ~Out("assign"))
        BY DEF SpaceRequestsInv
      <4>2. q = "assign" => assigned = 0 /\ ~Out("assign")
        BY <1>2
      <4>3. assigned' = (IF q = "assign" THEN assigned + 1 ELSE assigned)
        BY <2>1
      <4> QED BY <4>1, <4>2, <4>3
    <3>6. ~CreatesSpace => created' = 0 /\ ~Out("create")
      BY <1>2, <2>1 DEF SpaceRequestsInv
    <3>7. ~Assigning /\ spaceCp.phase # "completed" => assigned' = 0 /\ ~Out("assign")
      BY <1>2, <2>1 DEF SpaceRequestsInv
    <3> QED BY <1>1, <1>2, <3>1, <3>2, <3>3, <3>4, <3>5, <3>6, <3>7 DEF SpaceRequestsInv
  <2>3. SpaceTypeOK'
    BY <1>1, <1>3, <2>1 DEF SpaceTypeOK, SpacesGrow, spacePlans
  <2>4. SpacesKnown'
    BY <1>1, <1>2, <1>3, <2>1, KnownGrows DEF SpacesKnown
  <2>5. AssignInv'
    <3>1. ASSUME NEW l \in spacesLate, l.request = "assign", ~edited  PROVE  Unassigned(l.id)'
      <4>1. l.id \in Ids /\ Exists(l.id) /\ Unassigned(l.id) /\ q # "assign"
        <5>1. l.id \in Ids /\ Unassigned(l.id) /\ Known(l.id) /\ q # "assign"
          BY <1>2, <3>1 DEF AssignInv, Out, SpaceRequestsInv, SpacesKnown
        <5> QED BY <5>1 DEF Known, Ids, NoId
      <4> QED BY <2>1, <4>1 DEF Unassigned
    <3> QED BY <1>1, <1>3, <3>1 DEF AssignInv
  <2> QED BY <1>1, <1>2, <2>2, <2>3, <2>4, <2>5
          DEF SpacePlanned, CreatesSpace, SpaceCursor, SpaceSteps, ReadyInv, AfterSpace, IdentitySteps, RoleSteps,
              ProvisionSteps
<1>4. CASE /\ spacesLate' = spacesLate \cup {[request |-> q, id |-> wid]}
           /\ UNCHANGED <<spaces, created, assigned>>
  <2>1. wid \in Ids \cup {NoId} /\ spacesLate' \subseteq [request : SpaceRequests, id : Ids \cup {NoId}]
    BY <1>4 DEF SpaceTypeOK
  <2>2. SpaceTypeOK'
    BY <1>1, <1>4, <2>1 DEF SpaceTypeOK, spacePlans
  <2> DEFINE new == [request |-> q, id |-> wid]
  <2>3. SpaceRequestsInv'
    <3>1. \A l \in spacesLate' : l \in spacesLate \/ l = new
      BY <1>4
    <3>2. /\ new.request = q /\ new.id = wid
          /\ \A r : Out(r)' => Out(r) \/ r = q
      BY <3>1 DEF Out
    <3>3. q # "patch" => \A l \in spacesLate : l.request # q
      BY <1>2 DEF Out, SpaceRequests
    <3>4. \A l, m \in spacesLate' : l.request = m.request /\ l.request # "patch" => l = m
      BY <3>1, <3>2, <3>3 DEF SpaceRequestsInv
    <3>5. \A l \in spacesLate' : /\ l.request = "create" => l.id = NoId
                                 /\ l.request = "assign" => l.id \in Ids
      BY <1>2, <3>1, <3>2 DEF SpaceRequestsInv
    <3> HIDE DEF new
    <3>6. /\ Out("create")' => created = 0 /\ spaceCp.phase # "none" /\ CreatesSpace
          /\ Out("assign")' => assigned = 0 /\ (Assigning \/ spaceCp.phase = "completed")
      BY <1>2, <3>2 DEF SpaceRequestsInv
    <3>7. created \in {0, 1} /\ assigned \in {0, 1} /\ (~CreatesSpace => created = 0)
      BY DEF SpaceRequestsInv
    <3>8. ~Assigning /\ spaceCp.phase # "completed" => assigned = 0
      BY <1>1, <1>2 DEF SpaceRequestsInv
    <3>9. (created = 1 => ~Out("create")') /\ (assigned = 1 => ~Out("assign")')
      BY <3>6
    <3> QED BY <1>1, <1>2, <1>4, <3>4, <3>5, <3>6, <3>7, <3>8, <3>9 DEF SpaceRequestsInv
  <2>4. SpacesKnown'
    <3>1. \A v : Known(v)' <=> Known(v)
      BY <1>4 DEF Known, Exists
    <3>2. \A l \in spacesLate' : Known(l.id)
      <4>1. ASSUME NEW l \in spacesLate'  PROVE Known(l.id)
        <5>1. CASE l \in spacesLate
          BY <5>1 DEF SpacesKnown
        <5>2. CASE l = new
          BY <1>2, <5>2
        <5> QED BY <1>4, <4>1, <5>1, <5>2
      <4> QED BY <4>1
    <3> QED BY <1>1, <1>2, <3>1, <3>2 DEF SpacesKnown
  <2>5. AssignInv'
    <3>1. ASSUME NEW l \in spacesLate', l.request = "assign", ~edited  PROVE  Unassigned(l.id)
      <4>1. CASE l \in spacesLate
        BY <3>1, <4>1 DEF AssignInv
      <4>2. CASE l = new
        BY <1>2, <3>1, <4>2 DEF AssignInv
      <4> QED BY <1>4, <3>1, <4>1, <4>2
    <3> QED BY <1>1, <1>4, <3>1 DEF AssignInv, Unassigned
  <2> QED BY <1>1, <1>2, <2>2, <2>3, <2>4, <2>5
          DEF SpacePlanned, CreatesSpace, SpaceCursor, SpaceSteps, ReadyInv, AfterSpace, IdentitySteps, RoleSteps,
              ProvisionSteps
<1>5. CASE UNCHANGED spaceService
  <2>1. SpaceReadsOnly
    BY <1>1, <1>5 DEF SpaceReadsOnly
  <2>2. SpaceCursor' /\ ReadyInv'
    BY <1>1, <1>2 DEF SpaceCursor, CreatesSpace, SpaceSteps, ReadyInv, AfterSpace, IdentitySteps, RoleSteps,
              ProvisionSteps
  <2> QED BY <1>1, <1>2, <2>1, <2>2, ReadsKeep DEF SpaceTypeOK, SpacesKnown, SpaceRequestsInv, Assigning
<1> QED BY <1>1, <1>3, <1>4, <1>5 DEF SpaceOutOfHand

LEMMA Bits == \A n \in {0, 1} : n \in Nat
OBVIOUS
LEMMA NotYet == \A n : n = 0 => n \in {0, 1} /\ n # 1
OBVIOUS
LEMMA OneMore == \A m, n : m = 0 /\ n = m + 1 => n = 1
OBVIOUS

(* What Fabric and others do to the workspaces, the run standing still.     *)
LEMMA SpacesMove ==
  ASSUME SpaceInv, SpacesGrow,
         UNCHANGED <<spacePlans, spaceCp, wid, lenient, spaceFlags, seen, blind, pc>>,
         spacesLate' \subseteq spacesLate, edited' \in BOOLEAN, SpaceRequestsInv',
         ~edited' => /\ ~edited
                     /\ \A l \in spacesLate' : l.request = "assign" => Unassigned(l.id)'
                     /\ pc \in {"assign", "assign sent"} => Unassigned(wid)'
                     /\ VerifiedSpace(wid) /\ pc \in AfterSpace /\ ~CreatesSpace => VerifiedSpace(wid)'
  PROVE  SpaceInv'
<1> USE DEF SpaceInv
<1>1. CreatesSpace' <=> CreatesSpace
  BY DEF CreatesSpace, spacePlans
<1>2. UNCHANGED approvedSpace
  BY DEF spacePlans
<1>3. SpaceTypeOK'
  <2>1. created' \in Nat /\ assigned' \in Nat
    <3>1. created' \in {0, 1} /\ assigned' \in {0, 1}
      BY DEF SpaceRequestsInv
    <3> QED BY <3>1, Bits, Zenon
  <2> QED BY <2>1 DEF SpaceTypeOK, spacePlans, SpacesGrow
<1>4. SpacesKnown'
  BY <1>2, KnownGrows DEF SpacesKnown
<1>5. SpacePlanned' /\ SpaceCursor'
  <2>1. (Assigning' <=> Assigning) /\ (Patching' <=> Patching)
    BY DEF Assigning, Patching
  <2>2. SpacePlanned'
    BY <1>1, <1>2 DEF SpacePlanned
  <2>3. SpaceCursor'
    BY <1>1, <1>2, <2>1 DEF SpaceCursor
  <2> QED BY <2>2, <2>3
<1>6. AssignInv'
  BY DEF AssignInv
<1>7. ReadyInv'
  BY <1>1, <1>2 DEF ReadyInv
<1> QED BY <1>3, <1>4, <1>5, <1>6, <1>7

LEMMA SpaceExecutedLate ==
  ASSUME SpaceInv, NEW l, ExecuteSpaceLate(l)
  PROVE  SpaceInv'
<1> USE DEF SpaceInv
<1>1. /\ l \in spacesLate /\ spacesLate' = spacesLate \ {l} /\ ExecuteOnSpace(l.request, l.id)
      /\ UNCHANGED <<spacePlans, spaceCp, wid, lenient, spaceFlags, seen, blind, pc, edited>>
  BY DEF ExecuteSpaceLate, NoFault, spaceReads, spaceRun, patchGhosts
<1>2. l.request \in SpaceRequests /\ Known(l.id) /\ edited' \in BOOLEAN
  BY <1>1 DEF SpaceTypeOK, SpacesKnown
<1>3. /\ SpacesGrow
      /\ \A v \in Ids : Exists(v) /\ Metadata(v) => Metadata(v)'
      /\ \A v \in Ids : Exists(v) /\ (l.request # "assign" \/ v # l.id) =>
           spaces'[v].cap = spaces[v].cap /\ spaces'[v].prog = spaces[v].prog
      /\ created' = (IF l.request = "create" THEN created + 1 ELSE created)
      /\ assigned' = (IF l.request = "assign" THEN assigned + 1 ELSE assigned)
  <2>1. SpaceTypeOK
    OBVIOUS
  <2> HIDE DEF SpaceInv
  <2> QED BY <1>1, <1>2, <2>1, Executed DEF SpacesGrow
<1>4. Out(l.request) /\ (l.request # "patch" => ~Out(l.request)') /\ \A r : Out(r)' => Out(r)
  BY <1>1 DEF Out, SpaceRequestsInv
<1>5. SpaceRequestsInv'
  <2>1. \A k, m \in spacesLate' : k.request = m.request /\ k.request # "patch" => k = m
    BY <1>1 DEF SpaceRequestsInv
  <2>2. \A k \in spacesLate' : /\ k.request = "create" => k.id = NoId
                               /\ k.request = "assign" => k.id \in Ids
    BY <1>1 DEF SpaceRequestsInv
  <2>3. created' \in {0, 1} /\ (created' = 1 => ~Out("create")')
    <3>1. created \in {0, 1} /\ (Out("create") => created = 0)
      BY DEF SpaceRequestsInv
    <3>2. created' = (IF l.request = "create" THEN created + 1 ELSE created)
      BY <1>3
    <3> QED BY <1>4, <3>1, <3>2
  <2>4. assigned' \in {0, 1} /\ (assigned' = 1 => ~Out("assign")')
    <3>1. assigned \in {0, 1} /\ (Out("assign") => assigned = 0)
      BY DEF SpaceRequestsInv
    <3>2. assigned' = (IF l.request = "assign" THEN assigned + 1 ELSE assigned)
      BY <1>3
    <3> QED BY <1>4, <3>1, <3>2
  <2>5. pc \in {"create", "create sent"} \/ spaceCp.phase = "none" \/ ~CreatesSpace => created' = 0 /\ ~Out("create")'
    <3>1. pc \in {"create", "create sent"} \/ spaceCp.phase = "none" \/ ~CreatesSpace => created = 0 /\ ~Out("create")
      BY DEF SpaceRequestsInv
    <3> QED BY <1>3, <1>4, <3>1
  <2>6. pc \in {"assign", "assign sent"} \/ (~Assigning /\ spaceCp.phase # "completed") =>
          assigned' = 0 /\ ~Out("assign")'
    <3>1. pc \in {"assign", "assign sent"} \/ (~Assigning /\ spaceCp.phase # "completed") =>
            assigned = 0 /\ ~Out("assign")
      BY DEF SpaceRequestsInv
    <3> QED BY <1>3, <1>4, <3>1
  <2>7. /\ pc' = pc /\ (Assigning' <=> Assigning) /\ spaceCp' = spaceCp /\ (CreatesSpace' <=> CreatesSpace)
    BY <1>1 DEF Assigning, CreatesSpace, spacePlans
  <2> QED BY <2>1, <2>2, <2>3, <2>4, <2>5, <2>6, <2>7 DEF SpaceRequestsInv
<1>6. ASSUME NEW v \in Ids, Exists(v), l.request # "assign" \/ v # l.id, Unassigned(v)
      PROVE  Unassigned(v)'
  BY <1>3, <1>6 DEF Unassigned
<1>7. ASSUME ~edited, NEW k \in spacesLate', k.request = "assign"
      PROVE  Unassigned(k.id)'
  <2>1. k \in spacesLate /\ k # l /\ l.request # "assign" /\ Unassigned(k.id) /\ k.id \in Ids /\ Known(k.id)
    BY <1>1, <1>7 DEF AssignInv, SpaceRequestsInv, SpacesKnown
  <2> QED BY <1>6, <2>1 DEF Known, Ids, NoId
<1>8. ASSUME ~edited, pc \in {"assign", "assign sent"}
      PROVE  Unassigned(wid)'
  <2>1. wid \in Ids /\ Unassigned(wid) /\ Known(wid) /\ l.request # "assign"
    BY <1>4, <1>8 DEF SpaceCursor, AssignInv, SpaceRequestsInv, SpacesKnown
  <2>2. Unassigned(wid)' <=> (spaces'[wid].cap = "other" /\ spaces'[wid].prog # "InProgress")
    BY <1>1 DEF Unassigned
  <2> QED BY <1>3, <2>1, <2>2 DEF Known, Ids, NoId, Unassigned
<1>9. ASSUME ~edited, VerifiedSpace(wid), pc \in AfterSpace, ~CreatesSpace
      PROVE  VerifiedSpace(wid)'
  <2>1. wid \in Ids /\ Exists(wid) /\ Metadata(wid)
    BY <1>9 DEF VerifiedSpace, ReadyInv, SpacePlanned, CreatesSpace
  <2>2. CASE ~wanted.capacity
    BY <1>1, <1>3, <2>1, <2>2 DEF VerifiedSpace, spacePlans, SpacesGrow, Exists, Metadata
  <2>3. CASE wanted.capacity
    <3>1. l.request # "assign" \/ wid # l.id
      BY <1>1, <1>9, <2>3 DEF VerifiedSpace, OnCapacity, AssignInv, Unassigned
    <3>2. spaces'[wid].cap = "desired" /\ spaces'[wid].prog = "Completed"
      BY <1>3, <1>9, <2>1, <2>3, <3>1 DEF VerifiedSpace, OnCapacity
    <3> QED BY <1>1, <1>3, <2>1, <3>2 DEF VerifiedSpace, OnCapacity, SpacesGrow, Exists, Metadata
  <2> QED BY <2>2, <2>3
<1> QED BY <1>1, <1>2, <1>3, <1>5, <1>7, <1>8, <1>9, SpacesMove

LEMMA AssignmentFinished ==
  ASSUME SpaceInv, NEW w \in Ids, FinishAssignment(w)
  PROVE  SpaceInv'
<1> USE DEF SpaceInv
<1>1. /\ spaces[w].prog = "InProgress"
      /\ \/ spaces' = [spaces EXCEPT ![w] = [spaces[w] EXCEPT !.cap = "desired", !.prog = "Completed"]]
         \/ \E p \in {"Completed", "Failed"} : spaces' = [spaces EXCEPT ![w] = [spaces[w] EXCEPT !.prog = p]]
      /\ UNCHANGED <<spacesLate, created, assigned, spacePlans, spaceCp, wid, lenient, spaceFlags, seen, blind,
                     pc, edited>>
  BY DEF FinishAssignment, NoFault, Loss, SpendFault, spaceReads, spaceRun, patchGhosts
<1>2. spaces \in [Ids -> Space \cup {Gone}] /\ spaces[w] \in Space
  BY <1>1 DEF SpaceTypeOK, Gone
<1>3. PICK s \in Space : spaces' = [spaces EXCEPT ![w] = s] /\ s.meta = spaces[w].meta
  <2>1. [spaces[w] EXCEPT !.cap = "desired", !.prog = "Completed"] \in Space
    BY <1>2 DEF Space, Caps, Progresses
  <2>2. \A p \in {"Completed", "Failed"} : [spaces[w] EXCEPT !.prog = p] \in Space
    BY <1>2 DEF Space, Progresses
  <2> QED BY <1>1, <1>2, <2>1, <2>2 DEF Space
<1>4. /\ spaces' \in [Ids -> Space \cup {Gone}] /\ spaces'[w] = s /\ s # Gone
      /\ \A v \in Ids : v # w => spaces'[v] = spaces[v]
  BY <1>2, <1>3 DEF Space, Gone, Metas
<1>5. SpacesGrow
  BY <1>4 DEF SpacesGrow, Exists
<1>6. ASSUME NEW v \in Ids, Unassigned(v)  PROVE v # w /\ spaces'[v] = spaces[v]
  BY <1>1, <1>4, <1>6 DEF Unassigned
<1>7. SpaceRequestsInv'
  BY <1>1 DEF SpaceRequestsInv, Out, Assigning, CreatesSpace, spacePlans
<1>8. ASSUME ~edited, NEW k \in spacesLate', k.request = "assign"
      PROVE  Unassigned(k.id)'
  BY <1>1, <1>6, <1>8 DEF AssignInv, SpaceRequestsInv, Unassigned
<1>9. ASSUME ~edited, pc \in {"assign", "assign sent"}
      PROVE  Unassigned(wid)'
  BY <1>1, <1>6, <1>9 DEF AssignInv, SpaceCursor, Unassigned
<1>10. ASSUME VerifiedSpace(wid), pc \in AfterSpace, ~CreatesSpace
      PROVE  VerifiedSpace(wid)'
  <2>1. wid \in Ids
    BY <1>10 DEF ReadyInv, SpacePlanned, CreatesSpace
  <2>2. CASE wid # w
    BY <1>1, <1>4, <1>10, <2>1, <2>2 DEF VerifiedSpace, Exists, Metadata, OnCapacity, spacePlans
  <2>3. CASE wid = w
    BY <1>1, <1>3, <1>4, <1>10, <2>1, <2>3 DEF VerifiedSpace, Exists, Metadata, OnCapacity, spacePlans
  <2> QED BY <2>2, <2>3
<1> QED BY <1>1, <1>5, <1>7, <1>8, <1>9, <1>10, SpacesMove

LEMMA SpaceEdited ==
  ASSUME SpaceInv, NEW w \in Ids, EditSpace(w)
  PROVE  SpaceInv'
<1> USE DEF SpaceInv
<1>1. /\ edited' = TRUE
      /\ \/ Exists(w) /\ \E meta \in Metas : spaces' = [spaces EXCEPT ![w] = [spaces[w] EXCEPT !.meta = meta]]
         \/ Exists(w) /\ spaces' = [spaces EXCEPT ![w] = [spaces[w] EXCEPT !.cap = "other", !.prog = "Completed"]]
         \/ spaces' = [spaces EXCEPT ![w] = NewSpace]
      /\ UNCHANGED <<spacesLate, created, assigned, spacePlans, spaceCp, wid, lenient, spaceFlags, seen, blind,
                     pc>>
  BY DEF EditSpace, Foreign, spaceReads, spaceRun, patchGhosts
<1>2. spaces \in [Ids -> Space \cup {Gone}] /\ (Exists(w) => spaces[w] \in Space)
  BY DEF SpaceTypeOK, Exists
<1>3. PICK s \in Space : spaces' = [spaces EXCEPT ![w] = s]
  <2>1. NewSpace \in Space
    BY DEF NewSpace, Space, Metas, Caps, Progresses
  <2>2. Exists(w) => /\ \A meta \in Metas : [spaces[w] EXCEPT !.meta = meta] \in Space
                     /\ [spaces[w] EXCEPT !.cap = "other", !.prog = "Completed"] \in Space
    BY <1>2 DEF Space, Caps, Progresses
  <2> QED BY <1>1, <2>1, <2>2
<1>4. /\ spaces' \in [Ids -> Space \cup {Gone}] /\ spaces'[w] = s /\ s # Gone
      /\ \A v \in Ids : v # w => spaces'[v] = spaces[v]
  BY <1>2, <1>3 DEF Space, Gone, Metas
<1>5. SpacesGrow
  BY <1>4 DEF SpacesGrow, Exists
<1>6. SpaceRequestsInv'
  BY <1>1 DEF SpaceRequestsInv, Out, Assigning, CreatesSpace, spacePlans
<1> QED BY <1>1, <1>5, <1>6, SpacesMove

(* Steps elsewhere in the run.                                              *)
LEMMA SpaceElsewhere ==
  ASSUME SpaceInv, UNCHANGED spaceVars, edited' \in BOOLEAN, edited => edited',
         \/ UNCHANGED pc
         \/ pc' \in {"idle", "replan", "replan required", "succeeded", "identity preflight", "workspace"}
         \/ pc \in AfterSpace /\ pc' \in AfterSpace \ {"workspace done"} /\ ~CreatesSpace
  PROVE  SpaceInv'
<1> USE DEF SpaceInv
<1>1. UNCHANGED <<spaces, spacesLate, created, assigned, wanted, approvedSpace, spaceCp, wid, lenient, spaceFlags,
                  seen, blind>>
  BY DEF spaceVars, spaceService, spacePlans, spaceRun, spaceReads, patchGhosts
<1>2. SpaceTypeOK' /\ ~blind'
  BY <1>1 DEF SpaceTypeOK
<1>3. SpacePlanned' /\ SpacesKnown'
  BY <1>1 DEF SpacePlanned, SpacesKnown, Known, Exists, CreatesSpace
<1>4. \/ UNCHANGED pc
      \/ pc' \notin SpaceSteps \ {"workspace"}
  BY DEF SpaceSteps, AfterSpace, IdentitySteps, RoleSteps, ProvisionSteps
<1>5. SpaceRequestsInv'
  BY <1>1, <1>4 DEF SpaceRequestsInv, Out, CreatesSpace, Assigning, SpaceSteps
<1>6. SpaceCursor'
  BY <1>1, <1>4 DEF SpaceCursor, CreatesSpace, Assigning, Patching, SpaceSteps
<1>7. AssignInv'
  BY <1>1, <1>4 DEF AssignInv, Unassigned, SpaceSteps
<1>8. ReadyInv'
  <2>1. pc' \in AfterSpace => pc \in AfterSpace /\ (UNCHANGED pc \/ ~CreatesSpace)
    BY DEF AfterSpace, IdentitySteps, RoleSteps, ProvisionSteps
  <2>2. (VerifiedSpace(wid)' <=> VerifiedSpace(wid)) /\ (CreatesSpace' <=> CreatesSpace)
    BY <1>1 DEF VerifiedSpace, Exists, Metadata, OnCapacity, CreatesSpace
  <2> QED BY <1>1, <2>1, <2>2 DEF ReadyInv
<1> QED BY <1>2, <1>3, <1>5, <1>6, <1>7, <1>8
-----------------------------------------------------------------------------
(* A plan speaks of a workspace that is there, or of none.                  *)
LEMMA SpacePlannable ==
  ASSUME SpaceTypeOK
  PROVE  /\ PlanWorkspace.action \in {"create", "update", "no-op", "blocked"}
         /\ PlanWorkspace.observed.id \in Ids \cup {NoId} /\ Known(PlanWorkspace.observed.id)
         /\ PlanWorkspace.action \in {"update", "no-op"} => PlanWorkspace.observed.id \in Ids
         /\ PlanWorkspace.action = "create" => PlanWorkspace.observed.id = NoId
         /\ PlanWorkspace.metadata \in BOOLEAN /\ PlanWorkspace.assign \in BOOLEAN
<1> DEFINE p == PlanWorkspace
<1>1. wanted.id \in {NoId, 1} /\ wanted.capacity \in BOOLEAN /\ spaces \in [Ids -> Space \cup {Gone}]
  BY DEF SpaceTypeOK
<1>2. \/ \E w \in Ids : Exists(w) /\ p = PlanExisting(w)
      \/ \E a \in {"create", "blocked"} : p = SpacePlan(a, NoSpace, TRUE, wanted.capacity)
  <2>1. CASE wanted.id # NoId
    <3>1. wanted.id \in Ids
      BY <1>1, <2>1, WorkspaceBounds DEF NoId, Ids
    <3> QED BY <2>1, <3>1 DEF PlanWorkspace
  <2>2. CASE wanted.id = NoId /\ Cardinality(Named) = 1
    <3>1. Named # {}
      BY <2>2, FS_EmptySet
    <3>2. (CHOOSE w \in Named : TRUE) \in Named
      BY <3>1
    <3>3. \A w \in Named : w \in Ids /\ Exists(w)
      BY DEF Named, Exists, Gone
    <3>4. p = PlanExisting(CHOOSE w \in Named : TRUE)
      BY <2>2 DEF PlanWorkspace
    <3> QED BY <3>2, <3>3, <3>4
  <2>3. CASE wanted.id = NoId /\ Cardinality(Named) # 1
    BY <2>3 DEF PlanWorkspace
  <2> QED BY <2>1, <2>2, <2>3
<1>3. CASE \E w \in Ids : Exists(w) /\ p = PlanExisting(w)
  <2>1. PICK w \in Ids : Exists(w) /\ p = PlanExisting(w)
    BY <1>3
  <2>2. /\ p.action \in {"update", "no-op", "blocked"} /\ p.observed.id = w
        /\ p.metadata = ~Metadata(w) /\ p.assign = AssignmentRequired(w)
    BY <2>1 DEF PlanExisting, SpacePlan, ObservedSpace
  <2>3. (~Metadata(w)) \in BOOLEAN /\ AssignmentRequired(w) \in BOOLEAN
    BY DEF Metadata, AssignmentRequired
  <2> QED BY <2>1, <2>2, <2>3 DEF Known
<1>4. CASE \E a \in {"create", "blocked"} : p = SpacePlan(a, NoSpace, TRUE, wanted.capacity)
  BY <1>1, <1>4 DEF SpacePlan, NoSpace, Known, NoId
<1> QED BY <1>2, <1>3, <1>4

LEMMA SpaceStarted ==
  ASSUME SpaceInv, ReadSpacePlan, NoFault, pc' \in {"workspace", "identity preflight"}
  PROVE  SpaceInv'
<1> USE DEF SpaceInv
<1>1. SpaceReadsOnly /\ UNCHANGED <<spaceCp, seen>> /\ wid' = NoId /\ lenient' = FALSE /\ spaceFlags' \subseteq Safeguards
  BY WorkspaceBounds DEF ReadSpacePlan, NoFault, SpaceReadsOnly, patchGhosts
<1>2. SpaceCursor' /\ ReadyInv'
  BY <1>1 DEF SpaceCursor, ReadyInv, SpaceSteps, AfterSpace, IdentitySteps, RoleSteps, ProvisionSteps,
    SpaceReadsOnly, spacePlans, CreatesSpace
<1> QED BY <1>1, <1>2, ReadsKeep DEF SpaceTypeOK, SpacesKnown, SpaceRequestsInv, Known, Assigning

LEMMA SpacePlannedAnew ==
  ASSUME SpaceInv, NewPlan
  PROVE  SpaceInv'
<1> USE DEF SpaceInv
<1>1. /\ spacesLate = {} /\ approvedSpace' = PlanWorkspace /\ spaceCp' = NoRecord
      /\ created' = 0 /\ assigned' = 0 /\ seen' = FALSE /\ pc' = "idle"
      /\ UNCHANGED <<spaces, spacesLate, wanted, wid, lenient, spaceFlags, blind, edited>>
  BY DEF NewPlan, NoFault, spaceRun, spaceReads
<1>2. SpaceTypeOK'
  BY <1>1 DEF SpaceTypeOK, NoRecord
<1>3. SpacePlanned' /\ Known(approvedSpace.observed.id)'
  BY <1>1, SpacePlannable DEF SpacePlanned, CreatesSpace, Known, Exists
<1>4. SpacesKnown'
  BY <1>1, <1>3 DEF SpacesKnown, Known, Exists, NoRecord
<1>5. SpaceRequestsInv'
  BY <1>1 DEF SpaceRequestsInv, Out
<1>6. SpaceCursor' /\ AssignInv' /\ ReadyInv'
  BY <1>1 DEF SpaceCursor, NoRecord, AssignInv, ReadyInv, SpaceSteps, AfterSpace, IdentitySteps, RoleSteps,
    ProvisionSteps
<1> QED BY <1>1, <1>2, <1>3, <1>4, <1>5, <1>6

LEMMA SpaceInitially ==
  ASSUME SpaceInit, RunInit
  PROVE  SpaceInv
<1>1. SpaceTypeOK
  <2>1. PICK first \in FirstSpaces : spaces = [w \in Ids |-> IF w = 1 THEN first ELSE Gone]
    BY DEF SpaceInit
  <2>2. spaces \in [Ids -> Space \cup {Gone}]
    BY <2>1, FirstSpacesAssumption
  <2> QED BY <2>2 DEF SpaceInit, SpaceTypeOK, NoRecord
<1>2. SpacePlanned /\ SpacesKnown
  BY <1>1, SpacePlannable DEF SpaceInit, SpacePlanned, SpacesKnown, CreatesSpace, Known, NoRecord
<1>3. SpaceRequestsInv /\ SpaceCursor /\ AssignInv /\ ReadyInv
  BY DEF SpaceInit, RunInit, SpaceRequestsInv, Out, SpaceCursor, NoRecord, AssignInv, ReadyInv, SpaceSteps,
    AfterSpace, IdentitySteps, RoleSteps, ProvisionSteps
<1> QED BY <1>1, <1>2, <1>3 DEF SpaceInv, SpaceInit, RunInit
-----------------------------------------------------------------------------
(* The identity.  A step of the run that only reads the service.            *)
IdentityReadsOnly == UNCHANGED <<identityService, identityPlans, edited>>

LEMMA IdentityReadsKeep ==
  ASSUME IdentityInv, IdentityReadsOnly, IdentityCursor', RoleRequestsInv',
         provisionCp' \in [phase : {"none", "submitting", "accepted", "verified"}, who : Principals \cup {NoOne}],
         roleCp' \in [Targets -> [phase : {"none", "submitting", "accepted", "verified"}, id : Nat]],
         who' \in Principals \cup {NoOne}, settled' \subseteq asked, resuming' \in BOOLEAN
  PROVE  IdentityInv'
<1>1. UNCHANGED <<identity, operation, roles, identityLate, provisioned, given, asked, approvedIdentity, edited>>
  BY DEF IdentityReadsOnly, identityService, identityPlans
<1>2. IdentityTypeOK'
  BY <1>1 DEF IdentityInv, IdentityTypeOK
<1>3. IdentityPlanned' /\ LateRolesTyped'
  BY <1>1 DEF IdentityInv, IdentityPlanned, PlannedRole, LateRolesTyped, ProvisionsIdentity
<1>4. RolesInv'
  BY <1>1 DEF IdentityInv, RolesInv, ProvisionsIdentity, Managed
<1> QED BY <1>1, <1>2, <1>3, <1>4 DEF IdentityInv, ProvisionsIdentity

(* No role leaves in such a step, and none is forgotten.                    *)
LEMMA IdentityReadsQuietly ==
  ASSUME IdentityInv, IdentityReadsOnly, IdentityCursor', pc' # "role sent",
         \A t \in Targets : roleCp[t].phase # "none" => roleCp'[t].phase # "none",
         provisionCp' \in [phase : {"none", "submitting", "accepted", "verified"}, who : Principals \cup {NoOne}],
         roleCp' \in [Targets -> [phase : {"none", "submitting", "accepted", "verified"}, id : Nat]],
         who' \in Principals \cup {NoOne}, settled' \subseteq asked, resuming' \in BOOLEAN
  PROVE  IdentityInv'
<1>1. UNCHANGED <<identityLate, given, asked, approvedIdentity>>
  BY DEF IdentityReadsOnly, identityService, identityPlans
<1>2. RoleRequestsInv'
  <2> SUFFICES ASSUME NEW t \in Targets
               PROVE  RoleRequestInv(t)'
    BY DEF RoleRequestsInv
  <2>1. (RoleOut(t)' <=> RoleOut(t)) /\ (ProvisionsIdentity' <=> ProvisionsIdentity)
    BY <1>1 DEF RoleOut, ProvisionsIdentity
  <2> QED BY <1>1, <2>1 DEF IdentityInv, RoleRequestsInv, RoleRequestInv
<1> QED BY <1>2, IdentityReadsKeep

LEMMA OneTurn ==
  ASSUME IdentityTypeOK, NEW t, RoleTurn(t), NEW u, RoleTurn(u)
  PROVE  t = u /\ t \in Targets /\ t \in asked
<1> QED BY IdentityBounds DEF RoleTurn, IdentityTypeOK

LEMMA SettledStay ==
  ASSUME IdentityInv, IdentityReadsOnly, UNCHANGED settled
  PROVE  /\ ProvisionsIdentity' => settled' = {}
         /\ ~edited' => \A t \in settled' : Managed(t, identity)' # {}
<1>1. UNCHANGED <<roles, identity, approvedIdentity, edited>>
  BY DEF IdentityReadsOnly, identityService, identityPlans
<1> QED BY <1>1 DEF IdentityInv, IdentityCursor, ProvisionsIdentity, Managed

(* The provisioning of the identity, up to its roles.                       *)
LEMMA Preflighted ==
  ASSUME IdentityInv, PreflightIdentity \/ ApplyWorkspaceIdentity
  PROVE  IdentityInv'
<1> USE DEF IdentityInv
<1>1. /\ IdentityReadsOnly /\ UNCHANGED <<provisionCp, roleCp, who, settled>>
      /\ \/ UNCHANGED resuming \/ resuming' = IdentityPending
      /\ \/ pc' \in {"workspace", "idle", "provision", "find identity", "operation"}
         \/ pc' = "verify identity"
         \/ pc' = "verify provisioned" /\ provisionCp.phase = "verified"
      /\ pc' = "verify identity" => ~ProvisionsIdentity /\ approvedIdentity.action # "blocked"
      /\ pc' \in ProvisionSteps => ProvisionsIdentity
  <2>1. CASE PreflightIdentity
    BY <2>1 DEF PreflightIdentity, Goto, Fail, NoFault, identityVars, identityCp, identityRun, IdentityReadsOnly,
      ProvisionSteps
  <2>2. CASE ApplyWorkspaceIdentity
    <3>1. IdentityReadsOnly /\ UNCHANGED <<provisionCp, roleCp, who, settled>> /\ resuming' = IdentityPending
      BY <2>2 DEF ApplyWorkspaceIdentity, NoFault, identityCp, IdentityReadsOnly
    <3>2. CASE pc' = "idle"
      BY <3>1, <3>2 DEF ProvisionSteps
    <3>3. CASE pc' # "idle"
      <4>1. /\ IdentityPreflighted
            /\ pc' = (IF ~ProvisionsIdentity THEN "verify identity"
                      ELSE CASE provisionCp.phase = "none"       -> "provision"
                             [] provisionCp.phase = "submitting" -> "find identity"
                             [] provisionCp.phase = "accepted"   -> "operation"
                             [] provisionCp.phase = "verified"   -> "verify provisioned")
        BY <2>2, <3>3 DEF ApplyWorkspaceIdentity, Goto, Fail
      <4>2. provisionCp.phase \in {"none", "submitting", "accepted", "verified"}
        BY DEF IdentityTypeOK
      <4>3. approvedIdentity.action # "blocked"
        BY <4>1 DEF IdentityPreflighted
      <4> QED BY <3>1, <4>1, <4>2, <4>3 DEF ProvisionSteps
    <3> QED BY <3>2, <3>3
  <2> QED BY <2>1, <2>2
<1>2. resuming' \in BOOLEAN
  BY <1>1 DEF IdentityTypeOK, IdentityPending
<1>3. IdentityCursor'
  BY <1>1, SettledStay DEF IdentityCursor, ProvisionSteps, RoleSteps, IdentityReadsOnly, identityPlans, ProvisionsIdentity
<1> QED BY <1>1, <1>2, <1>3, IdentityReadsQuietly DEF IdentityTypeOK

LEMMA ProvisionAsked ==
  ASSUME IdentityInv, SendProvision \/ ProvisionRejected
  PROVE  IdentityInv'
<1>1. PICK phase \in {"none", "submitting"} :
        /\ IdentityReadsOnly /\ UNCHANGED <<roleCp, who, settled, resuming>> /\ pc \in ProvisionSteps
        /\ pc' \in {"provision sent", "idle"} /\ provisionCp' = [phase |-> phase, who |-> NoOne]
  BY DEF SendProvision, ProvisionRejected, Goto, Fail, NoFault, Fault, SpendFault, RecordProvision, identityRun,
    IdentityReadsOnly, ProvisionSteps
<1>2. IdentityTypeOK /\ IdentityCursor
  BY DEF IdentityInv
<1>3. ProvisionsIdentity' /\ provisionCp'.phase # "verified"
  BY <1>1, <1>2 DEF IdentityCursor, IdentityReadsOnly, identityPlans, ProvisionsIdentity
<1>4. IdentityCursor'
  BY <1>1, <1>3, SettledStay DEF IdentityCursor, ProvisionSteps, RoleSteps
<1>5. provisionCp' \in [phase : {"none", "submitting", "accepted", "verified"}, who : Principals \cup {NoOne}]
  BY <1>1
<1>6. pc' # "role sent"
  BY <1>1
<1> QED BY <1>1, <1>2, <1>4, <1>5, <1>6, IdentityReadsQuietly DEF IdentityTypeOK

LEMMA ProvisionRead ==
  ASSUME IdentityInv, AwaitProvision \/ FindIdentity \/ ReadProvisioned \/ VerifyProvisioned
  PROVE  IdentityInv'
<1> DEFINE verified == [phase |-> "verified", who |-> identity]
<1>1. IdentityTypeOK /\ IdentityCursor
  BY DEF IdentityInv
<1>2. /\ IdentityReadsOnly /\ UNCHANGED <<roleCp, settled, resuming>> /\ who' \in {who, identity}
      /\ pc \in ProvisionSteps
      /\ UNCHANGED provisionCp \/ (provisionCp' = verified /\ identity # NoOne)
      /\ \/ pc' \in {"idle", "read provisioned"}
         \/ pc' = "verify provisioned" /\ provisionCp' = verified
         \/ pc' = Provisioned /\ identity # NoOne
  <2> USE DEF Goto, Fail, NoFault, RecordProvision, KeepIdentity, identityCp, identityRun, ReadIdentity,
              IdentityReadsOnly, ProvisionSteps
  <2>1. CASE AwaitProvision
    BY <2>1 DEF AwaitProvision
  <2>2. CASE FindIdentity
    BY <2>2 DEF FindIdentity
  <2>3. CASE ReadProvisioned
    <3> USE DEF ReadProvisioned
    <3>1. CASE identity # NoOne /\ who \in {NoOne, identity}
      BY <2>3, <3>1
    <3>2. CASE ~(identity # NoOne /\ who \in {NoOne, identity})
      BY <2>3, <3>2
    <3> QED BY <3>1, <3>2
  <2>4. CASE VerifyProvisioned
    <3>1. CASE identity = provisionCp.who
      BY <1>1, <2>4, <3>1 DEF VerifyProvisioned, IdentityCursor
    <3>2. CASE identity # provisionCp.who
      BY <2>4, <3>2 DEF VerifyProvisioned
    <3> QED BY <3>1, <3>2
  <2> QED BY <2>1, <2>2, <2>3, <2>4
<1>3. ProvisionsIdentity
  BY <1>1, <1>2 DEF IdentityCursor
<1>4. UNCHANGED <<asked, approvedIdentity, identity>> /\ ProvisionsIdentity'
  BY <1>2, <1>3 DEF IdentityReadsOnly, identityPlans, identityService, ProvisionsIdentity
<1>5. verified.phase = "verified" /\ verified.who = identity
  OBVIOUS
<1>6. \/ pc' \in {"idle", "read provisioned", "replan"}
      \/ pc' = "verify provisioned" /\ provisionCp'.phase = "verified"
      \/ pc' = "identity done" /\ identity # NoOne /\ ~RolesAwaitReplan'
  BY <1>2, <1>3, <1>4, <1>5 DEF Provisioned, RolesAwaitReplan
<1>7. provisionCp'.phase = "verified" => provisionCp'.who # NoOne
  BY <1>1, <1>2, <1>5 DEF IdentityCursor
<1>8. IdentityCursor'
  BY <1>2, <1>4, <1>6, <1>7, SettledStay DEF IdentityCursor, ProvisionSteps, RoleSteps
<1>9. /\ provisionCp' \in [phase : {"none", "submitting", "accepted", "verified"}, who : Principals \cup {NoOne}]
      /\ who' \in Principals \cup {NoOne} /\ pc' # "role sent"
  <2>1. identity \in Principals \cup {NoOne}
    BY <1>1 DEF IdentityTypeOK
  <2>2. verified \in [phase : {"none", "submitting", "accepted", "verified"}, who : Principals \cup {NoOne}]
    BY <2>1
  <2> HIDE DEF verified
  <2> QED BY <1>1, <1>2, <1>6, <2>1, <2>2 DEF IdentityTypeOK
<1> QED BY <1>1, <1>2, <1>8, <1>9, IdentityReadsQuietly DEF IdentityTypeOK
-----------------------------------------------------------------------------
(* The roles, one target after the other, as far as they are only read.     *)
LEMMA RoleSettled ==
  ASSUME IdentityInv, IdentityReadsOnly, UNCHANGED <<provisionCp, who, resuming>>, pc \in RoleSteps,
         NEW t \in asked,
         \/ pc' = "idle" /\ UNCHANGED <<roleCp, settled>>
         \/ /\ pc' = "roles" /\ settled' = settled \cup {t} /\ (\E a \in roles[t] : a.who = who)
            /\ \/ UNCHANGED roleCp
               \/ \E id \in Nat : roleCp' = [roleCp EXCEPT ![t] = [phase |-> "verified", id |-> id]]
  PROVE  IdentityInv'
<1>1. IdentityTypeOK /\ IdentityCursor /\ RolesInv
  BY DEF IdentityInv
<1>2. UNCHANGED <<roles, identity, approvedIdentity, edited, asked>> /\ (ProvisionsIdentity' <=> ProvisionsIdentity)
  BY DEF IdentityReadsOnly, identityService, identityPlans, ProvisionsIdentity
<1>3. /\ ~ProvisionsIdentity /\ approvedIdentity.action # "blocked" /\ who = approvedIdentity.who
      /\ pc' \in {"idle", "roles"}
  BY <1>1 DEF IdentityCursor
<1>4. ~edited => \A u \in settled' : Managed(u, identity) # {}
  <2>1. ~edited => who = identity
    BY <1>1, <1>3 DEF RolesInv
  <2>2. settled' = settled \/ (settled' = settled \cup {t} /\ \E a \in roles[t] : a.who = who)
    OBVIOUS
  <2>3. ~edited => \A u \in settled : Managed(u, identity) # {}
    BY <1>1 DEF IdentityCursor
  <2>4. (\E a \in roles[t] : a.who = who) /\ who = identity => Managed(t, identity) # {}
    BY DEF Managed
  <2> QED BY <2>1, <2>2, <2>3, <2>4
<1>5. \A u : Managed(u, identity)' = Managed(u, identity)
  BY <1>2 DEF Managed
<1>6. IdentityCursor'
  BY <1>1, <1>2, <1>3, <1>4, <1>5 DEF IdentityCursor, ProvisionSteps, RoleSteps
<1>7. /\ roleCp' \in [Targets -> [phase : {"none", "submitting", "accepted", "verified"}, id : Nat]]
      /\ \A u \in Targets : roleCp[u].phase # "none" => roleCp'[u].phase # "none"
  <2>1. CASE UNCHANGED roleCp
    BY <1>1, <2>1 DEF IdentityTypeOK
  <2>2. CASE \E id \in Nat : roleCp' = [roleCp EXCEPT ![t] = [phase |-> "verified", id |-> id]]
    <3>1. PICK id \in Nat : roleCp' = [roleCp EXCEPT ![t] = [phase |-> "verified", id |-> id]]
      BY <2>2
    <3>2. [phase |-> "verified", id |-> id] \in [phase : {"none", "submitting", "accepted", "verified"}, id : Nat]
      OBVIOUS
    <3> QED BY <1>1, <3>1, <3>2 DEF IdentityTypeOK
  <2> QED BY <2>1, <2>2
<1>8. settled' \subseteq asked /\ pc' # "role sent"
  BY <1>1, <1>3 DEF IdentityTypeOK
<1> QED BY <1>1, <1>6, <1>7, <1>8, IdentityReadsQuietly DEF IdentityTypeOK

LEMMA IdentityVerified ==
  ASSUME IdentityInv, VerifyIdentity \/ RolesDone
  PROVE  IdentityInv'
<1>1. IdentityTypeOK /\ IdentityCursor /\ RolesInv
  BY DEF IdentityInv
<1>2. /\ IdentityReadsOnly /\ UNCHANGED <<provisionCp, roleCp, settled, resuming>>
      /\ pc \in RoleSteps \cup {"verify identity"}
      /\ \/ pc' = "idle" /\ UNCHANGED who
         \/ pc' = "roles" /\ identity = approvedIdentity.who /\ who' = identity
         \/ pc' = "identity done" /\ settled = asked /\ UNCHANGED who
  BY DEF VerifyIdentity, RolesDone, Goto, Fail, NoFault, KeepIdentity, identityCp, identityRun, ReadIdentity,
    IdentityReadsOnly, RoleSteps
<1>3. ~ProvisionsIdentity /\ approvedIdentity.action # "blocked" /\ identity # NoOne
  BY <1>1, <1>2 DEF IdentityCursor, IdentityInv
<1>4. UNCHANGED <<asked, approvedIdentity, identity>> /\ ~ProvisionsIdentity' /\ ~RolesAwaitReplan'
  BY <1>2, <1>3 DEF IdentityReadsOnly, identityPlans, identityService, ProvisionsIdentity, RolesAwaitReplan
<1>5. IdentityCursor'
  BY <1>1, <1>2, <1>3, <1>4, SettledStay DEF IdentityCursor, ProvisionSteps, RoleSteps
<1>6. who' \in Principals \cup {NoOne} /\ pc' # "role sent"
  BY <1>1, <1>2 DEF IdentityTypeOK
<1> QED BY <1>1, <1>2, <1>5, <1>6, IdentityReadsQuietly DEF IdentityTypeOK

LEMMA RoleRead ==
  ASSUME IdentityInv, NEW t \in asked, VerifyPlannedRole(t) \/ ResumeRole(t) \/ VerifyRole(t)
  PROVE  IdentityInv'
<1>1. IdentityTypeOK
  BY DEF IdentityInv
<1>2. IdentityReadsOnly /\ UNCHANGED <<who, resuming>> /\ pc \in RoleSteps
  BY DEF VerifyPlannedRole, ResumeRole, VerifyRole, ReadIdentity, NoFault, IdentityReadsOnly, RoleSteps
<1>3. \A id : RoleIsThere(t, id) => id \in Nat /\ \E a \in roles[t] : a.who = who
  BY <1>1 DEF RoleIsThere, Fits, IdentityTypeOK, Assignment
<1>4. \A id \in ResumedRole(t) : id \in Nat /\ \E a \in roles[t] : a.who = who
  <2>1. CASE roleCp[t].phase = "submitting"
    <3> DEFINE managed == Managed(t, who)
    <3>1. \/ ResumedRole(t) = {}
          \/ Cardinality(managed) = 1 /\ ResumedRole(t) = {TheOnly(managed).id}
      BY <2>1 DEF ResumedRole
    <3>2. CASE Cardinality(managed) = 1 /\ ResumedRole(t) = {TheOnly(managed).id}
      <4>1. managed # {}
        BY <3>2, FS_EmptySet
      <4>2. TheOnly(managed) \in managed
        BY <4>1 DEF TheOnly
      <4>3. \A a \in managed : a.who = who /\ a.id \in Nat /\ a \in roles[t]
        BY <1>1 DEF Managed, IdentityTypeOK, Assignment
      <4> QED BY <3>2, <4>2, <4>3
    <3> QED BY <3>1, <3>2
  <2>2. CASE roleCp[t].phase # "submitting"
    BY <1>3, <2>2 DEF ResumedRole
  <2> QED BY <2>1, <2>2
<1>5. CASE VerifyPlannedRole(t)
  BY <1>2, <1>3, <1>5, RoleSettled DEF VerifyPlannedRole, SettleRole, Goto, Fail, KeepIdentity, identityCp
<1>6. CASE ResumeRole(t)
  BY <1>2, <1>4, <1>6, RoleSettled DEF ResumeRole, RecordRole, SettleRole, Goto, Fail, KeepIdentity, identityCp
<1>7. CASE VerifyRole(t)
  BY <1>2, <1>3, <1>7, RoleSettled DEF VerifyRole, RecordRole, SettleRole, Goto, Fail, KeepIdentity, identityCp
<1> QED BY <1>5, <1>6, <1>7
-----------------------------------------------------------------------------
(* The request of a role: recorded, sent, answered or lost.                 *)
LEMMA RoleAsked ==
  ASSUME IdentityInv, NEW t \in asked, SendRole(t) \/ RoleRejected(t)
  PROVE  IdentityInv'
<1>1. IdentityTypeOK /\ IdentityCursor /\ RoleRequestsInv /\ t \in Targets
  BY DEF IdentityInv, IdentityTypeOK
<1>2. /\ IdentityReadsOnly /\ UNCHANGED <<provisionCp, who, settled, resuming>> /\ RoleTurn(t)
      /\ \/ /\ pc = "roles" /\ pc' = "role sent" /\ roleCp[t].phase = "none"
            /\ approvedIdentity.roles[t].action = "create"
            /\ roleCp' = [roleCp EXCEPT ![t] = [phase |-> "submitting", id |-> 0]]
         \/ /\ pc = "role sent" /\ pc' = "idle"
            /\ roleCp' = [roleCp EXCEPT ![t] = [phase |-> "none", id |-> 0]]
  BY DEF SendRole, RoleRejected, ClearRole, RecordRole, Goto, Fail, NoFault, Fault, SpendFault, identityRun,
    IdentityReadsOnly
<1>3. /\ UNCHANGED <<asked, approvedIdentity, identityLate, given, roles, identity>>
      /\ \A u : (RoleTurn(u)' <=> RoleTurn(u)) /\ (RoleOut(u)' <=> RoleOut(u))
      /\ ProvisionsIdentity' <=> ProvisionsIdentity
  BY <1>2 DEF IdentityReadsOnly, identityPlans, identityService, RoleTurn, RoleOut, ProvisionsIdentity
<1>4. \A u \in Targets : /\ u # t => roleCp'[u] = roleCp[u] /\ ~RoleTurn(u)
                         /\ u = t => roleCp'[u].phase = (IF pc' = "idle" THEN "none" ELSE "submitting")
  <2>1. \A u : u # t => ~RoleTurn(u)
    BY <1>1, <1>2, OneTurn
  <2>2. roleCp \in [Targets -> [phase : {"none", "submitting", "accepted", "verified"}, id : Nat]]
    BY <1>1 DEF IdentityTypeOK
  <2>3. \A u \in Targets : u # t => roleCp'[u] = roleCp[u]
    BY <1>2, <2>2
  <2>4. roleCp'[t] = [phase |-> IF pc' = "idle" THEN "none" ELSE "submitting", id |-> 0]
    BY <1>1, <1>2, <2>2
  <2>5. roleCp'[t].phase = (IF pc' = "idle" THEN "none" ELSE "submitting")
    BY <2>4
  <2> QED BY <2>1, <2>3, <2>5, Zenon
<1>5. ~ProvisionsIdentity /\ approvedIdentity.action # "blocked" /\ who = approvedIdentity.who
  BY <1>1, <1>2 DEF IdentityCursor, RoleSteps
<1>6. IdentityCursor'
  BY <1>1, <1>2, <1>3, <1>4, <1>5, SettledStay DEF IdentityCursor, ProvisionSteps, RoleSteps
<1>7. RoleRequestsInv'
  <2> SUFFICES ASSUME NEW u \in Targets  PROVE RoleRequestInv(u)'
    BY DEF RoleRequestsInv
  <2>1. CASE u = t
    BY <1>1, <1>2, <1>3, <1>4, <1>5, <2>1 DEF RoleRequestsInv, RoleRequestInv
  <2>2. CASE u # t
    BY <1>1, <1>2, <1>3, <1>4, <2>2 DEF RoleRequestsInv, RoleRequestInv
  <2> QED BY <2>1, <2>2
<1>8. roleCp' \in [Targets -> [phase : {"none", "submitting", "accepted", "verified"}, id : Nat]]
  <2>1. \A p \in {"none", "submitting"} :
          [phase |-> p, id |-> 0] \in [phase : {"none", "submitting", "accepted", "verified"}, id : Nat]
    OBVIOUS
  <2> QED BY <1>1, <1>2, <2>1 DEF IdentityTypeOK
<1> QED BY <1>1, <1>2, <1>6, <1>7, <1>8, IdentityReadsKeep DEF IdentityTypeOK

(* What giving a role does to the assignments.                              *)
LEMMA RoleGiven ==
  ASSUME IdentityInv, NEW t \in Targets, NEW p \in Principals, GiveRole(t, p)
  PROVE  /\ DOMAIN roles' = Targets /\ given' \in [Targets -> Nat] /\ given'[t] = given[t] + 1
         /\ \A u \in Targets : roles'[u] \subseteq Assignment /\ IsFiniteSet(roles'[u])
         /\ \A u \in Targets \ {t} : roles'[u] = roles[u] /\ given'[u] = given[u]
         /\ \E a : Fits(a, p) /\ roles'[t] = roles[t] \cup {a}
<1>1. /\ DOMAIN roles = Targets /\ given \in [Targets -> Nat] /\ edited \in BOOLEAN
      /\ \A u \in Targets : roles[u] \subseteq Assignment /\ IsFiniteSet(roles[u])
  BY DEF IdentityInv, IdentityTypeOK
<1>2. PICK a : /\ a = [id |-> NewRoleId(t), who |-> p, role |-> "asked"]
               /\ roles' = [roles EXCEPT ![t] = roles[t] \cup {a}] /\ given' = [given EXCEPT ![t] = given[t] + 1]
  BY DEF GiveRole
<1>3. a \in Assignment /\ Fits(a, p)
  <2>1. NewRoleId(t) \in Nat
    BY <1>1 DEF NewRoleId
  <2>2. p \in Nat
    BY IdentityBounds DEF Principals
  <2> QED BY <1>2, <2>1 DEF Assignment, Fits
<1>4. /\ roles'[t] = roles[t] \cup {a} /\ DOMAIN roles' = Targets
      /\ \A u \in Targets \ {t} : roles'[u] = roles[u]
  BY <1>1, <1>2
<1>5. IsFiniteSet(roles'[t])
  BY <1>1, <1>4, FS_AddElement
<1>6. \A u \in Targets : roles'[u] \subseteq Assignment /\ IsFiniteSet(roles'[u])
  BY <1>1, <1>3, <1>4, <1>5
<1>7. given' \in [Targets -> Nat] /\ given'[t] = given[t] + 1 /\ \A u \in Targets \ {t} : given'[u] = given[u]
  BY <1>1, <1>2
<1> QED BY <1>3, <1>4, <1>6, <1>7

(* A role is given where the plan found none, to the planned identity.      *)
LEMMA RoleTaken ==
  ASSUME IdentityInv, NEW t \in Targets, NEW p \in Principals, GiveRole(t, p),
         given[t] = 0, t \in asked, approvedIdentity.action # "blocked", approvedIdentity.roles[t].action = "create",
         ~ProvisionsIdentity, p = approvedIdentity.who,
         UNCHANGED <<identity, asked, approvedIdentity, edited>>
  PROVE  /\ RolesInv'
         /\ ~edited => \A u \in settled : Managed(u, identity)' # {}
<1>1. IdentityTypeOK /\ RolesInv /\ IdentityPlanned /\ IdentityCursor
  BY DEF IdentityInv
<1>2. PICK a : Fits(a, p) /\ roles'[t] = roles[t] \cup {a}
  BY RoleGiven
<1>3. /\ \A u \in Targets \ {t} : roles'[u] = roles[u] /\ given'[u] = given[u]
      /\ given'[t] = 1
  BY RoleGiven
<1>4. ~edited => identity = p /\ Managed(t, identity) = {}
  BY <1>1 DEF RolesInv, IdentityPlanned, PlannedRole, ProvisionsIdentity
<1>5. ~edited => Managed(t, identity)' = {a} /\ a \in roles'[t]
  BY <1>2, <1>4 DEF Managed, Fits
<1>6. \A u \in Targets \ {t} : Managed(u, identity)' = Managed(u, identity)
  BY <1>3 DEF Managed
<1>7. RolesInv'
  <2> SUFFICES ASSUME ~edited
               PROVE  /\ identity' = approvedIdentity'.who
                      /\ \A u \in asked' : IF given'[u] = 0 THEN Managed(u, identity)' = approvedIdentity'.roles[u].managed
                           ELSE \E b \in roles'[u] : Managed(u, identity)' = {b} /\ Fits(b, identity')
    BY DEF RolesInv, Fits
  <2>1. \A u \in asked \ {t} : IF given[u] = 0 THEN Managed(u, identity) = approvedIdentity.roles[u].managed
                           ELSE \E b \in roles[u] : Managed(u, identity) = {b} /\ Fits(b, identity)
    BY <1>1 DEF RolesInv
  <2>2. \A u \in asked \ {t} : u \in Targets
    BY <1>1 DEF IdentityTypeOK
  <2>3. \E b \in roles'[t] : Managed(t, identity)' = {b} /\ Fits(b, identity)
    BY <1>2, <1>4, <1>5
  <2> QED BY <1>3, <1>4, <1>6, <2>1, <2>2, <2>3
<1>8. ~edited => \A u \in settled : Managed(u, identity)' # {}
  BY <1>1, <1>5, <1>6 DEF IdentityCursor, IdentityTypeOK
<1> QED BY <1>7, <1>8

LEMMA RoleGivenOnce ==
  ASSUME IdentityInv, NEW t \in Targets, NEW p \in Principals, GiveRole(t, p),
         given[t] = 0, t \in asked, approvedIdentity.action # "blocked", approvedIdentity.roles[t].action = "create",
         ~ProvisionsIdentity, p = approvedIdentity.who,
         UNCHANGED <<identity, operation, provisioned, asked, approvedIdentity, edited, who, settled, resuming,
                     provisionCp>>,
         identityLate' \subseteq identityLate, ~RoleOut(t)',
         roleCp' \in [Targets -> [phase : {"none", "submitting", "accepted", "verified"}, id : Nat]],
         roleCp'[t].phase # "none", \A u \in Targets \ {t} : roleCp'[u] = roleCp[u],
         \/ UNCHANGED pc /\ ~(pc = "role sent" /\ RoleTurn(t))
         \/ pc' = "idle"
         \/ pc = "role sent" /\ pc' = "role created" /\ RoleTurn(t)
  PROVE  IdentityInv'
<1>1. IdentityTypeOK /\ IdentityCursor /\ RoleRequestsInv
  BY DEF IdentityInv
<1>2. /\ DOMAIN roles' = Targets /\ given' \in [Targets -> Nat] /\ given'[t] = 1
      /\ \A u \in Targets : roles'[u] \subseteq Assignment /\ IsFiniteSet(roles'[u])
      /\ \A u \in Targets \ {t} : given'[u] = given[u]
  <2>1. given'[t] = given[t] + 1
    BY RoleGiven
  <2>2. given'[t] = 1
    BY <2>1, OneMore, Zenon
  <2> QED BY <2>2, RoleGiven
<1>3. RolesInv' /\ (~edited => \A u \in settled : Managed(u, identity)' # {})
  BY RoleTaken
<1>4. /\ \A u : (RoleTurn(u)' <=> RoleTurn(u)) /\ (RoleOut(u)' => RoleOut(u))
      /\ ProvisionsIdentity' <=> ProvisionsIdentity
      /\ RolesAwaitReplan' <=> RolesAwaitReplan
  BY DEF RoleTurn, RoleOut, ProvisionsIdentity, RolesAwaitReplan
<1>5. IdentityTypeOK'
  BY <1>1, <1>2 DEF IdentityTypeOK
<1>6. IdentityPlanned' /\ LateRolesTyped'
  BY <1>4 DEF IdentityInv, IdentityPlanned, PlannedRole, LateRolesTyped
<1>7. RoleRequestsInv'
  <2> SUFFICES ASSUME NEW u \in Targets  PROVE RoleRequestInv(u)'
    BY DEF RoleRequestsInv
  <2>1. RoleRequestInv(u)
    BY <1>1 DEF RoleRequestsInv
  <2>2. CASE u = t
    BY <1>2, <1>4, <2>1, <2>2 DEF RoleRequestInv
  <2>3. CASE u # t
    <3>1. given'[u] = given[u] /\ roleCp'[u] = roleCp[u] /\ (RoleOut(u)' => RoleOut(u))
      BY <1>2, <1>4, <2>3
    <3>2. pc' = "role sent" /\ RoleTurn(u)' => pc = "role sent" /\ RoleTurn(u)
      BY <1>4
    <3> QED BY <1>4, <2>1, <3>1, <3>2 DEF RoleRequestInv
  <2> QED BY <2>2, <2>3
<1>8. IdentityCursor'
  <2>1. pc' = "role created" /\ pc # pc' => \A u \in Targets : RoleTurn(u)' => roleCp'[u].phase # "none"
    <3>1. pc' = "role created" /\ pc # pc' => RoleTurn(t)
      OBVIOUS
    <3>2. \A u : RoleTurn(t) /\ RoleTurn(u)' => u = t
      BY <1>1, <1>4, OneTurn
    <3> QED BY <3>1, <3>2
  <2>2. UNCHANGED pc /\ pc \in {"role sent", "role created"} => \A u \in Targets : RoleTurn(u)' => roleCp'[u].phase # "none"
    BY <1>1, <1>4 DEF IdentityCursor
  <2> QED BY <1>1, <1>3, <1>4, <2>1, <2>2 DEF IdentityCursor, RoleSteps, ProvisionSteps
<1> QED BY <1>2, <1>3, <1>4, <1>5, <1>6, <1>7, <1>8 DEF IdentityInv

(* What the request in hand relies on.                                      *)
LEMMA RoleInHand ==
  ASSUME IdentityInv, NEW t \in asked, RoleTurn(t), pc = "role sent"
  PROVE  /\ t \in Targets /\ given[t] = 0 /\ ~RoleOut(t) /\ ~ProvisionsIdentity
         /\ approvedIdentity.action # "blocked" /\ approvedIdentity.roles[t].action = "create"
         /\ who \in Principals /\ who = approvedIdentity.who /\ roleCp[t].phase # "none"
<1>1. IdentityTypeOK /\ IdentityCursor /\ IdentityPlanned /\ t \in Targets /\ RoleRequestInv(t)
  BY DEF IdentityInv, IdentityTypeOK, RoleRequestsInv
<1> QED BY <1>1 DEF RoleRequestInv, IdentityCursor, RoleSteps, IdentityPlanned

LEMMA RoleAnsweredOnce ==
  ASSUME IdentityInv, NEW t \in asked, RoleAnswered(t)
  PROVE  IdentityInv'
<1>1. /\ pc = "role sent" /\ RoleTurn(t) /\ GiveRole(t, who) /\ pc' = "role created"
      /\ roleCp' = [roleCp EXCEPT ![t] = [phase |-> "accepted", id |-> NewRoleId(t)]]
      /\ UNCHANGED <<identity, operation, provisioned, asked, approvedIdentity, edited, who, settled, resuming,
                     provisionCp, identityLate>>
  BY DEF RoleAnswered, RecordRole, Goto, NoFault, identityRun, identityPlans
<1>2. /\ t \in Targets /\ given[t] = 0 /\ ~RoleOut(t) /\ ~ProvisionsIdentity
      /\ approvedIdentity.action # "blocked" /\ approvedIdentity.roles[t].action = "create"
      /\ who \in Principals /\ who = approvedIdentity.who
  BY <1>1, RoleInHand
<1>3. roleCp \in [Targets -> [phase : {"none", "submitting", "accepted", "verified"}, id : Nat]] /\ NewRoleId(t) \in Nat
  BY <1>2 DEF IdentityInv, IdentityTypeOK, NewRoleId
<1>4. /\ roleCp' \in [Targets -> [phase : {"none", "submitting", "accepted", "verified"}, id : Nat]]
      /\ roleCp'[t].phase # "none" /\ \A u \in Targets \ {t} : roleCp'[u] = roleCp[u]
  <2>1. [phase |-> "accepted", id |-> NewRoleId(t)] \in [phase : {"none", "submitting", "accepted", "verified"}, id : Nat]
    BY <1>3
  <2> QED BY <1>1, <1>2, <1>3, <2>1
<1>5. ~RoleOut(t)'
  BY <1>1, <1>2 DEF RoleOut
<1> QED BY <1>1, <1>2, <1>4, <1>5, RoleGivenOnce

LEMMA RoleReplyLost ==
  ASSUME IdentityInv, NEW t \in asked, RoleLost(t)
  PROVE  IdentityInv'
<1>1. /\ pc = "role sent" /\ RoleTurn(t) /\ pc' = "idle"
      /\ UNCHANGED <<identity, operation, provisioned, asked, approvedIdentity, edited, who, settled, resuming,
                     provisionCp, roleCp>>
      /\ \/ GiveRole(t, who) /\ UNCHANGED identityLate
         \/ identityLate' = identityLate \cup {Pending("role", t, who)} /\ UNCHANGED <<roles, given>>
         \/ UNCHANGED <<roles, given, identityLate>>
  BY DEF RoleLost, KeepIdentity, identityCp, Fail, Fault, Loss, SpendFault, identityRun, identityPlans
<1>2. /\ t \in Targets /\ given[t] = 0 /\ ~RoleOut(t) /\ ~ProvisionsIdentity
      /\ approvedIdentity.action # "blocked" /\ approvedIdentity.roles[t].action = "create"
      /\ who \in Principals /\ who = approvedIdentity.who /\ roleCp[t].phase # "none"
  BY <1>1, RoleInHand
<1>3. IdentityTypeOK /\ IdentityCursor /\ RoleRequestsInv /\ LateRolesTyped
  BY DEF IdentityInv
<1>4. ~RoleOut(t)' \/ identityLate' # identityLate
  BY <1>2 DEF RoleOut
<1>5. CASE GiveRole(t, who) /\ UNCHANGED identityLate
  BY <1>1, <1>2, <1>3, <1>4, <1>5, RoleGivenOnce DEF IdentityTypeOK
<1>6. CASE UNCHANGED <<roles, given, identityLate>>
  <2>1. IdentityReadsOnly
    BY <1>1, <1>6 DEF IdentityReadsOnly, identityService, identityPlans
  <2>2. IdentityCursor'
    BY <1>1, <1>2, <1>3, <2>1, SettledStay DEF IdentityCursor, RoleSteps, ProvisionSteps, ProvisionsIdentity
  <2> QED BY <1>1, <1>3, <2>1, <2>2, IdentityReadsQuietly DEF IdentityTypeOK
<1>7. CASE identityLate' = identityLate \cup {Pending("role", t, who)} /\ UNCHANGED <<roles, given>>
  <2>1. /\ \A u : (u # t => (RoleOut(u)' <=> RoleOut(u))) /\ Managed(u, identity)' = Managed(u, identity)
        /\ ProvisionsIdentity' <=> ProvisionsIdentity
    <3>1. Pending("role", t, who).target = t
      BY DEF Pending
    <3>2. \A u : u # t => (RoleOut(u)' <=> RoleOut(u))
      BY <1>7, <3>1 DEF RoleOut
    <3> QED BY <1>1, <1>7, <3>2 DEF ProvisionsIdentity, Managed
  <2>2. IdentityTypeOK' /\ IdentityPlanned'
    BY <1>1, <1>3, <1>7, <2>1 DEF IdentityInv, IdentityTypeOK, IdentityPlanned, PlannedRole
  <2>3. LateRolesTyped'
    <3> SUFFICES ASSUME NEW l \in identityLate'
                 PROVE  \/ l = Pending("provision", 0, NoOne)
                        \/ /\ l = Pending("role", l.target, l.who) /\ l.target \in Targets /\ l.who \in Principals
                           /\ l.who = approvedIdentity.who
      BY <1>1, <1>2, <2>1 DEF LateRolesTyped
    <3>1. CASE l \in identityLate
      BY <1>2, <1>3, <3>1 DEF LateRolesTyped
    <3>2. CASE l = Pending("role", t, who)
      BY <1>2, <3>2 DEF Pending
    <3> QED BY <1>7, <3>1, <3>2
  <2>4. RolesInv'
    BY <1>1, <1>7, <2>1 DEF IdentityInv, RolesInv
  <2>5. RoleRequestsInv'
    <3> SUFFICES ASSUME NEW u \in Targets  PROVE RoleRequestInv(u)'
      BY DEF RoleRequestsInv
    <3>1. RoleRequestInv(u)
      BY <1>3 DEF RoleRequestsInv
    <3>2. \A l \in identityLate' : l.request = "role" /\ l.target = u =>
             IF u = t THEN l = Pending("role", t, who) ELSE l \in identityLate
      BY <1>2, <1>7 DEF Pending, RoleOut
    <3>3. CASE u = t
      <4>1. given'[t] = 0 /\ t \in asked' /\ ~ProvisionsIdentity' /\ approvedIdentity' = approvedIdentity
            /\ roleCp'[t].phase # "none" /\ pc' # "role sent"
        BY <1>1, <1>2, <1>7, <2>1
      <4>2. \A l, m \in identityLate' :
              l.request = "role" /\ m.request = "role" /\ l.target = t /\ m.target = t => l = m
        BY <3>2, <3>3
      <4>3. RoleRequestInv(t)'
        <5>1. given'[t] \in {0, 1} /\ given'[t] # 1
          BY <4>1, NotYet, Zenon
        <5>2. approvedIdentity'.action # "blocked" /\ approvedIdentity'.roles[t].action = "create"
          BY <1>2, <4>1
        <5>3. ~(pc' = "role sent" /\ RoleTurn(t)') /\ roleCp'[t].phase # "none"
          BY <4>1
        <5> QED BY <4>1, <4>2, <5>1, <5>2, <5>3 DEF RoleRequestInv
      <4> QED BY <3>3, <4>3
    <3>4. CASE u # t
      BY <1>1, <1>7, <2>1, <3>1, <3>2, <3>4 DEF RoleRequestInv
    <3> QED BY <3>3, <3>4
  <2>6. IdentityCursor'
    BY <1>1, <1>2, <1>3, <1>7, <2>1 DEF IdentityCursor, RoleSteps, ProvisionSteps
  <2> QED BY <1>1, <1>7, <2>1, <2>2, <2>3, <2>4, <2>5, <2>6 DEF IdentityInv
<1> QED BY <1>1, <1>5, <1>6, <1>7
-----------------------------------------------------------------------------
(* The provisioning answered, lost, finished or executed late: it makes at  *)
(* most one identity, and only where there is none.                         *)
LEMMA FirstPrincipal == 1 \in Principals /\ 1 # NoOne /\ 1 \in {0, 1}
BY IdentityBounds DEF Principals, NoOne

LEMMA PendingProvision == Pending("provision", 0, NoOne).request # "role"
BY DEF Pending

LEMMA ProvisionMoves ==
  ASSUME IdentityInv, UNCHANGED <<asked, approvedIdentity, roleCp, settled, resuming, roles, given, edited>>,
         \/ UNCHANGED <<identity, provisioned>>
         \/ identity = NoOne /\ identity' = identity + 1 /\ provisioned' = provisioned + 1,
         operation' \in {"none", "running", "succeeded", "failed"},
         identityLate' \subseteq identityLate \cup {Pending("provision", 0, NoOne)},
         \/ UNCHANGED <<pc, who, provisionCp>>
         \/ /\ pc \in ProvisionSteps /\ pc' \in {"idle", "read provisioned", "operation"} /\ who' \in {who, identity'}
            /\ UNCHANGED provisionCp \/ provisionCp' = [phase |-> "accepted", who |-> NoOne]
  PROVE  IdentityInv'
<1>1. IdentityTypeOK /\ IdentityCursor /\ RoleRequestsInv /\ LateRolesTyped /\ IdentityPlanned /\ RolesInv
  BY DEF IdentityInv
<1>2. ProvisionsIdentity' <=> ProvisionsIdentity
  BY DEF ProvisionsIdentity
<1>3. /\ identity' \in Principals \cup {NoOne} /\ provisioned' \in {0, 1} /\ (provisioned' = 1 => identity' # NoOne)
      /\ identity # NoOne => identity' = identity
      /\ ~ProvisionsIdentity => identity # NoOne
  <2>1. /\ identity \in Principals \cup {NoOne} /\ provisioned \in {0, 1} /\ (provisioned = 1 => identity # NoOne)
        /\ ~ProvisionsIdentity => identity # NoOne
    BY <1>1 DEF IdentityInv, IdentityTypeOK
  <2>2. CASE UNCHANGED <<identity, provisioned>>
    BY <2>1, <2>2
  <2>3. CASE identity = NoOne /\ identity' = identity + 1 /\ provisioned' = provisioned + 1
    <3>1. identity' = 1 /\ provisioned' = 1
      <4>1. identity = 0 /\ provisioned = 0
        BY <2>1, <2>3 DEF NoOne
      <4>2. identity' = identity + 1 /\ provisioned' = provisioned + 1
        BY <2>3
      <4>3. identity' = 1
        BY <4>1, <4>2, OneMore, Zenon
      <4>4. provisioned' = 1
        BY <4>1, <4>2, OneMore, Zenon
      <4> QED BY <4>3, <4>4
    <3> QED BY <2>1, <2>3, <3>1, FirstPrincipal, Zenon
  <2> QED BY <2>2, <2>3
<1>4. IdentityTypeOK'
  <2>1. who' \in Principals \cup {NoOne}
    BY <1>1, <1>3 DEF IdentityTypeOK
  <2>2. [phase |-> "accepted", who |-> NoOne] \in [phase : {"none", "submitting", "accepted", "verified"},
                                                  who : Principals \cup {NoOne}]
    OBVIOUS
  <2>3. provisionCp' \in [phase : {"none", "submitting", "accepted", "verified"}, who : Principals \cup {NoOne}]
    BY <1>1, <2>2 DEF IdentityTypeOK
  <2>4. provisioned' \in Nat
    BY <1>3, Bits, Zenon
  <2> QED BY <1>1, <1>3, <2>1, <2>3, <2>4 DEF IdentityTypeOK
<1>5. IdentityPlanned'
  BY <1>1, <1>2 DEF IdentityPlanned, PlannedRole
<1>6. LateRolesTyped'
  BY <1>1, <1>2 DEF LateRolesTyped
<1>7. RolesInv'
  BY <1>1, <1>2, <1>3 DEF RolesInv, Managed
<1>8. RoleRequestsInv'
  <2> SUFFICES ASSUME NEW u \in Targets  PROVE RoleRequestInv(u)'
    BY DEF RoleRequestsInv
  <2>1. RoleRequestInv(u)
    BY <1>1 DEF RoleRequestsInv
  <2>2. \A l \in identityLate' : l.request = "role" => l \in identityLate
    BY PendingProvision
  <2>3. (RoleOut(u)' => RoleOut(u)) /\ (RoleTurn(u)' <=> RoleTurn(u)) /\ (pc' = "role sent" => pc = "role sent")
    BY <2>2 DEF RoleOut, RoleTurn
  <2> QED BY <1>2, <2>1, <2>2, <2>3 DEF RoleRequestInv
<1>9. IdentityCursor'
  <2>1. /\ ProvisionsIdentity => settled = {}
        /\ ~edited => \A t \in settled : Managed(t, identity)' # {}
    BY <1>1, <1>3 DEF IdentityCursor, Managed
  <2>2. provisionCp'.phase = "verified" => provisionCp'.who # NoOne
    <3>1. [phase |-> "accepted", who |-> NoOne].phase # "verified"
      OBVIOUS
    <3> QED BY <1>1, <3>1 DEF IdentityCursor
  <2>3. pc' # pc => ProvisionsIdentity
    BY <1>1 DEF IdentityCursor
  <2>4. CASE UNCHANGED <<pc, who, provisionCp>>
    BY <1>1, <1>2, <1>3, <2>1, <2>4 DEF IdentityCursor, RoleTurn, RolesAwaitReplan
  <2>5. CASE ~UNCHANGED <<pc, who, provisionCp>>
    BY <1>1, <1>2, <2>1, <2>2, <2>3, <2>5 DEF IdentityCursor, ProvisionSteps, RoleSteps
  <2> QED BY <2>4, <2>5
<1> QED BY <1>2, <1>3, <1>4, <1>5, <1>6, <1>7, <1>8, <1>9 DEF IdentityInv

LEMMA ProvisionSettled ==
  ASSUME IdentityInv, ProvisionAnswered \/ ProvisionLost \/ FinishProvision
  PROVE  IdentityInv'
<1>1. operation \in {"none", "running", "succeeded", "failed"}
  BY DEF IdentityInv, IdentityTypeOK
<1> USE DEF ProvisionNow, ProvisionLater, NewPrincipal, Goto, Fail, NoFault, Fault, Loss, SpendFault, RecordProvision,
            KeepIdentity, identityCp, identityRun, identityPlans, ProvisionSteps
<1>2. CASE ProvisionAnswered
  BY <1>1, <1>2, ProvisionMoves DEF ProvisionAnswered
<1>3. CASE ProvisionLost
  BY <1>1, <1>3, ProvisionMoves DEF ProvisionLost, ProvisionOutOfHand
<1>4. CASE FinishProvision
  BY <1>1, <1>4, ProvisionMoves DEF FinishProvision
<1> QED BY <1>2, <1>3, <1>4

LEMMA IdentityExecutedLate ==
  ASSUME IdentityInv, NEW l, ExecuteIdentityLate(l)
  PROVE  IdentityInv'
<1>1. /\ l \in identityLate /\ identityLate' = identityLate \ {l}
      /\ UNCHANGED <<provisionCp, roleCp, asked, approvedIdentity, who, settled, resuming, pc, edited>>
  BY DEF ExecuteIdentityLate, NoFault, identityCp, identityRun, identityPlans
<1>2. IdentityTypeOK /\ RoleRequestsInv /\ LateRolesTyped /\ IdentityPlanned
  BY DEF IdentityInv
<1>3. CASE l.request = "provision"
  BY <1>1, <1>2, <1>3, ProvisionMoves
     DEF ExecuteIdentityLate, ProvisionNow, ProvisionLater, NewPrincipal, IdentityTypeOK
<1>4. CASE l.request # "provision"
  <2>1. l = Pending("role", l.target, l.who) /\ l.target \in Targets /\ l.who \in Principals
    BY <1>1, <1>2, <1>4 DEF LateRolesTyped, Pending
  <2>2. l.request = "role"
    BY <2>1 DEF Pending
  <2>3. RoleOut(l.target) /\ RoleRequestInv(l.target) /\ ~RoleOut(l.target)'
    BY <1>1, <1>2, <2>1, <2>2 DEF RoleOut, RoleRequestsInv, RoleRequestInv
  <2>4. /\ given[l.target] = 0 /\ l.target \in asked /\ ~ProvisionsIdentity /\ approvedIdentity.action # "blocked"
        /\ approvedIdentity.roles[l.target].action = "create" /\ roleCp[l.target].phase # "none"
        /\ ~(pc = "role sent" /\ RoleTurn(l.target))
    BY <2>3 DEF RoleRequestInv
  <2>5. l.who = approvedIdentity.who
    BY <1>1, <1>2, <2>2, <2>4, PendingProvision DEF LateRolesTyped
  <2>6. GiveRole(l.target, l.who) /\ UNCHANGED <<identity, operation, provisioned>>
    BY <1>4 DEF ExecuteIdentityLate
  <2> QED BY <1>1, <1>2, <2>1, <2>3, <2>4, <2>5, <2>6, RoleGivenOnce DEF IdentityTypeOK
<1> QED BY <1>3, <1>4

(* Somebody else's hand in the identity or in its roles.                    *)
LEMMA IdentityEdited ==
  ASSUME IdentityInv, EditIdentity
  PROVE  IdentityInv'
<1>1. /\ edited' = TRUE
      /\ UNCHANGED <<operation, identityLate, provisioned, given, provisionCp, roleCp, asked, approvedIdentity,
                     who, settled, resuming, pc>>
      /\ \/ identity' = identity + 1 /\ identity < MaxPrincipals /\ UNCHANGED roles
         \/ UNCHANGED <<identity>> /\ \E t \in Targets, p \in 1..identity, role \in {"asked", "other"} :
              roles' = [roles EXCEPT ![t] = roles[t] \cup {[id |-> NewRoleId(t), who |-> p, role |-> role]}]
         \/ UNCHANGED <<identity>> /\ \E t \in Targets : roles' = [roles EXCEPT ![t] = {}]
  BY DEF EditIdentity, Foreign, NewPrincipal, identityCp, identityPlans, identityRun
<1>2. /\ IdentityTypeOK /\ IdentityCursor /\ RoleRequestsInv /\ LateRolesTyped /\ IdentityPlanned
      /\ edited \in BOOLEAN /\ DOMAIN roles = Targets /\ \A t \in Targets : IsFiniteSet(roles[t])
      /\ provisioned \in {0, 1} /\ (provisioned = 1 => identity # NoOne) /\ (~ProvisionsIdentity => identity # NoOne)
  BY DEF IdentityInv
<1>3. identity' \in Principals \cup {NoOne} /\ (identity # NoOne => identity' # NoOne)
  BY <1>1, <1>2, IdentityBounds DEF IdentityTypeOK, Principals, NoOne
<1>4. DOMAIN roles' = Targets /\ \A t \in Targets : roles'[t] \subseteq Assignment /\ IsFiniteSet(roles'[t])
  <2>1. \A t \in Targets : roles[t] \subseteq Assignment /\ IsFiniteSet(roles[t])
    BY <1>2 DEF IdentityTypeOK
  <2>2. CASE UNCHANGED roles
    BY <1>2, <2>1, <2>2
  <2>3. CASE \E t \in Targets, p \in 1..identity, role \in {"asked", "other"} :
              roles' = [roles EXCEPT ![t] = roles[t] \cup {[id |-> NewRoleId(t), who |-> p, role |-> role]}]
    <3>1. PICK t \in Targets, p \in 1..identity, role \in {"asked", "other"} :
            roles' = [roles EXCEPT ![t] = roles[t] \cup {[id |-> NewRoleId(t), who |-> p, role |-> role]}]
      BY <2>3
    <3> DEFINE a == [id |-> NewRoleId(t), who |-> p, role |-> role]
    <3>2. a \in Assignment
      <4>1. NewRoleId(t) \in Nat
        BY <1>2 DEF NewRoleId, IdentityTypeOK
      <4>2. p \in Principals
        BY <1>2, IdentityBounds DEF IdentityTypeOK, Principals, NoOne
      <4> QED BY <4>1, <4>2 DEF Assignment
    <3> HIDE DEF a
    <3>3. IsFiniteSet(roles[t] \cup {a}) /\ roles[t] \cup {a} \subseteq Assignment
      BY <2>1, <3>2, FS_AddElement
    <3>4. roles' = [roles EXCEPT ![t] = roles[t] \cup {a}]
      BY <3>1 DEF a
    <3> QED BY <1>2, <2>1, <3>3, <3>4
  <2>4. CASE \E t \in Targets : roles' = [roles EXCEPT ![t] = {}]
    BY <1>2, <2>1, <2>4, FS_EmptySet
  <2> QED BY <1>1, <2>2, <2>3, <2>4
<1>5. ProvisionsIdentity' <=> ProvisionsIdentity
  BY <1>1 DEF ProvisionsIdentity
<1>6. IdentityTypeOK'
  BY <1>1, <1>2, <1>3, <1>4 DEF IdentityTypeOK
<1>7. IdentityPlanned' /\ LateRolesTyped' /\ RolesInv'
  BY <1>1, <1>2, <1>5 DEF IdentityPlanned, PlannedRole, LateRolesTyped, RolesInv
<1>8. RoleRequestsInv'
  <2>1. \A u : (RoleOut(u)' <=> RoleOut(u)) /\ (RoleTurn(u)' <=> RoleTurn(u))
    BY <1>1 DEF RoleOut, RoleTurn
  <2> SUFFICES ASSUME NEW u \in Targets PROVE RoleRequestInv(u)'
    BY DEF RoleRequestsInv
  <2>2. RoleRequestInv(u) /\ (RoleOut(u)' <=> RoleOut(u)) /\ (RoleTurn(u)' <=> RoleTurn(u))
    BY <1>2, <2>1 DEF RoleRequestsInv
  <2> QED BY <1>1, <1>5, <2>2 DEF RoleRequestInv
<1>9. IdentityCursor'
  BY <1>1, <1>2, <1>3, <1>5 DEF IdentityCursor, RoleTurn, RolesAwaitReplan
<1> QED BY <1>1, <1>2, <1>3, <1>4, <1>5, <1>6, <1>7, <1>8, <1>9 DEF IdentityInv

(* Steps of the workspace, and those around both.                           *)
LEMMA IdentityElsewhere ==
  ASSUME IdentityInv, UNCHANGED identityVars, edited' \in BOOLEAN, edited => edited',
         UNCHANGED pc \/ pc' \notin IdentitySteps \ {"identity preflight", "identity"}
  PROVE  IdentityInv'
<1>1. /\ UNCHANGED <<identity, operation, roles, identityLate, provisioned, given, provisionCp, roleCp, asked,
                     approvedIdentity, who, settled, resuming>>
      /\ ProvisionsIdentity' <=> ProvisionsIdentity
  BY DEF identityVars, identityService, identityCp, identityPlans, identityReads, identityRun, ProvisionsIdentity
<1>2. /\ IdentityTypeOK /\ IdentityCursor /\ RoleRequestsInv /\ LateRolesTyped /\ IdentityPlanned /\ RolesInv
      /\ edited \in BOOLEAN
  BY DEF IdentityInv
<1>3. UNCHANGED pc \/ pc' \notin ProvisionSteps \cup RoleSteps \cup {"verify identity", "identity done"}
  BY DEF IdentitySteps, ProvisionSteps, RoleSteps
<1>4. ~edited' => ~edited
  BY <1>2
<1>5. IdentityTypeOK' /\ IdentityPlanned' /\ LateRolesTyped'
  BY <1>1, <1>2 DEF IdentityTypeOK, IdentityPlanned, PlannedRole, LateRolesTyped
<1>6. RolesInv'
  BY <1>1, <1>2, <1>4 DEF RolesInv, Managed
<1>7. RoleRequestsInv'
  BY <1>1, <1>2, <1>3 DEF RoleRequestsInv, RoleRequestInv, RoleOut, RoleTurn, RoleSteps
<1>8. IdentityCursor'
  BY <1>1, <1>2, <1>3, <1>4 DEF IdentityCursor, RoleTurn, RolesAwaitReplan, Managed, RoleSteps, ProvisionSteps
<1> QED BY <1>1, <1>2, <1>5, <1>6, <1>7, <1>8 DEF IdentityInv

LEMMA IdentityStarted ==
  ASSUME IdentityInv, ReadIdentityPlan, NoFault, pc' \in {"workspace", "identity preflight"}
  PROVE  IdentityInv'
<1>1. IdentityTypeOK /\ IdentityCursor
  BY DEF IdentityInv
<1>2. /\ IdentityReadsOnly /\ UNCHANGED <<provisionCp, roleCp>>
      /\ who' = NoOne /\ settled' = {} /\ resuming' = FALSE
  BY DEF ReadIdentityPlan, NoFault, IdentityReadsOnly, identityCp
<1>3. IdentityCursor'
  BY <1>1, <1>2 DEF IdentityCursor, RoleSteps, ProvisionSteps
<1>4. who' \in Principals \cup {NoOne} /\ settled' \subseteq asked /\ resuming' \in BOOLEAN
  BY <1>2
<1> QED BY <1>1, <1>2, <1>3, <1>4, IdentityReadsQuietly DEF IdentityTypeOK

(* A plan of the identity that blocks nothing finds, for each role asked    *)
(* for, no assignment or the one asked for.                                 *)
LEMMA IdentityPlannable ==
  ASSUME \A t \in asked : IsFiniteSet(roles[t])
  PROVE  /\ PlanIdentity.who = identity /\ (PlanIdentity.action = "create" <=> identity = NoOne)
         /\ \A t \in asked : PlanIdentity.roles[t].managed = Managed(t, identity)
         /\ PlanIdentity.action \notin {"create", "blocked"} => \A t \in asked :
              LET plan == PlanIdentity.roles[t]
              IN  \/ plan.action = "create" /\ plan.managed = {}
                  \/ plan.action = "no-op" /\ \E a \in plan.managed : plan.managed = {a} /\ Fits(a, identity)
<1> DEFINE plans == [t \in asked |-> PlanRole(t)]
           some(action) == \E t \in asked : plans[t].action = action
           act == CASE identity = NoOne   -> "create"
                  [] identity # NoOne /\ some("blocked") -> "blocked"
                  [] identity # NoOne /\ ~some("blocked") /\ some("create") -> "update"
                  [] OTHER              -> "no-op"
<1>1. PlanIdentity = [action |-> act, who |-> identity, roles |-> plans]
  BY DEF PlanIdentity
<1>2. act = "create" <=> identity = NoOne
  OBVIOUS
<1>3. act \notin {"create", "blocked"} => identity # NoOne /\ ~some("blocked")
  OBVIOUS
<1>4. \A t \in asked : plans[t].managed = Managed(t, identity)
  BY DEF PlanRole
<1>5. ASSUME NEW t \in asked, act \notin {"create", "blocked"}
      PROVE  \/ plans[t].action = "create" /\ plans[t].managed = {}
             \/ plans[t].action = "no-op" /\ \E a \in plans[t].managed : plans[t].managed = {a} /\ Fits(a, identity)
  <2> DEFINE managed == Managed(t, identity)
  <2>1. /\ identity # NoOne /\ plans[t].action # "blocked" /\ plans[t].managed = managed
        /\ plans[t] = PlanRole(t)
    BY <1>3, <1>4, <1>5
  <2>2. IsFiniteSet(managed)
    BY FS_Subset DEF Managed
  <2>3. \/ plans[t].action = "create" /\ managed = {}
        \/ plans[t].action = "no-op" /\ Cardinality(managed) = 1 /\ Fits(TheOnly(managed), identity)
    BY <2>1 DEF PlanRole
  <2>4. CASE Cardinality(managed) = 1
    <3>1. PICK a : managed = {a}
      BY <2>2, <2>4, FS_Singleton
    <3>2. TheOnly(managed) = a
      BY <3>1 DEF TheOnly
    <3> QED BY <2>1, <2>3, <3>1, <3>2
  <2>5. CASE Cardinality(managed) # 1
    BY <2>1, <2>3, <2>5
  <2> QED BY <2>4, <2>5
<1> HIDE DEF plans, act
<1>6. PlanIdentity.action = act /\ PlanIdentity.who = identity /\ PlanIdentity.roles = plans
  BY <1>1
<1> QED BY <1>2, <1>4, <1>5, <1>6

LEMMA IdentityPlannedAnew ==
  ASSUME IdentityInv, NewPlan
  PROVE  IdentityInv'
<1>1. /\ identityLate = {} /\ approvedIdentity' = PlanIdentity /\ provisionCp' = NoProvision
      /\ roleCp' = [t \in Targets |-> NoRole] /\ provisioned' = 0 /\ given' = [t \in Targets |-> 0] /\ pc' = "idle"
      /\ UNCHANGED <<asked, identity, operation, roles, identityLate, who, settled, resuming, edited>>
  BY DEF NewPlan, NoFault, identityRun
<1>2. /\ IdentityTypeOK /\ IdentityCursor /\ edited \in BOOLEAN
      /\ DOMAIN roles = Targets /\ (\A t \in Targets : IsFiniteSet(roles[t])) /\ (~ProvisionsIdentity => identity # NoOne)
  BY DEF IdentityInv
<1>3. /\ approvedIdentity'.who = identity /\ (ProvisionsIdentity' <=> identity = NoOne)
      /\ \A t \in asked : approvedIdentity'.roles[t].managed = Managed(t, identity)
      /\ approvedIdentity'.action \notin {"create", "blocked"} => \A t \in asked : PlannedRole(t)'
  BY <1>1, <1>2, IdentityPlannable DEF IdentityTypeOK, ProvisionsIdentity, PlannedRole, Fits
<1>4. IdentityTypeOK'
  BY <1>1, <1>2 DEF IdentityTypeOK, NoProvision, NoRole
<1>5. IdentityPlanned' /\ LateRolesTyped' /\ RolesInv'
  BY <1>1, <1>2, <1>3 DEF IdentityPlanned, LateRolesTyped, RolesInv, Managed, IdentityTypeOK
<1>6. RoleRequestsInv'
  BY <1>1 DEF RoleRequestsInv, RoleRequestInv, RoleOut
<1>7. IdentityCursor'
  BY <1>1, <1>2, <1>3 DEF IdentityCursor, RoleSteps, ProvisionSteps, NoProvision, Managed
<1> QED BY <1>1, <1>2, <1>3, <1>4, <1>5, <1>6, <1>7 DEF IdentityInv

LEMMA IdentityInitially ==
  ASSUME IdentityInit, RunInit
  PROVE  IdentityInv
<1>1. /\ asked \subseteq Targets /\ identity \in {NoOne, 1} /\ operation = "none"
      /\ roles \in [Targets -> {{}, {[id |-> 0, who |-> 1, role |-> "asked"]}}]
      /\ approvedIdentity = PlanIdentity /\ identityLate = {} /\ provisioned = 0 /\ given = [t \in Targets |-> 0]
      /\ provisionCp = NoProvision /\ roleCp = [t \in Targets |-> NoRole]
      /\ who = NoOne /\ settled = {} /\ resuming = FALSE /\ pc = "idle" /\ edited = FALSE
  BY DEF IdentityInit, RunInit
<1>2. DOMAIN roles = Targets /\ \A t \in Targets : roles[t] \subseteq Assignment /\ IsFiniteSet(roles[t])
  <2>1. [id |-> 0, who |-> 1, role |-> "asked"] \in Assignment
    BY FirstPrincipal DEF Assignment
  <2>2. IsFiniteSet({[id |-> 0, who |-> 1, role |-> "asked"]}) /\ IsFiniteSet({})
    BY FS_Singleton, FS_EmptySet
  <2> QED BY <1>1, <2>1, <2>2
<1>3. IdentityTypeOK
  BY <1>1, <1>2, FirstPrincipal DEF IdentityTypeOK, NoProvision, NoRole
<1>4. /\ approvedIdentity.who = identity /\ (ProvisionsIdentity <=> identity = NoOne)
      /\ \A t \in asked : approvedIdentity.roles[t].managed = Managed(t, identity)
      /\ approvedIdentity.action \notin {"create", "blocked"} => \A t \in asked : PlannedRole(t)
  BY <1>1, <1>2, IdentityPlannable DEF ProvisionsIdentity, PlannedRole, Fits
<1>5. IdentityPlanned /\ LateRolesTyped /\ RolesInv
  BY <1>1, <1>3, <1>4 DEF IdentityPlanned, LateRolesTyped, RolesInv, IdentityTypeOK
<1>6. RoleRequestsInv
  BY <1>1 DEF RoleRequestsInv, RoleRequestInv, RoleOut
<1>7. IdentityCursor
  BY <1>1 DEF IdentityCursor, RoleSteps, ProvisionSteps, NoProvision
<1>8. provisioned \in {0, 1} /\ provisioned # 1
  BY <1>1, NotYet, Zenon
<1> QED BY <1>1, <1>2, <1>3, <1>4, <1>5, <1>6, <1>7, <1>8 DEF IdentityInv
-----------------------------------------------------------------------------
(* The two together: which steps lead from which, and that each leaves the  *)
(* other's invariant alone.                                                 *)
LEMMA SpaceStep ==
  ASSUME IInv, AskSpace \/ ApplySpace
  PROVE  SpaceInv' /\ pc \in SpaceSteps /\ pc' \in SpaceSteps \cup {"idle"} /\ UNCHANGED edited
<1>1. SpaceInv
  BY DEF IInv
<1>2. SpaceInv'
  <2>1. CASE AskSpace
    <3>1. PICK q \in SpaceRequests : SendSpace(q) \/ TakeSpaceAnswer(q) \/ TakeSpaceRejection(q) \/ LoseSpaceReply(q)
      BY <2>1 DEF AskSpace
    <3>2. q \in {"create", "patch", "assign"}
      BY DEF SpaceRequests
    <3> QED BY <1>1, <3>1, <3>2, SpaceAsked, CreateAnswered, PatchAnswered, AssignAnswered, SpaceRejected, SpaceReplyLost
  <2>2. CASE ApplySpace
    BY <1>1, <2>2, Routed, CreateResumed, UpdateResumed, Updated, Polled, Verified DEF ApplySpace
  <2> QED BY <2>1, <2>2
<1>3. pc \in SpaceSteps /\ pc' \in SpaceSteps \cup {"idle"} /\ UNCHANGED edited
  <2> USE DEF Goto, Fail, NoFault, Fault, Loss, SpendFault, ReadSpace
  <2>1. CASE AskSpace
    <3>1. PICK q \in SpaceRequests : SendSpace(q) \/ TakeSpaceAnswer(q) \/ TakeSpaceRejection(q) \/ LoseSpaceReply(q)
      BY <2>1 DEF AskSpace
    <3>2. q \in {"create", "patch", "assign"}
      BY DEF SpaceRequests
    <3>3. CASE SendSpace(q)
      BY <3>2, <3>3 DEF SendSpace, SpaceSent, SpaceSteps
    <3>4. CASE TakeSpaceAnswer(q)
      BY <3>2, <3>4 DEF TakeSpaceAnswer, SpaceSent, SpaceSteps, AfterAccept
    <3>5. CASE TakeSpaceRejection(q)
      BY <3>2, <3>5 DEF TakeSpaceRejection, SpaceSent, SpaceSteps
    <3>6. CASE LoseSpaceReply(q)
      BY <3>2, <3>6 DEF LoseSpaceReply, SpaceOutOfHand, SpaceSent, SpaceSteps
    <3> QED BY <3>1, <3>3, <3>4, <3>5, <3>6
  <2>2. CASE ApplyManagedWorkspace
    BY <2>2 DEF ApplyManagedWorkspace, Route, SpaceSteps
  <2>3. CASE ResumeCreate
    <3> DEFINE w == IF spaceCp.id # NoId THEN spaceCp.id ELSE CHOOSE v \in Named : TRUE
    <3>1. /\ pc = "resume create" /\ UNCHANGED edited
          /\ pc' \in {"verify", "idle", TakeUpAssignment(w), Capacity(w, TRUE)}
      BY <2>3 DEF ResumeCreate
    <3> QED BY <3>1, CapacityNext DEF SpaceSteps
  <2>4. CASE ResumeUpdate
    BY <2>4, CapacityNext DEF ResumeUpdate, SpaceSteps
  <2>5. CASE UpdateSpace \/ UpdateCapacity
    <3>1. /\ pc \in {"update", "capacity"} /\ UNCHANGED edited
          /\ pc' \in {"idle", "patch", "verify", Capacity(wid, approvedSpace.assign)}
      BY <2>5 DEF UpdateSpace, UpdateCapacity
    <3>2. approvedSpace.assign \in BOOLEAN
      BY <1>1 DEF SpaceInv, SpacePlanned
    <3> QED BY <3>1, <3>2, CapacityNext DEF SpaceSteps
  <2>6. CASE PollCapacity
    BY <2>6 DEF PollCapacity, SpaceSteps
  <2>7. CASE VerifySpace
    BY <2>7 DEF VerifySpace, SpaceSteps
  <2> QED BY <2>1, <2>2, <2>3, <2>4, <2>5, <2>6, <2>7 DEF ApplySpace
<1> QED BY <1>2, <1>3

LEMMA IdentityStep ==
  ASSUME IInv, AskIdentity \/ ApplyIdentity
  PROVE  /\ IdentityInv' /\ pc \in IdentitySteps /\ UNCHANGED edited
         /\ pc' \in (IdentitySteps \ {"identity preflight"}) \cup {"idle", "replan", "workspace"}
         /\ pc = "identity preflight" => pc' \in {"idle", "workspace"}
         /\ pc # "identity preflight" => pc' # "workspace"
<1>1. IdentityInv
  BY DEF IInv
<1>2. asked \subseteq Targets
  BY <1>1 DEF IdentityInv, IdentityTypeOK
<1> USE DEF Goto, Fail, NoFault, Fault, Loss, SpendFault, ReadIdentity, IdentitySteps, RoleSteps, ProvisionSteps
<1>3. CASE SendProvision \/ ProvisionAnswered \/ ProvisionRejected \/ ProvisionLost
  BY <1>1, <1>3, ProvisionAsked, ProvisionSettled
     DEF SendProvision, ProvisionAnswered, ProvisionRejected, ProvisionLost, ProvisionOutOfHand
<1>4. CASE \E t \in asked : SendRole(t) \/ RoleAnswered(t) \/ RoleRejected(t) \/ RoleLost(t)
  BY <1>1, <1>4, RoleAsked, RoleAnsweredOnce, RoleReplyLost DEF SendRole, RoleAnswered, RoleRejected, RoleLost
<1>5. CASE PreflightIdentity
  BY <1>1, <1>5, Preflighted DEF PreflightIdentity
<1>6. CASE ApplyWorkspaceIdentity
  <2>1. provisionCp.phase \in {"none", "submitting", "accepted", "verified"}
    BY <1>1 DEF IdentityInv, IdentityTypeOK
  <2> QED BY <1>1, <1>6, <2>1, Preflighted DEF ApplyWorkspaceIdentity
<1>7. CASE AwaitProvision \/ FindIdentity \/ ReadProvisioned \/ VerifyProvisioned
  BY <1>1, <1>7, ProvisionRead DEF AwaitProvision, FindIdentity, ReadProvisioned, VerifyProvisioned, Provisioned
<1>8. CASE VerifyIdentity \/ RolesDone
  BY <1>1, <1>8, IdentityVerified DEF VerifyIdentity, RolesDone
<1>9. CASE \E t \in asked : VerifyPlannedRole(t) \/ ResumeRole(t) \/ VerifyRole(t)
  BY <1>1, <1>9, RoleRead DEF VerifyPlannedRole, ResumeRole, VerifyRole, SettleRole
<1> QED BY <1>3, <1>4, <1>5, <1>6, <1>7, <1>8, <1>9 DEF AskIdentity, ApplyIdentity

(* A step under the same plans keeps them in order, if it leaves an         *)
(* identity that is there and goes on where the run may go on.              *)
LEMMA Joined ==
  ASSUME JoinInv, UNCHANGED <<approvedSpace, approvedIdentity, asked, managesIdentity, touched>>,
         \/ UNCHANGED pc /\ (identity # NoOne => identity' # NoOne)
         \/ pc' \in {"idle", "replan", "replan required", "succeeded"} \cup SpaceSteps
         \/ pc' \in IdentitySteps \ {"identity preflight"} /\ managesIdentity
         \/ pc' = "items" /\ (managesIdentity => identity' # NoOne /\ ~RolesAwaitReplan)
  PROVE  JoinInv'
<1>1. (CreatesSpace' <=> CreatesSpace) /\ (RolesAwaitReplan' <=> RolesAwaitReplan)
  BY DEF CreatesSpace, RolesAwaitReplan, ProvisionsIdentity
<1>2. CASE UNCHANGED pc /\ (identity # NoOne => identity' # NoOne)
  BY <1>1, <1>2 DEF JoinInv
<1>3. CASE pc' \in {"idle", "replan", "replan required", "succeeded"} \cup SpaceSteps
  <2>1. pc' \notin IdentitySteps \cup {"items"}
    BY <1>3 DEF SpaceSteps, IdentitySteps, RoleSteps, ProvisionSteps
  <2> QED BY <1>1, <1>3, <2>1 DEF JoinInv, IdentitySteps
<1>4. CASE pc' \in IdentitySteps \ {"identity preflight"} /\ managesIdentity
  <2>1. pc' # "items"
    BY <1>4 DEF IdentitySteps, RoleSteps, ProvisionSteps
  <2> QED BY <1>1, <1>4, <2>1 DEF JoinInv
<1>5. CASE pc' = "items" /\ (managesIdentity => identity' # NoOne /\ ~RolesAwaitReplan)
  <2>1. pc' \notin IdentitySteps
    BY <1>5 DEF IdentitySteps, RoleSteps, ProvisionSteps
  <2> QED BY <1>1, <1>5, <2>1 DEF JoinInv, IdentitySteps
<1> QED BY <1>2, <1>3, <1>4, <1>5

(* Neither Fabric nor anybody else takes the identity away.                 *)
LEMMA IdentityStays ==
  ASSUME IdentityInv, EditIdentity \/ IdentityServes, identity # NoOne
  PROVE  identity' # NoOne
<1>1. identity \in Principals
  BY DEF IdentityInv, IdentityTypeOK, NoOne
<1>2. identity' \in {identity, identity + 1}
  BY <1>1 DEF EditIdentity, IdentityServes, FinishProvision, ExecuteIdentityLate, NewPrincipal, ProvisionNow, ProvisionLater
<1> QED BY <1>1, <1>2, IdentityBounds DEF Principals, NoOne

LEMMA Initially ==
  ASSUME Init
  PROVE  IInv
<1>1. pc = "idle" /\ touched = FALSE
  BY DEF Init, RunInit
<1>2. JoinInv
  BY <1>1 DEF JoinInv, IdentitySteps, RoleSteps, ProvisionSteps
<1> QED BY <1>2, SpaceInitially, IdentityInitially DEF Init, IInv

LEMMA StepKeeps ==
  ASSUME IInv, [Next]_vars
  PROVE  IInv'
<1>1. SpaceInv /\ IdentityInv /\ JoinInv /\ edited \in BOOLEAN
  BY DEF IInv, SpaceInv
<1>2. CASE Start
  <2>1. /\ ReadSpacePlan /\ ReadIdentityPlan /\ NoFault /\ UNCHANGED <<managesIdentity, touched>>
        /\ pc' = (IF CreatesSpace \/ ~managesIdentity THEN "workspace" ELSE "identity preflight")
    BY <1>2 DEF Start, Goto, composition
  <2>2. SpaceInv' /\ IdentityInv'
    BY <1>1, <2>1, SpaceStarted, IdentityStarted
  <2>3. UNCHANGED <<approvedSpace, approvedIdentity, asked>>
    BY <2>1 DEF ReadSpacePlan, ReadIdentityPlan, spacePlans, identityPlans
  <2>4. JoinInv'
    <3>1. (CreatesSpace' <=> CreatesSpace) /\ (RolesAwaitReplan' <=> RolesAwaitReplan)
      BY <2>3 DEF CreatesSpace, RolesAwaitReplan, ProvisionsIdentity
    <3>2. CASE pc' = "workspace"
      BY <1>1, <2>1, <2>3, <3>2, Joined DEF SpaceSteps
    <3>3. CASE pc' = "identity preflight" /\ ~CreatesSpace /\ managesIdentity
      BY <1>1, <2>1, <3>1, <3>3 DEF JoinInv, IdentitySteps
    <3> QED BY <2>1, <3>2, <3>3
  <2> QED BY <2>2, <2>4 DEF IInv
<1>3. CASE NewPlan
  <2>1. SpaceInv' /\ IdentityInv'
    BY <1>1, <1>3, SpacePlannedAnew, IdentityPlannedAnew
  <2>2. pc' = "idle" /\ touched' = FALSE
    BY <1>3 DEF NewPlan
  <2>3. JoinInv'
    BY <2>2 DEF JoinInv, IdentitySteps, RoleSteps, ProvisionSteps
  <2> QED BY <2>1, <2>3 DEF IInv
<1>4. CASE Workspace
  <2>1. (AskSpace \/ ApplySpace) /\ UNCHANGED <<identityVars, managesIdentity, touched>>
    BY <1>4 DEF Workspace, composition
  <2>2. SpaceInv' /\ pc' \in SpaceSteps \cup {"idle"} /\ UNCHANGED edited
    BY <2>1, SpaceStep
  <2>3. IdentityInv'
    <3>1. pc' \notin IdentitySteps
      BY <2>2 DEF SpaceSteps, IdentitySteps, RoleSteps, ProvisionSteps
    <3> QED BY <1>1, <2>1, <2>2, <3>1, IdentityElsewhere
  <2>4. UNCHANGED <<approvedSpace, approvedIdentity, asked>>
    <3>1. UNCHANGED spacePlans
      BY <2>1 DEF AskSpace, ApplySpace, SendSpace, TakeSpaceAnswer, TakeSpaceRejection, LoseSpaceReply,
        ApplyManagedWorkspace, ResumeCreate, ResumeUpdate, UpdateSpace, UpdateCapacity, PollCapacity, VerifySpace, ReadSpace
    <3> QED BY <2>1, <3>1 DEF spacePlans, identityVars, identityPlans
  <2>5. JoinInv'
    BY <1>1, <2>1, <2>2, <2>4, Joined
  <2> QED BY <2>2, <2>3, <2>5 DEF IInv
<1>5. CASE Identity
  <2>1. (AskIdentity \/ ApplyIdentity) /\ UNCHANGED <<spaceVars, managesIdentity, touched>>
    BY <1>5 DEF Identity, composition
  <2>2. /\ IdentityInv' /\ pc \in IdentitySteps /\ UNCHANGED edited
        /\ pc' \in (IdentitySteps \ {"identity preflight"}) \cup {"idle", "replan", "workspace"}
        /\ pc = "identity preflight" => pc' \in {"idle", "workspace"}
        /\ pc # "identity preflight" => pc' # "workspace"
    BY <2>1, IdentityStep
  <2>3. SpaceInv'
    <3>1. CASE pc' \in {"idle", "replan", "workspace"}
      BY <1>1, <2>1, <2>2, <3>1, SpaceElsewhere
    <3>2. CASE pc' \notin {"idle", "replan", "workspace"}
      <4>1. pc \in AfterSpace \ {"workspace done"} /\ pc' \in AfterSpace \ {"workspace done"}
        BY <2>2, <3>2 DEF AfterSpace, IdentitySteps, RoleSteps, ProvisionSteps
      <4>2. ~CreatesSpace
        BY <1>1, <4>1 DEF SpaceInv, ReadyInv
      <4> QED BY <1>1, <2>1, <2>2, <4>1, <4>2, SpaceElsewhere
    <3> QED BY <3>1, <3>2
  <2>4. UNCHANGED <<approvedSpace, approvedIdentity, asked>>
    <3>1. UNCHANGED identityPlans
      BY <2>1 DEF AskIdentity, ApplyIdentity, SendProvision, ProvisionAnswered, ProvisionRejected, ProvisionLost, SendRole,
        RoleAnswered, RoleRejected, RoleLost, PreflightIdentity, ApplyWorkspaceIdentity, AwaitProvision, FindIdentity,
        ReadProvisioned, VerifyProvisioned, VerifyIdentity, RolesDone, VerifyPlannedRole, ResumeRole, VerifyRole,
        ReadIdentity, identityVars
    <3> QED BY <2>1, <3>1 DEF spaceVars, spacePlans, identityPlans
  <2>5. JoinInv'
    <3>1. managesIdentity
      BY <1>1, <2>2 DEF JoinInv
    <3>2. "workspace" \in SpaceSteps
      BY DEF SpaceSteps
    <3> QED BY <1>1, <2>1, <2>2, <2>4, <3>1, <3>2, Joined
  <2> QED BY <2>2, <2>3, <2>5 DEF IInv
<1>6. CASE WorkspaceResolved
  <2>1. /\ pc = "workspace done" /\ UNCHANGED <<spaceVars, identityVars, managesIdentity, touched, edited>>
        /\ \/ pc' = "replan"
           \/ pc' = "identity" /\ ~CreatesSpace /\ managesIdentity
           \/ pc' = "items" /\ ~CreatesSpace /\ ~managesIdentity
    BY <1>6 DEF WorkspaceResolved, Goto, composition, NoFault
  <2>2. SpaceInv'
    <3>1. pc \in AfterSpace /\ {"identity", "items"} \subseteq AfterSpace \ {"workspace done"}
      BY <2>1 DEF AfterSpace, IdentitySteps
    <3> QED BY <1>1, <2>1, <3>1, SpaceElsewhere
  <2>3. IdentityInv'
    <3>1. pc' \notin IdentitySteps \ {"identity preflight", "identity"}
      BY <2>1 DEF IdentitySteps, RoleSteps, ProvisionSteps
    <3> QED BY <1>1, <2>1, <3>1, IdentityElsewhere
  <2>4. JoinInv'
    <3>1. UNCHANGED <<approvedSpace, approvedIdentity, asked>>
      BY <2>1 DEF spaceVars, spacePlans, identityVars, identityPlans
    <3> QED BY <1>1, <2>1, <3>1, Joined DEF IdentitySteps
  <2> QED BY <2>2, <2>3, <2>4 DEF IInv
<1>7. CASE IdentityResolved
  <2>1. /\ pc = "identity done" /\ pc' = "items"
        /\ UNCHANGED <<spaceVars, identityVars, managesIdentity, touched, edited>>
    BY <1>7 DEF IdentityResolved, Goto, composition, NoFault
  <2>2. SpaceInv'
    <3>1. pc \in AfterSpace \ {"workspace done"} /\ "items" \in AfterSpace \ {"workspace done"}
      BY <2>1 DEF AfterSpace, IdentitySteps
    <3>2. ~CreatesSpace
      BY <1>1, <3>1 DEF SpaceInv, ReadyInv
    <3> QED BY <1>1, <2>1, <3>1, <3>2, SpaceElsewhere
  <2>3. IdentityInv'
    <3>1. pc' \notin IdentitySteps
      BY <2>1 DEF IdentitySteps, RoleSteps, ProvisionSteps
    <3> QED BY <1>1, <2>1, <3>1, IdentityElsewhere
  <2>4. JoinInv'
    <3>1. UNCHANGED <<approvedSpace, approvedIdentity, asked, identity>>
      BY <2>1 DEF spaceVars, spacePlans, identityVars, identityPlans, identityService
    <3>2. identity # NoOne /\ ~RolesAwaitReplan
      BY <1>1, <2>1 DEF IdentityInv, IdentityCursor
    <3> QED BY <1>1, <2>1, <3>1, <3>2, Joined
  <2> QED BY <2>2, <2>3, <2>4 DEF IInv
<1>8. CASE StopForReplan \/ ApplyItems \/ Crash
  <2>1. /\ UNCHANGED <<spaceVars, identityVars, managesIdentity, edited>>
        /\ pc' \in {"replan required", "succeeded", "idle"}
        /\ UNCHANGED touched \/ (pc = "items" /\ touched' = TRUE)
    BY <1>8 DEF StopForReplan, ApplyItems, Crash, Goto, Fail, composition, NoFault, Fault, SpendFault
  <2>2. SpaceInv'
    BY <1>1, <2>1, SpaceElsewhere
  <2>3. pc' \notin IdentitySteps
    BY <2>1 DEF IdentitySteps, RoleSteps, ProvisionSteps
  <2>4. IdentityInv'
    BY <1>1, <2>1, <2>3, IdentityElsewhere
  <2>5. UNCHANGED <<approvedSpace, approvedIdentity, asked>>
    BY <2>1 DEF spaceVars, spacePlans, identityVars, identityPlans
  <2>6. (CreatesSpace' <=> CreatesSpace) /\ (RolesAwaitReplan' <=> RolesAwaitReplan)
    BY <2>5 DEF CreatesSpace, RolesAwaitReplan, ProvisionsIdentity
  <2>7. JoinInv'
    <3>1. CASE UNCHANGED touched
      BY <1>1, <2>1, <2>5, <3>1, Joined
    <3>2. CASE pc = "items" /\ touched' = TRUE
      <4>1. pc \in AfterSpace \ {"workspace done"}
        BY <3>2 DEF AfterSpace
      <4>2. ~CreatesSpace
        BY <1>1, <4>1 DEF SpaceInv, ReadyInv
      <4>3. managesIdentity => ~RolesAwaitReplan
        BY <1>1, <3>2 DEF JoinInv
      <4> QED BY <2>1, <2>3, <2>6, <3>2, <4>2, <4>3 DEF JoinInv, IdentitySteps
    <3> QED BY <2>1, <3>1, <3>2
  <2> QED BY <2>2, <2>4, <2>7 DEF IInv
<1>9. CASE SpaceServes /\ UNCHANGED <<identityVars, composition>>
  <2>1. SpaceInv' /\ UNCHANGED <<pc, edited, wanted, approvedSpace>>
    BY <1>1, <1>9, SpaceExecutedLate, AssignmentFinished
       DEF SpaceServes, ExecuteSpaceLate, FinishAssignment, NoFault, Loss, SpendFault, spacePlans
  <2>2. IdentityInv'
    BY <1>1, <1>9, <2>1, IdentityElsewhere
  <2>3. UNCHANGED <<approvedIdentity, asked, identity, managesIdentity, touched>>
    BY <1>9 DEF composition, identityVars, identityPlans, identityService
  <2>4. JoinInv'
    BY <1>1, <2>1, <2>3, Joined
  <2> QED BY <2>1, <2>2, <2>4 DEF IInv
<1>10. CASE IdentityServes /\ UNCHANGED <<spaceVars, composition>>
  <2>1. IdentityInv' /\ UNCHANGED <<pc, edited, asked, approvedIdentity>>
    BY <1>1, <1>10, ProvisionSettled, IdentityExecutedLate
       DEF IdentityServes, FinishProvision, ExecuteIdentityLate, NoFault, Loss, SpendFault, identityPlans
  <2>2. SpaceInv'
    BY <1>1, <1>10, <2>1, SpaceElsewhere
  <2>3. UNCHANGED <<approvedSpace, managesIdentity, touched>>
    BY <1>10 DEF composition, spaceVars, spacePlans
  <2>4. JoinInv'
    BY <1>1, <1>10, <2>1, <2>3, IdentityStays, Joined
  <2> QED BY <2>1, <2>2, <2>4 DEF IInv
<1>11. CASE (\E w \in Ids : EditSpace(w)) /\ UNCHANGED <<identityVars, composition>>
  <2>1. SpaceInv' /\ UNCHANGED <<pc, wanted, approvedSpace>> /\ edited' = TRUE
    BY <1>1, <1>11, SpaceEdited DEF EditSpace, Foreign, spacePlans
  <2>2. IdentityInv'
    BY <1>1, <1>11, <2>1, IdentityElsewhere
  <2>3. UNCHANGED <<approvedIdentity, asked, identity, managesIdentity, touched>>
    BY <1>11 DEF composition, identityVars, identityPlans, identityService
  <2>4. JoinInv'
    BY <1>1, <2>1, <2>3, Joined
  <2> QED BY <2>1, <2>2, <2>4 DEF IInv
<1>12. CASE EditIdentity /\ UNCHANGED <<spaceVars, composition>>
  <2>1. IdentityInv' /\ UNCHANGED <<pc, asked, approvedIdentity>> /\ edited' = TRUE
    BY <1>1, <1>12, IdentityEdited DEF EditIdentity, Foreign, identityPlans
  <2>2. SpaceInv'
    BY <1>1, <1>12, <2>1, SpaceElsewhere
  <2>3. UNCHANGED <<approvedSpace, managesIdentity, touched>>
    BY <1>12 DEF composition, spaceVars, spacePlans
  <2>4. JoinInv'
    BY <1>1, <1>12, <2>1, <2>3, IdentityStays, Joined
  <2> QED BY <2>1, <2>2, <2>4 DEF IInv
<1>13. CASE UNCHANGED vars
  <2>1. /\ UNCHANGED <<spaceVars, identityVars, managesIdentity, touched, pc, edited>>
    BY <1>13 DEF vars, composition, runVars
  <2>2. UNCHANGED <<approvedSpace, approvedIdentity, asked, identity>>
    BY <2>1 DEF spaceVars, spacePlans, identityVars, identityPlans, identityService
  <2> QED BY <1>1, <2>1, <2>2, SpaceElsewhere, IdentityElsewhere, Joined DEF IInv
<1> QED BY <1>2, <1>3, <1>4, <1>5, <1>6, <1>7, <1>8, <1>9, <1>10, <1>11, <1>12, <1>13
        DEF Next, Run, Steps, Fabric, Others
-----------------------------------------------------------------------------
(* What the inductive invariant says of the properties.                     *)
LEMMA BootstrapFollows ==
  ASSUME IInv
  PROVE  BootstrapInv
<1>1. /\ SpaceTypeOK /\ SpaceRequestsInv /\ IdentityTypeOK /\ RoleRequestsInv
      /\ RolesInv /\ IdentityCursor /\ IdentityPlanned /\ asked \subseteq Targets
  BY DEF IInv, SpaceInv, IdentityInv, IdentityTypeOK
<1>2. WorkspaceTracked
  <2>1. created > 0 \/ Out("create") => spaceCp.phase # "none"
    <3>1. spaceCp.phase = "none" => created = 0 /\ ~Out("create")
      BY <1>1 DEF SpaceRequestsInv
    <3>2. created > 0 => created # 0
      BY <1>1 DEF SpaceTypeOK
    <3> QED BY <3>1, <3>2
  <2>2. assigned > 0 \/ Out("assign") => Assigning \/ spaceCp.phase = "completed"
    <3>1. pc \in {"assign", "assign sent"} \/ (~Assigning /\ spaceCp.phase # "completed") =>
            assigned = 0 /\ ~Out("assign")
      BY <1>1 DEF SpaceRequestsInv
    <3>2. assigned > 0 => assigned # 0
      BY <1>1 DEF SpaceTypeOK
    <3> QED BY <3>1, <3>2
  <2> QED BY <2>1, <2>2 DEF WorkspaceTracked, Out, Assigning
<1>3. IdentityTracked
  <2> SUFFICES ASSUME NEW t \in Targets, given[t] > 0 \/ RoleOut(t)
               PROVE  roleCp[t].phase # "none"
    BY DEF IdentityTracked, RoleOut
  <2>1. RoleRequestInv(t)
    BY <1>1 DEF RoleRequestsInv
  <2>2. given[t] # 0 \/ RoleOut(t)
    OBVIOUS
  <2> QED BY <2>1, <2>2 DEF RoleRequestInv
<1>4. IdentityDoneIsTrue
  <2> SUFFICES ASSUME pc = "identity done", ~edited, ~ProvisionsIdentity, NEW t \in asked
               PROVE  \E a \in roles[t] : Managed(t, identity) = {a} /\ Fits(a, identity)
    BY DEF IdentityDoneIsTrue
  <2>1. Managed(t, identity) # {}
    BY <1>1 DEF IdentityCursor
  <2>2. CASE given[t] # 0
    BY <1>1, <2>2 DEF RolesInv
  <2>3. CASE given[t] = 0
    <3>1. identity = approvedIdentity.who /\ Managed(t, identity) = approvedIdentity.roles[t].managed
      BY <1>1, <2>3 DEF RolesInv
    <3>2. approvedIdentity.action \notin {"create", "blocked"}
      BY <1>1 DEF IdentityCursor, ProvisionsIdentity
    <3>3. PlannedRole(t)
      BY <1>1, <3>2 DEF IdentityPlanned
    <3> QED BY <2>1, <3>1, <3>3 DEF PlannedRole, Managed
  <2> QED BY <2>2, <2>3
<1> QED BY <1>1, <1>2, <1>3, <1>4 DEF BootstrapInv

LEMMA SentOnceFollows ==
  ASSUME IInv
  PROVE  SentOnce
<1>1. created \in {0, 1} /\ assigned \in {0, 1} /\ ~blind
  BY DEF IInv, SpaceInv, SpaceRequestsInv
<1>2. provisioned \in {0, 1} /\ \A t \in Targets : given[t] \in {0, 1}
  BY DEF IInv, IdentityInv, RoleRequestsInv, RoleRequestInv
<1> QED BY <1>1, <1>2 DEF SentOnce, WorkspaceOnce, PatchNotBlind, IdentityOnce

LEMMA ReadyFollows ==
  ASSUME IInv
  PROVE  ItemsOnReadyWorkspace
<1>1. ReadyInv /\ JoinInv
  BY DEF IInv, SpaceInv
<1> QED BY <1>1 DEF ReadyInv, JoinInv, AfterSpace, ItemsOnReadyWorkspace
-----------------------------------------------------------------------------
(* The inductive invariant holds of every run, rerun and fresh plan.        *)
THEOREM InductiveInvariant == Spec => []IInv
<1>1. Init => IInv
  BY Initially
<1>2. IInv /\ [Next]_vars => IInv'
  BY StepKeeps
<1> QED BY <1>1, <1>2, PTL DEF Spec

(* Every request to make a workspace, assign a capacity or give a role that *)
(* took effect or still may is in the checkpoint, and a run that is through *)
(* with the identity (applyWorkspaceIdentity) leaves one fitting assignment *)
(* in every target, however its requests and replies went.                  *)
THEOREM BootstrapSafe == Spec => []BootstrapInv
<1>1. IInv => BootstrapInv
  BY BootstrapFollows
<1> QED BY <1>1, InductiveInvariant, PTL

(* All reruns of an approved plan make at most one workspace, assign its    *)
(* capacity at most once, provision at most one identity and give each role *)
(* at most once, and send no PATCH over one nobody saw ("will not be        *)
(* redispatched").                                                          *)
THEOREM RequestsSentOnce == Spec => []SentOnce
<1>1. IInv => SentOnce
  BY SentOnceFollows
<1> QED BY <1>1, InductiveInvariant, PTL

(* applyApprovedPlan touches items only in the workspace its plan observed, *)
(* as it was verified, and never under a plan that made the workspace or    *)
(* provisioned the identity its roles wait for (requiresItemReplan).        *)
THEOREM ItemsTouchReadyWorkspace == Spec => []ItemsOnReadyWorkspace
<1>1. IInv => ItemsOnReadyWorkspace
  BY ReadyFollows
<1> QED BY <1>1, InductiveInvariant, PTL
=============================================================================
