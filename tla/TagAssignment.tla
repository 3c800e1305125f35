---------------------------- MODULE TagAssignment ----------------------------
(***************************************************************************)
(* Fabric tags are created in the tenant's catalogue and then assigned to  *)
(* an item (src/src/fabric/tags.ts; applyItemTagAssignment and             *)
(* reconcilePendingTagAssignments in src/src/apply.ts).  How the item      *)
(* itself is created is ItemApply's: here it is one step.                  *)
(***************************************************************************)
EXTENDS ApplyRun

CONSTANTS
  Tags,         \* the item's desired tags, in the order of their stages
  FirstTagged   \* catalogue and item to begin with: one of these

ASSUME TagBounds ==
  /\ Tags \subseteq Nat \ {0}
  /\ \A first \in FirstTagged :
       /\ first.catalogue \in [Tags -> {"none", "there", "taken"}]
       /\ first.item \in [there : BOOLEAN, tags : SUBSET Tags]

VARIABLES
  approvedTags,  \* what the plan saw
  catalogue,     \* each tag: "none", "there", or "taken" by one that conflicts
  tagged,        \* the item: whether it exists, and the desired tags it carries
  tagLate,       \* requests the service may yet execute
  tagCp,         \* each tag's record in the checkpoint
  itemCp,        \* the item's record
  assignCp,      \* checkpoint.tagAssignments[item]
  tagsAsked      \* history: tags whose creation has been sent

tagService == <<catalogue, tagged, tagLate>>
tagRecords == <<tagCp, itemCp, assignCp>>
tagVars == <<approvedTags, tagService, tagRecords, tagsAsked>>

(* FabricTagAdapter.plan.                                                   *)
PlanTag(c, t) ==
  CASE c[t] = "none"  -> "create"
    [] c[t] = "there" -> "no-op"
    [] c[t] = "taken" -> "blocked"

(* enrichTagAssignments: while a tag or the item has yet to be created, all *)
(* its tags count as missing.                                               *)
Deferred(c, i) == ~i.there \/ \E t \in Tags : c[t] # "there"
PlanMissing(c, i) == IF Deferred(c, i) THEN Tags ELSE Tags \ i.tags
PlanAssignment(c, i) ==
  IF \E t \in Tags : PlanTag(c, t) = "blocked" THEN "blocked"
  ELSE IF PlanMissing(c, i) = {} THEN "no-op" ELSE "update"

PlanTagged(c, i) ==
  [tag |-> [t \in Tags |-> PlanTag(c, t)],
   item |-> IF i.there THEN "no-op" ELSE "create",
   missing |-> PlanMissing(c, i), action |-> PlanAssignment(c, i)]
Assignment(plan) == <<plan.missing, plan.action>>

TagsInit ==
  /\ \E first \in FirstTagged : catalogue = first.catalogue /\ tagged = first.item
  /\ approvedTags = PlanTagged(catalogue, tagged)
  /\ tagLate = {} /\ tagsAsked = {}
  /\ tagCp = [t \in Tags |-> "none"] /\ itemCp = "none" /\ assignCp = "none"

BlockedTags == approvedTags.action = "blocked"
(* Some tags are carried already, others have yet to be created.            *)
MixedTags == approvedTags.item = "no-op" /\ \E t \in Tags : approvedTags.tag[t] = "create"
             /\ tagged.tags # {}
-----------------------------------------------------------------------------
OnlyReadsTags == UNCHANGED <<approvedTags, tagService, tagsAsked>> /\ NoFault
KeepTagRecords == UNCHANGED tagRecords
TagsDone == \A t \in Tags : tagCp[t] = "done"
NextTag(t) == tagCp[t] # "done" /\ \A u \in Tags : u < t => tagCp[u] = "done"

(* reconcilePendingCreates, then reconcilePendingTagAssignments.            *)
StartTagRun ==
  /\ pc \in {"idle", "succeeded"}
  /\ LET pending == {t \in Tags : tagCp[t] = "submitting"}
     IN  IF BlockedTags \/ \E t \in pending : catalogue[t] # "there"
         THEN Fail /\ UNCHANGED tagCp
         ELSE /\ tagCp' = [t \in Tags |-> IF t \in pending THEN "done" ELSE tagCp[t]]
              /\ Goto(IF assignCp # "none" THEN "assign" ELSE "preflight tags")
  /\ UNCHANGED <<itemCp, assignCp>> /\ OnlyReadsTags

(* preflightPlan: what is completed is there, the rest is as approved.      *)
PreflightTags ==
  /\ pc = "preflight tags"
  /\ LET live == PlanTagged(catalogue, tagged)
         tagsStand == \A t \in Tags :
           live.tag[t] = IF tagCp[t] = "done" THEN "no-op" ELSE approvedTags.tag[t]
         itemStands == IF itemCp = "done" THEN live.item = "no-op"
                       ELSE live.item = approvedTags.item /\ Assignment(live) = Assignment(approvedTags)
     IN  IF tagsStand /\ itemStands THEN Goto("tags") ELSE Fail
  /\ KeepTagRecords /\ OnlyReadsTags

TagStep(t) == pc = "tags" /\ NextTag(t)

(* A tag that was there when the plan was made.                             *)
VerifyTag(t) ==
  /\ TagStep(t) /\ approvedTags.tag[t] = "no-op"
  /\ IF catalogue[t] = "there" THEN tagCp' = [tagCp EXCEPT ![t] = "done"] /\ UNCHANGED pc
     ELSE Fail /\ UNCHANGED tagCp
  /\ UNCHANGED <<itemCp, assignCp>> /\ OnlyReadsTags

(* assertFreshItemHasNotDrifted, and the record before the POST.            *)
BeginTag(t) ==
  /\ TagStep(t) /\ approvedTags.tag[t] = "create"
  /\ IF catalogue[t] = "none"
     THEN Goto("create tag") /\ tagCp' = [tagCp EXCEPT ![t] = "submitting"]
     ELSE Fail /\ UNCHANGED tagCp
  /\ UNCHANGED <<itemCp, assignCp>> /\ OnlyReadsTags

CreateTag(t) == catalogue' = [catalogue EXCEPT ![t] = "there"]
TagAnswered(t) ==
  /\ pc = "create tag" /\ NextTag(t) /\ catalogue[t] = "none"
  /\ CreateTag(t) /\ tagCp' = [tagCp EXCEPT ![t] = "done"]
  /\ tagsAsked' = tagsAsked \cup {t} /\ Goto("tags")
  /\ UNCHANGED <<approvedTags, tagged, tagLate, itemCp, assignCp>> /\ NoFault

(* Rejected or unanswered, the record stays: there is no onCreateRejected   *)
(* for tags.  If the tag never appears no rerun gets past it.               *)
TagUnanswered(t) ==
  /\ pc = "create tag" /\ NextTag(t)
  /\ \/ catalogue[t] = "none" /\ CreateTag(t) /\ UNCHANGED tagLate /\ Fault
     \/ tagLate' = tagLate \cup {t} /\ UNCHANGED catalogue /\ Fault
     \/ UNCHANGED <<catalogue, tagLate>> /\ Loss
  /\ tagsAsked' = tagsAsked \cup {t} /\ Fail
  /\ KeepTagRecords /\ UNCHANGED <<approvedTags, tagged>>

ItemTurn ==
  /\ pc = "tags" /\ TagsDone
  /\ Goto(IF itemCp = "done" THEN "assign" ELSE "apply item")
  /\ KeepTagRecords /\ OnlyReadsTags

(* planFreshTagAssignment: now the tags are there.                          *)
TagDrift ==
  LET live == PlanTagged(catalogue, tagged)
  IN  \/ live.item # approvedTags.item
      \/ tagged.there /\ Assignment(live) # Assignment(approvedTags)

(* A created item is recorded at once, one that is only verified with its   *)
(* tags.                                                                    *)
ApplyTagged ==
  /\ pc = "apply item"
  /\ IF TagDrift THEN Fail /\ UNCHANGED <<tagged, itemCp>>
     ELSE /\ Goto("assign") /\ tagged' = [tagged EXCEPT !.there = TRUE]
          /\ itemCp' = IF approvedTags.item = "create" THEN "done" ELSE itemCp
  /\ UNCHANGED <<approvedTags, catalogue, tagLate, tagsAsked, tagCp, assignCp>> /\ NoFault

(* applyItemTagAssignment: what is missing is read, not taken from the plan. *)
PlanItemAssignment ==
  /\ pc = "assign"
  /\ LET missing == Tags \ tagged.tags
     IN  CASE approvedTags.action = "no-op" -> Goto(IF missing = {} THEN "tags verified" ELSE "idle")
                                               /\ UNCHANGED assignCp
           [] approvedTags.action = "update" /\ missing = {} -> Goto("tags verified") /\ assignCp' = "verified"
           [] approvedTags.action = "update" /\ missing # {} -> Goto("apply tags") /\ assignCp' = "submitting"
  /\ UNCHANGED <<tagCp, itemCp>> /\ OnlyReadsTags

Assign == tagged' = [tagged EXCEPT !.tags = Tags]
TagsAnswered ==
  /\ pc = "apply tags" /\ Assign /\ Goto("verify tags")
  /\ KeepTagRecords /\ UNCHANGED <<approvedTags, catalogue, tagLate, tagsAsked>> /\ NoFault
TagsUnanswered ==
  /\ pc = "apply tags"
  /\ \/ Assign /\ UNCHANGED tagLate
     \/ tagLate' = tagLate \cup {0} /\ UNCHANGED tagged
     \/ UNCHANGED <<tagged, tagLate>>
  /\ Fail /\ Fault
  /\ KeepTagRecords /\ UNCHANGED <<approvedTags, catalogue, tagsAsked>>

VerifyItemAssignment ==
  /\ pc = "verify tags"
  /\ IF tagged.tags = Tags THEN assignCp' = "verified" /\ Goto("tags verified") ELSE Fail /\ UNCHANGED assignCp
  /\ UNCHANGED <<tagCp, itemCp>> /\ OnlyReadsTags

(* The item is completed; a recovered assignment comes before the rest.     *)
TagsVerified ==
  /\ pc = "tags verified"
  /\ itemCp' = "done" /\ Goto(IF TagsDone THEN "succeeded" ELSE "tags")
  /\ UNCHANGED <<tagCp, assignCp>> /\ OnlyReadsTags

CrashTags ==
  /\ pc \notin {"idle", "succeeded", "create tag", "apply tags"}
  /\ Fail /\ Fault /\ UNCHANGED tagVars
-----------------------------------------------------------------------------
TagsLate ==
  /\ \E request \in tagLate :
       /\ tagLate' = tagLate \ {request}
       /\ IF request = 0 THEN Assign /\ UNCHANGED catalogue
          ELSE catalogue[request] = "none" /\ CreateTag(request) /\ UNCHANGED tagged
  /\ UNCHANGED <<approvedTags, tagRecords, tagsAsked, pc>> /\ NoFault

(* Somebody else tags the item or takes a tag off it.                       *)
EditTags ==
  /\ Foreign /\ tagged.there
  /\ \E t \in Tags, on \in BOOLEAN :
       /\ on => catalogue[t] = "there"
       /\ tagged' = [tagged EXCEPT !.tags = IF on THEN @ \cup {t} ELSE @ \ {t}]
  /\ UNCHANGED <<approvedTags, catalogue, tagLate, tagRecords, tagsAsked, pc>>

AskTags ==
  \/ \E t \in Tags : BeginTag(t) \/ TagAnswered(t) \/ TagUnanswered(t)
  \/ ApplyTagged \/ TagsAnswered \/ TagsUnanswered
ReadTags ==
  \/ \E t \in Tags : VerifyTag(t)
  \/ PreflightTags \/ ItemTurn \/ PlanItemAssignment \/ VerifyItemAssignment \/ TagsVerified
TagsNext == StartTagRun \/ AskTags \/ ReadTags \/ TagsLate \/ EditTags \/ CrashTags
TagsSpec == RunInit /\ TagsInit /\ [][TagsNext]_<<runVars, tagVars>>
-----------------------------------------------------------------------------
TagsTypeOK ==
  /\ catalogue \in [Tags -> {"none", "there", "taken"}]
  /\ tagged \in [there : BOOLEAN, tags : SUBSET Tags]
  /\ tagLate \subseteq Tags \cup {0} /\ tagsAsked \subseteq Tags
  /\ tagCp \in [Tags -> {"none", "submitting", "done"}]
  /\ itemCp \in {"none", "done"} /\ assignCp \in {"none", "submitting", "verified"}

(* A deployment succeeds only with the item's tags in place, also when the  *)
(* run that completed the item stopped before its tags.                     *)
SuccessMeansTagged == pc = "succeeded" /\ ~edited => tagged.tags = Tags

(* No tag is created twice in the tenant's catalogue, where nothing is ever *)
(* deleted: its creation is sent once, however many runs there are.         *)
TagsAskedOnce ==
  \A t \in Tags : TagAnswered(t) \/ TagUnanswered(t) => t \notin tagsAsked

(* "ensures same-plan tags are created before assignment" (README.md): a    *)
(* run finds the item changed after the approval only if somebody else has  *)
(* changed it.                                                              *)
DriftMeansChange == pc = "apply item" /\ ~edited => ~TagDrift
=============================================================================
