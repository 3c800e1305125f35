----------------------------- MODULE MCContent -----------------------------
(* Each protocol with two or three faults, or one or two and an edit.       *)
EXTENDS Content

MCBudgets ==
  {[faults |-> 3, edits |-> 0], [faults |-> 2, edits |-> 0],
   [faults |-> 2, edits |-> 1], [faults |-> 1, edits |-> 1]}
(* The protocols whose requests are few afford one fault more.              *)
Affordable ==
  IF protocol \in {"staging", "tags"} THEN budget.faults + budget.edits = 3
  ELSE budget.faults + budget.edits = 2

(* An empty Lakehouse, one with its schemas, and one that has everything.   *)
MCCatalogs ==
  {[r \in Resources |-> "absent"],
   [r \in Resources |-> IF r \in Schemas THEN "owned" ELSE "absent"],
   [r \in Resources |-> "owned"]}
MCTableGrants == SUBSET {"schema", "table"}

EnvironmentOf(meta, staged, marked, published, pubMarked, state) ==
  [meta |-> meta, staged |-> staged, marked |-> marked, published |-> published,
   pubMarked |-> pubMarked, state |-> state, version |-> IF published = "none" THEN 0 ELSE 1]
(* None; out of date; as desired, marked or not; never published; whose     *)
(* last publish failed.                                                     *)
MCFirstEnvironments ==
  {NoEnvironment,
   EnvironmentOf("old", "old", FALSE, "old", FALSE, "Success"),
   EnvironmentOf("desired", "desired", TRUE, "desired", TRUE, "Success"),
   EnvironmentOf("desired", "old", FALSE, "none", FALSE, "None"),
   EnvironmentOf("desired", "desired", FALSE, "old", FALSE, "Failed"),
   EnvironmentOf("desired", "desired", FALSE, "desired", FALSE, "Success"),
   EnvironmentOf("desired", "desired", FALSE, "desired", TRUE, "Success")}

JobOf(file, ledger, meta, definition) ==
  [meta |-> meta, definition |-> definition, file |-> file, ledger |-> ledger]
(* None; out of date; half uploaded; without a definition of its own; with  *)
(* somebody else's file, in the way or not.                                 *)
MCFirstJobs ==
  {NoJob,
   JobOf(<<"old", "old", "old", "old">>, <<"old", "old", "old", "old">>, "old", "old"),
   JobOf(<<"desired", "old", "absent", "old">>, <<"desired", "old", "none", "old">>, "desired", "old"),
   JobOf(<<"absent", "absent", "desired", "old">>, <<"none", "old", "none", "old">>, "desired", "desired"),
   JobOf(<<"desired", "foreign", "desired", "absent">>, <<"desired", "none", "desired", "none">>, "desired", "desired"),
   JobOf(<<"desired", "absent", "foreign", "absent">>, <<"desired", "none", "none", "none">>, "desired", "desired")}

TaggedOf(tags, there, on) == [catalogue |-> tags, item |-> [there |-> there, tags |-> on]]
MCFirstTagged ==
  {TaggedOf(<<"none", "none">>, FALSE, {}), TaggedOf(<<"there", "none">>, FALSE, {}),
   TaggedOf(<<"none", "none">>, TRUE, {}), TaggedOf(<<"there", "none">>, TRUE, {}),
   TaggedOf(<<"there", "taken">>, TRUE, {}),
   TaggedOf(<<"there", "there">>, TRUE, {1}), TaggedOf(<<"there", "there">>, TRUE, {1, 2})}
(* An item that has one of its tags, while the other is to be created.      *)
MCMixedTags == {TaggedOf(<<"there", "none">>, TRUE, {1}), TaggedOf(<<"there", "there">>, TRUE, {1, 2})}

MCInit == Init /\ Affordable
MCSpec == MCInit /\ [][Next]_vars
MCFairSpec == MCSpec /\ Fairness
=============================================================================
