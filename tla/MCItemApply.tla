----------------------------- MODULE MCItemApply -----------------------------
(* Small plans for ItemApply: each run's .cfg picks one.                     *)
EXTENDS ItemApplyInvariant, TLC

(* A bound on create requests that never bites: every further request for   *)
(* an item is preceded by a fault.                                          *)
ASSUME PostsSuffice == MaxFaults < MaxPosts

AllFlags == {"create", "update", "delete"}
EveryFlag == {AllFlags}
AnyFlags  == {AllFlags, AllFlags \ {"create"}, AllFlags \ {"update"}}

RankABC  == "a" :> 1 @@ "b" :> 2 @@ "c" :> 3
RankABCD == RankABC @@ "d" :> 4
RankABCDE == RankABCD @@ "e" :> 5
BOnA     == "a" :> {} @@ "b" :> {"a"} @@ "c" :> {}
BOnA_D   == BOnA @@ "d" :> {}

(* A Lakehouse and a Data Agent that depends on it to be created, an        *)
(* Ontology to be updated, and a Warehouse that is already there.           *)
ItemsTypes   == "a" :> "Lakehouse" @@ "b" :> "DataAgent" @@ "c" :> "Ontology" @@ "d" :> "Warehouse"
ItemsActions == "a" :> "create" @@ "b" :> "create" @@ "c" :> "update" @@ "d" :> "no-op"

(* An Apache Airflow job to be created, a Notebook that depends on it to be *)
(* updated; a pipeline to be deleted, the Notebook it depends on to be      *)
(* deleted after it, and a Lakehouse the Notebook depends on, gone already. *)
RerunsTypes   == "a" :> "ApacheAirflowJob" @@ "b" :> "Notebook" @@ "c" :> "DataPipeline" @@ "d" :> "Notebook" @@ "e" :> "Lakehouse"
RerunsActions == "a" :> "create" @@ "b" :> "update" @@ "c" :> "delete" @@ "d" :> "delete" @@ "e" :> "absent"
RerunsDeps    == "a" :> {} @@ "b" :> {"a"} @@ "c" :> {"a", "d"} @@ "d" :> {"e"} @@ "e" :> {}

(* A Data Agent to be created, an Ontology to be updated, and a Warehouse   *)
(* that is already there.                                                   *)
AgentTypes   == "a" :> "DataAgent" @@ "b" :> "Ontology" @@ "c" :> "Warehouse"
AgentActions == "a" :> "create" @@ "b" :> "update" @@ "c" :> "no-op"
=============================================================================
