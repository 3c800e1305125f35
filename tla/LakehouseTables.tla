--------------------------- MODULE LakehouseTables ---------------------------
(***************************************************************************)
(* A LakehouseTables bundle: schemas and managed Delta tables made by DDL  *)
(* statements in a Livy session (src/src/fabric/lakehouse-tables.ts) that  *)
(* applyLakehouseTablesItem (src/src/apply.ts) checkpoints: the POST of    *)
(* the session, the POST of each statement, and the cleanup.               *)
(*                                                                         *)
(* A run observes every resource, then creates the absent ones, schemas    *)
(* first.  The bundle's Lakehouse is there when its turn comes: ItemApply  *)
(* has that part.  Planning and re-verification use sessions of their own, *)
(* which nothing records; here they are one reading of the catalog.        *)
(***************************************************************************)
EXTENDS ApplyRun, FiniteSets

CONSTANTS
  Schemas, Tables,  \* the resources of the bundle, by their order
  MaxSessions,      \* bound: sessions a bundle may open
  Catalogs,         \* what the Lakehouse may hold to begin with
  TableGrants       \* sets of safeguards a run may be given

ASSUME TablesBounds ==
  /\ Schemas \subseteq Nat /\ Tables \subseteq Nat
  /\ \A s \in Schemas, t \in Tables : s < t
  /\ MaxSessions \in Nat \ {0}
  /\ Catalogs \subseteq [Schemas \cup Tables -> {"absent", "owned", "foreign"}]
  /\ TableGrants \subseteq SUBSET {"schema", "table"}

Resources == Schemas \cup Tables
Sessions == 1..MaxSessions
NoSession == 0
NoResource == -1

VARIABLES
  symbolic,       \* the target Lakehouse is created by the same plan
  approvedTables, \* the approved plan: what is to become of each resource
  catalog,        \* what the Lakehouse holds
  sessions,       \* the Livy sessions of the bundle's attempt
  sessionLate,    \* a session POST the service may yet execute
  statement,      \* the statement last posted to a session
  bundle,         \* checkpoint.lakehouseTables[item]
  tablesDone,     \* checkpoint.completedItems has the item
  session,        \* the session in hand
  preflight,      \* what this run has observed
  failing,        \* the error the cleanup will rethrow
  tableFlags      \* the safeguards of the run

lakehouse     == <<catalog, sessions, sessionLate, statement>>
tablesCp      == <<bundle, tablesDone>>
tablesRun     == <<session, preflight, failing>>
tablesPlan    == <<symbolic, approvedTables>>
tablesVars == <<lakehouse, tablesCp, tablesRun, tablesPlan, tableFlags>>

(* "owned": matches, with the ownership properties of this deployment; a    *)
(* schema has no owner.                                                     *)
TableStates == {"absent", "owned", "foreign"}
NoStatement == [phase |-> "none", verb |-> "none", on |-> NoResource]
NoBundle == [phase |-> "none", session |-> NoSession, statement |-> NoStatement, receipts |-> {}]
NoPosting == [in |-> NoSession, verb |-> "none", on |-> NoResource, state |-> "none", saw |-> "absent"]
Unseen == "unseen"

Live(s) == sessions[s] \in {"starting", "idle"}
LiveSessions == {s \in Sessions : Live(s)}
Inspected == {r \in Resources : preflight[r] # Unseen}
First(S, r) == r \in S /\ \A q \in S : r <= q

(* LakehouseTablesAdapter.plan; a Lakehouse yet to be created is empty.     *)
PlanTables ==
  [r \in Resources |->
     CASE symbolic \/ catalog[r] = "absent" -> "create"
       [] ~symbolic /\ catalog[r] = "owned"  -> "no-op"
       [] OTHER                             -> "blocked"]

BundleAction ==
  LET some(action) == \E r \in Resources : approvedTables[r] = action
  IN  IF some("blocked") THEN "blocked" ELSE IF some("create") THEN "create" ELSE "no-op"

TablesInit ==
  /\ symbolic \in BOOLEAN
  /\ catalog \in Catalogs
  /\ symbolic => \A r \in Resources : catalog[r] = "absent"
  /\ approvedTables = PlanTables
  /\ sessions = [s \in Sessions |-> "none"] /\ sessionLate = FALSE
  /\ statement = NoPosting
  /\ bundle = NoBundle /\ tablesDone = FALSE
  /\ session = NoSession /\ preflight = [r \in Resources |-> Unseen] /\ failing = FALSE
  /\ tableFlags = {}
-----------------------------------------------------------------------------
Kind(r) == IF r \in Schemas THEN "schema" ELSE "table"

(* assertApplyActionAuthorized, and once more in applyLakehouseTablesItem.  *)
TablesAuthorized(flags) ==
  /\ BundleAction # "blocked"
  /\ \A r \in Resources : approvedTables[r] = "create" => Kind(r) \in flags

(* assertLakehouseTablesPreflightState: once the bundle has a record, what  *)
(* the catalog holds is no longer compared with the approved plan.          *)
TablesDrifted == ~symbolic /\ ~tablesDone /\ bundle.phase = "none" /\ PlanTables # approvedTables

StartTables ==
  /\ pc \in {"idle", "succeeded"}
  /\ \E flags \in TableGrants :
       IF TablesAuthorized(flags) /\ ~TablesDrifted
       THEN /\ Goto(IF tablesDone THEN "verify completed tables" ELSE "recover tables")
            /\ tableFlags' = flags
       ELSE Fail /\ tableFlags' = {}
  /\ session' = NoSession /\ preflight' = [r \in Resources |-> Unseen] /\ failing' = FALSE
  /\ UNCHANGED <<tablesPlan, tablesCp, lakehouse>> /\ NoFault

RecordBundle(record) == bundle' = record /\ UNCHANGED tablesDone
KeepBundle == UNCHANGED tablesCp
OnlyReads == UNCHANGED <<tablesPlan, tableFlags, lakehouse>> /\ NoFault

AllMatch(seen) == \A r \in Resources : seen[r] = "owned"

(* resumeCompletedItem.                                                     *)
VerifyCompletedTables ==
  /\ pc = "verify completed tables"
  /\ IF AllMatch(catalog) THEN Goto("succeeded") ELSE Fail
  /\ KeepBundle /\ UNCHANGED tablesRun /\ OnlyReads
-----------------------------------------------------------------------------
AfterSession == CASE bundle.statement.phase = "submitting" -> "find statement"
                  [] bundle.statement.phase = "accepted"   -> "resume statement"
                  [] OTHER                                 -> "clean up"

RecoverTables ==
  /\ pc = "recover tables"
  /\ Goto(CASE bundle.phase \in {"none", "cleanup-complete"}          -> "open session"
            [] bundle.phase = "cleanup-submitting"                    -> "recovered delete"
            [] bundle.phase = "submitting"                            -> "find session"
            [] bundle.phase = "active"                                -> AfterSession)
  /\ session' = bundle.session
  /\ KeepBundle /\ UNCHANGED <<preflight, failing>> /\ OnlyReads

(* discoverSessionAttempt: exactly one session of the attempt, and alive.   *)
(* Fabric may list sessions that have ended, which makes it ambiguous.      *)
FindSession ==
  /\ pc = "find session"
  /\ \/ \E s \in LiveSessions :
          /\ session' = s
          /\ RecordBundle([bundle EXCEPT !.phase = "active", !.session = s])
          /\ Goto(AfterSession) /\ NoFault
     \/ /\ LiveSessions = {} \/ \E s \in Sessions : sessions[s] \in {"dead", "deleted"}
        /\ Fail /\ KeepBundle /\ UNCHANGED session
        /\ IF LiveSessions = {} THEN NoFault ELSE Loss
  /\ UNCHANGED <<preflight, failing, tablesPlan, tableFlags, lakehouse>>

SameStatement(s) ==
  /\ statement.in = s
  /\ statement.verb = bundle.statement.verb /\ statement.on = bundle.statement.on

(* discoverStatementByMarker.                                               *)
FindStatement ==
  /\ pc = "find statement"
  /\ IF Live(session) /\ SameStatement(session) /\ statement.state \in {"waiting", "available"}
     THEN /\ RecordBundle([bundle EXCEPT !.statement.phase = "accepted"])
          /\ Goto("resume statement")
     ELSE Fail /\ KeepBundle
  /\ UNCHANGED tablesRun /\ OnlyReads

Receipt(r) == bundle.receipts \cup {r}

(* resumeAcceptedStatement: wait for it, and check what a create reports.   *)
ResumeStatement ==
  /\ pc = "resume statement"
  /\ statement.state # "waiting" \/ ~Live(session)
  /\ IF /\ Live(session) /\ statement.state = "available"
        /\ statement.verb = "create" => statement.saw = "owned"
     THEN /\ RecordBundle([bundle EXCEPT !.statement.phase = "verified",
               !.receipts = IF bundle.statement.verb = "create" THEN Receipt(bundle.statement.on) ELSE @])
          /\ Goto("clean up")
     ELSE Fail /\ KeepBundle
  /\ UNCHANGED tablesRun /\ OnlyReads
-----------------------------------------------------------------------------
(* createSession.                                                           *)
\* Mutant: the session is recorded when its POST is answered.
OpenSessionUnrecorded ==
  /\ pc = "open session"
  /\ Goto("session sent")
  /\ KeepBundle /\ UNCHANGED tablesRun /\ OnlyReads
OpenSession ==
  /\ pc = "open session"
  /\ RecordBundle([NoBundle EXCEPT !.phase = "submitting", !.receipts = bundle.receipts])
  /\ Goto("session sent")
  /\ UNCHANGED tablesRun /\ OnlyReads

NewSession == CHOOSE s \in Sessions : sessions[s] = "none"
MakeSession ==
  /\ \E s \in Sessions : sessions[s] = "none"
  /\ sessions' = [sessions EXCEPT ![NewSession] = "starting"]

SessionAnswered ==
  /\ pc = "session sent"
  /\ MakeSession /\ session' = NewSession
  /\ RecordBundle([bundle EXCEPT !.phase = "active", !.session = NewSession])
  /\ Goto("await session")
  /\ UNCHANGED <<preflight, failing, tablesPlan, tableFlags, catalog, sessionLate, statement>>
  /\ NoFault

(* A rejection has no callback: the record stays, and is never resolved.    *)
SessionOutOfHand ==
  \/ MakeSession /\ UNCHANGED sessionLate /\ Fault
  \/ sessionLate' = TRUE /\ UNCHANGED sessions /\ Fault
  \/ UNCHANGED <<sessions, sessionLate>> /\ Loss

SessionLost ==
  /\ pc = "session sent"
  /\ SessionOutOfHand
  /\ Fail /\ KeepBundle
  /\ UNCHANGED <<tablesRun, tablesPlan, tableFlags, catalog, statement>>

(* An error with the session in hand: the finally block deletes it.         *)
Abandon == Goto("clean up") /\ failing' = TRUE

(* waitForSessionIdle: idle, terminal, or out of time.                      *)
AwaitSession ==
  /\ pc = "await session"
  /\ \/ sessions[session] = "idle" /\ Goto("inspect") /\ UNCHANGED failing /\ NoFault
     \/ ~Live(session) /\ Abandon /\ NoFault
     \/ sessions[session] = "starting" /\ Abandon /\ Fault
  /\ KeepBundle /\ UNCHANGED <<session, preflight, tablesPlan, tableFlags, lakehouse>>
-----------------------------------------------------------------------------
(* apply and verify: every resource is inspected, then the absent ones are  *)
(* created, in the order of the operations.                                 *)
Absent == {r \in Resources : preflight[r] = "absent"}

Turn(verb, r) ==
  CASE verb = "inspect" -> First(Resources \ Inspected, r)
    [] verb = "create"  -> First(Absent, r)

(* submitAndWaitForStatement, to the POST.                                  *)
SubmitStatement(verb, r) ==
  /\ pc = verb /\ Turn(verb, r)
  /\ RecordBundle([bundle EXCEPT !.statement = [phase |-> "submitting", verb |-> verb, on |-> r]])
  /\ Goto("statement sent")
  /\ UNCHANGED tablesRun /\ OnlyReads

Posted(state) ==
  statement' = [in |-> session, verb |-> bundle.statement.verb, on |-> bundle.statement.on,
                state |-> state, saw |-> "absent"]

StatementAnswered ==
  /\ pc = "statement sent" /\ Live(session)
  /\ Posted("waiting")
  /\ RecordBundle([bundle EXCEPT !.statement.phase = "accepted"])
  /\ Goto("await statement")
  /\ UNCHANGED <<tablesRun, tablesPlan, tableFlags, catalog, sessions, sessionLate>>
  /\ NoFault

(* No answer or a bad one, while the process lives: posted, late, or not.   *)
StatementLost ==
  /\ pc = "statement sent"
  /\ Posted("waiting") \/ Posted("late") \/ UNCHANGED statement
  /\ Abandon /\ KeepBundle
  /\ IF Live(session) THEN Fault ELSE NoFault
  /\ UNCHANGED <<session, preflight, tablesPlan, tableFlags, catalog, sessions, sessionLate>>

(* The process dies with the POST; one that never arrives is never found.   *)
StatementOrphaned ==
  /\ pc = "statement sent"
  /\ \/ (Posted("waiting") \/ Posted("late")) /\ Fault
     \/ UNCHANGED statement /\ Loss
  /\ Fail /\ KeepBundle
  /\ UNCHANGED <<tablesRun, tablesPlan, tableFlags, catalog, sessions, sessionLate>>

(* After the last inspection, as apply and verify judge it.                 *)
Judge(seen) ==
  IF \E r \in Resources : seen[r] = "foreign" \/ (BundleAction = "no-op" /\ seen[r] # "owned")
  THEN "fail" ELSE IF \E r \in Resources : seen[r] = "absent" THEN "create" ELSE "pass"

TakeInspection ==
  LET seen == [preflight EXCEPT ![statement.on] = statement.saw]
  IN  /\ preflight' = seen /\ KeepBundle
      /\ IF \E r \in Resources : seen[r] = Unseen
         THEN Goto("inspect") /\ UNCHANGED failing
         ELSE CASE Judge(seen) = "create" -> Goto("create") /\ UNCHANGED failing
                [] Judge(seen) = "pass"   -> Goto("clean up") /\ UNCHANGED failing
                [] Judge(seen) = "fail"   -> Abandon

(* verifyCreateOperation and onOperationVerified.                           *)
TakeCreate ==
  LET seen == [preflight EXCEPT ![statement.on] = "owned"]
  IN  IF statement.saw = "owned"
      THEN /\ preflight' = seen
           /\ RecordBundle([bundle EXCEPT !.statement.phase = "verified", !.receipts = Receipt(statement.on)])
           /\ UNCHANGED failing
           /\ IF \E r \in Resources : seen[r] = "absent" THEN Goto("create") ELSE Goto("clean up")
      ELSE Abandon /\ KeepBundle /\ UNCHANGED preflight

(* waitForStatement: available, failed, or out of time.                     *)
AwaitStatement ==
  /\ pc = "await statement"
  /\ \/ /\ Live(session) /\ statement.state = "available"
        /\ IF statement.verb = "inspect" THEN TakeInspection ELSE TakeCreate
        /\ NoFault
     \/ /\ statement.state = "error" \/ ~Live(session)
        /\ Abandon /\ KeepBundle /\ UNCHANGED preflight /\ NoFault
     \/ /\ statement.state = "waiting" /\ Live(session)
        /\ Abandon /\ KeepBundle /\ UNCHANGED preflight /\ Fault
  /\ UNCHANGED <<session, tablesPlan, tableFlags, lakehouse>>
-----------------------------------------------------------------------------
(* The finally block of withSession; a recovery ends the same way and then  *)
(* goes on with a session of its own.                                       *)
CleanUp ==
  /\ pc = "clean up"
  /\ RecordBundle([bundle EXCEPT !.phase = "cleanup-submitting"])
  /\ Goto(IF Inspected = {} /\ ~failing THEN "recovered delete" ELSE "delete")
  /\ UNCHANGED tablesRun /\ OnlyReads

Delete == sessions' = [sessions EXCEPT ![session] = "deleted"]

CleanedUp == [bundle EXCEPT !.phase = "cleanup-complete"]

(* 404 is as good as 200.  A failing run rethrows its error now.            *)
DeleteAnswered ==
  /\ pc \in {"delete", "recovered delete"}
  /\ Delete
  /\ bundle' = CleanedUp
  /\ CASE pc = "recovered delete"    -> Goto("open session") /\ UNCHANGED tablesDone
       [] pc = "delete" /\ ~failing -> Goto("succeeded") /\ tablesDone' = TRUE
       [] pc = "delete" /\ failing  -> Fail /\ UNCHANGED tablesDone
  /\ UNCHANGED <<tablesRun, tablesPlan, tableFlags, catalog, sessionLate, statement>>
  /\ NoFault

DeleteLost ==
  /\ pc \in {"delete", "recovered delete"}
  /\ Delete \/ UNCHANGED sessions
  /\ Fail /\ KeepBundle /\ Fault
  /\ UNCHANGED <<tablesRun, tablesPlan, tableFlags, catalog, sessionLate, statement>>

(* The runner dies between two requests: for good if a statement whose POST *)
(* went astray was not yet cleaned up after.                                *)
CrashTables ==
  /\ pc \notin {"idle", "succeeded", "session sent", "statement sent"}
  /\ Fail
  /\ IF bundle.phase = "active" /\ bundle.statement.phase = "submitting" /\ ~SameStatement(session)
     THEN Loss ELSE Fault
  /\ KeepBundle /\ UNCHANGED <<tablesRun, tablesPlan, tableFlags, lakehouse>>
-----------------------------------------------------------------------------
(* Spark runs a statement: it reports what it finds, or creates what is not *)
(* there yet (CREATE ... IF NOT EXISTS) and reports that.  A table without  *)
(* its schema is an error.                                                  *)
Runs == statement.state \in {"waiting", "late"} /\ Live(statement.in)
SchemaThere == \A s \in Schemas : catalog[s] # "absent"

RunStatement ==
  /\ Runs
  /\ LET r == statement.on
         creates == statement.verb = "create" /\ catalog[r] = "absent"
         possible == r \in Schemas \/ SchemaThere
     IN  /\ catalog' = IF creates /\ possible THEN [catalog EXCEPT ![r] = "owned"] ELSE catalog
         /\ statement' = [statement EXCEPT
              !.state = IF statement.verb = "create" /\ ~possible THEN "error" ELSE "available",
              !.saw = catalog'[r]]
  /\ UNCHANGED <<sessions, sessionLate, tablesCp, tablesRun, tablesPlan, tableFlags, pc>> /\ NoFault

SessionIdle(s) ==
  /\ sessions[s] = "starting" /\ sessions' = [sessions EXCEPT ![s] = "idle"]
  /\ UNCHANGED <<catalog, sessionLate, statement, tablesCp, tablesRun, tablesPlan,
                 tableFlags, pc>> /\ NoFault

SessionLater ==
  /\ sessionLate /\ sessionLate' = FALSE /\ MakeSession
  /\ UNCHANGED <<catalog, statement, tablesCp, tablesRun, tablesPlan, tableFlags, pc>>
  /\ NoFault

(* A session ends by itself, a statement fails by itself.                   *)
SessionDies(s) ==
  /\ Live(s) /\ sessions' = [sessions EXCEPT ![s] = "dead"] /\ UNCHANGED statement
  /\ UNCHANGED <<catalog, sessionLate, tablesCp, tablesRun, tablesPlan, tableFlags, pc>>
  /\ Loss
StatementFails ==
  /\ Runs /\ statement' = [statement EXCEPT !.state = "error"]
  /\ UNCHANGED <<catalog, sessions, sessionLate, tablesCp, tablesRun, tablesPlan,
                 tableFlags, pc>> /\ Loss

(* Somebody else drops a resource, or makes one of that name.  A schema     *)
(* goes with its tables.                                                    *)
EditTables ==
  /\ Foreign
  /\ \/ \E r \in Resources :
          catalog' = [q \in Resources |->
            IF q = r \/ r \in Schemas THEN "absent" ELSE catalog[q]]
     \/ \E r \in Tables : SchemaThere /\ catalog' = [catalog EXCEPT ![r] = "foreign"]
     \/ \E r \in Schemas : catalog' = [catalog EXCEPT ![r] = "owned"]
  /\ UNCHANGED <<sessions, sessionLate, statement, tablesCp, tablesRun, tablesPlan,
                 tableFlags, pc>>

AskTables ==
  \/ OpenSession \/ SessionAnswered \/ SessionLost
  \/ \E verb \in {"inspect", "create"}, r \in Resources : SubmitStatement(verb, r)
  \/ StatementAnswered \/ StatementLost \/ StatementOrphaned
  \/ CleanUp \/ DeleteAnswered \/ DeleteLost
ReadTables ==
  \/ VerifyCompletedTables \/ RecoverTables \/ FindSession \/ FindStatement \/ ResumeStatement
  \/ AwaitSession \/ AwaitStatement
Livy ==
  RunStatement \/ SessionLater \/ (\E s \in Sessions : SessionIdle(s))
LivyFails == StatementFails \/ \E s \in Sessions : SessionDies(s)
TablesNext == StartTables \/ AskTables \/ ReadTables \/ Livy \/ LivyFails \/ EditTables \/ CrashTables
TablesSpec == RunInit /\ TablesInit /\ [][TablesNext]_<<runVars, tablesVars>>
-----------------------------------------------------------------------------
TablesTypeOK ==
  /\ approvedTables \in [Resources -> {"create", "no-op", "blocked"}]
  /\ catalog \in [Resources -> TableStates]
  /\ sessions \in [Sessions -> {"none", "starting", "idle", "dead", "deleted"}]
  /\ statement.in \in Sessions \cup {NoSession} /\ statement.saw \in TableStates
  /\ statement.state \in {"none", "late", "waiting", "available", "error"}
  /\ bundle.phase \in {"none", "submitting", "active", "cleanup-submitting", "cleanup-complete"}
  /\ bundle.session \in Sessions \cup {NoSession}
  /\ bundle.statement.phase \in {"none", "submitting", "accepted", "verified"}
  /\ bundle.receipts \subseteq Resources
  /\ session \in Sessions \cup {NoSession} /\ preflight \in [Resources -> TableStates \cup {Unseen}]
  /\ failing \in BOOLEAN /\ tablesDone \in BOOLEAN
  /\ symbolic \in BOOLEAN /\ sessionLate \in BOOLEAN /\ tableFlags \subseteq {"schema", "table"}

(* No session is left behind: whatever crashed, at most one is alive, and   *)
(* the checkpoint names it or says that it is to be searched for.           *)
SessionTracked ==
  /\ Cardinality(LiveSessions) + (IF sessionLate THEN 1 ELSE 0) <= 1
  /\ \A s \in LiveSessions : bundle.phase \in {"active", "cleanup-submitting"} => bundle.session = s
  /\ LiveSessions # {} \/ sessionLate => bundle.phase \notin {"none", "cleanup-complete"}

(* A receipt in the checkpoint, and a completed bundle, are about what the  *)
(* catalog holds, as long as nobody else touches it.                        *)
ReceiptsAreTrue ==
  ~edited => /\ \A r \in bundle.receipts : catalog[r] = "owned"
             /\ tablesDone => AllMatch(catalog)

(* No table's create is posted before the schema it needs is there.         *)
SchemaBeforeTable ==
  pc = "statement sent" /\ bundle.statement.verb = "create" /\ bundle.statement.on \in Tables
    /\ ~edited => SchemaThere

(* A statement the service accepted is not posted a second time while it    *)
(* may still run.                                                           *)
OneStatementAtATime ==
  pc = "statement sent" => ~Runs
=============================================================================
