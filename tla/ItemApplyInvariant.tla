-------------------------- MODULE ItemApplyInvariant -------------------------
(***************************************************************************)
(* Why the checkpoint of ItemApply keeps its promises: the inductive       *)
(* invariant behind its safety properties, in named parts, and the view    *)
(* of its states as states of CreateLedger.                                *)
(***************************************************************************)
EXTENDS ItemApply, FiniteSets

(* A request whose outcome nobody knows, and what may be open besides one   *)
(* given request.                                                           *)
InFlight(i, n) == fate[i][n] \in {"wire", "dropped", "running"}
NoneInFlight(i) == \A n \in Posts : ~InFlight(i, n)
OnlyOpen(i, n) == \A m \in Posts : m # n => ~Outstanding(i, m)

(* Which steps belong to which phase of a run, and to which actions.        *)
StepsOf ==
  [idle       |-> {},
   preflight  |-> {},
   updates    |-> {"update", "patchSend", "patched?", "stage", "staged?", "verify"},
   deletes    |-> {"deleteSend", "deleted?", "verify"},
   creates    |-> {"adopt"},
   operations |-> {"poll", "known", "ack", "shellCheck", "untouched?", "stage",
                   "staged?", "verify", "adopt", "reconcile", "reconcileFailed"},
   verify     |-> {},
   stages     |-> Steps \ {"-", "shellCheck", "untouched?", "reconcile"}]
CreateSteps == {"create", "post", "created?", "poll", "known", "shellProof",
                "shellCheck", "untouched?", "adopt", "reconcile", "reconcileFailed"}
UpdateSteps == {"update", "patchSend", "patched?"}
DeleteSteps == {"delete", "deleteIntent", "deleteSend", "deleted?"}

(* A name that is free names nothing.                                       *)
LiveInv == \A i \in Items : live[i].content = "absent" => live[i].id = ApprovedId

(* The run has an item in hand exactly when it is in the middle of a step   *)
(* of a phase that visits that item.                                        *)
CursorInv ==
  IF cur = NoItem
    THEN at = "-"
    ELSE /\ cur \in todo
         /\ at \in StepsOf[pc]
         /\ at \in CreateSteps => Creates(cur)
         /\ at \in UpdateSteps => Updates(cur)
         /\ at \in DeleteSteps => Action[cur] = "delete"
         /\ at \in {"stage", "staged?"} => Creates(cur) \/ Updates(cur)
         /\ pc = "operations" => Creates(cur)

(* What kind of work an entry may stand for, and which kinds are left in    *)
(* each phase: a phase visits the entries of its kind, and ends only when   *)
(* none of them is left.                                                    *)
Visits ==
  [idle       |-> {},
   preflight  |-> {},
   updates    |-> {"pendingUpdate"},
   deletes    |-> {"pendingDelete"},
   creates    |-> {"pendingCreate"},
   operations |-> {"pendingOperation"},
   verify     |-> {"completed"},
   stages     |-> CpPhases]
Settled ==
  [idle       |-> {},
   preflight  |-> {},
   updates    |-> {},
   deletes    |-> {"pendingUpdate"},
   creates    |-> {"pendingUpdate", "pendingDelete"},
   operations |-> {"pendingUpdate", "pendingDelete", "pendingCreate"},
   verify     |-> {"pendingUpdate", "pendingDelete", "pendingCreate", "pendingOperation"},
   stages     |-> {"pendingUpdate", "pendingDelete", "pendingCreate", "pendingOperation"}]
EntryInv ==
  \A i \in Items :
    /\ cp[i].phase = "pendingUpdate" => Updates(i)
    /\ cp[i].phase = "pendingDelete" => Action[i] = "delete"
    /\ cp[i].phase \in {"pendingCreate", "pendingOperation"} => Creates(i)
    /\ cp[i].phase = "completed" => cp[i] = Entry("completed", cp[i].id)
PendingInv ==
  \A i \in Items : i # cur =>
    /\ cp[i].phase \notin Settled[pc]
    /\ i \in todo => cp[i].phase \in Visits[pc]
    /\ pc \in {"updates", "deletes", "creates", "operations"} /\ i \notin todo =>
         cp[i].phase \notin Visits[pc]

(* The entry of the item in hand, step by step.                             *)
HandInv ==
  cur # NoItem =>
    LET phase == cp[cur].phase
    IN /\ pc # "stages" => phase # "none"
       /\ pc = "updates" => phase = "pendingUpdate"
       /\ pc = "deletes" => phase = "pendingDelete"
       /\ pc = "creates" => phase = "pendingCreate"
       /\ pc = "operations" => phase \in {"pendingOperation", "completed"}
       /\ at \in {"create", "delete", "deleteIntent"} => phase = "none"
       /\ at = "update" => phase # "completed"
       /\ at \in {"post", "created?"} => phase = "pendingCreate"
       /\ at \in {"poll", "shellCheck", "untouched?", "reconcileFailed"} =>
            phase = "pendingOperation"
       /\ at \in {"known", "shellProof"} => phase \in {"pendingCreate", "pendingOperation"}
       /\ at \in {"stage", "staged?"} =>
            phase = IF Creates(cur) THEN "pendingOperation" ELSE "pendingUpdate"
       /\ at \in {"patchSend", "patched?"} => phase = "pendingUpdate"
       /\ at \in {"deleteSend", "deleted?"} => phase = "pendingDelete"
       /\ at = "ack" => phase # "completed"
       /\ at \in {"verify", "adopt"} /\ phase = "completed" => cp[cur].id = target

(* What the checkpoint, and the run, know about create requests.            *)
OperationInv ==
  \A i \in Items :
    /\ ~Creates(i) => \A n \in Posts : fate[i][n] = "unsent"
    /\ cp[i].phase = "pendingOperation" =>
         /\ cp[i].id \in Posts
         /\ fate[i][cp[i].id] \in {"running", "failed"} \cup Created
         /\ OnlyOpen(i, cp[i].id)
         /\ cp[i].ref = "shell" => fate[i][cp[i].id] \in Created
RequestInv ==
  cur # NoItem =>
    /\ at = "post" => \A n \in Posts : ~Outstanding(cur, n)
    /\ at \in {"created?", "poll", "known", "shellProof", "shellCheck", "untouched?"} =>
         target \in Posts /\ OnlyOpen(cur, target)
    /\ at = "poll" => fate[cur][target] \in {"running", "failed"} \cup Created
    /\ at \in {"known", "shellProof", "shellCheck", "untouched?"} =>
         fate[cur][target] \in Created
    /\ at = "known" /\ fate[cur][target] = "created202" =>
         cp[cur].phase = "pendingOperation"
    /\ at \in {"stage", "staged?", "reconcileFailed"} => NoneInFlight(cur)

(* What the preflight established for the whole of the run.                 *)
PreflightInv ==
  pc \notin {"idle", "preflight"} => \A i \in Items :
    Authorized(i) /\ (cp[i].phase = "none" => plan[i] = Approved(i))

(* Stages are worked through in order, and what a run passes over it has    *)
(* read back.                                                               *)
ProgressInv ==
  /\ pc = "verify" => \A i \in Items : cp[i].phase = "completed" => i \in todo \cup verified
  /\ pc = "stages" => \A i \in Items :
       /\ i \notin todo => cp[i].phase = "completed"
       /\ cp[i].phase = "completed" /\ i # cur => i \in verified
  /\ result = "succeeded" => pc = "idle"

(* The inductive invariant: at every step of every run, what the checkpoint *)
(* says, what the run holds in memory and what Fabric has on the wire agree *)
(* closely enough for the next step of any of them to keep the promises in  *)
(* the last line.                                                           *)
IInv ==
  /\ TypeOK /\ LiveInv /\ CursorInv /\ EntryInv /\ PendingInv /\ HandInv
  /\ OperationInv /\ RequestInv /\ PreflightInv /\ ProgressInv
  /\ WriteAhead /\ AtMostOneCreate /\ DependencyOrder /\ SuccessIsVerified

-----------------------------------------------------------------------------
(* The checkpoint as a ledger: what an entry announces, and how many create *)
(* requests of each item are open.                                          *)
LedgerPhase ==
  [i \in Items |->
     CASE cp[i].phase = "none"      -> "none"
       [] cp[i].phase = "completed" -> "completed"
       [] OTHER                     -> "announced"]
LedgerOpen == [i \in Items |-> Cardinality({n \in Posts : Outstanding(i, n)})]

Ledger == INSTANCE CreateLedger WITH phase <- LedgerPhase, open <- LedgerOpen

(* Every step of an apply run, a crash, a rerun, Fabric or another actor is *)
(* a step of the ledger or leaves it alone: completeCreateCheckpoint,       *)
(* recordPendingUpdate and the checkpoint callbacks of apply.ts never       *)
(* announce late, withdraw early, send twice or forget.                     *)
ImplementsLedger == Ledger!Spec
=============================================================================
