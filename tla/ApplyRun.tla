------------------------------ MODULE ApplyRun ------------------------------
(* What the components of a run share: the step it is at, how it fails, and *)
(* the faults and foreign edits it may yet meet.  Everything a run knows    *)
(* beyond this is lost with it; only checkpoints and the service survive.   *)
EXTENDS Integers

CONSTANT
  Budgets  \* bound: how many faults and foreign edits there may be, to choose from

ASSUME BudgetsAssumption == Budgets \subseteq [faults : Nat, edits : Nat]

VARIABLES
  pc,      \* what the run does, "idle" when there is none
  budget,  \* faults and edits still to come: crashes, timeouts, lost or rejected requests
  edited,  \* somebody else has changed something
  lost     \* a request was lost for good, or Fabric failed what it had accepted

runVars == <<pc, budget, edited, lost>>

RunInit == pc = "idle" /\ budget \in Budgets /\ edited = FALSE /\ lost = FALSE

Goto(step) == pc' = step
Fail == pc' = "idle"
SpendFault == budget.faults > 0 /\ budget' = [budget EXCEPT !.faults = @ - 1] /\ UNCHANGED edited
Fault == SpendFault /\ UNCHANGED lost
Loss == SpendFault /\ lost' = TRUE
NoFault == UNCHANGED <<budget, edited, lost>>
Foreign ==
  /\ budget.edits > 0 /\ budget' = [budget EXCEPT !.edits = @ - 1]
  /\ edited' = TRUE /\ UNCHANGED lost
=============================================================================
