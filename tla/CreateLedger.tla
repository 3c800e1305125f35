---------------------------- MODULE CreateLedger -----------------------------
(***************************************************************************)
(* What the checkpoint promises about the items of a plan, without saying  *)
(* how: work on an item is announced before anything can reach Fabric, at  *)
(* most one create request of an item is open at a time, an announcement   *)
(* is withdrawn only when nothing of it is left, what must come before an  *)
(* item is completed first, and what is completed stays completed.  A      *)
(* create request is open from its dispatch until Fabric has refused it or *)
(* the item it made is gone.                                               *)
(***************************************************************************)
EXTENDS Naturals

CONSTANTS
  Items,
  Predecessors  \* item -> items that must be completed before it is touched

VARIABLES phase, open

Init ==
  /\ phase = [i \in Items |-> "none"]
  /\ open = [i \in Items |-> 0]

PredecessorsDone(i) == \A d \in Predecessors[i] : phase[d] = "completed"

Announce(i) ==
  /\ phase[i] = "none" /\ open[i] = 0 /\ PredecessorsDone(i)
  /\ phase' = [phase EXCEPT ![i] = "announced"]
  /\ UNCHANGED open

Send(i) ==
  /\ phase[i] = "announced" /\ open[i] = 0
  /\ open' = [open EXCEPT ![i] = 1]
  /\ UNCHANGED phase

Settle(i) ==
  /\ open[i] = 1
  /\ open' = [open EXCEPT ![i] = 0]
  /\ UNCHANGED phase

Withdraw(i) ==
  /\ phase[i] = "announced" /\ open[i] = 0
  /\ phase' = [phase EXCEPT ![i] = "none"]
  /\ UNCHANGED open

Complete(i) ==
  /\ phase[i] # "completed" /\ PredecessorsDone(i)
  /\ phase' = [phase EXCEPT ![i] = "completed"]
  /\ UNCHANGED open

Next ==
  \E i \in Items :
    Announce(i) \/ Send(i) \/ Settle(i) \/ Withdraw(i) \/ Complete(i)

Spec == Init /\ [][Next]_<<phase, open>>
=============================================================================
