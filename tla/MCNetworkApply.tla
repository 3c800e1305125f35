--------------------------- MODULE MCNetworkApply ---------------------------
(* Plans that tighten, relax, and replace rules under an unchanged policy.   *)
EXTENDS NetworkApply

(* Inbound and outbound Deny are introduced; the firewall is already right.  *)
TightenBoth ==
  [configured |-> {"policy", "firewall", "shares", "cloud"},
   update |-> {"policy", "shares", "cloud"}, inbound |-> "tighten", outbound |-> "tighten"]

(* Inbound Allow returns, with its exceptions removed; outbound is Deny.     *)
RelaxInbound ==
  [configured |-> {"policy", "firewall", "azure", "gateway"},
   update |-> {"policy", "firewall", "azure"}, inbound |-> "relax", outbound |-> "same"]

(* Rules only.                                                               *)
RulesOnly ==
  [configured |-> {"policy", "firewall", "gateway"},
   update |-> {"firewall", "gateway"}, inbound |-> "same", outbound |-> "same"]

MCPlans == {TightenBoth, RelaxInbound, RulesOnly}
=============================================================================
