--------------------------- MODULE MCFabricClient ---------------------------
(* Calls for FabricClient with short timers, so that every deadline, backoff *)
(* and Retry-After can be met, cut short or overrun.                         *)
EXTENDS FabricClient

(* The clock reaches every deadline a call can have.                         *)
ASSUME ClockSuffices == RequestTimeout + OperationTimeout <= MaxClock
=============================================================================
