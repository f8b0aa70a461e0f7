----------------------------- MODULE MCCostReports -----------------------------
(***************************************************************************)
(* CostReports for TLC: more events than the queue holds, more in the      *)
(* queue than a batch, and one request whose first try outlives the        *)
(* caller's patience.                                                      *)
(***************************************************************************)
EXTENDS CostReports

CONSTANT N

MCEvent == 1..N

=============================================================================
