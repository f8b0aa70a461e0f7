------------------------------ MODULE MCActions ------------------------------
(***************************************************************************)
(* Actions for TLC: an agent with the SDK, which may ask for increases of  *)
(* the one budget, and an MCP proxy.  A creation may be sent twice, so the *)
(* two actions may both be the agent's, or one of them each client's.      *)
(***************************************************************************)
EXTENDS Actions, TLC

CONSTANTS a1, a2, agent, gate, e1, none

ActionSymmetry == Permutations(Action)

=============================================================================
