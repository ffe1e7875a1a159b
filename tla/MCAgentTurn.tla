---------------------------- MODULE MCAgentTurn ----------------------------
(* One turn with small budgets. *)
EXTENDS AgentTurn
=============================================================================
