-------------------------- MODULE MCTurnCheckpoint --------------------------
(* A few turns on one session, which may overlap. *)
EXTENDS TurnCheckpoint
=============================================================================
