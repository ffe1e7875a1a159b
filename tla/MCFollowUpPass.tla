--------------------------- MODULE MCFollowUpPass ---------------------------
(* A turn and its sub-turns in front of few slots. *)
EXTENDS FollowUpPass
=============================================================================
