---------------------------- MODULE TurnOutline ----------------------------
(***************************************************************************)
(* What an agent turn promises to those who start one                      *)
(* (src/server/services/chat/chatStream.service.ts and the follow-up pass  *)
(* of FollowUpPass): it spends at most so many model calls, closes what it *)
(* opened, and ends.                                                       *)
(***************************************************************************)
EXTENDS Naturals

CONSTANT MaxLlmCalls

VARIABLES
  over,    \* the turn has returned
  calls,   \* model calls made
  handle   \* its DuckDB handle, "none", "open" or "closed"

Init == over = FALSE /\ calls = 0 /\ handle = "none"

Work ==
  /\ ~over
  /\ calls' \in calls..MaxLlmCalls
  /\ handle' \in {handle, "open"}
  /\ UNCHANGED over

(* The last call may be the one that ends the turn. *)
End ==
  /\ ~over /\ over'
  /\ calls' \in calls..MaxLlmCalls
  /\ handle' = IF handle = "none" THEN "none" ELSE "closed"

Next == Work \/ End

Safe == Init /\ [][Next]_<<over, calls, handle>>
Spec == Safe /\ <>over
=============================================================================
