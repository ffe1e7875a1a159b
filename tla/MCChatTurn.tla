----------------------------- MODULE MCChatTurn ------------------------------
(* Small instances of ChatTurn: two turns in one process, a third in another. *)
EXTENDS ChatTurn, TLC

CONSTANTS t1, t2, t3, i1, i2

AllTurns == {t1, t2, t3}
Home == (t1 :> i1) @@ (t2 :> i1) @@ (t3 :> i2)

TurnSymmetry == Permutations({t1, t2}) \cup Permutations(Questions)
=============================================================================
