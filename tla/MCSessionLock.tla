---------------------------- MODULE MCSessionLock ----------------------------
(* Small instances of SessionLock. *)
EXTENDS SessionLock

CONSTANTS s1, s2

OneWay == {<<s1, s2>>}   \* callers nest the sessions in one order only
=============================================================================
