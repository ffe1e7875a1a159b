----------------------------- MODULE MCChatStore -----------------------------
(* Small instances of ChatStore. *)
EXTENDS ChatStore

CONSTANTS i1, i2

(* The seam and readers in two instances, with a failure or a restart ...  *)
SeamDeployment == [kinds |-> {"mutate", "reader"}, homes |-> {i1, i2}, faults |-> 1]

(* ... and with every other locked writer, in one instance that lives on   *)
(* and where nobody reads outside the lock.                                *)
LockedDeployment == [kinds |-> {"mutate", "locked"}, homes |-> {i1}, faults |-> 0]

SafeDeployments == {SeamDeployment, LockedDeployment}
=============================================================================
