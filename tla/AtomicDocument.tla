--------------------------- MODULE AtomicDocument ---------------------------
(***************************************************************************)
(* What a read-modify-write of a chat document promises: the edit of each  *)
(* writer takes effect at one instant and at most once, nothing undoes it, *)
(* and a writer is told of success only after it took effect.              *)
(***************************************************************************)
CONSTANT Ops

VARIABLES
  applied,    \* the operations whose edit the stored document carries
  confirmed   \* the operations that reported success

docVars == <<applied, confirmed>>

DocInit == applied = {} /\ confirmed = {}

Apply(p) ==
  /\ p \notin applied
  /\ applied' = applied \cup {p}
  /\ UNCHANGED confirmed

Confirm(p) ==
  /\ p \in applied
  /\ confirmed' = confirmed \cup {p}
  /\ UNCHANGED applied

DocNext == \E p \in Ops : Apply(p) \/ Confirm(p)

DocSpec == DocInit /\ [][DocNext]_docVars
=============================================================================
