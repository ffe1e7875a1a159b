--------------------------- MODULE MCDataVersions ---------------------------
(* All operations and rebuilds in one process: in two, or with two handlers *)
(* that save the document once more, BlobIsCurrent does not hold.           *)
EXTENDS DataVersions

CONSTANT p1

OneHome == [r \in Ops \cup Rebuilds |-> p1]
=============================================================================
