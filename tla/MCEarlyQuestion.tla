-------------------------- MODULE MCEarlyQuestion --------------------------
(* Two questions of one tab during one upload. *)
EXTENDS EarlyQuestion

(* A bound: a request fails or the tab is reloaded or the user saves a     *)
(* note, and with the note no question is asked.  The seed, failures of    *)
(* the pipeline and the timeout are there in every case.                   *)
OneDisturbance ==
  /\ faults + reloads <= 1
  /\ user # "idle" => faults + reloads = 0 /\ \A q \in Questions : at[q] = "new"
=============================================================================
