--------------------------- MODULE UploadDocument ---------------------------
(***************************************************************************)
(* The chat document of one upload while its job runs                      *)
(* (src/server/utils/uploadQueue.ts): the pipeline, the session seed it    *)
(* launches and forgets, and the user who saves a context note meanwhile   *)
(* (updateSessionPermanentContext in models/chat.model.ts).                *)
(*                                                                         *)
(* Each reads the document, works on a copy across awaits, and upserts the *)
(* copy whole, without a lock or an etag.  A read returns the stored       *)
(* document; ChatStore has the cache in between.                           *)
(*                                                                         *)
(* The status of the job is written at some steps without a look at what   *)
(* it is, so a step that ends after the timeout takes the timeout's        *)
(* "failed" back.                                                          *)
(***************************************************************************)
CONSTANTS
  SeedRuns,      \* FAST_UPLOAD_SESSION_CONTEXT is off
  UserSaves,     \* the user saves a note during the upload
  MergeMayFail,  \* the language model may fail to merge the note
  StoreMayFail,  \* reads and writes of the document may throw
  StepsMayFail,  \* parsing, profiling, materialising may throw
  MayTimeOut     \* the job may run into JOB_TIMEOUT

ASSUME UploadAssumption ==
  {SeedRuns, UserSaves, MergeMayFail, StoreMayFail, StepsMayFail, MayTimeOut} \subseteq BOOLEAN

VARIABLES
  doc,       \* the stored document
  pc, held,  \* where processJob stands, and its copy (a copy that is not needed
             \* any more is reset to the placeholder)
  job,       \* "running" (every status that is not final), "completed" or "failed"
  aborted,   \* signal.aborted
  seed, seedHeld,        \* the seed and its copy
  user, merged, userHeld \* the user's save, its merged context and its copy

vars == <<doc, pc, held, job, aborted, seed, seedHeld, user, merged, userHeld>>
pipeline == <<pc, held, job, aborted>>
seeding == <<seed, seedHeld>>
saving == <<user, merged, userHeld>>

(* status: enrichmentStatus; note: permanentContext; rows: what the final  *)
(* save adds (columnarStoragePath, rawData, blobs); context: whose         *)
(* sessionAnalysisContext it is.  The placeholder is the document the      *)
(* controller made before it enqueued the job.                             *)
Placeholder == [status |-> "pending", note |-> FALSE, rows |-> FALSE, context |-> "none"]

Init ==
  /\ doc = Placeholder
  /\ pc = "prepare" /\ held = Placeholder
  /\ job = "running" /\ aborted = FALSE
  /\ seed = "off" /\ seedHeld = Placeholder
  /\ user = "idle" /\ merged = "none" /\ userHeld = Placeholder

-----------------------------------------------------------------------------
isJobTerminal == aborted \/ job # "running"

Read(from, to) ==
  /\ pc = from
  /\ pc' = to
  /\ held' = doc
  /\ UNCHANGED <<doc, aborted, seeding, saving>>

Write(from, to, d) ==
  /\ pc = from
  /\ pc' = to
  /\ doc' = d
  /\ held' = Placeholder
  /\ UNCHANGED <<aborted, seeding, saving>>

(* An early return leaves the status of the job, whatever it is. *)
Bail(from, to) ==
  /\ pc = from /\ isJobTerminal
  /\ pc' = to
  /\ UNCHANGED <<doc, held, job, aborted, seeding, saving>>

Proceed(from, to) ==
  /\ pc = from /\ ~ isJobTerminal
  /\ pc' = to
  /\ UNCHANGED <<doc, held, job, aborted, seeding, saving>>

(* The file is in the blob store, the document is there: status "parsing". *)
Prepared ==
  /\ pc = "prepare"
  /\ pc' = "parse"
  /\ job' = "running"
  /\ UNCHANGED <<doc, held, aborted, seeding, saving>>

Parsed == Bail("parse", "bailed") \/ Proceed("parse", "ensure")

(* The preview checkpoint; status "preview_ready". *)
PreviewRead == Read("ensure", "preview") /\ UNCHANGED job
PreviewWrite ==
  /\ Write("preview", "profile", [held EXCEPT !.status = "in_progress"])
  /\ job' = "running"

(* Profile and heuristic context are there; the seed goes its own way. *)
Profiled ==
  /\ pc = "profile"
  /\ pc' = "understand"
  /\ seed' = IF SeedRuns THEN "thinking" ELSE seed
  /\ UNCHANGED <<doc, held, job, aborted, seedHeld, saving>>

(* The understanding checkpoint: a noted context wins over the heuristic,  *)
(* a failure is swallowed; status "analyzing".                             *)
UnderstandRead == Read("understand", "checkpoint") /\ UNCHANGED job
UnderstandWrite ==
  /\ Write("checkpoint", "enrich",
           [held EXCEPT !.status = "complete",
                        !.context = IF held.note /\ @ # "none" THEN @ ELSE "heuristic"])
  /\ job' = "running"
UnderstandFails ==
  /\ StoreMayFail
  /\ pc \in {"understand", "checkpoint"}
  /\ pc' = "enrich"
  /\ job' = "running" /\ held' = Placeholder
  /\ UNCHANGED <<doc, aborted, seeding, saving>>

(* Status "saving" right after the check changes nothing. *)
Enriched == Bail("enrich", "bailed") \/ Proceed("enrich", "materialize")

(* The table is materialized: status "saving" once more.  The final save   *)
(* writes the local heuristic context, whatever it read; of its failures   *)
(* some are thrown (Throw) and some are swallowed.                         *)
SaveRead == Read("materialize", "save") /\ job' = "running"
SaveWrite ==
  /\ Write("save", "finish",
           [held EXCEPT !.status = "complete", !.rows = TRUE, !.context = "heuristic"])
  /\ UNCHANGED job
SaveFails ==
  /\ StoreMayFail
  /\ pc \in {"materialize", "save"}
  /\ pc' = "finish"
  /\ job' = IF pc = "materialize" THEN "running" ELSE job
  /\ held' = Placeholder
  /\ UNCHANGED <<doc, aborted, seeding, saving>>

Finish ==
  \/ Bail("finish", "over")
  \/ /\ pc = "finish" /\ ~ isJobTerminal
     /\ pc' = "over"
     /\ job' = "completed"
     /\ UNCHANGED <<doc, held, aborted, seeding, saving>>

(* A step throws, the job is failed and then its document. *)
Throw ==
  /\ \/ StepsMayFail /\ pc \in {"prepare", "parse", "profile", "enrich", "materialize"}
     \/ StoreMayFail /\ pc \in {"ensure", "preview", "materialize", "save"}
  /\ pc' = "failed"
  /\ job' = "failed" /\ held' = Placeholder
  /\ UNCHANGED <<doc, aborted, seeding, saving>>

MutantFailureRead ==   \* the document is marked before the job is known to fail
  /\ pc \in {"failed", "enrich"}
  /\ pc' = "marking"
  /\ held' = doc
  /\ UNCHANGED <<doc, job, aborted, seeding, saving>>

FailureRead == Read("failed", "marking") /\ UNCHANGED job
FailureWrite ==
  /\ Write("marking", "caught", [held EXCEPT !.status = "failed"])
  /\ UNCHANGED job
FailureUnsaved ==
  /\ StoreMayFail
  /\ pc \in {"failed", "marking"}
  /\ pc' = "caught"
  /\ held' = Placeholder
  /\ UNCHANGED <<doc, job, aborted, seeding, saving>>

Ended == pc \in {"over", "bailed", "caught"}

(* The timer is cleared at every end. *)
Timeout ==
  /\ MayTimeOut /\ ~ aborted
  /\ ~ Ended
  /\ aborted' = TRUE
  /\ job' = IF job = "running" THEN "failed" ELSE job
  /\ UNCHANGED <<doc, pc, held, seeding, saving>>

-----------------------------------------------------------------------------
(* The seed replaces the context unless it sees that the user saved a note. *)
SeedRead ==
  /\ seed = "thinking"
  /\ IF doc.note
     THEN seed' = "off" /\ UNCHANGED seedHeld
     ELSE seed' = "writing" /\ seedHeld' = doc
  /\ UNCHANGED <<doc, pipeline, saving>>

(* Only the fields the seed is not about are put back as they were read. *)
MutantSeedWrite ==
  /\ seed = "writing"
  /\ seed' = "off"
  /\ doc' = [seedHeld EXCEPT !.context = IF doc.context = "user" THEN "user" ELSE "seeded"]
  /\ seedHeld' = Placeholder
  /\ UNCHANGED <<pipeline, saving>>

SeedWrite ==
  /\ seed = "writing"
  /\ seed' = "off"
  /\ doc' = [seedHeld EXCEPT !.context = "seeded"]
  /\ seedHeld' = Placeholder
  /\ UNCHANGED <<pipeline, saving>>

(* The model or the store fails: the seed is best effort. *)
SeedFails ==
  /\ seed \in {"thinking", "writing"}
  /\ seed' = "off" /\ seedHeld' = Placeholder
  /\ UNCHANGED <<doc, pipeline, saving>>

(* The user saves a note: the model merges it into the context read now,   *)
UserMerge ==
  /\ UserSaves /\ user = "idle"
  /\ user' = "merging"
  /\ merged' \in {"user"} \cup (IF MergeMayFail THEN {doc.context} ELSE {})
  /\ UNCHANGED <<doc, userHeld, pipeline, seeding>>

(* which goes with the note into the document read afterwards; starter     *)
(* questions are made by the model while the copy is held.                 *)
MutantUserRead ==   \* an absent merge is stored as well
  /\ user = "merging"
  /\ user' = "rewriting"
  /\ userHeld' = [doc EXCEPT !.note = TRUE, !.context = merged]
  /\ merged' = "none"
  /\ UNCHANGED <<doc, pipeline, seeding>>

UserRead ==
  /\ user = "merging"
  /\ user' = "rewriting"
  /\ userHeld' = [doc EXCEPT !.note = TRUE,
                             !.context = IF merged # "none" THEN merged ELSE @]
  /\ merged' = "none"
  /\ UNCHANGED <<doc, pipeline, seeding>>

UserWrite ==
  /\ user = "rewriting"
  /\ user' = "over"
  /\ doc' = userHeld
  /\ userHeld' = Placeholder
  /\ UNCHANGED <<merged, pipeline, seeding>>

UserFails ==
  /\ StoreMayFail
  /\ user \in {"merging", "rewriting"}
  /\ user' = "over"
  /\ merged' = "none" /\ userHeld' = Placeholder
  /\ UNCHANGED <<doc, pipeline, seeding>>

-----------------------------------------------------------------------------
processJob ==
  \/ Prepared \/ Parsed \/ PreviewRead \/ PreviewWrite \/ Profiled
  \/ UnderstandRead \/ UnderstandWrite \/ UnderstandFails
  \/ Enriched \/ SaveRead \/ SaveWrite \/ SaveFails \/ Finish
  \/ Throw \/ FailureRead \/ FailureWrite \/ FailureUnsaved

Next ==
  \/ processJob \/ Timeout
  \/ SeedRead \/ SeedWrite \/ SeedFails
  \/ UserMerge \/ UserRead \/ UserWrite \/ UserFails

Spec == Init /\ [][Next]_vars

-----------------------------------------------------------------------------
(* A client that sees "complete" finds a context to talk about, whichever  *)
(* writer wrote last.                                                      *)
ReadyMeansUnderstood == doc.status = "complete" => doc.context # "none"

(* A document is never marked failed for a job that did not fail.          *)
NeverFalselyFailed == doc.status = "failed" => job = "failed"

(* The context merged from the user's note never stands without the note.  *)
ContextHasNote == doc.context = "user" => doc.note
=============================================================================
