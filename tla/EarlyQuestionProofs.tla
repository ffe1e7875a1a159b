------------------------- MODULE EarlyQuestionProofs -------------------------
(***************************************************************************)
(* However many questions, faults and reloads: a question that is held and *)
(* asked again has its turn once.  Two records of the question are at work *)
(* besides the slot: the copy a tick captured before its last await, and   *)
(* the one in sessionStorage.  The storage always equals the slot, and a   *)
(* tick and the poll after a reload never live in the same page.           *)
(*                                                                         *)
(* The document the question waits for is proved about here as well: what  *)
(* its three writers may leave in it, and when a held question is asked    *)
(* again.                                                                  *)
(***************************************************************************)
EXTENDS EarlyQuestion, TLAPS

States == {"new", "sent", "gated", "held", "running", "answered", "refused",
           "cancelled", "dropped", "gone"}

EarlyTypeOK ==
  /\ at \in [Questions -> States]
  /\ turns \in [Questions -> Nat]
  /\ replies \in [1 .. 2 -> {"idle", "asked", "failed", "ready", "waiting"}]
  /\ reloads \in Nat

(* Before its turn a question has had none. *)
Untouched ==
  \A q \in Questions :
    /\ turns[q] <= 1
    /\ at[q] \in {"new", "sent", "gated", "held", "dropped"} => turns[q] = 0

(* The slot and the storage agree, on a question that is held. *)
OneHeld ==
  /\ slot = stored
  /\ slot # None => slot \in Questions /\ at[slot] = "held"

(* What a tick captured is not yet on its way. *)
CapturedWaits ==
  tick.step = "hydrate" /\ tick.refire # None
    => tick.refire \in Questions /\ at[tick.refire] \in {"held", "dropped"}

(* The upload poll lives in the first page, the session poll in later ones. *)
OnePoll ==
  /\ reloads = 0 => ~ restoring /\ \A p \in 1 .. 2 : replies[p] = "idle"
  /\ reloads # 0 => ~ polling /\ tick = Idle

EInv == EarlyTypeOK /\ Untouched /\ OneHeld /\ CapturedWaits /\ OnePoll

LEMMA InitEInv == EarlyInit => EInv
  BY DEF EarlyInit, EInv, EarlyTypeOK, Untouched, OneHeld, CapturedWaits, OnePoll, Idle, States

(* Sending a question that had no turn leaves every other one's count true. *)
LEMMA SentKeeps ==
  ASSUME EarlyTypeOK, Untouched, NEW q \in Questions,
         at[q] \in {"new", "held", "dropped"}, at' = Sent(q), turns' = turns
  PROVE  /\ at' \in [Questions -> States]
         /\ Untouched'
         /\ at'[q] = "sent"
         /\ \A p \in Questions : at[p] \in {"held", "dropped"} /\ p # q => at'[p] = at[p]
  BY DEF EarlyTypeOK, Untouched, Sent, InFlight, States

LEMMA StepEInv == EInv /\ [EarlyNext]_<<vars, client>> => EInv'
<1> USE EarlyQuestionAssumption
<1> SUFFICES ASSUME EInv, [EarlyNext]_<<vars, client>> PROVE EInv'
  OBVIOUS
<1>u. USE DEF EInv
<1>1. CASE UNCHANGED client
  BY <1>1 DEF client, asking, holding, uploadPoll, sessionPoll, EarlyTypeOK, Untouched, OneHeld,
              CapturedWaits, OnePoll
<1>2. ASSUME NEW q \in Questions, Ask(q) PROVE EInv'
  <2>1. at' = Sent(q) /\ turns' = turns /\ at[q] = "new" BY <1>2 DEF Ask
  <2>2. EarlyTypeOK' BY <1>2, <2>1, SentKeeps DEF Ask, EarlyTypeOK, sessionPoll
  <2>3. Untouched' BY <2>1, SentKeeps
  <2>4. OneHeld' BY <1>2, <2>1, SentKeeps DEF Ask, OneHeld, holding
  <2>5. CapturedWaits' BY <1>2, <2>1, SentKeeps DEF Ask, CapturedWaits, uploadPoll
  <2>6. OnePoll' BY <1>2 DEF Ask, OnePoll, uploadPoll, sessionPoll
  <2> QED BY <2>2, <2>3, <2>4, <2>5, <2>6
<1>3. ASSUME NEW q \in Questions, Gate(q) PROVE EInv'
  BY <1>3 DEF Gate, decideEnrichmentGate, holding, uploadPoll, sessionPoll, States,
              EarlyTypeOK, Untouched, OneHeld, CapturedWaits, OnePoll
<1>4. ASSUME NEW q \in Questions, onQueued(q) PROVE EInv'
  BY <1>4 DEF onQueued, uploadPoll, sessionPoll, States,
              EarlyTypeOK, Untouched, OneHeld, CapturedWaits, OnePoll
<1>5. ASSUME NEW q \in Questions, Answer(q) PROVE EInv'
  BY <1>5 DEF Answer, holding, uploadPoll, sessionPoll, States,
              EarlyTypeOK, Untouched, OneHeld, CapturedWaits, OnePoll
<1>6. ASSUME Poll PROVE EInv'
  <2>1. tick'.step = "job" /\ tick = Idle /\ polling BY <1>6 DEF Poll
  <2>2. OnePoll' BY <1>6, <2>1 DEF Poll, OnePoll, sessionPoll
  <2> QED BY <1>6, <2>1, <2>2 DEF Poll, asking, holding, sessionPoll,
              EarlyTypeOK, Untouched, OneHeld, CapturedWaits
<1>7. ASSUME getUploadStatus PROVE EInv'
  <2>1. tick'.step = "status" /\ tick # Idle BY <1>7 DEF getUploadStatus, Idle
  <2> QED BY <1>7, <2>1 DEF getUploadStatus, asking, holding, sessionPoll,
              EarlyTypeOK, Untouched, OneHeld, CapturedWaits, OnePoll
<1>8. ASSUME Status PROVE EInv'
  <2>1. tick # Idle BY <1>8 DEF Status, Idle
  <2>2. tick'.step # "hydrate" BY <1>8 DEF Status, Idle
  <2>3. OnePoll' BY <1>8, <2>1 DEF Status, OnePoll, sessionPoll
  <2>4. CapturedWaits' BY <2>2 DEF CapturedWaits
  <2> QED BY <1>8, <2>3, <2>4 DEF Status, Dropped, holding, sessionPoll, States,
              EarlyTypeOK, Untouched, OneHeld
<1>9. ASSUME Decide PROVE EInv'
  <2>1. tick # Idle BY <1>9 DEF Decide, Idle
  <2>2. OnePoll' BY <1>9, <2>1 DEF Decide, OnePoll, sessionPoll
  <2>3. CapturedWaits'
    BY <1>9 DEF Decide, CapturedWaits, OneHeld, asking, Idle, shouldRefireEarlyQuestion
  <2> QED BY <1>9, <2>2, <2>3 DEF Decide, asking, holding, sessionPoll,
              EarlyTypeOK, Untouched, OneHeld
<1>10. ASSUME Refired PROVE EInv'
  <2>1. tick # Idle /\ tick.step = "hydrate" BY <1>10 DEF Refired, Idle
  <2>2. OnePoll' BY <1>10, <2>1 DEF Refired, OnePoll, sessionPoll
  <2>3. CapturedWaits' BY <1>10 DEF Refired, CapturedWaits, Idle
  <2>4. CASE tick.refire = None
    BY <1>10, <2>2, <2>3, <2>4 DEF Refired, holding, sessionPoll, EarlyTypeOK, Untouched, OneHeld
  <2>5. CASE tick.refire # None
    <3>1. /\ at' = Sent(tick.refire) /\ turns' = turns /\ tick.refire \in Questions
          /\ at[tick.refire] \in {"held", "dropped"}
      BY <1>10, <2>1, <2>5 DEF Refired, CapturedWaits
    <3>2. Untouched' /\ at' \in [Questions -> States] BY <3>1, SentKeeps
    <3> QED BY <1>10, <2>2, <2>3, <2>5, <3>2 DEF Refired, sessionPoll, EarlyTypeOK, OneHeld
  <2> QED BY <2>4, <2>5
<1>11. ASSUME TickFails PROVE EInv'
  <2>1. tick # Idle /\ tick' = Idle BY <1>11 DEF TickFails
  <2> QED BY <1>11, <2>1 DEF TickFails, asking, holding, sessionPoll, Idle,
              EarlyTypeOK, Untouched, OneHeld, CapturedWaits, OnePoll
<1>12. ASSUME Reload PROVE EInv'
  <2>1. reloads \in Nat /\ reloads' = reloads + 1 BY <1>12 DEF Reload, EarlyTypeOK
  <2>2. OnePoll' BY <1>12, <2>1 DEF Reload, OnePoll
  <2>3. EarlyTypeOK' BY <1>12, <2>1 DEF Reload, EarlyTypeOK, States
  <2> QED BY <1>12, <2>2, <2>3 DEF Reload, Idle, InFlight,
              EarlyTypeOK, Untouched, OneHeld, CapturedWaits
<1>13. ASSUME NEW p \in 1 .. 2, SessionPoll(p) PROVE EInv'
  BY <1>13 DEF SessionPoll, asking, holding, uploadPoll,
              EarlyTypeOK, Untouched, OneHeld, CapturedWaits, OnePoll
<1>14. ASSUME NEW p \in 1 .. 2, getSession(p) PROVE EInv'
  BY <1>14 DEF getSession, asking, holding, uploadPoll,
              EarlyTypeOK, Untouched, OneHeld, CapturedWaits, OnePoll
<1>15. ASSUME NEW p \in 1 .. 2, SessionReply(p) PROVE EInv'
  <2>1. reloads # 0 BY <1>15 DEF SessionReply, OnePoll
  <2>2. tick = Idle /\ tick' = Idle /\ reloads' = reloads /\ ~ polling'
    BY <1>15, <2>1 DEF SessionReply, OnePoll, uploadPoll
  <2>3. OnePoll' /\ CapturedWaits' BY <2>1, <2>2 DEF OnePoll, CapturedWaits, Idle
  <2>4. replies' \in [1 .. 2 -> {"idle", "asked", "failed", "ready", "waiting"}]
    BY <1>15 DEF SessionReply, EarlyTypeOK
  <2>5. CASE UNCHANGED <<restoring, holding, at>>
    BY <1>15, <2>2, <2>3, <2>4, <2>5 DEF SessionReply, holding, EarlyTypeOK, Untouched, OneHeld
  <2>6. CASE slot' = None /\ stored' = None /\ slot # None /\ at' = Sent(slot)
    <3>1. slot \in Questions /\ at[slot] = "held" /\ turns' = turns
      BY <1>15, <2>6 DEF SessionReply, OneHeld
    <3>2. Untouched' /\ at' \in [Questions -> States] BY <2>6, <3>1, SentKeeps
    <3> QED BY <1>15, <2>2, <2>3, <2>4, <2>6, <3>2 DEF SessionReply, EarlyTypeOK, OneHeld
  <2>7. CASE slot' = None /\ stored' = None /\ at' = Dropped(slot)
    BY <1>15, <2>2, <2>3, <2>4, <2>7 DEF SessionReply, Dropped, OneHeld, EarlyTypeOK, Untouched, States
  <2> QED BY <1>15, <2>5, <2>6, <2>7 DEF SessionReply
<1> QED
  <2>1. EInv => DOMAIN replies = 1 .. 2 BY DEF EarlyTypeOK
  <2> QED BY <2>1, <1>1, <1>2, <1>3, <1>4, <1>5, <1>6, <1>7, <1>8, <1>9, <1>10, <1>11, <1>12,
             <1>13, <1>14, <1>15 DEF EarlyNext

(* Every question, held or not, has at most one turn. *)
THEOREM OneTurnPerQuestion == EarlySpec => []AskedOnce
<1>1. EInv => AskedOnce BY DEF EInv, Untouched, AskedOnce
<1> QED BY <1>1, InitEInv, StepEInv, PTL DEF EarlySpec
-----------------------------------------------------------------------------
(* The document of the upload.  Whoever writes it writes the copy it read, *)
(* with some fields set; so what holds of the document has to hold of      *)
(* every copy that is still held when it is written back.                  *)
Documents == [status : {"pending", "in_progress", "complete", "failed"},
              note : BOOLEAN, rows : BOOLEAN,
              context : {"none", "heuristic", "seeded", "user"}]

Understood(d) == d.status = "complete" => d.context # "none"
MarkedFailed(d) == d.status = "failed" => pc = "caught"
Noted(d) == d.context = "user" => d.note

Sound(d) == d \in Documents /\ Understood(d) /\ MarkedFailed(d) /\ Noted(d)

(* The status of a job is taken back after a timeout, never after a throw. *)
DocInv ==
  /\ Sound(doc) /\ Sound(held) /\ Sound(seedHeld) /\ Sound(userHeld)
  /\ merged \in {"none", "heuristic", "seeded", "user"}
  /\ pc \in {"failed", "marking", "caught"} => job = "failed"

LEMMA ThrowIsFinal ==
  ASSUME [Next]_vars
  PROVE  /\ pc \in {"failed", "marking", "caught"} /\ job = "failed" => job' = "failed"
         /\ pc' \in {"failed", "marking", "caught"} =>
              pc \in {"failed", "marking", "caught"} \/ job' = "failed"
         /\ pc = "caught" => pc' = "caught"
BY DEF Next, processJob, vars, pipeline, seeding, saving, isJobTerminal, Read, Write, Bail,
       Proceed, Prepared, Parsed, PreviewRead, PreviewWrite, Profiled, UnderstandRead,
       UnderstandWrite, UnderstandFails, Enriched, SaveRead, SaveWrite, SaveFails, Finish, Throw,
       FailureRead, FailureWrite, FailureUnsaved, Timeout, SeedRead, SeedWrite, SeedFails,
       UserMerge, UserRead, UserWrite, UserFails

(* The placeholder is a sound copy at any time. *)
LEMMA PlaceholderSound == Sound(Placeholder) /\ ~ Placeholder.rows
BY DEF Placeholder, Sound, Understood, MarkedFailed, Noted, Documents

LEMMA InitDocInv == Init => DocInv
BY DEF Init, Placeholder, DocInv, Sound, Understood, MarkedFailed, Noted, Documents

LEMMA NextDocInv == DocInv /\ [Next]_vars => DocInv'
<1> SUFFICES ASSUME DocInv, [Next]_vars PROVE DocInv'
  OBVIOUS
<1> USE DEF DocInv, Sound, Understood, MarkedFailed, Noted, Documents
<1>1. /\ pc' \in {"failed", "marking", "caught"} => job' = "failed"
      /\ pc = "caught" => pc' = "caught"
  BY ThrowIsFinal
<1>0. Sound(Placeholder)'
  BY PlaceholderSound DEF Placeholder
<1>2. ASSUME Prepared \/ Parsed \/ Profiled \/ UnderstandFails \/ Enriched \/ SaveFails \/ Finish
             \/ Throw \/ FailureUnsaved \/ Timeout \/ SeedFails \/ UserFails \/ UNCHANGED vars
      PROVE  DocInv'
  <2>1. /\ doc' = doc
        /\ held' \in {held, Placeholder} /\ seedHeld' \in {seedHeld, Placeholder}
        /\ userHeld' \in {userHeld, Placeholder} /\ merged' \in {merged, "none"}
    BY <1>2 DEF Prepared, Parsed, Bail, Proceed, Profiled, UnderstandFails, Enriched, SaveFails,
         Finish, Throw, FailureUnsaved, Timeout, SeedFails, UserFails, vars, pipeline, seeding, saving
  <2> QED BY <1>0, <1>1, <2>1
<1>3. ASSUME PreviewRead \/ UnderstandRead \/ SaveRead \/ FailureRead
      PROVE  DocInv'
  BY <1>1, <1>3 DEF PreviewRead, UnderstandRead, SaveRead, FailureRead, Read, seeding, saving
<1>4. ASSUME PreviewWrite \/ UnderstandWrite \/ SaveWrite \/ FailureWrite
      PROVE  DocInv'
  <2>1. held' = Placeholder /\ UNCHANGED <<seedHeld, userHeld, merged>>
    BY <1>4 DEF PreviewWrite, UnderstandWrite, SaveWrite, FailureWrite, Write, seeding, saving
  <2>2. CASE PreviewWrite
    BY <1>0, <1>1, <2>1, <2>2 DEF PreviewWrite, Write
  <2>3. CASE UnderstandWrite
    <3>1. doc' \in Documents /\ doc'.status = "complete" /\ doc'.note = held.note
      BY <2>3 DEF UnderstandWrite, Write
    <3>2. doc'.context = IF held.note /\ held.context # "none" THEN held.context ELSE "heuristic"
      BY <2>3 DEF UnderstandWrite, Write
    <3>3. Understood(doc)' /\ MarkedFailed(doc)' /\ Noted(doc)'
      BY <3>1, <3>2
    <3> QED BY <1>0, <1>1, <2>1, <3>1, <3>3
  <2>4. CASE SaveWrite
    <3>1. doc' \in Documents /\ doc'.status = "complete" /\ doc'.context = "heuristic"
      BY <2>4 DEF SaveWrite, Write
    <3> QED BY <1>0, <1>1, <2>1, <3>1
  <2>5. CASE FailureWrite
    BY <1>0, <1>1, <2>1, <2>5 DEF FailureWrite, Write
  <2> QED BY <1>4, <2>2, <2>3, <2>4, <2>5
<1>5. ASSUME SeedRead \/ SeedWrite
      PROVE  DocInv'
  BY <1>0, <1>1, <1>5 DEF SeedRead, SeedWrite, pipeline, saving
<1>6. CASE UserMerge
  <2>1. merged' \in {"user", doc.context}
    BY <1>6 DEF UserMerge
  <2>2. UNCHANGED <<doc, held, pc, job, seedHeld, userHeld>>
    BY <1>6 DEF UserMerge, pipeline, seeding
  <2> QED BY <1>1, <2>1, <2>2
<1>7. CASE UserRead
  <2>1. /\ userHeld' \in Documents /\ userHeld'.status = doc.status /\ userHeld'.note = TRUE
        /\ userHeld'.context = IF merged # "none" THEN merged ELSE doc.context
    BY <1>7 DEF UserRead
  <2>2. merged' = "none" /\ UNCHANGED <<doc, held, pc, job, seedHeld>>
    BY <1>7 DEF UserRead, pipeline, seeding
  <2>3. Understood(userHeld)' /\ MarkedFailed(userHeld)' /\ Noted(userHeld)'
    BY <2>1, <2>2
  <2> QED BY <1>1, <2>1, <2>2, <2>3
<1>8. CASE UserWrite
  BY <1>0, <1>1, <1>8 DEF UserWrite, pipeline, seeding
<1> QED BY <1>2, <1>3, <1>4, <1>5, <1>6, <1>7, <1>8 DEF Next, processJob

LEMMA DocInvariant == Spec => []DocInv
<1>1. DocInv /\ [Next]_vars => DocInv'
  BY NextDocInv
<1> QED BY InitDocInv, <1>1, PTL DEF Spec

(* A session that is shown as complete has a context, whatever the         *)
(* pipeline, the seed and the user write over one another.                 *)
THEOREM ReadyIsUnderstood == Spec => []ReadyMeansUnderstood
<1>1. DocInv => ReadyMeansUnderstood
  BY DEF DocInv, Sound, Understood, ReadyMeansUnderstood
<1> QED BY <1>1, DocInvariant, PTL

(* A document says "failed" only when its job did, although a job that was *)
(* failed by its timeout goes back to a running status.                    *)
THEOREM FailureIsTrue == Spec => []NeverFalselyFailed
<1>1. DocInv => NeverFalselyFailed
  BY DEF DocInv, Sound, MarkedFailed, NeverFalselyFailed
<1> QED BY <1>1, DocInvariant, PTL

(* The context the user asked for stands with the note it came from.       *)
THEOREM NoteGoesWithContext == Spec => []ContextHasNote
<1>1. DocInv => ContextHasNote
  BY DEF DocInv, Sound, Noted, ContextHasNote
<1> QED BY <1>1, DocInvariant, PTL

-----------------------------------------------------------------------------
(* When a held question is asked again.  Late: the pipeline has tried its  *)
(* final save.  Rows are in a document only from then on, so whoever has   *)
(* seen them, or has seen the job completed, has seen it late.             *)
Late == pc \in {"finish", "over"}

SaveInv ==
  /\ doc.rows \/ held.rows \/ seedHeld.rows \/ userHeld.rows => Late
  /\ job \in {"running", "completed", "failed"}
  /\ job = "completed" => pc = "over"

SeenInv ==
  /\ Elsewhere \/ (tick.step = "job" => tick.status # "unknown")
  /\ tick.step \in {"job", "status", "decide"} /\ tick.status = "completed" => Elsewhere \/ Late
  /\ tick.step = "hydrate" /\ tick.refire # None => Elsewhere \/ Late
  /\ \A p \in 1 .. 2 : replies[p] = "ready" => Late

LEMMA InitLate == EarlyInit => SaveInv /\ SeenInv
BY DEF EarlyInit, Init, Placeholder, Idle, SaveInv, SeenInv

LEMMA StepSaveInv ==
  ASSUME DocInv, SaveInv, [Next]_vars
  PROVE  SaveInv' /\ (Late => Late')
<1> USE DEF SaveInv, Late
<1>0. doc \in Documents /\ held \in Documents /\ seedHeld \in Documents /\ userHeld \in Documents
  BY DEF DocInv, Sound
<1>1. ~ Placeholder.rows
  BY PlaceholderSound
<1>2. ASSUME Prepared \/ Parsed \/ Profiled \/ UnderstandFails \/ Enriched \/ SaveFails \/ Finish
             \/ Throw \/ FailureUnsaved \/ Timeout \/ SeedFails \/ UserFails \/ UNCHANGED vars
      PROVE  SaveInv' /\ (Late => Late')
  BY <1>1, <1>2 DEF Prepared, Parsed, Bail, Proceed, Profiled, UnderstandFails, Enriched, SaveFails,
       Finish, Throw, FailureUnsaved, Timeout, Ended, isJobTerminal, SeedFails, UserFails, vars,
       pipeline, seeding, saving
<1>3. ASSUME PreviewRead \/ UnderstandRead \/ SaveRead \/ FailureRead
      PROVE  SaveInv' /\ (Late => Late')
  BY <1>3 DEF PreviewRead, UnderstandRead, SaveRead, FailureRead, Read, seeding, saving
<1>4. ASSUME PreviewWrite \/ UnderstandWrite \/ FailureWrite
      PROVE  SaveInv' /\ (Late => Late')
  <2>1. doc'.rows = held.rows /\ pc \in {"preview", "checkpoint", "marking"}
    BY <1>0, <1>4 DEF PreviewWrite, UnderstandWrite, FailureWrite, Write, Documents
  <2> QED BY <1>1, <1>4, <2>1 DEF PreviewWrite, UnderstandWrite, FailureWrite, Write, seeding, saving
<1>5. CASE SaveWrite
  BY <1>1, <1>5 DEF SaveWrite, Write, seeding, saving
<1>6. ASSUME SeedRead \/ SeedWrite
      PROVE  SaveInv' /\ (Late => Late')
  BY <1>0, <1>1, <1>6 DEF SeedRead, SeedWrite, pipeline, saving, Documents
<1>7. ASSUME UserMerge \/ UserRead \/ UserWrite
      PROVE  SaveInv' /\ (Late => Late')
  BY <1>0, <1>1, <1>7 DEF UserMerge, UserRead, UserWrite, pipeline, seeding, Documents
<1> QED BY <1>2, <1>3, <1>4, <1>5, <1>6, <1>7 DEF Next, processJob

LEMMA StepSeenInv ==
  ASSUME EInv, DocInv, SaveInv, SeenInv, [EarlyNext]_<<vars, client>>
  PROVE  SaveInv' /\ SeenInv'
<1>1. replies \in [1 .. 2 -> {"idle", "asked", "failed", "ready", "waiting"}]
  BY DEF EInv, EarlyTypeOK
<1>2. ASSUME [Next]_vars, UNCHANGED client PROVE SaveInv' /\ SeenInv'
  BY <1>2, StepSaveInv DEF SeenInv, client, uploadPoll, sessionPoll
<1>3. ASSUME vars' = vars PROVE SaveInv' /\ (Late <=> Late')
  BY <1>3 DEF vars, SaveInv, Late, pipeline, seeding, saving
<1>4. ASSUME NEW q \in Questions, Ask(q) \/ Gate(q) \/ onQueued(q) \/ Answer(q)
      PROVE  SaveInv' /\ SeenInv'
  BY <1>3, <1>4 DEF Ask, Gate, onQueued, Answer, uploadPoll, sessionPoll, SeenInv
<1>5. CASE Poll
  <2>1. /\ tick'.step = "job" /\ tick'.step # "hydrate" /\ vars' = vars /\ replies' = replies
        /\ tick'.status = job \/ (tick'.status = "unknown" /\ Elsewhere)
    BY <1>5 DEF Poll, sessionPoll
  <2> QED BY <1>3, <2>1 DEF SeenInv, SaveInv, Late
<1>6. CASE getUploadStatus
  <2>1. /\ tick.step = "job" /\ tick'.step = "status" /\ vars' = vars /\ replies' = replies
        /\ tick'.status = IF tick.status = "unknown" THEN deriveStatusFromEnrichment(doc.status)
                          ELSE tick.status
    BY <1>6 DEF getUploadStatus, sessionPoll
  <2> QED BY <1>3, <2>1 DEF SeenInv
<1>7. CASE Status
  <2>1. /\ tick.step = "status" /\ vars' = vars /\ replies' = replies
        /\ \/ tick' = Idle
           \/ tick'.step = "decide" /\ tick'.status = tick.status
    BY <1>7 DEF Status, sessionPoll
  <2> QED BY <1>3, <2>1 DEF SeenInv, Idle
<1>8. CASE Decide
  <2>1. /\ tick.step = "decide" /\ vars' = vars /\ replies' = replies
        /\ \/ tick' = Idle
           \/ /\ tick'.step = "hydrate"
              /\ tick'.refire = IF shouldRefireEarlyQuestion(tick.status) THEN slot ELSE None
    BY <1>8 DEF Decide, sessionPoll
  <2> QED BY <1>3, <2>1 DEF SeenInv, Idle, shouldRefireEarlyQuestion
<1>9. ASSUME Refired \/ TickFails PROVE SaveInv' /\ SeenInv'
  BY <1>3, <1>9 DEF Refired, TickFails, Idle, sessionPoll, SeenInv
<1>10. CASE Reload
  BY <1>1, <1>3, <1>10 DEF Reload, Idle, SeenInv
<1>11. ASSUME NEW p \in 1 .. 2, SessionPoll(p) \/ getSession(p) \/ SessionReply(p)
       PROVE  SaveInv' /\ SeenInv'
  BY <1>1, <1>3, <1>11 DEF SessionPoll, getSession, SessionReply, isMaterialized, uploadPoll,
                           SeenInv, SaveInv
<1> QED
  BY <1>1, <1>2, <1>4, <1>5, <1>6, <1>7, <1>8, <1>9, <1>10, <1>11 DEF EarlyNext, vars, client

(* A held question is asked again only when the pipeline has tried its     *)
(* final save, and never after it threw: whatever the seed and the user    *)
(* overwrite, whatever fails or times out, however often the tab is        *)
(* reloaded and however late a reply is.                                   *)
THEOREM AskedAgainAfterSave == EarlySpec => RefiredAfterSave
<1>1. EInv /\ DocInv /\ SaveInv /\ SeenInv /\ [EarlyNext]_<<vars, client>> => SaveInv' /\ SeenInv'
  BY StepSeenInv
<1>2. ASSUME EInv, SeenInv, [EarlyNext]_<<vars, client>>,
             NEW q \in Questions, at[q] = "held", at'[q] = "sent"
      PROVE  Elsewhere \/ pc \in {"finish", "over"}
  <2>1. DOMAIN replies = 1 .. 2 /\ at \in [Questions -> States]
    BY <1>2 DEF EInv, EarlyTypeOK
  <2>2. CASE Refired
    BY <1>2, <2>2 DEF Refired, SeenInv, Late
  <2>3. ASSUME NEW p \in 1 .. 2, SessionReply(p) PROVE Late
    BY <1>2, <2>3 DEF SessionReply, Dropped, SeenInv
  <2>4. ASSUME NEW p \in Questions, Ask(p) \/ Gate(p) \/ onQueued(p) \/ Answer(p) PROVE FALSE
    BY <1>2, <2>1, <2>4 DEF Ask, Gate, onQueued, Answer, Sent, InFlight, decideEnrichmentGate
  <2>5. ~ (UNCHANGED client \/ Poll \/ getUploadStatus \/ Status \/ Decide \/ TickFails \/ Reload)
    BY <1>2, <2>1 DEF client, asking, Poll, getUploadStatus, Status, Decide, TickFails, Reload,
                      Dropped, InFlight
  <2>6. ASSUME NEW p \in 1 .. 2, SessionPoll(p) \/ getSession(p) PROVE FALSE
    BY <1>2, <2>6 DEF SessionPoll, getSession, asking
  <2> QED BY <1>2, <2>1, <2>2, <2>3, <2>4, <2>5, <2>6 DEF EarlyNext, vars, client, Late
<1>3. EInv /\ SeenInv /\ [EarlyNext]_<<vars, client>> =>
        [\A q \in Questions :
           at[q] = "held" /\ at'[q] = "sent" => Elsewhere \/ pc \in {"finish", "over"}]_<<vars, client>>
  BY <1>2
<1>4. [EarlyNext]_<<vars, client>> => [Next]_vars
  BY DEF EarlyNext, Ask, Gate, onQueued, Answer, Poll, getUploadStatus, Status, Decide, Refired,
         TickFails, Reload, SessionPoll, getSession, SessionReply
<1>5. EarlyInit => DocInv
  BY InitDocInv DEF EarlyInit
<1>6. DocInv /\ [EarlyNext]_<<vars, client>> => DocInv'
  BY <1>4, NextDocInv
<1> QED BY <1>1, <1>3, <1>5, <1>6, InitEInv, StepEInv, InitLate, PTL
        DEF EarlySpec, RefiredAfterSave
=============================================================================
