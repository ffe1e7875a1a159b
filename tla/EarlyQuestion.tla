---------------------------- MODULE EarlyQuestion ----------------------------
(***************************************************************************)
(* Questions asked while the upload still runs: the gate of the server     *)
(* (services/chat/enrichmentGate.ts) sends them back, and the browser      *)
(* (client/src/lib/chat/earlyQuestionRefire.ts, useHomeMutations.ts) holds *)
(* the latest one, polls the upload's status, and asks it again.  The      *)
(* upload is the one of UploadDocument; a tab that is reloaded finds the   *)
(* held question in its sessionStorage and polls the session instead.      *)
(*                                                                         *)
(* chatMutation.isPending is read where a poll was started, so it has the  *)
(* value of that render: no turn was pending, and it never holds back.     *)
(***************************************************************************)
EXTENDS UploadDocument, Naturals

CONSTANTS
  Questions, None,
  Elsewhere,   \* a status poll may reach a process that does not own the job
  MaxFaults,   \* requests of the browser that fail
  MaxReloads   \* times the tab is reloaded

ASSUME EarlyQuestionAssumption ==
  /\ None \notin Questions
  /\ Elsewhere \in BOOLEAN
  /\ {MaxFaults, MaxReloads} \subseteq Nat

VARIABLES
  at,         \* where each question is
  turns,      \* how often a turn was begun for it
  slot,       \* queuedEarlyQuestionRef
  stored,     \* the question in sessionStorage
  polling,    \* the interval of the upload poll is set
  tick,       \* the poll under way
  restoring,  \* the interval of the poll after a reload is set
  replies,    \* its polls under way: two, as nothing keeps them apart
  faults, reloads

asking == <<at, turns>>
holding == <<slot, stored>>
uploadPoll == <<polling, tick>>
sessionPoll == <<restoring, replies>>
client == <<asking, holding, uploadPoll, sessionPoll, faults, reloads>>

Idle == [step |-> "idle"]

EarlyInit ==
  /\ Init
  /\ at = [q \in Questions |-> "new"]
  /\ turns = [q \in Questions |-> 0]
  /\ slot = None /\ stored = None
  /\ polling = TRUE /\ tick = Idle
  /\ restoring = FALSE /\ replies = [p \in 1 .. 2 |-> "idle"]
  /\ faults = 0 /\ reloads = 0

-----------------------------------------------------------------------------
(* A question is sent; what was in flight is aborted. *)
InFlight == {"sent", "gated", "running"}
Sent(q) == [p \in Questions |-> IF p = q THEN "sent"
                                ELSE IF at[p] \in InFlight THEN "cancelled" ELSE at[p]]

Ask(q) ==   \* the send button is off while a turn is pending
  /\ at[q] = "new"
  /\ \A p \in Questions : at[p] \notin InFlight
  /\ at' = Sent(q)
  /\ UNCHANGED <<vars, turns, holding, uploadPoll, sessionPoll, faults, reloads>>

decideEnrichmentGate(status) ==
  CASE status \in {"pending", "in_progress"} -> "gated"
    [] status = "failed" -> "refused"
    [] OTHER -> "running"

Gate(q) ==
  /\ at[q] = "sent"
  /\ LET gate == decideEnrichmentGate(doc.status) IN
     /\ at' = [at EXCEPT ![q] = gate]
     /\ turns' = IF gate = "running" THEN [turns EXCEPT ![q] = @ + 1] ELSE turns
  /\ UNCHANGED <<vars, holding, uploadPoll, sessionPoll, faults, reloads>>

(* The event "queued" arrives: the latest question has the slot. *)
onQueued(q) ==
  /\ at[q] = "gated"
  /\ at' = [p \in Questions |-> IF p = q THEN "held"
                                ELSE IF p = slot THEN "dropped" ELSE at[p]]
  /\ slot' = q /\ stored' = q
  /\ UNCHANGED <<vars, turns, uploadPoll, sessionPoll, faults, reloads>>

Answer(q) ==
  /\ at[q] = "running"
  /\ at' = [at EXCEPT ![q] = "answered"]
  /\ UNCHANGED <<vars, turns, holding, uploadPoll, sessionPoll, faults, reloads>>

-----------------------------------------------------------------------------
(* The upload poll: one request at a time. *)
Poll ==
  /\ polling /\ tick = Idle
  /\ tick' \in {[step |-> "job", status |-> job]} \cup
               (IF Elsewhere THEN {[step |-> "job", status |-> "unknown"]} ELSE {})
  /\ UNCHANGED <<vars, asking, holding, polling, sessionPoll, faults, reloads>>

deriveStatusFromEnrichment(status) ==
  CASE status = "complete" -> "completed" [] status = "failed" -> "failed" [] OTHER -> "running"

(* The server has looked the job up and reads the document afterwards. *)
getUploadStatus ==
  /\ tick.step = "job"
  /\ tick' = [step |-> "status",
              status |-> IF tick.status = "unknown" THEN deriveStatusFromEnrichment(doc.status)
                         ELSE tick.status,
              complete |-> doc.status = "complete"]
  /\ UNCHANGED <<vars, asking, holding, polling, sessionPoll, faults, reloads>>

Dropped(held_) == [q \in Questions |-> IF q = held_ THEN "dropped" ELSE at[q]]

MutantHold(status) == slot # None   \* whatever the status
shouldHoldPollForRefire(status) == slot # None /\ status # "completed"

(* A failed job drops the question; else the poll decides whether it has   *)
(* to go on, and perhaps awaits the preview rows before it acts on that.   *)
Status ==
  /\ tick.step = "status"
  /\ IF tick.status = "failed"
     THEN /\ polling' = FALSE /\ tick' = Idle
          /\ slot' = None
          /\ stored' = IF slot # None THEN None ELSE stored
          /\ at' = Dropped(slot)
     ELSE /\ tick' = [step |-> "decide", status |-> tick.status, complete |-> tick.complete,
                      hold |-> shouldHoldPollForRefire(tick.status)]
          /\ UNCHANGED <<polling, holding, at>>
  /\ UNCHANGED <<vars, turns, sessionPoll, faults, reloads>>

MutantRefire(status) == slot # None   \* on the early signal as well
shouldRefireEarlyQuestion(status) == slot # None /\ status = "completed"

Decide ==
  /\ tick.step = "decide"
  /\ IF (tick.complete \/ tick.status = "completed") /\ ~ tick.hold
     THEN /\ polling' = FALSE
          /\ tick' = [step |-> "hydrate",
                      refire |-> IF shouldRefireEarlyQuestion(tick.status) THEN slot ELSE None]
     ELSE tick' = Idle /\ UNCHANGED polling
  /\ UNCHANGED <<vars, asking, holding, sessionPoll, faults, reloads>>

(* The session is there once more, and the question is asked again. *)
MutantRefired ==   \* the slot is emptied, the storage is not
  /\ tick.step = "hydrate"
  /\ tick' = Idle
  /\ IF tick.refire = None
     THEN UNCHANGED <<holding, at>>
     ELSE slot' = None /\ UNCHANGED stored /\ at' = Sent(tick.refire)
  /\ UNCHANGED <<vars, turns, polling, sessionPoll, faults, reloads>>

Refired ==
  /\ tick.step = "hydrate"
  /\ tick' = Idle
  /\ IF tick.refire = None
     THEN UNCHANGED <<holding, at>>
     ELSE slot' = None /\ stored' = None /\ at' = Sent(tick.refire)
  /\ UNCHANGED <<vars, turns, polling, sessionPoll, faults, reloads>>

(* A request of the tick throws: caught and logged, whatever it had begun. *)
TickFails ==
  /\ tick # Idle /\ faults < MaxFaults
  /\ tick' = Idle
  /\ faults' = faults + 1
  /\ UNCHANGED <<vars, asking, holding, polling, sessionPoll, reloads>>

-----------------------------------------------------------------------------
(* The tab is reloaded: only sessionStorage is left. *)
Reload ==
  /\ reloads < MaxReloads
  /\ reloads' = reloads + 1
  /\ at' = [q \in Questions |-> IF at[q] \in InFlight THEN "gone" ELSE at[q]]
  /\ slot' = stored
  /\ polling' = FALSE /\ tick' = Idle
  /\ restoring' = (stored # None)
  /\ replies' = [p \in DOMAIN replies |-> "idle"]
  /\ UNCHANGED <<vars, turns, stored, faults>>

SessionPoll(p) ==
  /\ restoring /\ replies[p] = "idle"
  /\ replies' = [replies EXCEPT ![p] = "asked"]
  /\ UNCHANGED <<vars, asking, holding, uploadPoll, restoring, faults, reloads>>

isMaterialized == doc.status = "complete" /\ doc.rows

getSession(p) ==
  /\ replies[p] = "asked"
  /\ replies' = [replies EXCEPT ![p] = IF doc.status = "failed" THEN "failed"
                                       ELSE IF isMaterialized THEN "ready" ELSE "waiting"]
  /\ UNCHANGED <<vars, asking, holding, uploadPoll, restoring, faults, reloads>>

(* "waiting" at the last tick of MAX_TICKS gives up; a reply that comes    *)
(* after another one ended the poll is handled all the same.               *)
SessionReply(p) ==
  /\ replies[p] \in {"failed", "ready", "waiting"}
  /\ replies' = [replies EXCEPT ![p] = "idle"]
  /\ \/ /\ replies[p] = "waiting"
        /\ UNCHANGED <<restoring, holding, at>>
     \/ /\ restoring' = FALSE
        /\ slot' = None /\ stored' = None
        /\ at' = IF replies[p] = "ready" /\ slot # None THEN Sent(slot) ELSE Dropped(slot)
  /\ UNCHANGED <<vars, turns, uploadPoll, faults, reloads>>

-----------------------------------------------------------------------------
EarlyNext ==
  \/ Next /\ UNCHANGED client
  \/ \E q \in Questions : Ask(q) \/ Gate(q) \/ onQueued(q) \/ Answer(q)
  \/ Poll \/ getUploadStatus \/ Status \/ Decide \/ Refired \/ TickFails
  \/ Reload
  \/ \E p \in DOMAIN replies : SessionPoll(p) \/ getSession(p) \/ SessionReply(p)

EarlySpec == EarlyInit /\ [][EarlyNext]_<<vars, client>>

(* The pipeline goes on, requests are answered, intervals fire. *)
EarlyFairSpec ==
  /\ EarlySpec
  /\ WF_<<vars, client>>(processJob /\ UNCHANGED client)
  /\ \A q \in Questions : WF_<<vars, client>>(Gate(q) \/ onQueued(q) \/ Answer(q))
  /\ WF_<<vars, client>>(Poll \/ getUploadStatus \/ Status \/ Decide \/ Refired)
  /\ \A p \in 1 .. 2 : WF_<<vars, client>>(SessionPoll(p) \/ getSession(p) \/ SessionReply(p))

-----------------------------------------------------------------------------
(* A question is answered once: neither the captured copy of a tick nor    *)
(* the stored one of a reloaded tab begins its turn again.                 *)
AskedOnce == \A q \in Questions : turns[q] <= 1

(* A held question is not asked again before the pipeline has tried its    *)
(* final save, and never after it threw, whatever the seed and the user    *)
(* write over its checkpoints and however stale the reply is that the      *)
(* browser acts on: shouldRefireEarlyQuestion waits for the job, not for   *)
(* the document.  Where a poll may reach a process without the job, the    *)
(* document is all there is to read (deriveStatusFromEnrichment).          *)
RefiredAfterSave ==
  [][\A q \in Questions :
       at[q] = "held" /\ at'[q] = "sent" => Elsewhere \/ pc \in {"finish", "over"}]_<<vars, client>>

(* "The ONLY signal that means 'fully materialized + safe to answer'"      *)
(* (client/src/lib/chat/earlyQuestionRefire.ts:16-18): a held question is  *)
(* asked again only when the document has its rows.  The code breaks it.   *)
RefiredOnRows ==
  [][\A q \in Questions : at[q] = "held" /\ at'[q] = "sent" => doc.rows]_<<vars, client>>

(* A job that timed out, was set back to a running status by a step that   *)
(* ended later (uploadQueue.ts:559, 707, 1145, 1406) and then bailed out   *)
(* (593, 1319, 1614) keeps that status: nothing will ever change it.       *)
LeftRunning == Ended /\ job = "running"

(* The poll of an upload ends, also when it holds on for a question, save  *)
(* for a job left running, which it asks after for ever.                   *)
PollingEnds == <>[](polling => LeftRunning)
=============================================================================
