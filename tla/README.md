# Verification of the analysis server's concurrency core

The repository is a web application in which people upload a dataset and ask questions about
it. An Express server in TypeScript (`src/server`) keeps one *chat document* per session in
Cosmos DB, runs uploads and agent turns as long chains of awaits, and is deployed as one or
several Node processes. What its unit tests hardly reach is the order of those awaits. The
modules here model the parts in which that order decides whether something is lost, repeated
or left waiting; TLC checks them on small instances, and TLAPS proves the central safety
properties for every number of calls, processes, uploads and failures.

Paths below are relative to `src/server` unless they begin with another directory.

Contents: 1 inventory, 2 modules and code, 3 runs, 4 bounds, 5 fairness, 6 proofs, 7
disagreements with comments and docs, 8 not modelled, 9 plan.


## 1. Inventory

### What the server is made of

| part | state | operations | modelled in |
|---|---|---|---|
| per-session write lock, `lib/sessionWriteLock.ts` | map session -> last promise; held set in `AsyncLocalStorage` | `withSessionWriteLock` | `SessionLock`, `SessionMutex` |
| chat document store, `models/chat.model.ts` | Cosmos document with `_etag`; `sessionDocCache` (5 s) per process | `getChatBySessionIdEfficient`, `updateChatDocument`, `mutateChatDocument`, read-modify-writes by hand | `ChatStore`, `AtomicDocument` |
| streamed turn, `services/chat/chatStream.service.ts` | `turnInProgress`, `messages`, `charts` of the document; locals of the handler | `processStreamChat`, lease, `updateMessageAndTruncate`, `addMessagesBySessionId` | `ChatTurn` |
| persistence queue, `lib/persistenceQueue.ts` | one promise chain per session, attempts per job | `enqueuePersist`, `runWithRetry` | `ChatTurn` |
| turn checkpoint, `lib/turnCheckpoint.ts` | debounce slot and finished flag per session; `currentTurnCheckpoint` | `scheduleTurnCheckpoint`, `writeCheckpoint`, `clearTurnCheckpoint` | `TurnCheckpoint` |
| agent turn, `lib/agents/runtime` | budgets, plan, observations, DuckDB handle | `runAgentTurn`, fast paths, synthesis | `AgentTurn`, `TurnOutline` |
| follow-up pass, `spawnedFollowUpPass.ts` | batches of sub-turns on copies of one context | `runSpawnedFollowUpPass`, `turnColumnarStorage.ts` | `FollowUpPass` |
| provider limit, `anthropicSemaphore.ts` | `inFlight`, waiters | acquire, release, retries inside a slot | `ProviderSlots` |
| upload queue, `utils/uploadQueue.ts` | job map, `processing`, status, timer and abort signal per job | `enqueue`, `processNext`, `processJob`, timeout, `cleanup` | `UploadQueue` |
| writers of the document during an upload | `enrichmentStatus`, `permanentContext`, `sessionAnalysisContext`, data pointers | checkpoints of `processJob`, session seed, `updateSessionPermanentContext` | `UploadDocument` |
| enrichment gate, `services/chat/enrichmentGate.ts`; held question, `src/client/src/lib/chat/earlyQuestionRefire.ts`, `useHomeMutations.ts` | slot and its copy in `sessionStorage`, two polls | gate, hold, poll, refire, restore after a reload | `EarlyQuestion` |
| data operations, `lib/dataOps/dataPersistence.ts`, `utils/dataLoader.ts` | blob per version, `dataVersions`, DuckDB table per process | `loadLatestData`, `saveModifiedData`, `add_computed_columns` | `DataVersions` |
| RAG index, `lib/rag/indexSession.ts` | `ragIndex` of the document, chunks in the search service | `indexSessionRag` | `DataVersions` (without the chunks) |
| dashboards, sharing, automation replay, question budget | documents of their own | replace, accept, replay, increment | planned, section 9 |
| row algorithms, exports, components of the client, administration, clients of other services | none that is shared | - | not modelled, section 8 |

`PROJECT.json` lists every part with its files, and the hazards with the line at which each
bites.

### How they interact

An upload request creates a placeholder document and enqueues a job. The job writes the
document four times, launches a seed that writes it once more, and schedules an index
rebuild. A question is gated on `enrichmentStatus`; the browser holds one that came too
early and asks it again. A turn takes the lease, runs the agent, which may start sub-turns
and reports its partial answer to the checkpoint; then it edits, saves its messages through
the persistence queue and clears the checkpoint. A data operation, from a command or from
the agent's tool, writes a new version of the rows, the document, and schedules another
rebuild. Everything that writes a chat document ends in `updateChatDocument`; most of it
goes through `mutateChatDocument`, the *seam*, which takes the lock, reads afresh, edits,
and stores on the condition that the etag has not changed. What does not go through the seam
is behind most disagreements of section 7.

### What is hard about it

* **Lock**: look-up and replacement of the map entry, the await of the predecessor and the
  clean-up in `finally` of many calls interleave; the held set is inherited by work that
  outlives the lock. *Correct when* fns of a session never overlap, run in call order, all
  run, and the map drains.
* **Document**: read, edit and store are separate; the cache hands out the object itself; an
  answer may be late, a request stored after its sender gave up, a process may restart.
  *Correct when* the edits behave as if each took effect at one instant.
* **Turn**: two turns of a session, from two processes or one; edits that truncate what
  another turn saves; a write repeated because its answer was lost; a lease whose owner
  died. *Correct when* each message stands once and stays, an answer right below its
  question unless that question was repeated or edited; and when a lease belongs to the turn
  that took it.
* **Checkpoint**: a debounced write and a clear race through the lock; slot, timer and flag
  belong to the session, not to the turn. *Correct when* a cleared checkpoint stays cleared
  and a turn left alone has its last step saved.
* **Agent**: retries, gap steps and replans lengthen a plan while it is walked; six budgets
  and signals end the turn from many places; a spent budget of model calls throws inside
  code that swallows it. *Correct when* the budgets bound the work, findings are not
  dropped, the handle is closed and the turn ends.
* **Slots**: a slot passes from the caller that returns it to one that waits, across
  retries; sub-turns share their parent's handle. *Correct when* the ceiling holds, nobody
  is stranded and no handle stays open.
* **Queue**: arrivals, failures and timeouts around a count; a timeout cannot stop the
  pipeline it fails, and the pipeline's next status write takes the failure back. *Correct when* the slots are never exceeded nor idle and a timed-out
  job is not reported as completed.
* **Upload document**: three writers of whole documents without lock or etag. *Correct when*
  what remains is consistent.
* **Held question**: what the poll decides before an await it uses after it, while a
  question may arrive, an upload fail or the tab be reloaded. *Correct when* a question is
  answered at most once, on rows that are there, and the poll ends. (The last two do not
  always hold, see section 7.)
* **Versions**: blob, document and table are three copies of the rows, written one after the
  other; a rebuild edits the document meanwhile. *Correct when* the document's version is
  the blob it names, and nobody's fields are taken back.


## 2. Modules and code

### `SessionMutex` and `SessionLock`

`SessionLock` has one process per call of `withSessionWriteLock`. `Enter` is the synchronous
stretch up to the first await: the re-entrancy guard, or the look-up of the previous promise
and the replacement of the map entry. The three ways of getting there are `CallFromOutside`,
`CallNested` (the fn of another call awaits this one) and `CallDetached` (a timer or an
un-awaited promise of another fn, which keeps its context). `Start` is the resumption after
the predecessor settled, `Settle` the end of fn either way, `Return` the finally block.
`ticket` and `tickets` are history.

`SessionMutex` is a first-come first-served mutex with a queue and a holder: `MutexSafe` is
what it may do, `MutexSpec` adds what it must. `ImplementsMutex` maps the queue to the calls
with a ticket above the last one that was served, in that order, and the holder to the call
whose fn runs; fairness is part of the refinement.

### `AtomicDocument` and `ChatStore`

A document is the set of edits it carries, with an etag. Objects in memory are explicit:
`<<p, n>>` is what the n-th fetch of p returned and `<<p, 0>>` what its upsert returned; the
cache of a process refers to one of them. So an edit in place is seen through the cache, as
in the code.

A read is `ReadCached`, or `Fetch` (Cosmos answers) and `Fetched` (the answer arrives and
replaces the cache entry). Then `Edit` or `Decline`, `Send`, `Store` or `Conflict` (412,
next attempt), `Stored`. The kinds of operation are the ones the code has: `mutate` is
`mutateChatDocument`, `locked` a cached read-modify-write inside `withSessionWriteLock`
(`lib/sessionAnalysisContext.ts:250-267`, the active filter controller), `bare` one without
it, `reader` a read alone. `Fault`, `StoreLate` and `Crash` are exceptions, upserts stored
after their sender gave up, and restarts. A *deployment* says which kinds occur in which
processes with how many failures.

`AtomicDocument` has two variables, the edits applied and those confirmed to their callers,
and one step that applies an edit.

### `ChatTurn`

The life of a turn from the read of the document to the release of the lease. A write of the
document is one step here; that this is justified is what `SafeWritersAreAtomic` says, since every
write of this module goes through the seam: it takes effect at one instant or not at all,
also when it is reported as failed. Each such step has a variant that fails with its effect
and one that fails without.

| action | code |
|---|---|
| `Arrive` | `processStreamChat` up to the lease: snapshot, "is this an edit" |
| `Acquire`, `Contend`, `AcquireFails`, `Age` | `acquireTurnLease` and its three outcomes; the five minutes |
| `Respond` | the answer is sent; from here on the turn is saved |
| `Truncate`, `TruncateFails` | `updateMessageAndTruncate` |
| `Save`, `SaveFails`, `SaveConflicts` | a job of the persistence queue around `addMessagesBySessionId` |
| `Release`, `ReleaseFails` | the finally block and `releaseTurnLease` |
| `Crash` | a process restarts |

`ToSave` is the duplicate check (role, content, timestamp rounded to five seconds). `Strip`
is the side effect on the caller's messages: their charts lose the data.

### `TurnCheckpoint`

Any number of turns of one session in one process; sub-turns schedule too, and turns may
overlap. `Schedule` replaces the snapshot that waits for the timer and lifts the flag
`finished`; `Fire` is the timer, `Clear` the call at the end of a turn whose answer was
saved or given up. Both ask for the session's lock, which by `FirstComeFirstServed` serves
in the order of the calls, so its waiters are the sequence `jobs`. A mutation is cut where
the flag can change under it: `Draft` or `Decline` (the mutator decides on a fresh document)
and `Store`, `Conflict` (decides again) or `Fail`. `wiped` and `disturbed` are history.

### `TurnOutline` and `AgentTurn`

`AgentTurn` is the control of `runAgentTurn`: `pc` is what the turn does next, `Turn` its
step. `Triage`, `Lookup`, `LookupQuery` are the two fast paths; `Phase` the phases that ask
the model once and go on whatever it says (`After` has their order); `LoopHead`, `Skill`,
`Plan`, `Accept` get a plan; `NextStep`, `Tool`, `Verify`, `Reflect` walk it, with the
second attempt of a step, gap steps put in front of the rest, and replans; `PlanWalked` and
`StopEarly` leave the loop; `Narrate`, `Synthesize`, `Return` write the answer. What a model
or a tool says is any of the outcomes the code tells apart.

`Asked(ok)` is `completeJson`: up to three passes, each counted by `onLlmCall` before it
posts. Above the budget `onLlmCall` throws inside `completeJson`'s own try, so that the
caller sees a failed parse and not an error; that is why a spent budget does not end the
turn at once.

`TurnOutline` is what a turn promises to those who start one: a bounded number of calls, a
handle that is closed if it was opened, and an end.

### `ProviderSlots` and `FollowUpPass`

`ProviderSlots` is the semaphore, with the retries of `executeAnthropicCall` that sleep
inside the slot. `Finish` hands the slot on: `release` counts down and wakes the oldest
waiter, whose continuation counts up before anybody else runs.

`FollowUpPass` puts a turn and its sub-turns around it: `Launch` starts a batch, each
sub-turn with a copy of the context and so with the parent's handle in `cache`; `Query`
opens a handle where the context has none; `End` closes the one the context has, whoever
opened it. `passCalls` is what the pass knows of its sub-turns' calls: nothing (section 7).
What a turn does between its calls is `AgentTurn`'s matter.

### `UploadQueue`

Job map, slots, status, timer. `processJob` is cut at the awaits between its status writes;
each piece is one action, with the `isJobTerminal` checks where the code has them and
without them where it has none. `Settle` is the `finally` of `processNext` together with the
`processNext` it calls.

### `UploadDocument` and `EarlyQuestion`

`UploadDocument` has one upload, its document, and the three parties that write it: the
pipeline, the seed and the user. Each read and each write of a whole document is a step. A
read returns the stored document: what the cache adds is the subject of `ChatStore`.

| action | code in `utils/uploadQueue.ts` |
|---|---|
| `Prepared`, `Parsed` | the file is stored, status "parsing"; rows are there, first `isJobTerminal` |
| `PreviewRead`, `PreviewWrite` | the preview checkpoint, status "preview_ready" |
| `Profiled` | profile and heuristic context; the seed is launched |
| `UnderstandRead`, `UnderstandWrite`, `UnderstandFails` | the understanding checkpoint, status "analyzing" also when it failed |
| `Enriched` | second `isJobTerminal` |
| `SaveRead`, `SaveWrite`, `SaveFails` | status "saving", the final save, its swallowed failures |
| `Finish` | third `isJobTerminal`, "completed" |
| `Throw`, `FailureRead`, `FailureWrite`, `FailureUnsaved` | the catch block |
| `Timeout` | the timer of `processJob`, which every end clears |
| `SeedRead`, `SeedWrite`, `SeedFails` | the seed |
| `UserMerge`, `UserRead`, `UserWrite`, `UserFails` | `updateSessionPermanentContext` |

`job` is what the poll sees of the job: "running" stands for every status that is not final.
The status writes that do not ask first (437, 462, 532, 559, 707, 1145, 1406) set it back to
"running" after a timeout, and the early returns (593, 1319, 1614) leave it there; so a
timed-out job may end as "failed" or be left running. A copy of the document that nobody will
use again is reset, so that states differ only where it matters.

`EarlyQuestion` extends it with the questions of one browser tab. `Ask`, `Gate`, `onQueued`,
`Answer` are a question's way through the gate; `slot` and `stored` are the held question
and its copy in `sessionStorage`. The upload poll is one request at a time: `Poll` (the
server looks the job up), `getUploadStatus` (and then reads the document), `Status` (the
browser decides whether to hold), `Decide` (after the preview rows), `Refired` (after the
session's rows). `Reload` leaves `sessionStorage` alone; the poll that then starts has two
requests in flight at times, because nothing keeps its ticks apart (`SessionPoll`,
`getSession`, `SessionReply`). `chatMutation.isPending` does not appear: the poll reads the
value of the render it was started in.

### `DataVersions`

An operation is `Load` (the rows of the process's table, else of the current blob), `Locked`
(the document afresh, and the next version number), `updateProcessedDataBlob`, then `Store`
or `Conflict` (what others changed is taken over, the history is not), and for the agent's
tool `Refresh`, for the handlers that keep the name of a column `StoreContext`. Rows are the
set of operations that went into them. A rebuild is `Begin`, `Indexing`,
`getSampleFromDuckDB` (which makes a table where there is none), `Ready` or `Error`. The rebuild a save schedules inherits the save's held set and is `Refused`.

The `MC*` modules instantiate these for TLC. Operators named `Mutant...` are an operation as
a plausible slip would have written it (a dropped guard, a missing reset, an off-by-one);
nothing uses them, and with one of them in place of the operation the named property must
fail. `PROJECT.json` says which belongs to which property.


## 3. Runs

| run | what is in it | shows |
|---|---|---|
| `lock_serial` | 3 calls, 2 sessions, nesting in one order, detached work | mutual exclusion, call order, drained map, every call served, refinement of `SessionMutex` |
| `store_seam` | 3 operations; seam and readers in 2 processes with a failure or restart, or seam and locked writers in one process | no lost update, no trace of a refused edit, refinement of `AtomicDocument` |
| `turn_saves` | 3 turns, 2 processes, 2 questions, 2 timestamps, 2 attempts, 1 failure, guard on or off | messages once and kept, answers below their question; lease exclusive, kept and returned |
| `checkpoint` | 3 turns of 2 steps in a row or at once, a conflict, failure or restart | a cleared checkpoint stays cleared, snapshots advance, the last step is saved |
| `agent_loop` | one turn with every verdict, refused arguments, a deadline, a closed stream | budgets, bounded replans, evidence, refinement of `TurnOutline` with its end |
| `followup` | a turn, 3 sub-turns in batches of 2, one slot, refused calls and retries | ceiling, nobody stranded, no orphan handle, the turn ends |
| `upload_slots` | 3 uploads, 1 slot, timeouts, failures | capacity, no idle slot, order, no timed-out job completes, every upload ends |
| `early_held` | pipeline, seed and user on one document, failures and a timeout; 2 questions of a tab, and one of: a failing request, a reload, a note | what the document shows is consistent; each question asked at most once, and again only after the final save was tried; the poll ends unless the job is left running |
| `versions_saves` | 3 operations, one of the tool and one of `createColumn`, a rebuild, an edit from elsewhere, a failing call | document and blob agree, the history ends in the current version, a conditional save keeps foreign fields |
| `turn_charts` | as `turn_saves` | **violation** of `SavedChartsHaveData` |
| `versions_undone` | one column is created, nothing fails | **violation** of `SavedOpsStay` |
| `early_rows` | one question, one upload with its seed, nothing fails | **violation** of `RefiredOnRows` |

A violation run checks one property that a comment or document of the repository states;
section 7 quotes it.

The properties are meant to be about several steps of several actors. Some that deserve a
word:

* `ServedInOrder`: a call looks back at one promise only, and yet no later call overtakes an
  earlier one, also across the clean-up of the map entry.
* `RejectedLeavesNoTrace`: an edit refused with 412 sits in an object the cache has handed
  out; nobody may carry it into the store. It holds because the seam always reads afresh and
  locked writers never run beside one that is refused. An operation that declines has no edit
  yet: every mutator of the repository that returns false does so before its first change.
* `AnswerFollowsItsQuestion`: saving appends question and answer after the duplicate check
  dropped what is there; edits cut below a question. An answer always has its question
  somewhere above, and right above unless another turn asked the same within five seconds or
  addressed the same timestamp (`Shared`). A repeated question is dropped as a duplicate of
  the first, and its answer is appended wherever the conversation has got to, below other
  people's messages; the property does not forbid what the code does there.
* `HeldLeaseIsInDocument`, `NoStrayLease`: who believes to hold the lease has it, and a
  lease left behind is explained by a failure.
* `NoResurrection`, `SnapshotKept`: the first says the flag and the lock suffice against
  late writes, the second that they do not cost the next turn its own checkpoint, which a
  flag that belongs to the session easily might.
* `PlansWalk`: the loop that plans again after a replan is not counted by
  `maxReplansPerStep`; what bounds it is that each plan but the last uses up a step of the
  budget.
* `NoOrphanHandle`: although sub-turns share and close their parent's handle, no handle
  stays open.
* `NoIdleSlot`: the only wake-up calls are the ones in `enqueue` and in `finally`.
* `ReadyMeansUnderstood`, `ContextHasNote`: whichever of three whole-document writes comes
  last, status, note and context fit together.
* `RefiredAfterSave`: the document says "complete" long before the rows are there, and stale
  copies change it afterwards; a held question still waits for the final save to be tried,
  through three awaits of a tick and the reload of the tab.
* `PollingEnds`: a question that arrives while a tick is under way neither keeps the poll
  going for ever nor is the reason that it goes on; the only poll without an end is the one
  for a job that was left running (`LeftRunning`), which the code has.
* `AskedOnce`: the slot, its stored copy, the copy a tick took before an await, and the two
  ticks of a restored poll never begin a question's turn twice.
* `BlobIsCurrent`: the blob is written first; a failure or a refused store in between leaves
  a blob too many but never a document that describes another one. The run has one process
  and one handler; `BlobIsKept` says what it takes beyond that.
* `ForeignFieldsKept` is about the conditional save in `saveModifiedData`. The second, blind
  save of a handler does take other fields back, as `versions_undone` and section 7 show.

Deadlock is not checked: in every instance the calls, turns and jobs are finitely many and
end, so TLC would report the end of every behaviour. That nothing stops too early is what
`EveryCallIsServed`, `NoIdleSlot`, `EveryJobEnds`, `ImplementsOutline`, `PassEnds` and
`PollingEnds` say. The type invariants are not listed in runs: those of `SessionLock`,
`UploadQueue`, `TurnCheckpoint` and `DataVersions` are theorems, and those of the other
modules are part of the invariants proved.


## 4. Bounds

* **Actors.** Three calls, operations, turns or uploads: two that conflict and a third that
  arrives between their steps (a predecessor, a holder and a newcomer for the lock; a writer
  in the same and one in another process for the store). One upload is enough for its
  document. With one slot and three uploads two wait. Two questions are one in the slot and
  one that takes its place.
* **Processes.** Two where they matter: what differs is "same" and "other". The checkpoint,
  the queue and the slots are state of one process. `versions_saves` has its operations in
  one process, whose table may exist or not, and the edits of another, and one of them with
  a second save; for operations in two processes, or two with a second save, see section 7.
* **Attempts.** `MaxRetries` of the seam and of a save is 2 instead of 3, `MaxAttempts` of
  the persistence queue and of a model call 2 instead of 3: first, last and one conflict in
  between occur. The proofs have no such bound.
* **Budgets of a turn.** 4 steps, 5 tool calls, 2 replans, 7 model calls, plans of at most 2
  steps: two replans and a third plan fit in, gap steps outgrow a plan, and each budget
  runs out in some behaviour (a fast path alone may take six calls).
* **Versions.** 2 entries of `dataVersions` are kept instead of 10, so that three saves cut
  it.
* **Failures.** `faults`, `MaxFaults`, `MaxReloads` and `MaxEdits` bound failures, restarts,
  reloads and edits from elsewhere to 1. The attempts of one persist job may all fail in one
  outage, so that a job that gives up is within reach. The proofs have no such bound.
* **Time.** `Window` 2 with timestamps {0, 1} puts two user messages into one five-second
  window; the age of a lease and of a cache entry is a step that may occur at any moment,
  and so are timeouts, deadlines and timers.
* **Upload under a held question.** In `early_held` seed, failures of steps, of the store and
  of the merge, and the timeout are all there. `OneDisturbance`, a constraint on states,
  leaves room for one of three more: a failing request, a reload, or the user's note, the
  note without questions. Polls reach the job's process (`Elsewhere = FALSE`); where they do
  not, `RefiredAfterSave` claims nothing. The theorems about this module have none of these
  bounds.
* **Queue size.** `MaxQueueSize` is the number of uploads, so refusals for a full map occur
  only before a cleanup; refusing has no effect on the queue.
* **Symmetry** is used only in runs without liveness and refinement, over questions, and
  those two turns that run in one process with the same role.


## 5. Fairness

Safety runs assume none. Where there is liveness:

* `Spec` of `SessionLock`: weak fairness of `Start`, `Settle` and `Return` of every call.
  The event loop resumes a ready continuation, and the fns passed to the lock end, because
  their reads, writes and model calls have timeouts. Nothing is assumed about calls being
  made.
* `FairSpec` of `UploadQueue`: the next step of a running pipeline. An assumption more than
  a fact: the abort signal reaches no await (`utils/uploadQueue.ts:331`), so a call that
  hangs keeps its slot, timeout or not. That hazard is listed.
* `FairSpec` of `AgentTurn`: the next step of the turn, that is, model calls and queries
  return. Neither the deadline nor the closed stream is fair; the turn ends without them.
* `PassFairSpec` of `FollowUpPass`: a posted call ends, a sleep ends, a turn between calls ends
  at last, the pass goes on. Nothing is assumed of a waiter: that it gets its slot is what
  is shown.
* `EarlyFairSpec`: the pipeline (`processJob`), requests and intervals go on. Neither the
  timeout nor the seed nor the user is fair, and questions need not be asked.
* `FairSpec` of `DataVersions` only backs the violation run.


## 6. Proofs

All theorems are of the form `Spec => []Property`, an action property or a refinement, for
every value of the constants allowed by the named assumption of the module that declares
them, thus for any number of calls, turns, operations, processes and failures. Some need a
hypothesis on the deployment besides, which the theorem states; a hypothesis called necessary
is one without which TLC finds a counterexample on a small instance. Every invariant below
was checked by TLC before it was proved.

**`SessionLockProofs`** (assumption `ConstantsAssumption`). `TypeCorrect`, `Exclusion`,
`FirstComeFirstServed`, `NoLeak`, `ChainIsMutex`. Mutual exclusion is not inductive, because
a call only knows its predecessor. The inductive invariant numbers the calls: numbers on a
session are distinct (`TicketsDistinct`), the map entry is the newest call or all earlier
ones have settled (`ChainIsNewest`), a waiting call waits for the one numbered before it
(`WaitsForPredecessor`), and the order is kept (`ServedInOrder`). Exclusion follows: of two
calls that run, the later has a settled predecessor. `ChainIsMutex` says that every step of
the promise chain is a step of `SessionMutex` or leaves its queues and holders alone. It
needs two more facts, that the numbers of a session have no gaps (`Numbered`) and that the
calls are served up to one of them (`ServedInPart`); then the queue is the interval above it.

**`ChatStoreProofs`** (`StoreAssumption`, and `SafeWriters`: every deployment is `Seam` or
`LockedAlone`). `SafeWritersLoseNothing`, `SafeWritersLeaveNoTrace`, `SafeWritersAreAtomic`.
The two kinds of deployment are safe for different reasons, and the invariant `SafeInv` is
the disjunction of two.
In `Seam` every writer is a `mutateChatDocument`, beside plain readers, in any number of
instances that restart and lose calls. An operation under way works on an object of its own,
based on some stored document (`OwnObject`, `Based`): an older one, or, when the etags agree,
the stored one up to the operation's own edit. Requests on their way are so based
(`RequestsBased`), an edit is in the store only after its request is gone (`StoredOnce`), and
a reader never gets as far (`ReadersRead`). A store that passes the etag check then adds
exactly one edit. The lock is not used: it saves conflicts, nothing more.
In `LockedAlone` writers with and without the etag share the lock of one instance. Who is
under way holds it (`OneUnderWay`), what it works on is the stored document up to its own
edit (`WorksOnCurrent`), and so is the cache, except from an edit to the end of the operation
that made it (`CacheIsCurrent`), although that edit is made in the object the cache holds. No
conflict occurs. That there is one instance, that nobody reads outside the lock and that
nothing fails are each necessary.

**`ChatTurnProofs`** (`TurnAssumption`). `LeaseIsKept`, `GuardExcludes`, `LeaseIsReturned`,
from: who believes to hold the lease is under way (`HeldByWorking`); the lease in the
document belongs to somebody who knows or whose write failed (`LeaseIsKnown`); with the
guard nobody works without (`GuardedHold`). `NoDuplicates`, `AnswersInOrder`, `SavedIsKept`
are about the conversation. Their invariant (`ConvInv`) adds to the three properties that a
turn under way knows its question (`Requested`), and that every answer is one of a turn that
has begun (`AnswersAreOfTurns`), so that no step can give an answer another question. Two
lemmas carry the argument. A save appends what the duplicate check finds fresh, the question
before the answer (`AppendConv`): what it does not append stands already, since only the
answer of a turn is taken for that answer (`SimilarMessages`), while a question may be taken
for another one in the same window. An edit keeps what stands before the first message with
its timestamp (`TruncateConv`), questions before their answers, and counts the rest as cut.
That an answer is *right* below its question takes a second invariant (`NextTo`): every
question in the document is one of a turn that has begun, and where no other turn shares it,
question and answer stand side by side or not at all (`AnswerComesWith`, `RightBelow`). Then
the duplicate check finds both or neither, a save appends both together (`PairAppended`), and
an edit, which cuts at a question, would have to share that question to part them.

**`UploadQueueProofs`** (`QueueAssumption`). `TypeCorrect`, `NeverTooMany`, `SlotsAreUsed`,
`StartedInOrder`, `TimeoutIsKept`. The invariant ties the slots to the running pipelines
(`Slots`), waiting to arrival (`Waits`), says that a waiting job means full slots (`Full`),
and that a completed job has passed its last step with its timer off (`CompletedIsQuiet`),
so that no late timeout meets it.

**`TurnCheckpointProofs`** (`CheckpointAssumption`). `TypeCorrect`, `ClearedStaysCleared`,
`OnlyLaterSnapshots`, `CheckpointIsKept`.
At the instant a turn's clear is called its timer is off (`TimerIsCancelled`) and nobody
writes for it afterwards; so no write of that turn stands behind its clear in the lock's
queue (`ClearIsLast`), and once the clear is through nothing of it is left, in the queue or
in the document (`NothingLeft`). The document only advances because document, queued writes
and timer hold snapshots of a turn in this order (`InOrder`). And a turn that nobody
disturbed is never without its checkpoint (`CheckpointIsKept`): its last snapshot is in the
timer, or else the last thing in the queue, or else in the document (`AllOnTheirWay`).

**`AgentTurnProofs`** (`TurnAssumption`, `SlotAssumption`, `PassAssumption`). `BudgetsHold`,
`PlansWalkHold`, `EvidenceHolds`, `TurnIsSafe`, about one turn. The invariant says what each
phase knows: nothing was walked before the loop (`Before`), a plan being walked explains the
plans accepted (`Progress`), where observations or text can be missing (`Evidence`,
`Replanned`), that there is room for the step being walked and for its second attempt
(`Room`, `Attempts`), and what the end leaves behind (`Ended`). `TurnIsSafe` is the safety
part of the refinement of `TurnOutline`.
`SlotsAreBounded` and `SlotsAreHandedOn` are about the provider's gate by itself: the counter
is the cardinality of the callers that post or sleep (`Counts`), the queue holds exactly the
waiting ones, each once (`Queued`), and is empty unless the slots are full (`Full`).
`PassUsesSlots` says that every step of a turn with its sub-turns is a step of the gate or
leaves it alone, a refinement from which `PassWithinSlots` and `PassWaitsForSlots` follow.
`HandlesClosed` relates open handles to the contexts of turns under way (`HandleInv`).

**`EarlyQuestionProofs`** (`EarlyQuestionAssumption`). `OneTurnPerQuestion`: a question that
is new, held or on its way to the gate has had no turn (`Untouched`), the slot and its
stored copy agree on a held one (`OneHeld`), a tick that captured one finds it still held
(`CapturedWaits`), and the two polls never run together (`OnePoll`).
`ReadyIsUnderstood`, `FailureIsTrue`, `NoteGoesWithContext` are about the document of
`UploadDocument`. What three writers without a lock do to it is safe because every copy that
will be written back satisfies what the document has to (`Sound`, `DocInv`): a property of the
document alone is not inductive, as a writer restores whatever it read.
A document is marked failed only once the catch block is through (`MarkedFailed`), and from
there on nothing sets the job back (`ThrowIsFinal`); without a throw a timed-out job may well
be running again, which is why the status of the job alone would not do.
`AskedAgainAfterSave` needs no hypothesis on who writes or what fails. Rows are in a document,
or in a copy that may be written back, only after the final save was tried, and so is a job
completed (`SaveInv`); what a poll has seen of either stays true until it is used, after
however many awaits (`SeenInv`). That the rows are *still* there is not provable: it is false
(section 7, item 3).

**`DataVersionsProofs`** (`DataVersionsAssumption`). `TypeCorrect`, `ForeignFieldsStay`,
`HistoryIsKept`, `BlobIsKept`. The first three hold for any number of processes. Types need
that blobs which will be read exist (`BlobsExist`). A save that is stored keeps what was
written by others because a conflict makes it read again: a copy that has the etag of the
document has its foreign fields (`FreshCopies`). The history goes up and ends in the version,
in the document and in every copy that may be stored (`Chronicle`, `GoodCopies`).
The document describes the blob it names as long as saves do not overlap (`SavesApart`) and no
handler, with its second save, puts the version back below one that another handler has read
(`NonePutBelow`). `BlobIsKept` assumes these two of the behaviour and nothing of the
deployment: any number of processes and of handlers, one after the other or at once. They are
the two ways in which the code does separate blob and document (section 7, items 2 and 12).
Under them the number of a save is above the document's (`NewVersions`), which no copy that a
handler will put back exceeds (`CallersBehind`); so the blob it writes is one that nobody
names yet, and it is there when the document names it (`WrittenBlobs`).
`LockKeepsSavesApart` gives the first of them for one process, where who saves holds the lock
(`LockHeld`); nothing in the code gives the second.

**Only model-checked.** Liveness, which is beyond the prover: `EveryCallIsServed`,
`EveryJobEnds`, `PollingEnds`, `PassEnds`, and the part of `ImplementsOutline` and
`ImplementsMutex` that says what must happen. All other properties of the runs that pass are
theorems. The three violation runs show counterexamples, which need no proof.


## 7. Where code and comments disagree

With a run:

1. *A repeated save stores charts without data* (`turn_charts`). The mutator strips the
   caller's messages (`models/chat.model.ts:1134`); line 1062 asks for full charts.
2. *Creating a column takes itself back* (`versions_undone`). After `saveModifiedData`, which
   works on a document of its own, `lib/dataOps/handlers/createColumn.ts:103` upserts the
   document its caller read before the operation, without lock or etag: version, rows,
   summary and history are the old ones again. `createDerivedColumn.ts:121` and
   `renameColumn.ts:85, 156` do the same; `revert.ts:104` does when a filter was active
   (`lib/activeFilter/persistActiveFilter.ts:39`). The answer is "Successfully created
   column". `tests/dataOpsRestBranchesIntegration.test.ts:288` says "persists new column"
   and looks only at the context. Two such operations at once may also leave the document
   beside another one's blob (`Handlers = {o1, o2}` breaks `BlobIsCurrent`).
3. *A held question may be asked on a document without its rows* (`early_rows`).
   `src/client/src/lib/chat/earlyQuestionRefire.ts:16-18` says of the job's `completed` that
   it "is the ONLY signal that means 'fully materialized + safe to answer'". The seed, which
   every upload launches unless switched off, reads the document (`utils/uploadQueue.ts:1009`)
   and upserts it whole (1039) without lock or etag; if the final save comes in between, its
   `columnarStoragePath`, `rawData` and blobs are gone again while the job is completed, and
   the question is asked. The user's note does the same (`models/chat.model.ts:1731`), and so
   does a final save that failed and was swallowed (`utils/uploadQueue.ts:1537`): with
   `UserSaves` or `StoreMayFail` in place of `SeedRuns` the run ends the same way. A poll that
   reaches a process without the job takes the early "complete" of the document for
   `completed` (`utils/uploadQueue.ts:137-138`), which `Elsewhere = TRUE` shows.

Found with TLC on instances that are not among the runs:

4. *A data operation may work on the rows of the upload.* `utils/dataLoader.ts:281` prefers
   the process's DuckDB table, which `saveModifiedData` never refreshes; line 199 and
   `services/dataOps/dataOpsStream.service.ts:35` promise the latest data. The second of two
   operations undoes the first: `LoadsLatest` in place of `SavedOpsStay` in
   `MCDataVersions_undone.cfg`, with `Ops = {o1, o2}` and `Handlers = {}`, shows it; these
   constants violate `SavedOpsStay` as well.
5. *The rebuild a save schedules is refused.* `lib/dataOps/dataPersistence.ts:239` calls
   `scheduleIndexSessionRag` inside the lock; its timer inherits the held set, both of its
   edits throw in `withSessionWriteLock`, and the index stays at the old version.
   `lib/rag/aiSearchStore.ts:94-95` says a reindex fires on every save. `SaveIsIndexed` in
   that configuration, with `Handlers = {}`, shows it.
6. *A plain read breaks the lock's protection of a locked writer.* A late answer puts an
   older document into the cache, and the writer upserts it without an etag;
   `lib/sessionAnalysisContext.ts:254` calls that path "intra-instance safe via the lock".
   In `ChatStore` it is a deployment with a reader and a locked writer in one process.
7. *A timed-out job is revived and may be left running* by unguarded status writes
   (`utils/uploadQueue.ts:437`, 462, 532, 559, 707, 1145, 1406) against line 311; it is never
   reported as completed, though. An early return (593, 1319, 1614) then leaves it at
   "parsing", "analyzing" or "saving": `cleanup` never removes it (1712), and the upload poll
   of its tab has no end (`LeftRunning` in `PollingEnds`).
8. *The final save of an upload may be overwritten* by the seed or the user (item 3) against
   `src/docs/architecture/upload_and_enrichment.md:52`.
9. *The brake on model calls does not brake at once*: `agentLoop.service.ts:410-412` throws,
   `llmJson.ts:168-213` swallows it and each caller goes on as after a failed parse.
10. *A checkpoint outlives a turn that failed* although `models/chat.model.ts:210` and
    `turnCheckpoint.ts:10` say it is cleared on a fatal error as well: only the path that
    saved the answer clears it.
11. *A held question may wait for ever*: the poll ends on an early "complete" while the
    event `queued` is on its way, and nothing polls afterwards (`enrichmentGate.ts:9-11`).
12. *Two processes may write one version*: both take the next number from what they read and
    write `v<n>.json`, so the document that wins may name the blob of the one that lost
    (`BlobIsCurrent` with `Home` over two processes; `HistoryEndsInCurrent` and
    `ForeignFieldsKept` hold).
13. *Summaries may take another file's currency symbols*: the tally of
    `lib/fileParser.ts:82-91` belongs to the process, and pipelines reset and read it around
    awaits.

Seen while reading:

* The lock: two sessions nested in opposite orders deadlock (`lib/sessionWriteLock.ts:56`
  warns of it; no caller nests two sessions today).
* The cache: a plain read that began before a write and ends after it hides that write from
  later readers for five seconds (`models/chat.model.ts:748-752` against 1371).
* `updateSessionPermanentContext` is a bare writer (`models/chat.model.ts:1670-1731`).
* The final save replaces the context merged from the user's note
  (`utils/uploadQueue.ts:1479`), which line 1062 says is authoritative.
* A timed-out job leaves its document pending, in progress or complete
  (`utils/uploadQueue.ts:77` calls the document a faithful source of status).
* A sub-turn works on a copy of its parent's context and closes its parent's DuckDB handle
  when it ends (`turnColumnarStorage.ts:22` says two contexts never share one); tools then
  fall back to the sample.
* The budget of model calls of the follow-up pass never bites: it counts events `llm_call`
  (`investigationOrchestrator.ts:67`), which nothing emits.
* `ANTHROPIC_MAX_CONCURRENCY` between 0 and 1 is floored to 0, and no call is let in
  (`anthropicSemaphore.ts:40`).
* `agentLoop.service.ts`: a stale verdict is found again by step id (1503); the loop of
  replans is not bounded by `maxReplansPerStep` (2248); the parallel start of steps may pass
  `maxToolCalls` (1164-1214); a refused plan returns "" although there are observations
  (1089); a closed stream is noticed only between plans (890).
* The checkpoint's slot keeps the start time of an earlier turn (`turnCheckpoint.ts:55-59`).
* `chatMutation.isPending` in the upload poll is the value of the render that started it
  (`useHomeMutations.ts:597-601`). A restored poll drops its question at the last tick, and
  a failing read of the session after the poll was cleared loses it.
* The question counter admits more than "a single extra question"
  (`models/userBudget.model.ts:143-145`): a slow seed (146) puts the row back to one question
  and no cost after others have counted.
* Overlapping rebuilds leave an index that is "ready" with mixed chunks, and chunks tagged
  with a version may carry the rows of a stale table (`lib/rag/indexSession.ts:91-94`).
* Rows are loaded outside the lock, so that of two overlapping operations one loses its rows
  although both versions are in the history.
* `add_computed_columns` puts columns into the table that it was told not to save.
* The entry of `materializeLocks` is never removed
  (`lib/ensureSessionDuckdbMaterialized.ts:27`).


## 8. Not modelled, and why

* **What the agent says and computes**: planner, narrator, verifier, tools, insight and
  chart generation, growth, seasonality, forecasting, wide-format detection, argument
  repair. Model calls are arbitrary and the rest is sequential arithmetic on rows with its
  own tests.
* **Parts of the agent turn**: the coordinator's decomposition, persisted sub-answers, the
  promise of business actions that outlives the narrator (`agentLoop.service.ts:3485-3503`),
  SSE events.
* **Wording and layout**: exports, SSE formatting, prompts, components of the React client.
* **Clients of other services**: Cosmos, blob storage, AI Search, Snowflake, the language
  models and the Python service appear only through what they may answer.
* **Parts of modelled files**: creation, deletion and listing of documents; the access and
  summary caches; the parquet pointer written after the final save (off by default); blob
  storage of large charts; intermediate messages; answers served from the question cache;
  the owner check of the checkpoint.
* **Late stores** of a request whose sender gave up are in `ChatStore` only. In `ChatTurn`
  and `TurnCheckpoint` a write that fails has been stored by then or never is; the first
  checkpoint of a session that is stored after a clear found nothing to clear is out of
  their sight.
* **The mutators' contents**: in `ChatStore` an operation declines before its first change or
  not at all. That is so of every mutator passed to `mutateChatDocument` (`acquireTurnLease`,
  `addMessagesBySessionId`, `updateMessageAndTruncate`, the checkpoint, the index, the SAC
  merge, and the rest); the one thing done before is the normalisation of collaborators
  (`models/sharedAnalysis.model.ts:347`), which every write repeats.
* **The active filter** of `DataVersions.Load`: `services/dataOps/dataOpsStream.service.ts:38`
  loads without `skipActiveFilter`, so `utils/dataLoader.ts:193-194` filters, and a save may
  keep only the rows the filter shows. No property is about single rows.
* **The chunks of the index** and the targeted upsert of the context chunk: which chunks a
  search returns is the service's matter; what two rebuilds do to them is described above.
* `utils/sseConnectionManager.ts` and `middleware/sseLimiter.ts`: no file refers to them.
* Ages: cleanup of jobs, leases and cache entries happens at any moment in the models.
* **Dashboards, sharing, replay, budget**: section 9.


## 9. Plan

1. **`AutomationReplay`** (`lib/automations/replayLoop.service.ts:552-872`): saved questions
   replayed in order, halting on the first error, resumed at an ordinal. *Each question and
   each answer stands once, in order; a replay reads its document once (line 569) and still
   loses nobody's turn.* A halt between a question and its answer leaves the question, and
   resuming asks it again (line 779).
2. **`QuestionBudget`** (`models/userBudget.model.ts:116-151`) beside an abstract counter:
   *no counted question is lost*, which two first questions of a day break.
3. **`Dashboard`** (`models/dashboard.model.ts:389`, `lib/dashboardPatchMutex.ts`):
   whole-document replaces of two families of patchers and the user, beside
   `AtomicDocument`.
4. **`SharedInvite`** (`models/sharedAnalysis.model.ts:361`): the two writes that accept an
   invite, and a decline between them.
5. The placeholder document of an upload (`controllers/uploadController.ts:92`), and the
   non-streaming chat, which saves without lease and persistence queue.
6. Proofs of what these modules will promise. Of the modules there are, what is left to the
   prover are weaker hypotheses: deployments of `ChatStore` in which writers outside the lock
   happen to be safe.

Composition: `ChatTurn`, `TurnCheckpoint` and `DataVersions` rest on `ChatStore` through
`SafeWritersAreAtomic`, the second also on `SessionLock` through `FirstComeFirstServed`;
`EarlyQuestion` extends `UploadDocument`; `FollowUpPass` extends `ProviderSlots` and starts
turns of which `AgentTurn` is the detail. Where two questions are about one module, a run
chooses the circumstances in `Init`, as the deployments of `ChatStore` do, rather than
becoming two runs.
