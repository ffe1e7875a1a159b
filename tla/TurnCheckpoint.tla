--------------------------- MODULE TurnCheckpoint ---------------------------
(***************************************************************************)
(* The partial answer of a running turn, kept in the chat document for the *)
(* case that the process dies (src/server/lib/turnCheckpoint.ts): a        *)
(* debounced write after each reflected step, a clear at the turn's end,   *)
(* both through mutateChatDocument, in one session of one process.         *)
(*                                                                         *)
(* The session's write lock serves in the order of the calls               *)
(* (SessionLockProofs!FirstComeFirstServed): its waiters are a sequence.   *)
(* A mutation reads and decides, then stores what it decided on, or meets  *)
(* a writer of another process and does both again (ChatStore).  An upsert *)
(* that fails is taken here to have been stored by then, or never to be.   *)
(***************************************************************************)
EXTENDS Naturals, Sequences

CONSTANTS
  Turns,      \* the session's turns, sub-turns included; they may overlap
  MaxSteps,   \* bound: the reflected steps of a turn
  None,
  MaxFaults   \* bound: conflicts, failed writes and restarts

ASSUME CheckpointAssumption ==
  MaxSteps \in Nat \ {0} /\ MaxFaults \in Nat /\ None \notin Turns

VARIABLES
  stage,     \* stage[t]: "new", "running", "cleared" (its clear was called) or "gone"
  steps,     \* steps[t]: its reflected steps
  pending,   \* what the session's timer will write: a snapshot, or None without timer
  finished,  \* the session is in finishedTurns
  jobs,      \* writes and clears under the session's lock, the running one first
  drafted,   \* the running one has decided to store
  doc,       \* currentTurnCheckpoint in the document: a snapshot or None
  wiped,     \* history: turns whose clear came through without an error
  disturbed, \* history: turns that ran while another one scheduled or cleared
  faults

history == <<wiped, disturbed>>
vars == <<stage, steps, pending, finished, jobs, drafted, doc, history, faults>>

Snapshot(t) == [turn |-> t, steps |-> steps[t]]
Snapshots == [turn : Turns, steps : 1..MaxSteps]
WriteOf(s) == [op |-> "write", of |-> s]
ClearOf(t) == [op |-> "clear", of |-> t]
Jobs == {WriteOf(s) : s \in Snapshots} \cup {ClearOf(t) : t \in Turns}

Running(t) == stage[t] = "running"
Others(t) == {u \in Turns \ {t} : Running(u)}

Init ==
  /\ stage = [t \in Turns |-> "new"]
  /\ steps = [t \in Turns |-> 0]
  /\ pending = None /\ finished = FALSE
  /\ jobs = <<>> /\ drafted = FALSE
  /\ doc = None
  /\ wiped = {} /\ disturbed = {} /\ faults = 0

Start(t) ==
  /\ stage[t] = "new"
  /\ stage' = [stage EXCEPT ![t] = "running"]
  /\ UNCHANGED <<steps, pending, finished, jobs, drafted, doc, history, faults>>

(* scheduleTurnCheckpoint: the latest snapshot replaces the one that waits *)
(* for the timer, whosever it was.                                         *)
MutantSchedule(t) ==   \* the flag of the turn before is left standing
  /\ Running(t) /\ steps[t] < MaxSteps
  /\ steps' = [steps EXCEPT ![t] = @ + 1]
  /\ pending' = Snapshot(t)'
  /\ disturbed' = disturbed \cup Others(t)
  /\ UNCHANGED <<stage, finished, jobs, drafted, doc, wiped, faults>>

Schedule(t) ==
  /\ Running(t) /\ steps[t] < MaxSteps
  /\ steps' = [steps EXCEPT ![t] = @ + 1]
  /\ pending' = Snapshot(t)'
  /\ finished' = FALSE
  /\ disturbed' = disturbed \cup Others(t)
  /\ UNCHANGED <<stage, jobs, drafted, doc, wiped, faults>>

(* The timer: writeCheckpoint takes the snapshot and asks for the lock.    *)
MutantFire ==   \* at the head of the queue, as if the lock were free
  /\ pending # None
  /\ jobs' = IF drafted THEN <<Head(jobs), WriteOf(pending)>> \o Tail(jobs)
                        ELSE <<WriteOf(pending)>> \o jobs
  /\ pending' = None
  /\ UNCHANGED <<stage, steps, finished, drafted, doc, history, faults>>

Fire ==
  /\ pending # None
  /\ jobs' = Append(jobs, WriteOf(pending))
  /\ pending' = None
  /\ UNCHANGED <<stage, steps, finished, drafted, doc, history, faults>>

(* clearTurnCheckpoint, after the answer was saved or given up: the timer  *)
(* is cancelled, the flag set, and the lock asked for.                     *)
MutantClear(t) ==   \* the timer of a turn that has ended runs on
  /\ Running(t)
  /\ stage' = [stage EXCEPT ![t] = "cleared"]
  /\ finished' = FALSE
  /\ jobs' = Append(jobs, ClearOf(t))
  /\ disturbed' = disturbed \cup Others(t)
  /\ UNCHANGED <<steps, pending, drafted, doc, wiped, faults>>

Clear(t) ==
  /\ Running(t)
  /\ stage' = [stage EXCEPT ![t] = "cleared"]
  /\ pending' = None
  /\ finished' = TRUE
  /\ jobs' = Append(jobs, ClearOf(t))
  /\ disturbed' = disturbed \cup Others(t)
  /\ UNCHANGED <<steps, drafted, doc, wiped, faults>>

(* A turn that fails, or whose client has left, calls nothing; so does a   *)
(* sub-turn.                                                               *)
Leave(t) ==
  /\ Running(t)
  /\ stage' = [stage EXCEPT ![t] = "gone"]
  /\ UNCHANGED <<steps, pending, finished, jobs, drafted, doc, history, faults>>

-----------------------------------------------------------------------------
Job == Head(jobs)
Effect == IF Job.op = "write" THEN Job.of ELSE None
Wipes == IF Job.op = "clear" THEN {Job.of} ELSE {}
Done == jobs' = Tail(jobs) /\ drafted' = FALSE

(* The mutator on the fresh document: a write declines when the flag is    *)
(* set, a clear when there is nothing to clear.                            *)
Decline ==
  /\ jobs # <<>> /\ ~drafted
  /\ IF Job.op = "write" THEN finished ELSE doc = None
  /\ Done
  /\ wiped' = wiped \cup Wipes
  /\ UNCHANGED <<stage, steps, pending, finished, doc, disturbed, faults>>

Draft ==
  /\ jobs # <<>> /\ ~drafted
  /\ IF Job.op = "write" THEN ~finished ELSE doc # None
  /\ drafted' = TRUE
  /\ UNCHANGED <<stage, steps, pending, finished, jobs, doc, history, faults>>

Store ==
  /\ drafted
  /\ doc' = Effect
  /\ Done
  /\ wiped' = wiped \cup Wipes
  /\ UNCHANGED <<stage, steps, pending, finished, disturbed, faults>>

(* 412: the mutator decides again.  Another error, or the third 412: the   *)
(* caller swallows it, and the document has been written or has not.       *)
Conflict ==
  /\ drafted /\ faults < MaxFaults
  /\ drafted' = FALSE
  /\ faults' = faults + 1
  /\ UNCHANGED <<stage, steps, pending, finished, jobs, doc, history>>

(* A read or a write throws; what it wrote is stored by then, or never. *)
Fail ==
  /\ jobs # <<>> /\ faults < MaxFaults
  /\ doc' = doc \/ (drafted /\ doc' = Effect)
  /\ Done
  /\ faults' = faults + 1
  /\ UNCHANGED <<stage, steps, pending, finished, history>>

(* Timers, flags and waiters are the process's own. *)
Restart ==
  /\ faults < MaxFaults
  /\ stage' = [t \in Turns |-> IF Running(t) THEN "gone" ELSE stage[t]]
  /\ pending' = None /\ finished' = FALSE
  /\ jobs' = <<>> /\ drafted' = FALSE
  /\ faults' = faults + 1
  /\ UNCHANGED <<steps, doc, history>>

Next ==
  \/ \E t \in Turns : Start(t) \/ Schedule(t) \/ Clear(t) \/ Leave(t)
  \/ Fire \/ Decline \/ Draft \/ Store \/ Conflict \/ Fail \/ Restart

Spec == Init /\ [][Next]_vars

-----------------------------------------------------------------------------
TypeOK ==
  /\ stage \in [Turns -> {"new", "running", "cleared", "gone"}]
  /\ steps \in [Turns -> 0..MaxSteps]
  /\ pending \in Snapshots \cup {None} /\ doc \in Snapshots \cup {None}
  /\ finished \in BOOLEAN /\ drafted \in BOOLEAN
  /\ jobs \in Seq(Jobs) /\ (drafted => jobs # <<>>)
  /\ wiped \subseteq Turns /\ disturbed \subseteq Turns
  /\ faults \in 0..MaxFaults

(* A turn whose checkpoint was cleared is not shown as interrupted again:  *)
(* neither a debounced write that was under way at its end, nor one that   *)
(* other turns, retries or failures delayed, brings the checkpoint back.   *)
NoResurrection == doc # None => doc.turn \notin wiped

(* A checkpoint is replaced by a later one of its turn, never an earlier.  *)
SnapshotsAdvance ==
  [][doc # None /\ doc' # None /\ doc'.turn = doc.turn => doc'.steps >= doc.steps]_vars

(* While a turn runs undisturbed by others and nothing has failed, its     *)
(* last reflected step is in the document or on the way there: what the    *)
(* turns before it left behind, their flag, their timer, their clear that  *)
(* still waits for the lock, does not cost it its checkpoint.              *)
SnapshotKept ==
  \A t \in Turns :
    Running(t) /\ steps[t] > 0 /\ t \notin disturbed /\ faults = 0 =>
      \/ pending = Snapshot(t)
      \/ ~finished /\ \E i \in DOMAIN jobs : jobs[i] = WriteOf(Snapshot(t))
      \/ doc = Snapshot(t) /\ \A i \in DOMAIN jobs : jobs[i].op # "clear"
=============================================================================
