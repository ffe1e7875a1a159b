----------------------------- MODULE UploadQueue -----------------------------
(***************************************************************************)
(* The upload queue of one server process                                  *)
(* (src/server/utils/uploadQueue.ts): admission, the slots of              *)
(* MAX_CONCURRENT pipelines, the status of each job, its timeout with the  *)
(* abort signal, and the hourly cleanup.                                   *)
(*                                                                         *)
(* A pipeline is cut at the awaits that separate its status writes; what a *)
(* job computes is abstracted.                                             *)
(***************************************************************************)
EXTENDS Naturals, FiniteSets

CONSTANTS
  Jobs,           \* uploads, each enqueued at most once
  MaxConcurrent,  \* MAX_CONCURRENT (3)
  MaxQueueSize,   \* MAX_QUEUE_SIZE (50)
  MayTimeOut      \* whether some job runs into JOB_TIMEOUT

ASSUME QueueAssumption ==
  /\ MaxConcurrent \in Nat \ {0}
  /\ MaxQueueSize \in Nat
  /\ MayTimeOut \in BOOLEAN

VARIABLES
  jobs,        \* the keys of the jobs map
  arrival,     \* arrival[j]: the turn in which j was put into the map, or 0
  arrivals,    \* jobs put into the map so far
  processing,  \* the jobs that hold a slot
  status,      \* status[j]: job.status
  pc,          \* pc[j]: where processJob(j) stands
  timer        \* timer[j]: the timeout of j; "fired" is signal.aborted

vars == <<jobs, arrival, arrivals, processing, status, pc, timer>>

Steps == {"prepare", "parse", "preview", "profile", "enrich", "materialize", "save"}
Running(j) == pc[j] \notin {"off", "over"}

TerminalStatus == {"completed", "failed"}
isJobTerminal(j) == timer[j] = "fired" \/ status[j] \in TerminalStatus

Init ==
  /\ jobs = {}
  /\ arrival = [j \in Jobs |-> 0]
  /\ arrivals = 0
  /\ processing = {}
  /\ status = [j \in Jobs |-> "none"]
  /\ pc = [j \in Jobs |-> "off"]
  /\ timer = [j \in Jobs |-> "off"]

-----------------------------------------------------------------------------
(* processNext: the oldest waiting job is started if a slot is free.  The  *)
(* result is the set of jobs started, with at most one element.            *)
Waiting(inMap, st, busy) == {j \in inMap : st[j] = "pending" /\ j \notin busy}

MutantPicks(waiting, busy, arr) ==   \* the newest job first
  IF waiting = {} \/ Cardinality(busy) >= MaxConcurrent
  THEN {{}}
  ELSE {{j} : j \in {k \in waiting : \A l \in waiting : arr[l] <= arr[k]}}

Picks(waiting, busy, arr) ==
  IF waiting = {} \/ Cardinality(busy) >= MaxConcurrent
  THEN {{}}
  ELSE {{j} : j \in {k \in waiting : \A l \in waiting : arr[k] <= arr[l]}}

(* processJob up to its first await, for the jobs started. *)
Start(started, st, at, busy) ==
  /\ processing' = busy \cup started
  /\ status' = [j \in Jobs |-> IF j \in started THEN "uploading" ELSE st[j]]
  /\ pc' = [j \in Jobs |-> IF j \in started THEN "prepare" ELSE at[j]]
  /\ timer' = [j \in Jobs |-> IF j \in started THEN "armed" ELSE timer[j]]

(* enqueue, enqueueSnowflakeImport: refused when the map is full. *)
Enqueue(j) ==
  /\ status[j] = "none"
  /\ Cardinality(jobs) < MaxQueueSize
  /\ jobs' = jobs \cup {j}
  /\ arrivals' = arrivals + 1
  /\ arrival' = [arrival EXCEPT ![j] = arrivals + 1]
  /\ LET st == [status EXCEPT ![j] = "pending"] IN
     \E started \in Picks(Waiting(jobs', st, processing), processing, arrival') :
       Start(started, st, pc, processing)

(* The finally of processNext: the slot is given to the next job. *)
MutantSettleAlone(j) ==   \* the slot is freed and nobody is woken
  /\ pc[j] = "settled"
  /\ Start({}, status, [pc EXCEPT ![j] = "over"], processing \ {j})
  /\ UNCHANGED <<jobs, arrival, arrivals>>

MutantSettleOnSuccess(j) ==   \* then() in place of finally()
  /\ pc[j] = "settled" /\ status[j] = "completed"
  /\ LET busy == processing \ {j} IN
     \E started \in Picks(Waiting(jobs, status, busy), busy, arrival) :
       Start(started, status, [pc EXCEPT ![j] = "over"], busy)
  /\ UNCHANGED <<jobs, arrival, arrivals>>

Settle(j) ==
  /\ pc[j] = "settled"
  /\ LET busy == processing \ {j} IN
     \E started \in Picks(Waiting(jobs, status, busy), busy, arrival) :
       Start(started, status, [pc EXCEPT ![j] = "over"], busy)
  /\ UNCHANGED <<jobs, arrival, arrivals>>

-----------------------------------------------------------------------------
(* processJob, await by await.  Most status writes are unconditional. *)
Goto(j, from, to) == pc[j] = from /\ pc' = [pc EXCEPT ![j] = to]
SetStatus(j, s) == status' = [status EXCEPT ![j] = s]
ClearTimeout(j) == timer' = [timer EXCEPT ![j] = IF @ = "armed" THEN "off" ELSE @]

(* A step boundary that bails out of a job found terminal. *)
Bail(j, from) ==
  /\ isJobTerminal(j)
  /\ Goto(j, from, "settled")
  /\ ClearTimeout(j)
  /\ UNCHANGED status

(* The blob is stored, the document ensured. *)
Prepared(j) ==
  /\ Goto(j, "prepare", "parse")
  /\ SetStatus(j, "parsing")
  /\ UNCHANGED <<jobs, arrival, arrivals, processing, timer>>

(* The rows are read. *)
Parsed(j) ==
  /\ \/ Bail(j, "parse")
     \/ ~ isJobTerminal(j) /\ Goto(j, "parse", "preview") /\ UNCHANGED <<status, timer>>
  /\ UNCHANGED <<jobs, arrival, arrivals, processing>>

PreviewSaved(j) ==
  /\ Goto(j, "preview", "profile")
  /\ SetStatus(j, "preview_ready")
  /\ UNCHANGED <<jobs, arrival, arrivals, processing, timer>>

(* The profile is inferred and the summary built. *)
Profiled(j) ==
  /\ Goto(j, "profile", "enrich")
  /\ SetStatus(j, "analyzing")
  /\ UNCHANGED <<jobs, arrival, arrivals, processing, timer>>

Enriched(j) ==
  /\ \/ Bail(j, "enrich")
     \/ ~ isJobTerminal(j) /\ Goto(j, "enrich", "materialize")
        /\ SetStatus(j, "saving") /\ UNCHANGED timer
  /\ UNCHANGED <<jobs, arrival, arrivals, processing>>

Materialized(j) ==
  /\ Goto(j, "materialize", "save")
  /\ SetStatus(j, "saving")
  /\ UNCHANGED <<jobs, arrival, arrivals, processing, timer>>

Complete(j) ==
  /\ Goto(j, "save", "settled")
  /\ SetStatus(j, "completed")
  /\ ClearTimeout(j)

(* The last guard only looks at the status, which a late step rewrote. *)
MutantSaved(j) ==
  /\ \/ Bail(j, "save")
     \/ status[j] \notin TerminalStatus /\ Complete(j)
  /\ UNCHANGED <<jobs, arrival, arrivals, processing>>

Saved(j) ==
  /\ \/ Bail(j, "save")
     \/ ~ isJobTerminal(j) /\ Complete(j)
  /\ UNCHANGED <<jobs, arrival, arrivals, processing>>

(* An await throws: the job failed and its document is marked. *)
Throw(j) ==
  /\ pc[j] \in Steps
  /\ pc' = [pc EXCEPT ![j] = "failing"]
  /\ SetStatus(j, "failed")
  /\ UNCHANGED <<jobs, arrival, arrivals, processing, timer>>

FailureSaved(j) ==
  /\ Goto(j, "failing", "settled")
  /\ ClearTimeout(j)
  /\ UNCHANGED <<jobs, arrival, arrivals, processing, status>>

-----------------------------------------------------------------------------
(* JOB_TIMEOUT passes: the job is failed unless it ended, its work aborted. *)
MutantTimeoutFreesSlot(j) ==
  /\ MayTimeOut
  /\ timer[j] = "armed"
  /\ timer' = [timer EXCEPT ![j] = "fired"]
  /\ status' = [status EXCEPT ![j] = IF @ \in TerminalStatus THEN @ ELSE "failed"]
  /\ processing' = processing \ {j}
  /\ UNCHANGED <<jobs, arrival, arrivals, pc>>

Timeout(j) ==
  /\ MayTimeOut
  /\ timer[j] = "armed"
  /\ timer' = [timer EXCEPT ![j] = "fired"]
  /\ status' = [status EXCEPT ![j] = IF @ \in TerminalStatus THEN @ ELSE "failed"]
  /\ UNCHANGED <<jobs, arrival, arrivals, processing, pc>>

(* Jobs that ended an hour ago are forgotten; which they are is left open. *)
cleanup ==
  \E old \in SUBSET {j \in jobs : status[j] \in TerminalStatus} :
    /\ old # {}
    /\ jobs' = jobs \ old
    /\ UNCHANGED <<arrival, arrivals, processing, status, pc, timer>>

-----------------------------------------------------------------------------
Advance(j) ==
  \/ Prepared(j) \/ Parsed(j) \/ PreviewSaved(j) \/ Profiled(j)
  \/ Enriched(j) \/ Materialized(j) \/ Saved(j)
  \/ Throw(j) \/ FailureSaved(j) \/ Settle(j)

Next ==
  \/ \E j \in Jobs : Enqueue(j) \/ Advance(j) \/ Timeout(j)
  \/ cleanup

Spec == Init /\ [][Next]_vars

(* Every await of a running pipeline is answered sooner or later. *)
FairSpec == Spec /\ \A j \in Jobs : WF_vars(Advance(j))

-----------------------------------------------------------------------------
Statuses == {"none", "pending", "uploading", "parsing", "preview_ready",
             "analyzing", "saving", "completed", "failed"}
PcValues == Steps \cup {"off", "failing", "settled", "over"}

TypeOK ==
  /\ jobs \in SUBSET Jobs
  /\ arrival \in [Jobs -> Nat]
  /\ arrivals \in Nat
  /\ processing \in SUBSET Jobs
  /\ status \in [Jobs -> Statuses]
  /\ pc \in [Jobs -> PcValues]
  /\ timer \in [Jobs -> {"off", "armed", "fired"}]

(* Never more than MAX_CONCURRENT pipelines run at once, those of jobs     *)
(* that timed out and still work included.                                 *)
Capacity == Cardinality({j \in Jobs : Running(j)}) <= MaxConcurrent

(* No upload waits while a slot is free: whoever frees one wakes the next. *)
NoIdleSlot ==
  (\E j \in Jobs : status[j] = "pending")
    => Cardinality({j \in Jobs : Running(j)}) = MaxConcurrent

(* Uploads are started in the order in which they were accepted.           *)
OldestFirst ==
  \A j, k \in Jobs :
    0 < arrival[j] /\ arrival[j] < arrival[k] /\ pc[k] # "off" => pc[j] # "off"

(* A job that was timed out is never reported as completed.                *)
TimedOutNeverCompletes == \A j \in Jobs : timer[j] = "fired" => status[j] # "completed"

(* Every accepted upload is started and gives its slot back in the end.    *)
EveryJobEnds == \A j \in Jobs : status[j] = "pending" ~> pc[j] = "over"
=============================================================================
