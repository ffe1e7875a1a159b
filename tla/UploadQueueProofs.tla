-------------------------- MODULE UploadQueueProofs --------------------------
(***************************************************************************)
(* The slots of the upload queue, for any number of uploads, slots and     *)
(* timeouts: never too many pipelines, never an idle slot, in order, and   *)
(* no timed-out job that ends as completed.                                *)
(***************************************************************************)
EXTENDS UploadQueue, FiniteSetTheorems, TLAPS

(* The slots are held by the running pipelines, and there are few enough.  *)
Slots ==
  /\ IsFiniteSet(processing)
  /\ Cardinality(processing) <= MaxConcurrent
  /\ \A j \in Jobs : j \in processing <=> Running(j)

(* A job waits from its arrival to its start, and is in the map meanwhile. *)
Waits ==
  \A j \in Jobs :
    /\ pc[j] = "off" <=> status[j] \in {"none", "pending"}
    /\ status[j] = "pending" => j \in jobs
    /\ status[j] = "none" <=> arrival[j] = 0
    /\ arrival[j] <= arrivals
    /\ pc[j] = "off" => timer[j] = "off"

Full == (\E j \in Jobs : status[j] = "pending") => Cardinality(processing) = MaxConcurrent

(* A completed job is past its last step and its timeout is cleared. *)
CompletedIsQuiet ==
  \A j \in Jobs :
    status[j] = "completed" => timer[j] = "off" /\ pc[j] \in {"settled", "over"}

QueueInv ==
  /\ TypeOK
  /\ Slots
  /\ Waits
  /\ Full
  /\ OldestFirst
  /\ CompletedIsQuiet

-----------------------------------------------------------------------------
(* What processNext makes of the slots: it starts the oldest waiting job,  *)
(* or nobody because nobody waits or every slot is taken.                  *)
LEMMA PicksOldest ==
  ASSUME NEW busy, IsFiniteSet(busy), Cardinality(busy) <= MaxConcurrent,
         NEW inMap, NEW st, NEW arr,
         NEW started \in Picks(Waiting(inMap, st, busy), busy, arr)
  PROVE  /\ IsFiniteSet(busy \cup started)
         /\ Cardinality(busy \cup started) <= MaxConcurrent
         /\ started \subseteq Waiting(inMap, st, busy)
         /\ \A k \in started : \A l \in Waiting(inMap, st, busy) : arr[k] <= arr[l]
         /\ started = {} =>
              \/ Waiting(inMap, st, busy) = {}
              \/ Cardinality(busy) = MaxConcurrent
         /\ started # {} =>
              /\ Cardinality(busy) < MaxConcurrent
              /\ Cardinality(busy \cup started) = Cardinality(busy) + 1
<1> DEFINE W == Waiting(inMap, st, busy)
<1>1. Cardinality(busy) \in Nat /\ MaxConcurrent \in Nat
  BY FS_CardinalityType, QueueAssumption
<1>2. CASE W = {} \/ Cardinality(busy) >= MaxConcurrent
  <2>1. started = {}
    BY <1>2 DEF Picks
  <2>2. busy \cup started = busy
    BY <2>1
  <2> QED BY <2>1, <2>2, <1>1, <1>2
<1>3. CASE ~ (W = {} \/ Cardinality(busy) >= MaxConcurrent)
  <2>1. PICK k \in W : started = {k} /\ \A l \in W : arr[k] <= arr[l]
    BY <1>3 DEF Picks
  <2>2. k \notin busy
    BY <2>1 DEF Waiting
  <2>3. IsFiniteSet(busy \cup {k}) /\ Cardinality(busy \cup {k}) = Cardinality(busy) + 1
    BY <2>2, FS_AddElement
  <2> QED BY <2>1, <2>3, <1>1, <1>3
<1> QED BY <1>2, <1>3

LEMMA RunningIsProcessing ==
  ASSUME TypeOK, Slots
  PROVE  {j \in Jobs : Running(j)} = processing
BY DEF TypeOK, Slots

-----------------------------------------------------------------------------
LEMMA InitInv == Init => QueueInv
<1> SUFFICES ASSUME Init PROVE QueueInv
  OBVIOUS
<1> USE QueueAssumption
<1>1. TypeOK
  BY DEF Init, TypeOK, Statuses, PcValues
<1>2. Slots
  BY FS_EmptySet DEF Init, Slots, Running
<1>3. Waits
  BY DEF Init, Waits
<1>4. Full /\ OldestFirst /\ CompletedIsQuiet
  BY DEF Init, Full, OldestFirst, CompletedIsQuiet
<1> QED BY <1>1, <1>2, <1>3, <1>4 DEF QueueInv

(* A step of one running pipeline that neither takes nor frees a slot, and *)
(* completes only a job whose timeout it cleared.                          *)
QuietStep(j) ==
  /\ UNCHANGED <<arrival, arrivals, processing>>
  /\ jobs' = jobs
  /\ Running(j)
  /\ \E to \in Steps \cup {"failing", "settled"}, s \in Statuses \ {"none", "pending"},
        t \in {"off", "armed", "fired"} :
       /\ pc' = [pc EXCEPT ![j] = to]
       /\ status' = [status EXCEPT ![j] = s]
       /\ timer' = [timer EXCEPT ![j] = t]
       /\ s = "completed" => t = "off" /\ to = "settled"

LEMMA QuietStepKeeps ==
  ASSUME QueueInv, NEW j \in Jobs, QuietStep(j)
  PROVE  QueueInv'
<1> USE DEF QueueInv
<1>1. PICK to \in Steps \cup {"failing", "settled"}, s \in Statuses \ {"none", "pending"},
           t \in {"off", "armed", "fired"} :
        /\ pc' = [pc EXCEPT ![j] = to]
        /\ status' = [status EXCEPT ![j] = s]
        /\ timer' = [timer EXCEPT ![j] = t]
        /\ s = "completed" => t = "off" /\ to = "settled"
  BY DEF QuietStep
<1>2. to \notin {"off", "over"} /\ to \in PcValues
  BY <1>1 DEF Steps, PcValues
<1>3. TypeOK'
  BY <1>1, <1>2 DEF TypeOK, QuietStep
<1>4. Slots'
  BY <1>1, <1>2 DEF TypeOK, Slots, Running, QuietStep
<1>5. Waits'
  BY <1>1, <1>2 DEF TypeOK, Waits, Running, QuietStep
<1>6. Full'
  BY <1>1 DEF TypeOK, Full, QuietStep
<1>7. OldestFirst'
  BY <1>1, <1>2 DEF TypeOK, OldestFirst, Running, QuietStep
<1>8. CompletedIsQuiet'
  BY <1>1 DEF TypeOK, CompletedIsQuiet, QuietStep
<1> QED BY <1>3, <1>4, <1>5, <1>6, <1>7, <1>8

-----------------------------------------------------------------------------
LEMMA EnqueueKeeps ==
  ASSUME QueueInv, NEW j \in Jobs, Enqueue(j)
  PROVE  QueueInv'
<1> USE DEF QueueInv
<1> DEFINE st == [status EXCEPT ![j] = "pending"]
           W == Waiting(jobs', st, processing)
<1>1. PICK started \in Picks(W, processing, arrival') : Start(started, st, pc, processing)
  BY DEF Enqueue
<1>2. /\ IsFiniteSet(processing \cup started)
      /\ Cardinality(processing \cup started) <= MaxConcurrent
      /\ started \subseteq W
      /\ \A k \in started : \A l \in W : arrival'[k] <= arrival'[l]
      /\ started = {} => W = {} \/ Cardinality(processing) = MaxConcurrent
      /\ started # {} => Cardinality(processing) < MaxConcurrent
    BY <1>1, PicksOldest DEF Slots
<1>3. /\ jobs' = jobs \cup {j} /\ status[j] = "none" /\ pc[j] = "off"
      /\ arrivals' = arrivals + 1 /\ arrival' = [arrival EXCEPT ![j] = arrivals + 1]
  BY DEF Enqueue, Waits
<1>4. /\ processing' = processing \cup started
      /\ status' = [k \in Jobs |-> IF k \in started THEN "uploading" ELSE st[k]]
      /\ pc' = [k \in Jobs |-> IF k \in started THEN "prepare" ELSE pc[k]]
      /\ timer' = [k \in Jobs |-> IF k \in started THEN "armed" ELSE timer[k]]
  BY <1>1 DEF Start
<1>5. started \subseteq Jobs /\ \A k \in started : st[k] = "pending" /\ k \in jobs'
  BY <1>2, <1>3 DEF Waiting, TypeOK
<1>6. TypeOK'
  BY <1>3, <1>4, <1>5 DEF TypeOK, Statuses, PcValues, Steps
<1>7. Slots'
  BY <1>2, <1>4, <1>5 DEF TypeOK, Slots, Running
<1>8. Waits'
  <2>1. \A k \in Jobs : k \in started => status[k] \in {"none", "pending"}
    BY <1>3, <1>5 DEF TypeOK
  <2> QED BY <1>3, <1>4, <1>5, <2>1 DEF TypeOK, Waits
<1>9. Full'
  <2> SUFFICES ASSUME NEW k \in Jobs, status'[k] = "pending"
               PROVE  Cardinality(processing') = MaxConcurrent
    BY DEF Full
  <2>1. k \notin started /\ st[k] = "pending"
    BY <1>4
  <2>2. k \in W
    <3>1. k \in jobs'
      BY <2>1, <1>3 DEF TypeOK, Waits
    <3>2. k \notin processing
      BY <2>1, <1>3 DEF TypeOK, Slots, Waits, Running
    <3> QED BY <2>1, <3>1, <3>2 DEF Waiting
  <2>3. started = {}
    <3> SUFFICES ASSUME NEW l \in started PROVE FALSE
      OBVIOUS
    <3>1. Cardinality(processing) < MaxConcurrent
      BY <1>2
    <3>2. Cardinality(processing) \in Nat /\ MaxConcurrent \in Nat
      BY FS_CardinalityType, QueueAssumption DEF Slots
    <3>3. \A i \in Jobs : status[i] # "pending"
      BY <3>1, <3>2 DEF Full
    <3>4. k = j /\ l = j
      BY <1>5, <2>1, <3>3 DEF TypeOK
    <3> QED BY <2>1, <3>4
  <2> QED BY <1>2, <1>4, <2>2, <2>3
<1>10. OldestFirst'
  <2> SUFFICES ASSUME NEW i \in Jobs, NEW k \in Jobs,
                      0 < arrival'[i], arrival'[i] < arrival'[k],
                      pc'[k] # "off", pc'[i] = "off"
               PROVE  FALSE
    BY DEF OldestFirst
  <2>1. i \notin started /\ pc[i] = "off"
    BY <1>4
  <2>2. arrival'[i] \in Nat /\ arrival'[k] \in Nat
    BY <1>6 DEF TypeOK
  <2>3. i \in W
    <3>1. st[i] = "pending"
      BY <1>3, <2>1 DEF TypeOK, Waits
    <3>2. i \in jobs'
      BY <1>3, <3>1 DEF TypeOK, Waits
    <3>3. i \notin processing
      BY <2>1 DEF Slots, Running
    <3> QED BY <3>1, <3>2, <3>3 DEF Waiting
  <2>4. CASE k \in started
    <3>1. arrival'[k] <= arrival'[i]
      BY <1>2, <2>3, <2>4
    <3> QED BY <2>2, <3>1
  <2>5. CASE k \notin started
    <3>1. pc[k] # "off" /\ k # j
      BY <1>3, <1>4, <2>5
    <3>2. i # j
      BY <1>3, <3>1 DEF TypeOK, Waits
    <3> QED BY <1>3, <2>1, <3>1, <3>2 DEF OldestFirst, TypeOK
  <2> QED BY <2>4, <2>5
<1>11. CompletedIsQuiet'
  BY <1>3, <1>4, <1>5 DEF TypeOK, CompletedIsQuiet
<1> QED BY <1>6, <1>7, <1>8, <1>9, <1>10, <1>11

LEMMA SettleKeeps ==
  ASSUME QueueInv, NEW j \in Jobs, Settle(j)
  PROVE  QueueInv'
<1> USE DEF QueueInv
<1> DEFINE busy == processing \ {j}
           at == [pc EXCEPT ![j] = "over"]
           W == Waiting(jobs, status, busy)
<1>1. PICK started \in Picks(W, busy, arrival) : Start(started, status, at, busy)
  BY DEF Settle
<1>2. j \in processing /\ pc[j] = "settled"
  BY DEF Settle, Slots, Running
<1>3. /\ IsFiniteSet(busy) /\ Cardinality(busy) = Cardinality(processing) - 1
      /\ Cardinality(processing) \in Nat /\ Cardinality(busy) \in Nat /\ MaxConcurrent \in Nat
  BY <1>2, FS_RemoveElement, FS_CardinalityType, QueueAssumption DEF Slots
<1>4. Cardinality(busy) <= MaxConcurrent
  BY <1>3 DEF Slots
<1>5. /\ IsFiniteSet(busy \cup started)
      /\ Cardinality(busy \cup started) <= MaxConcurrent
      /\ started \subseteq W
      /\ \A k \in started : \A l \in W : arrival[k] <= arrival[l]
      /\ started = {} => W = {} \/ Cardinality(busy) = MaxConcurrent
      /\ started # {} => Cardinality(busy \cup started) = Cardinality(busy) + 1
    BY <1>1, <1>3, <1>4, PicksOldest
<1>6. /\ processing' = busy \cup started
      /\ status' = [k \in Jobs |-> IF k \in started THEN "uploading" ELSE status[k]]
      /\ pc' = [k \in Jobs |-> IF k \in started THEN "prepare" ELSE at[k]]
      /\ timer' = [k \in Jobs |-> IF k \in started THEN "armed" ELSE timer[k]]
      /\ UNCHANGED <<jobs, arrival, arrivals>>
  BY <1>1 DEF Start, Settle
<1>7. /\ started \subseteq Jobs
      /\ \A k \in started : status[k] = "pending" /\ pc[k] = "off" /\ k # j
  BY <1>2, <1>5 DEF Waiting, TypeOK, Waits
<1>8. TypeOK'
  BY <1>6, <1>7 DEF TypeOK, Statuses, PcValues, Steps
<1>9. Slots'
  BY <1>2, <1>5, <1>6, <1>7 DEF TypeOK, Slots, Running
<1>10. Waits'
  BY <1>2, <1>6, <1>7 DEF TypeOK, Waits
<1>11. \A k \in Jobs : pc[k] = "off" /\ arrival[k] # 0 => k \in W
  BY <1>2 DEF TypeOK, Waits, Slots, Running, Waiting
<1>12. Full'
  <2> SUFFICES ASSUME NEW k \in Jobs, status'[k] = "pending"
               PROVE  Cardinality(processing') = MaxConcurrent
    BY DEF Full
  <2>1. k \notin started /\ status[k] = "pending"
    BY <1>6
  <2>2. Cardinality(processing) = MaxConcurrent /\ k \in W
    BY <2>1, <1>11 DEF Full, Waits, TypeOK
  <2>3. started # {}
    <3>1. W # {}
      BY <2>2
    <3>2. Cardinality(busy) # MaxConcurrent
      BY <1>3, <2>2
    <3> QED BY <1>5, <3>1, <3>2
  <2>4. Cardinality(busy \cup started) = Cardinality(busy) + 1
    BY <1>5, <2>3
  <2> QED BY <1>3, <1>6, <2>2, <2>4
<1>13. OldestFirst'
  <2> SUFFICES ASSUME NEW i \in Jobs, NEW k \in Jobs,
                      0 < arrival[i], arrival[i] < arrival[k],
                      pc'[k] # "off", pc'[i] = "off"
               PROVE  FALSE
    BY <1>6 DEF OldestFirst
  <2>1. i \notin started /\ pc[i] = "off" /\ i # j
    BY <1>2, <1>6 DEF TypeOK
  <2>2. arrival[i] \in Nat /\ arrival[k] \in Nat
    BY DEF TypeOK
  <2>3. i \in W
    BY <1>11, <2>1, <2>2
  <2>4. CASE k \in started
    <3>1. arrival[k] <= arrival[i]
      BY <1>5, <2>3, <2>4
    <3> QED BY <2>2, <3>1
  <2>5. CASE k \notin started
    <3>1. pc[k] # "off"
      BY <1>2, <1>6, <2>5 DEF TypeOK
    <3> QED BY <2>1, <3>1 DEF OldestFirst
  <2> QED BY <2>4, <2>5
<1>14. CompletedIsQuiet'
  BY <1>2, <1>6, <1>7 DEF TypeOK, CompletedIsQuiet
<1> QED BY <1>8, <1>9, <1>10, <1>12, <1>13, <1>14

-----------------------------------------------------------------------------
LEMMA BailIsQuiet ==
  ASSUME QueueInv, NEW j \in Jobs, NEW from \in {"parse", "enrich", "save"}, Bail(j, from),
         UNCHANGED <<jobs, arrival, arrivals, processing>>
  PROVE  QuietStep(j)
<1> DEFINE t == IF timer[j] = "armed" THEN "off" ELSE timer[j]
<1>1. pc[j] = from /\ pc' = [pc EXCEPT ![j] = "settled"] /\ status' = status
  BY DEF Bail, Goto
<1>2. timer' = [timer EXCEPT ![j] = t] /\ t \in {"off", "armed", "fired"}
  BY DEF Bail, ClearTimeout, QueueInv, TypeOK
<1>3. status[j] \in Statuses \ {"none", "pending"} /\ status[j] # "completed"
  BY <1>1 DEF QueueInv, TypeOK, Waits, CompletedIsQuiet
<1>4. status' = [status EXCEPT ![j] = status[j]]
  BY <1>1 DEF QueueInv, TypeOK
<1>5. Running(j) /\ "settled" \in Steps \cup {"failing", "settled"}
  BY <1>1 DEF Running
<1> QED BY <1>1, <1>2, <1>3, <1>4, <1>5 DEF QuietStep

(* Every step of a pipeline between its start and its end is quiet. *)
LEMMA AdvanceIsQuiet ==
  ASSUME QueueInv, NEW j \in Jobs, Advance(j), ~ Settle(j)
  PROVE  QuietStep(j)
<1> USE DEF QueueInv
<1>0. timer = [timer EXCEPT ![j] = timer[j]] /\ timer[j] \in {"off", "armed", "fired"}
  BY DEF TypeOK
<1>1. CASE Prepared(j) \/ PreviewSaved(j) \/ Materialized(j) \/ Throw(j) \/ Profiled(j)
  <2>1. Running(j)
    BY <1>1 DEF Prepared, PreviewSaved, Materialized, Throw, Profiled, Goto, Running, Steps
  <2>2. \E to \in Steps \cup {"failing", "settled"}, s \in Statuses \ {"none", "pending"} :
          /\ pc' = [pc EXCEPT ![j] = to]
          /\ status' = [status EXCEPT ![j] = s]
          /\ s # "completed"
    BY <1>1 DEF Prepared, PreviewSaved, Materialized, Throw, Profiled, Goto, SetStatus, Steps, Statuses
  <2>3. UNCHANGED <<jobs, arrival, arrivals, processing, timer>>
    BY <1>1 DEF Prepared, PreviewSaved, Materialized, Throw, Profiled, TypeOK
  <2> QED BY <1>0, <2>1, <2>2, <2>3 DEF QuietStep
<1>2. CASE Parsed(j)
  <2>1. UNCHANGED <<jobs, arrival, arrivals, processing>>
    BY <1>2 DEF Parsed, TypeOK
  <2>2. CASE Bail(j, "parse")
    BY <2>1, <2>2, BailIsQuiet
  <2>3. CASE ~ isJobTerminal(j) /\ Goto(j, "parse", "preview") /\ UNCHANGED <<status, timer>>
    <3>1. Running(j) /\ pc' = [pc EXCEPT ![j] = "preview"] /\ "preview" \in Steps
      BY <2>3 DEF Goto, Running, Steps
    <3>2. /\ status' = [status EXCEPT ![j] = status[j]]
          /\ status[j] \in Statuses \ {"none", "pending"} /\ status[j] # "completed"
      BY <2>3 DEF TypeOK, Waits, CompletedIsQuiet, Goto
    <3> QED BY <1>0, <2>1, <2>3, <3>1, <3>2 DEF QuietStep, TypeOK
  <2> QED BY <1>2, <2>2, <2>3 DEF Parsed
<1>3. CASE Enriched(j)
  <2>1. UNCHANGED <<jobs, arrival, arrivals, processing>>
    BY <1>3 DEF Enriched, TypeOK
  <2>2. CASE Bail(j, "enrich")
    BY <2>1, <2>2, BailIsQuiet
  <2>3. CASE Goto(j, "enrich", "materialize") /\ SetStatus(j, "saving") /\ UNCHANGED timer
    <3>1. Running(j) /\ pc' = [pc EXCEPT ![j] = "materialize"] /\ "materialize" \in Steps
      BY <2>3 DEF Goto, Running, Steps
    <3>2. status' = [status EXCEPT ![j] = "saving"] /\ "saving" \in Statuses \ {"none", "pending"}
      BY <2>3 DEF SetStatus, Statuses
    <3> QED BY <1>0, <2>1, <2>3, <3>1, <3>2 DEF QuietStep, TypeOK
  <2> QED BY <1>3, <2>2, <2>3 DEF Enriched
<1>4. CASE Saved(j)
  <2>1. UNCHANGED <<jobs, arrival, arrivals, processing>>
    BY <1>4 DEF Saved, TypeOK
  <2>2. CASE Bail(j, "save")
    BY <2>1, <2>2, BailIsQuiet
  <2>3. CASE ~ isJobTerminal(j) /\ Complete(j)
    <3>1. Running(j) /\ pc' = [pc EXCEPT ![j] = "settled"]
      BY <2>3 DEF Complete, Goto, Running
    <3>2. status' = [status EXCEPT ![j] = "completed"]
          /\ "completed" \in Statuses \ {"none", "pending"}
      BY <2>3 DEF Complete, SetStatus, Statuses
    <3>3. timer' = [timer EXCEPT ![j] = "off"]
      BY <2>3 DEF Complete, ClearTimeout, isJobTerminal, TypeOK
    <3> QED BY <2>1, <3>1, <3>2, <3>3 DEF QuietStep, TypeOK
  <2> QED BY <1>4, <2>2, <2>3 DEF Saved
<1>5. CASE FailureSaved(j)
  <2> DEFINE t == IF timer[j] = "armed" THEN "off" ELSE timer[j]
  <2>1. Running(j) /\ pc' = [pc EXCEPT ![j] = "settled"] /\ timer' = [timer EXCEPT ![j] = t]
    BY <1>5 DEF FailureSaved, Goto, Running, ClearTimeout, TypeOK
  <2>2. /\ status' = [status EXCEPT ![j] = status[j]]
        /\ status[j] \in Statuses \ {"none", "pending"} /\ status[j] # "completed"
    BY <1>5 DEF FailureSaved, Goto, TypeOK, Waits, CompletedIsQuiet
  <2>3. UNCHANGED <<jobs, arrival, arrivals, processing>>
    BY <1>5 DEF FailureSaved
  <2>4. t \in {"off", "armed", "fired"}
    BY DEF TypeOK
  <2> QED BY <2>1, <2>2, <2>3, <2>4 DEF QuietStep, TypeOK
<1> QED BY <1>1, <1>2, <1>3, <1>4, <1>5 DEF Advance

LEMMA TimeoutKeeps ==
  ASSUME QueueInv, NEW j \in Jobs, Timeout(j)
  PROVE  QueueInv'
<1> USE DEF QueueInv
<1>1. /\ UNCHANGED <<jobs, arrival, arrivals, processing, pc>>
      /\ timer[j] = "armed" /\ timer' = [timer EXCEPT ![j] = "fired"]
  BY DEF Timeout
<1>2. status[j] # "completed"
  BY <1>1 DEF CompletedIsQuiet
<1>3. status' = [status EXCEPT ![j] = "failed"]
  BY <1>2 DEF Timeout, TypeOK, TerminalStatus
<1>4. pc[j] # "off" /\ status[j] \notin {"none", "pending"}
  BY <1>1 DEF Waits
<1>5. TypeOK' /\ Slots'
  BY <1>1, <1>3 DEF TypeOK, Slots, Running, Statuses
<1>6. Waits' /\ Full' /\ OldestFirst' /\ CompletedIsQuiet'
  BY <1>1, <1>3, <1>4 DEF TypeOK, Waits, Full, OldestFirst, CompletedIsQuiet
<1> QED BY <1>5, <1>6

LEMMA CleanupKeeps ==
  ASSUME QueueInv, cleanup
  PROVE  QueueInv'
<1> USE DEF QueueInv
<1>1. PICK old \in SUBSET {j \in jobs : status[j] \in TerminalStatus} :
        /\ jobs' = jobs \ old
        /\ UNCHANGED <<arrival, arrivals, processing, status, pc, timer>>
  BY DEF cleanup
<1>2. \A j \in old : status[j] # "pending"
  BY <1>1 DEF TerminalStatus
<1>3. TypeOK' /\ Slots' /\ Full' /\ OldestFirst' /\ CompletedIsQuiet'
  BY <1>1 DEF TypeOK, Slots, Running, Full, OldestFirst, CompletedIsQuiet
<1>4. Waits'
  BY <1>1, <1>2 DEF Waits
<1> QED BY <1>3, <1>4

LEMMA QueueInvariant == Spec => []QueueInv
<1>1. QueueInv /\ [Next]_vars => QueueInv'
  <2> SUFFICES ASSUME QueueInv, [Next]_vars PROVE QueueInv'
    OBVIOUS
  <2>1. ASSUME NEW j \in Jobs, Enqueue(j) PROVE QueueInv'
    BY <2>1, EnqueueKeeps
  <2>2. ASSUME NEW j \in Jobs, Advance(j) PROVE QueueInv'
    <3>1. CASE Settle(j)
      BY <3>1, SettleKeeps
    <3>2. CASE ~ Settle(j)
      BY <2>2, <3>2, AdvanceIsQuiet, QuietStepKeeps
    <3> QED BY <3>1, <3>2
  <2>3. ASSUME NEW j \in Jobs, Timeout(j) PROVE QueueInv'
    BY <2>3, TimeoutKeeps
  <2>4. CASE cleanup
    BY <2>4, CleanupKeeps
  <2>5. CASE UNCHANGED vars
    BY <2>5 DEF vars, QueueInv, TypeOK, Slots, Running, Waits, Full, OldestFirst, CompletedIsQuiet
  <2> QED BY <2>1, <2>2, <2>3, <2>4, <2>5 DEF Next
<1> QED BY <1>1, InitInv, PTL DEF Spec

-----------------------------------------------------------------------------
(* The state of the queue is well typed.                                   *)
THEOREM TypeCorrect == Spec => []TypeOK
BY QueueInvariant, PTL DEF QueueInv

(* At most MAX_CONCURRENT pipelines run, however many uploads arrive, fail *)
(* or time out.                                                            *)
THEOREM NeverTooMany == Spec => []Capacity
<1>1. QueueInv => Capacity
  BY RunningIsProcessing DEF QueueInv, Slots, Capacity
<1> QED BY <1>1, QueueInvariant, PTL

(* No accepted upload waits while processNext could start it.              *)
THEOREM SlotsAreUsed == Spec => []NoIdleSlot
<1>1. QueueInv => NoIdleSlot
  BY RunningIsProcessing DEF QueueInv, Full, NoIdleSlot
<1> QED BY <1>1, QueueInvariant, PTL

(* Uploads are started in the order of their arrival.                      *)
THEOREM StartedInOrder == Spec => []OldestFirst
BY QueueInvariant, PTL DEF QueueInv

(* The abort signal keeps a timed-out job from being reported completed.   *)
THEOREM TimeoutIsKept == Spec => []TimedOutNeverCompletes
<1>1. QueueInv => TimedOutNeverCompletes
  BY DEF QueueInv, CompletedIsQuiet, TimedOutNeverCompletes
<1> QED BY <1>1, QueueInvariant, PTL
=============================================================================
