------------------------ MODULE TurnCheckpointProofs ------------------------
(***************************************************************************)
(* A cleared checkpoint stays cleared, for any number of turns, however    *)
(* they overlap and whatever fails: the writes of a turn are in the queue  *)
(* of the lock before its clear, and none joins them after it.             *)
(***************************************************************************)
EXTENDS TurnCheckpoint, TLAPS

IsWriteOf(job, t) == job.op = "write" /\ job.of.turn = t

(* The timer holds nothing of a turn that was cleared. *)
TimerIsCancelled ==
  \A t \in Turns : stage[t] = "cleared" /\ pending # None => pending.turn # t

(* The clear of a turn was asked for by its end, after all its writes.     *)
ClearIsLast ==
  \A i \in DOMAIN jobs : jobs[i].op = "clear" =>
    /\ stage[jobs[i].of] = "cleared"
    /\ \A j \in DOMAIN jobs : IsWriteOf(jobs[j], jobs[i].of) => j < i

(* Once it came through, nothing of the turn is left. *)
NothingLeft ==
  \A t \in wiped :
    /\ stage[t] = "cleared"
    /\ \A i \in DOMAIN jobs : ~IsWriteOf(jobs[i], t)
    /\ doc # None => doc.turn # t

IInv == TypeOK /\ TimerIsCancelled /\ ClearIsLast /\ NothingLeft

(* What a queue holds after one joins and after the first leaves.          *)
LEMMA QueueAppend ==
  ASSUME NEW S, NEW q \in Seq(S), NEW x \in S
  PROVE  /\ Append(q, x) \in Seq(S)
         /\ DOMAIN Append(q, x) = 1..(Len(q) + 1)
         /\ \A i \in DOMAIN q : Append(q, x)[i] = q[i]
         /\ Append(q, x)[Len(q) + 1] = x
         /\ DOMAIN q = 1..Len(q) /\ Len(q) \in Nat
OBVIOUS

LEMMA QueueTail ==
  ASSUME NEW S, NEW q \in Seq(S), q # <<>>
  PROVE  /\ Tail(q) \in Seq(S)
         /\ DOMAIN Tail(q) = 1..(Len(q) - 1)
         /\ \A i \in DOMAIN Tail(q) : i + 1 \in DOMAIN q /\ Tail(q)[i] = q[i + 1]
         /\ 1 \in DOMAIN q /\ Head(q) = q[1] /\ Head(q) \in S
         /\ DOMAIN q = 1..Len(q) /\ Len(q) \in Nat
OBVIOUS

LEMMA JobShape ==
  ASSUME NEW job \in Jobs
  PROVE  \/ job.op = "write" /\ job.of \in Snapshots /\ job = WriteOf(job.of)
         \/ job.op = "clear" /\ job.of \in Turns /\ job = ClearOf(job.of)
BY DEF Jobs, WriteOf, ClearOf

LEMMA SnapshotShape ==
  ASSUME NEW x \in Snapshots
  PROVE  x # None => x.turn \in Turns
BY DEF Snapshots

LEMMA InitInv == Init => IInv
<1> SUFFICES ASSUME Init PROVE IInv
  OBVIOUS
<1>1. finished \in BOOLEAN /\ drafted \in BOOLEAN /\ (drafted => jobs # <<>>)
  BY Zenon DEF Init
<1>2. TypeOK
  BY <1>1, CheckpointAssumption DEF Init, TypeOK, CheckpointAssumption
<1>3. TimerIsCancelled /\ ClearIsLast /\ NothingLeft
  BY DEF Init, TimerIsCancelled, ClearIsLast, NothingLeft
<1> QED
  BY <1>2, <1>3 DEF IInv

(* A turn's own steps, but for its clear: stages only advance, and only a  *)
(* running turn feeds the timer.                                           *)
LEMMA TurnKeeps ==
  ASSUME IInv, NEW t \in Turns, Start(t) \/ Schedule(t) \/ Leave(t)
  PROVE  IInv'
<1> USE DEF IInv, history
<1>1. CASE Start(t) \/ Leave(t)
  <2>1. TypeOK'
    BY <1>1 DEF Start, Leave, TypeOK, Running
  <2>2. \A u \in Turns : stage[u] = "cleared" <=> stage'[u] = "cleared"
    BY <1>1 DEF Start, Leave, TypeOK, Running
  <2>3. UNCHANGED <<pending, jobs, doc, wiped>>
    BY <1>1 DEF Start, Leave
  <2>4. TimerIsCancelled' /\ NothingLeft'
    BY <2>2, <2>3 DEF TimerIsCancelled, NothingLeft, TypeOK, IsWriteOf
  <2>5. ClearIsLast'
    BY <2>2, <2>3, JobShape DEF ClearIsLast, TypeOK, IsWriteOf
  <2> QED
    BY <2>1, <2>4, <2>5
<1>2. CASE Schedule(t)
  <2>1. Snapshot(t)' \in Snapshots /\ Snapshot(t)'.turn = t
    BY <1>2, CheckpointAssumption DEF Schedule, Snapshot, Snapshots, TypeOK, CheckpointAssumption
  <2>2. finished' \in BOOLEAN
    BY <1>2, Zenon DEF Schedule
  <2>3. steps' \in [Turns -> 0..MaxSteps]
    BY <1>2, CheckpointAssumption DEF Schedule, TypeOK, CheckpointAssumption
  <2>4. pending' = Snapshot(t)' /\ disturbed' \subseteq Turns
        /\ UNCHANGED <<stage, jobs, drafted, doc, wiped, faults>>
    BY <1>2 DEF Schedule, Others, TypeOK
  <2>5. TypeOK'
    BY <2>1, <2>2, <2>3, <2>4 DEF TypeOK
  <2>6. TimerIsCancelled'
    BY <1>2, <2>1, <2>4 DEF TimerIsCancelled, Schedule, Running
  <2>7. ClearIsLast' /\ NothingLeft'
    BY <2>4 DEF ClearIsLast, NothingLeft, IsWriteOf
  <2> QED
    BY <2>5, <2>6, <2>7
<1> QED
  BY <1>1, <1>2

(* The two ways into the queue. *)
LEMMA FireKeeps ==
  ASSUME IInv, Fire
  PROVE  IInv'
<1> USE DEF IInv, history
<1> DEFINE job == WriteOf(pending)
<1>1. pending \in Snapshots /\ job \in Jobs /\ jobs \in Seq(Jobs)
  BY DEF Fire, TypeOK, Jobs
<1>2. jobs' = Append(jobs, job) /\ pending' = None
      /\ UNCHANGED <<stage, steps, finished, drafted, doc, wiped, disturbed, faults>>
  BY DEF Fire
<1>3. /\ jobs' \in Seq(Jobs) /\ DOMAIN jobs' = 1..(Len(jobs) + 1)
      /\ \A i \in DOMAIN jobs : jobs'[i] = jobs[i]
      /\ jobs'[Len(jobs) + 1] = job
      /\ DOMAIN jobs = 1..Len(jobs) /\ Len(jobs) \in Nat
  BY <1>1, <1>2, QueueAppend
<1>4. TypeOK'
  BY <1>2, <1>3 DEF TypeOK
<1>5. job.op = "write" /\ job.of = pending
  BY DEF WriteOf
<1>6. TimerIsCancelled'
  BY <1>2 DEF TimerIsCancelled
<1>7. ClearIsLast'
  <2> SUFFICES ASSUME NEW i \in DOMAIN jobs', jobs'[i].op = "clear"
               PROVE  /\ stage'[jobs'[i].of] = "cleared"
                      /\ \A j \in DOMAIN jobs' : IsWriteOf(jobs'[j], jobs'[i].of) => j < i
    BY DEF ClearIsLast
  <2>1. i \in DOMAIN jobs /\ jobs'[i] = jobs[i] /\ jobs[i] \in Jobs
    BY <1>1, <1>3, <1>5
  <2>2. jobs[i].of \in Turns /\ stage[jobs[i].of] = "cleared"
    BY <2>1, JobShape DEF ClearIsLast
  <2>3. ~IsWriteOf(job, jobs[i].of)
    BY <1>5, <1>1, <2>2 DEF TimerIsCancelled, IsWriteOf, Fire
  <2> QED
    BY <1>2, <1>3, <2>1, <2>2, <2>3 DEF ClearIsLast
<1>8. NothingLeft'
  <2>1. \A t \in wiped : ~IsWriteOf(job, t)
    BY <1>1, <1>5 DEF NothingLeft, TimerIsCancelled, IsWriteOf, Fire, TypeOK
  <2> QED
    BY <1>2, <1>3, <2>1 DEF NothingLeft
<1> QED
  BY <1>4, <1>6, <1>7, <1>8

LEMMA ClearKeeps ==
  ASSUME IInv, NEW t \in Turns, Clear(t)
  PROVE  IInv'
<1> USE DEF IInv, history
<1> DEFINE job == ClearOf(t)
<1>1. job \in Jobs /\ jobs \in Seq(Jobs) /\ job.op = "clear" /\ job.of = t
  BY DEF Clear, TypeOK, Jobs, ClearOf
<1>2. /\ jobs' = Append(jobs, job) /\ pending' = None
      /\ stage' = [stage EXCEPT ![t] = "cleared"] /\ stage[t] = "running"
      /\ disturbed' \subseteq Turns
      /\ UNCHANGED <<steps, drafted, doc, wiped, faults>>
  BY DEF Clear, Running, Others, TypeOK
<1>3. /\ jobs' \in Seq(Jobs) /\ DOMAIN jobs' = 1..(Len(jobs) + 1)
      /\ \A i \in DOMAIN jobs : jobs'[i] = jobs[i]
      /\ jobs'[Len(jobs) + 1] = job
      /\ DOMAIN jobs = 1..Len(jobs) /\ Len(jobs) \in Nat
  BY <1>1, <1>2, QueueAppend
<1>4. finished' \in BOOLEAN
  BY Zenon DEF Clear
<1>5. TypeOK'
  <2>1. stage' \in [Turns -> {"new", "running", "cleared", "gone"}]
    BY <1>2 DEF TypeOK
  <2>2. jobs' # <<>>
    BY <1>2, <1>1
  <2> QED
    BY <1>2, <1>3, <1>4, <2>1, <2>2 DEF TypeOK
<1>6. TimerIsCancelled'
  BY <1>2 DEF TimerIsCancelled
<1>7. ClearIsLast'
  <2> SUFFICES ASSUME NEW i \in DOMAIN jobs', jobs'[i].op = "clear"
               PROVE  /\ stage'[jobs'[i].of] = "cleared"
                      /\ \A j \in DOMAIN jobs' : IsWriteOf(jobs'[j], jobs'[i].of) => j < i
    BY DEF ClearIsLast
  <2>1. ~IsWriteOf(job, jobs'[i].of)
    BY <1>1 DEF IsWriteOf
  <2>2. CASE i = Len(jobs) + 1
    BY <1>1, <1>2, <1>3, <2>1, <2>2 DEF TypeOK
  <2>3. CASE i \in DOMAIN jobs
    <3>1. jobs'[i] = jobs[i] /\ jobs[i].of \in Turns /\ stage[jobs[i].of] = "cleared"
      BY <1>1, <1>3, <2>3, JobShape DEF ClearIsLast
    <3>2. stage'[jobs[i].of] = "cleared"
      BY <1>2, <3>1 DEF TypeOK
    <3> QED
      BY <1>3, <2>1, <2>3, <3>1, <3>2 DEF ClearIsLast
  <2> QED
    BY <1>3, <2>2, <2>3
<1>8. NothingLeft'
  BY <1>1, <1>2, <1>3 DEF NothingLeft, IsWriteOf, TypeOK
<1> QED
  BY <1>5, <1>6, <1>7, <1>8

(* The running job leaves the queue.  It was first: what it writes is of a *)
(* turn that is not wiped, and if it clears, no write of its turn is left. *)
LEMMA DoneKeeps ==
  ASSUME IInv, jobs # <<>>, Done,
         doc' = doc \/ doc' = Effect,
         wiped' = wiped \/ (wiped' = wiped \cup Wipes /\ (doc' = Effect \/ doc = None)),
         UNCHANGED <<stage, steps, pending, finished, disturbed>>,
         faults' \in 0..MaxFaults
  PROVE  IInv'
<1> USE DEF IInv
<1>1. /\ jobs' = Tail(jobs) /\ jobs' \in Seq(Jobs) /\ DOMAIN jobs' = 1..(Len(jobs) - 1)
      /\ \A i \in DOMAIN jobs' : i + 1 \in DOMAIN jobs /\ jobs'[i] = jobs[i + 1]
      /\ 1 \in DOMAIN jobs /\ Job = jobs[1] /\ Job \in Jobs
      /\ DOMAIN jobs = 1..Len(jobs) /\ Len(jobs) \in Nat
  BY QueueTail DEF TypeOK, Done, Job
<1>2. \/ Job.op = "write" /\ Job.of \in Snapshots /\ Effect = Job.of /\ Wipes = {}
      \/ Job.op = "clear" /\ Job.of \in Turns /\ Effect = None /\ Wipes = {Job.of}
  BY <1>1, JobShape DEF Effect, Wipes
<1>3. drafted' \in BOOLEAN /\ ~drafted'
  BY Zenon DEF Done
<1>4. TypeOK'
  BY <1>1, <1>2, <1>3 DEF TypeOK
<1>5. TimerIsCancelled'
  BY DEF TimerIsCancelled
<1>6. ClearIsLast'
  <2> SUFFICES ASSUME NEW i \in DOMAIN jobs', jobs'[i].op = "clear"
               PROVE  /\ stage'[jobs'[i].of] = "cleared"
                      /\ \A j \in DOMAIN jobs' : IsWriteOf(jobs'[j], jobs'[i].of) => j < i
    BY DEF ClearIsLast
  <2>1. /\ stage[jobs[i + 1].of] = "cleared"
        /\ \A j \in DOMAIN jobs : IsWriteOf(jobs[j], jobs[i + 1].of) => j < i + 1
    BY <1>1 DEF ClearIsLast
  <2>2. ASSUME NEW j \in DOMAIN jobs', IsWriteOf(jobs'[j], jobs'[i].of) PROVE j < i
    BY <1>1, <2>1, <2>2
  <2> QED
    BY <1>1, <2>1, <2>2
<1>7. NothingLeft'
  <2> SUFFICES ASSUME NEW t \in wiped'
               PROVE  /\ stage[t] = "cleared"
                      /\ \A i \in DOMAIN jobs' : ~IsWriteOf(jobs'[i], t)
                      /\ doc' # None => doc'.turn # t
    BY DEF NothingLeft
  <2>1. CASE t \in wiped
    <3>1. ~IsWriteOf(Job, t)
      BY <1>1, <2>1 DEF NothingLeft
    <3>2. doc' # None => doc'.turn # t
      BY <1>2, <2>1, <3>1 DEF NothingLeft, IsWriteOf
    <3> QED
      BY <1>1, <2>1, <3>2 DEF NothingLeft
  <2>2. CASE t \notin wiped
    <3>1. Job.op = "clear" /\ t = Job.of /\ doc' = None
      BY <1>2, <2>2
    <3>2. stage[t] = "cleared" /\ \A j \in DOMAIN jobs : IsWriteOf(jobs[j], t) => j < 1
      BY <1>1, <3>1 DEF ClearIsLast
    <3> QED
      BY <1>1, <3>1, <3>2
  <2> QED
    BY <2>1, <2>2
<1> QED
  BY <1>4, <1>5, <1>6, <1>7

LEMMA NextKeeps == IInv /\ [Next]_vars => IInv'
<1> SUFFICES ASSUME IInv, [Next]_vars PROVE IInv'
  OBVIOUS
<1> USE DEF history
<1>1. ASSUME NEW t \in Turns, Start(t) \/ Schedule(t) \/ Clear(t) \/ Leave(t) PROVE IInv'
  BY <1>1, TurnKeeps, ClearKeeps
<1>2. CASE Fire
  BY <1>2, FireKeeps
<1>3. CASE Decline
  <2>1. jobs # <<>> /\ Done /\ doc' = doc /\ wiped' = wiped \cup Wipes
        /\ UNCHANGED <<stage, steps, pending, finished, disturbed, faults>>
    BY <1>3 DEF Decline
  <2>2. wiped' = wiped \/ doc = None
    BY <1>3, <2>1 DEF Decline, Wipes
  <2> QED
    BY <2>1, <2>2, DoneKeeps DEF IInv, TypeOK
<1>4. CASE Store
  <2>1. Done /\ doc' = Effect /\ wiped' = wiped \cup Wipes /\ jobs # <<>>
        /\ UNCHANGED <<stage, steps, pending, finished, disturbed, faults>>
    BY <1>4 DEF Store, IInv, TypeOK
  <2> QED
    BY <2>1, DoneKeeps DEF IInv, TypeOK
<1>5. CASE Fail
  <2>1. jobs # <<>> /\ Done /\ (doc' = doc \/ doc' = Effect) /\ wiped' = wiped
        /\ UNCHANGED <<stage, steps, pending, finished, disturbed>>
    BY <1>5 DEF Fail
  <2>2. faults' \in 0..MaxFaults
    BY <1>5, CheckpointAssumption DEF Fail, IInv, TypeOK, CheckpointAssumption
  <2> QED
    BY <2>1, <2>2, DoneKeeps
<1>6. CASE Draft \/ Conflict
  <2>1. drafted' \in BOOLEAN /\ jobs # <<>>
    BY <1>6 DEF Draft, Conflict, IInv, TypeOK
  <2>2. faults' \in 0..MaxFaults
    BY <1>6, CheckpointAssumption DEF Draft, Conflict, IInv, TypeOK, CheckpointAssumption
  <2>3. UNCHANGED <<stage, steps, pending, finished, jobs, doc, wiped, disturbed>>
    BY <1>6 DEF Draft, Conflict
  <2> QED
    BY <2>1, <2>2, <2>3
    DEF IInv, TypeOK, TimerIsCancelled, ClearIsLast, NothingLeft, IsWriteOf
<1>7. CASE Restart
  <2>1. finished' \in BOOLEAN /\ drafted' \in BOOLEAN /\ ~drafted'
    BY <1>7, Zenon DEF Restart
  <2>2. faults' \in 0..MaxFaults
    BY <1>7, CheckpointAssumption DEF Restart, IInv, TypeOK, CheckpointAssumption
  <2>3. TypeOK'
    BY <1>7, <2>1, <2>2 DEF Restart, IInv, TypeOK
  <2>4. TimerIsCancelled' /\ ClearIsLast'
    BY <1>7 DEF Restart, TimerIsCancelled, ClearIsLast
  <2>5. NothingLeft'
    BY <1>7 DEF Restart, IInv, TypeOK, NothingLeft, Running
  <2> QED
    BY <2>3, <2>4, <2>5 DEF IInv
<1>8. CASE UNCHANGED vars
  BY <1>8 DEF vars, IInv, TypeOK, TimerIsCancelled, ClearIsLast, NothingLeft, IsWriteOf
<1> QED
  BY <1>1, <1>2, <1>3, <1>4, <1>5, <1>6, <1>7, <1>8 DEF Next

LEMMA Invariance == Spec => []IInv
BY InitInv, NextKeeps, PTL DEF Spec

(* The types, for every number of turns.                                   *)
THEOREM TypeCorrect == Spec => []TypeOK
BY Invariance, PTL DEF IInv

(* No late write brings the checkpoint of a cleared turn back.             *)
THEOREM ClearedStaysCleared == Spec => []NoResurrection
<1>1. IInv => NoResurrection
  BY DEF IInv, NothingLeft, NoResurrection
<1> QED
  BY <1>1, Invariance, PTL
-----------------------------------------------------------------------------
(* A snapshot moves from the turn to the timer, into the queue and into    *)
(* the document, and none of one turn overtakes another on the way.        *)
Behind(x, y) == x # None /\ y # None /\ x.turn = y.turn => x.steps <= y.steps

Reflected(x) == x # None => x.steps <= steps[x.turn]

InOrder ==
  /\ Reflected(doc) /\ Reflected(pending) /\ Behind(doc, pending)
  /\ \A i \in DOMAIN jobs : jobs[i].op = "write" =>
       /\ Reflected(jobs[i].of)
       /\ Behind(doc, jobs[i].of) /\ Behind(jobs[i].of, pending)
       /\ \A j \in DOMAIN jobs : i < j /\ jobs[j].op = "write" => Behind(jobs[i].of, jobs[j].of)

LEMMA InitInOrder == Init => InOrder
BY DEF Init, InOrder, Reflected, Behind

(* What a turn does before the lock. *)
LEMMA TurnInOrder ==
  ASSUME IInv, InOrder, NEW t \in Turns, Start(t) \/ Schedule(t) \/ Clear(t) \/ Leave(t)
  PROVE  InOrder' /\ doc' = doc
<1> USE DEF IInv
<1>1. CASE Start(t) \/ Leave(t)
  BY <1>1 DEF Start, Leave, InOrder, Reflected, Behind
<1>2. CASE Schedule(t)
  <2>1. /\ pending' = Snapshot(t)' /\ UNCHANGED <<jobs, doc>>
        /\ steps' = [steps EXCEPT ![t] = @ + 1]
        /\ Snapshot(t)'.turn = t /\ Snapshot(t)'.steps = steps[t] + 1
    BY <1>2 DEF Schedule, Snapshot, TypeOK
  <2>2. ASSUME NEW x \in Snapshots \cup {None}, Reflected(x)
        PROVE  Reflected(x)' /\ Behind(x, pending)'
    BY <2>1, <2>2, CheckpointAssumption
    DEF Reflected, Behind, Snapshots, TypeOK, CheckpointAssumption
  <2>3. Reflected(pending)'
    BY <2>1, CheckpointAssumption DEF Reflected, TypeOK, CheckpointAssumption
  <2>4. \A i \in DOMAIN jobs : jobs[i].op = "write" => jobs[i].of \in Snapshots
    BY JobShape DEF TypeOK
  <2> HIDE DEF IInv
  <2>5. doc \in Snapshots \cup {None}
    BY DEF IInv, TypeOK
  <2>6. \A i \in DOMAIN jobs : jobs[i].op = "write" =>
           Reflected(jobs[i].of)' /\ Behind(jobs[i].of, pending)'
    <3> TAKE i \in DOMAIN jobs
    <3> HAVE jobs[i].op = "write"
    <3>1. Reflected(jobs[i].of)
      BY DEF InOrder
    <3>2. PICK x \in Snapshots : x = jobs[i].of
      BY <2>4
    <3>3. Reflected(x)' /\ Behind(x, pending)'
      BY <2>2, <3>1, <3>2
    <3>4. jobs'[i].of = x
      BY <2>1, <3>2
    <3> QED BY <3>3, <3>4 DEF Reflected, Behind
  <2>7. Reflected(doc)' /\ Behind(doc, pending)'
    BY <2>1, <2>2, <2>5 DEF InOrder, Reflected, Behind
  <2> QED BY <2>1, <2>3, <2>6, <2>7 DEF InOrder, Behind
<1>3. CASE Clear(t)
  <2>1. /\ jobs' = Append(jobs, ClearOf(t)) /\ pending' = None /\ UNCHANGED <<steps, doc>>
        /\ jobs \in Seq(Jobs) /\ ClearOf(t) \in Jobs
    BY <1>3 DEF Clear, TypeOK, Jobs
  <2>2. /\ DOMAIN jobs' = DOMAIN jobs \cup {Len(jobs) + 1}
        /\ \A i \in DOMAIN jobs : jobs'[i] = jobs[i]
        /\ jobs'[Len(jobs) + 1].op = "clear"
    <3>1. /\ DOMAIN jobs' = 1..(Len(jobs) + 1) /\ DOMAIN jobs = 1..Len(jobs) /\ Len(jobs) \in Nat
          /\ \A i \in DOMAIN jobs : jobs'[i] = jobs[i]
          /\ jobs'[Len(jobs) + 1] = ClearOf(t)
      BY <2>1, QueueAppend
    <3> QED BY <3>1 DEF ClearOf
  <2> QED BY <2>1, <2>2 DEF InOrder, Reflected, Behind
<1> QED BY <1>1, <1>2, <1>3

(* The timer puts its snapshot behind the writes that wait. *)
LEMMA FireInOrder ==
  ASSUME IInv, InOrder, Fire
  PROVE  InOrder' /\ doc' = doc
<1>1. /\ jobs' = Append(jobs, WriteOf(pending)) /\ pending' = None /\ UNCHANGED <<steps, doc>>
      /\ jobs \in Seq(Jobs) /\ WriteOf(pending) \in Jobs
  BY DEF Fire, IInv, TypeOK, Jobs
<1>2. /\ DOMAIN jobs' = 1..(Len(jobs) + 1) /\ DOMAIN jobs = 1..Len(jobs) /\ Len(jobs) \in Nat
      /\ \A i \in DOMAIN jobs : jobs'[i] = jobs[i]
      /\ jobs'[Len(jobs) + 1].of = pending
  <2>1. WriteOf(pending).of = pending
    BY DEF WriteOf
  <2> QED BY <1>1, <2>1, QueueAppend
<1> QED BY <1>1, <1>2 DEF InOrder, Reflected, Behind

(* The first job leaves the queue, its snapshot perhaps for the document.  *)
LEMMA DoneInOrder ==
  ASSUME IInv, InOrder, jobs # <<>>, Done, doc' = doc \/ doc' = Effect,
         UNCHANGED <<steps, pending>>
  PROVE  InOrder' /\ Behind(doc, doc')
<1>1. /\ DOMAIN jobs' = 1..(Len(jobs) - 1)
      /\ \A i \in DOMAIN jobs' : i + 1 \in DOMAIN jobs /\ jobs'[i] = jobs[i + 1]
      /\ 1 \in DOMAIN jobs /\ Job = jobs[1] /\ Job \in Jobs
      /\ DOMAIN jobs = 1..Len(jobs) /\ Len(jobs) \in Nat
  BY QueueTail DEF IInv, TypeOK, Done, Job
<1>2. CASE doc' = doc
  <2>1. Behind(doc, doc)
    BY CheckpointAssumption DEF IInv, TypeOK, Behind, Snapshots, CheckpointAssumption
  <2> QED BY <1>1, <1>2, <2>1 DEF InOrder, Reflected, Behind
<1>3. CASE doc' = None
  BY <1>1, <1>3 DEF InOrder, Reflected, Behind
<1>4. CASE Job.op = "write" /\ doc' = Job.of
  BY <1>1, <1>4 DEF InOrder, Reflected, Behind
<1> QED BY <1>2, <1>3, <1>4 DEF Effect

LEMMA NextInOrder ==
  ASSUME IInv, InOrder, [Next]_vars
  PROVE  InOrder' /\ Behind(doc, doc')
<1>0. Behind(doc, doc)
  BY CheckpointAssumption DEF IInv, TypeOK, Behind, Snapshots, CheckpointAssumption
<1>1. ASSUME NEW t \in Turns, Start(t) \/ Schedule(t) \/ Clear(t) \/ Leave(t)
      PROVE  InOrder' /\ Behind(doc, doc')
  BY <1>0, <1>1, TurnInOrder
<1>2. CASE Fire
  BY <1>0, <1>2, FireInOrder
<1>3. CASE Decline \/ Store \/ Fail
  <2>1. jobs # <<>> /\ Done /\ (doc' = doc \/ doc' = Effect) /\ UNCHANGED <<steps, pending>>
    BY <1>3 DEF Decline, Store, Fail, IInv, TypeOK
  <2> QED BY <2>1, DoneInOrder
<1>4. CASE Draft \/ Conflict \/ UNCHANGED vars
  <2>1. UNCHANGED <<steps, pending, jobs, doc>>
    BY <1>4 DEF Draft, Conflict, vars
  <2> QED BY <1>0, <2>1 DEF InOrder, Reflected, Behind
<1>5. CASE Restart
  BY <1>0, <1>5 DEF Restart, InOrder, Reflected, Behind
<1> QED BY <1>1, <1>2, <1>3, <1>4, <1>5 DEF Next

(* The document goes from a snapshot of a turn to a later one, never to an *)
(* earlier one: whatever conflicts, fails, or is asked for by other turns. *)
THEOREM OnlyLaterSnapshots == Spec => SnapshotsAdvance
<1>1. IInv /\ InOrder /\ [Next]_vars => InOrder'
  BY NextInOrder
<1>2. ASSUME IInv, InOrder, [Next]_vars
      PROVE  [doc # None /\ doc' # None /\ doc'.turn = doc.turn => doc'.steps >= doc.steps]_vars
  <2>1. Behind(doc, doc') /\ IInv'
    BY <1>2, NextInOrder, NextKeeps
  <2> QED BY <1>2, <2>1, CheckpointAssumption
          DEF Behind, IInv, TypeOK, Snapshots, CheckpointAssumption
<1> QED BY <1>1, <1>2, InitInOrder, InitInv, NextKeeps, PTL DEF Spec, SnapshotsAdvance

-----------------------------------------------------------------------------
(* The last step of an undisturbed turn, from the timer to the document.   *)
(* Nobody else joins the queue after it, and nobody sets the flag.         *)
Undisturbed(t) == Running(t) /\ steps[t] > 0 /\ t \notin disturbed /\ faults = 0

Last(q) == q[Len(q)]

OnItsWay(t) ==
  /\ ~finished
  /\ \/ pending = Snapshot(t)
     \/ pending = None /\ jobs # <<>> /\ Last(jobs) = WriteOf(Snapshot(t))
     \/ pending = None /\ jobs = <<>> /\ doc = Snapshot(t)

AllOnTheirWay ==
  /\ \A t \in Turns : stage[t] = "new" => steps[t] = 0
  /\ \A t \in Turns : Undisturbed(t) => OnItsWay(t)

LEMMA InitOnTheirWay == Init => AllOnTheirWay
BY DEF Init, AllOnTheirWay, Undisturbed, Running

LEMMA NextOnTheirWay ==
  ASSUME IInv, AllOnTheirWay, [Next]_vars
  PROVE  AllOnTheirWay'
<1> USE DEF IInv
<1>1. ASSUME NEW u \in Turns, Schedule(u) \/ Clear(u) PROVE AllOnTheirWay'
  <2>1. /\ stage' = stage \/ stage' = [stage EXCEPT ![u] = "cleared"]
        /\ steps' = steps \/ steps' = [steps EXCEPT ![u] = @ + 1]
        /\ stage[u] = "running" /\ disturbed' = disturbed \cup Others(u)
    BY <1>1 DEF Schedule, Clear, Running
  <2>2. \A t \in Turns : stage'[t] = "new" => steps'[t] = 0
    BY <2>1 DEF AllOnTheirWay, TypeOK
  <2>3. ASSUME NEW t \in Turns, Undisturbed(t)' PROVE t = u /\ Schedule(u)
    <3>1. stage'[t] = "running" /\ t \notin Others(u)
      BY <2>1, <2>3 DEF Undisturbed, Running
    <3>2. stage[t] = "running"
      BY <2>1, <3>1 DEF TypeOK
    <3>3. t = u
      BY <3>1, <3>2 DEF Others, Running
    <3> QED BY <1>1, <3>1, <3>3 DEF Clear, TypeOK
  <2>4. Schedule(u) => OnItsWay(u)'
    BY DEF Schedule, OnItsWay
  <2> QED BY <2>2, <2>3, <2>4 DEF AllOnTheirWay
<1>2. ASSUME NEW u \in Turns, Start(u) \/ Leave(u) PROVE AllOnTheirWay'
  <2>1. /\ \/ stage' = [stage EXCEPT ![u] = "running"] /\ stage[u] = "new"
           \/ stage' = [stage EXCEPT ![u] = "gone"]
        /\ UNCHANGED <<steps, pending, finished, jobs, doc, disturbed, faults>>
    BY <1>2 DEF Start, Leave, history
  <2>2. \A t \in Turns : Undisturbed(t)' => Undisturbed(t)
    BY <2>1 DEF Undisturbed, Running, AllOnTheirWay, TypeOK
  <2>3. \A t \in Turns : stage'[t] = "new" => stage[t] = "new"
    BY <2>1 DEF TypeOK
  <2>4. \A t \in Turns : OnItsWay(t) => OnItsWay(t)'
    BY <2>1 DEF OnItsWay, Snapshot
  <2> QED BY <2>1, <2>2, <2>3, <2>4 DEF AllOnTheirWay
<1>3. CASE Fire
  <2>1. /\ jobs' = Append(jobs, WriteOf(pending)) /\ pending' = None /\ pending # None
        /\ jobs \in Seq(Jobs) /\ WriteOf(pending) \in Jobs
        /\ UNCHANGED <<stage, steps, finished, disturbed, faults>>
    BY <1>3 DEF Fire, TypeOK, Jobs, history
  <2>2. jobs' # <<>> /\ Last(jobs') = WriteOf(pending)
    BY <2>1 DEF Last
  <2>3. \A t \in Turns : OnItsWay(t) => OnItsWay(t)'
    BY <2>1, <2>2 DEF OnItsWay, Snapshot
  <2> QED BY <2>1, <2>3 DEF AllOnTheirWay, Undisturbed, Running
<1>4. CASE Decline \/ Store
  <2>1. /\ jobs # <<>> /\ Done
        /\ UNCHANGED <<stage, steps, pending, finished, disturbed, faults>>
    BY <1>4 DEF Decline, Store, TypeOK
  <2>2. /\ jobs' = Tail(jobs) /\ Job = jobs[1] /\ jobs \in Seq(Jobs)
        /\ Len(jobs) = 1 => jobs' = <<>> /\ Last(jobs) = Job
        /\ Len(jobs) # 1 => jobs' # <<>> /\ Last(jobs') = Last(jobs)
    <3>1. /\ jobs' = Tail(jobs) /\ jobs \in Seq(Jobs) /\ jobs' \in Seq(Jobs) /\ Job = jobs[1]
          /\ DOMAIN jobs' = 1..(Len(jobs) - 1)
          /\ \A i \in DOMAIN jobs' : jobs'[i] = jobs[i + 1]
          /\ Len(jobs) \in Nat \ {0}
      BY <2>1, QueueTail DEF Done, TypeOK, Job
    <3>2. Len(jobs') = Len(jobs) - 1
      BY <3>1
    <3> QED BY <3>1, <3>2 DEF Last
  <2>3. ASSUME NEW t \in Turns, OnItsWay(t) PROVE OnItsWay(t)'
    <3>1. CASE pending = Snapshot(t)
      BY <2>1, <2>3, <3>1 DEF OnItsWay, Snapshot
    <3>2. CASE pending = None /\ Last(jobs) = WriteOf(Snapshot(t)) /\ Len(jobs) # 1
      BY <2>1, <2>2, <2>3, <3>2 DEF OnItsWay, Snapshot
    <3>3. CASE pending = None /\ Last(jobs) = WriteOf(Snapshot(t)) /\ Len(jobs) = 1
      <4>1. Job.op = "write" /\ Job.of = Snapshot(t)
        BY <2>2, <3>3 DEF WriteOf
      <4>2. doc' = Snapshot(t)
        BY <1>4, <2>3, <4>1 DEF Decline, Store, Effect, OnItsWay
      <4> QED BY <2>1, <2>2, <2>3, <3>3, <4>2 DEF OnItsWay, Snapshot
    <3> QED BY <2>1, <2>3, <3>1, <3>2, <3>3 DEF OnItsWay
  <2> QED BY <2>1, <2>3 DEF AllOnTheirWay, Undisturbed, Running
<1>5. CASE Draft \/ UNCHANGED vars
  <2>1. UNCHANGED <<stage, steps, pending, finished, jobs, doc, disturbed, faults>>
    BY <1>5 DEF Draft, vars, history
  <2> QED BY <2>1 DEF AllOnTheirWay, Undisturbed, Running, OnItsWay, Snapshot
<1>6. CASE Conflict \/ Fail \/ Restart
  <2>1. faults' # 0
    BY <1>6, CheckpointAssumption DEF Conflict, Fail, Restart, TypeOK, CheckpointAssumption
  <2>2. \A t \in Turns : stage'[t] = "new" => stage[t] = "new"
    BY <1>6 DEF Conflict, Fail, Restart, TypeOK, Running
  <2>3. steps' = steps
    BY <1>6 DEF Conflict, Fail, Restart
  <2> QED BY <2>1, <2>2, <2>3 DEF AllOnTheirWay, Undisturbed
<1> QED BY <1>1, <1>2, <1>3, <1>4, <1>5, <1>6 DEF Next

(* What earlier turns left behind, flag, timer or waiting clear, does not  *)
(* cost a turn the checkpoint of its last reflected step.                  *)
THEOREM CheckpointIsKept == Spec => []SnapshotKept
<1>1. IInv /\ AllOnTheirWay => SnapshotKept
  <2> SUFFICES ASSUME IInv, AllOnTheirWay, NEW t \in Turns, Undisturbed(t)
               PROVE  \/ pending = Snapshot(t)
                      \/ ~finished /\ \E i \in DOMAIN jobs : jobs[i] = WriteOf(Snapshot(t))
                      \/ doc = Snapshot(t) /\ \A i \in DOMAIN jobs : jobs[i].op # "clear"
    BY DEF SnapshotKept, Undisturbed
  <2>1. jobs # <<>> => Len(jobs) \in DOMAIN jobs
    BY DEF IInv, TypeOK
  <2> QED BY <2>1 DEF AllOnTheirWay, OnItsWay, Last
<1>2. IInv /\ AllOnTheirWay /\ [Next]_vars => AllOnTheirWay'
  BY NextOnTheirWay
<1> QED BY <1>1, <1>2, InitOnTheirWay, InitInv, NextKeeps, PTL DEF Spec
=============================================================================
