---------------------------- MODULE SessionMutex ----------------------------
(***************************************************************************)
(* What the per-session write lock promises, without the promise chain     *)
(* that provides it: calls on one session are served one at a time, in     *)
(* the order in which they were made, and each of them is served.          *)
(*                                                                         *)
(* SessionLock implements this specification.                              *)
(***************************************************************************)
EXTENDS Naturals, Sequences

CONSTANTS
  Calls,      \* the invocations of the lock
  Sessions,   \* the session ids
  None        \* no call

VARIABLES
  queue,      \* queue[s]: the calls on s not served yet, oldest first
  holder      \* holder[s]: the call whose critical section is open, or None

mutexVars == <<queue, holder>>

MutexInit ==
  /\ queue = [s \in Sessions |-> <<>>]
  /\ holder = [s \in Sessions |-> None]

(* A call is made while another is being served, or while one waits. *)
Request(c, s) ==
  /\ c # holder[s]
  /\ \A i \in 1..Len(queue[s]) : queue[s][i] # c
  /\ queue' = [queue EXCEPT ![s] = Append(@, c)]
  /\ UNCHANGED holder

(* A call is made on a session nobody uses: it is served at once. *)
RequestFree(c, s) ==
  /\ holder[s] = None /\ queue[s] = <<>>
  /\ holder' = [holder EXCEPT ![s] = c]
  /\ UNCHANGED queue

Serve(s) ==
  /\ holder[s] = None /\ queue[s] # <<>>
  /\ holder' = [holder EXCEPT ![s] = Head(queue[s])]
  /\ queue' = [queue EXCEPT ![s] = Tail(@)]

Release(s) ==
  /\ holder[s] # None
  /\ holder' = [holder EXCEPT ![s] = None]
  /\ UNCHANGED queue

MutexNext ==
  \E s \in Sessions :
    \/ \E c \in Calls : Request(c, s) \/ RequestFree(c, s)
    \/ Serve(s)
    \/ Release(s)

MutexSafe == MutexInit /\ [][MutexNext]_mutexVars

MutexSpec ==
  /\ MutexSafe
  /\ \A s \in Sessions : WF_mutexVars(Serve(s)) /\ WF_mutexVars(Release(s))
=============================================================================
