----------------------------- MODULE SessionLock -----------------------------
(***************************************************************************)
(* withSessionWriteLock (src/server/lib/sessionWriteLock.ts): one promise  *)
(* chain per session, kept in a map of one Node process.                   *)
(*                                                                         *)
(* A call looks up the promise at the end of its session's chain, puts its *)
(* own promise there in the same synchronous stretch, and runs its fn once *)
(* the promise it found has settled, whatever the outcome.  The set of     *)
(* sessions held by an asynchronous context travels with the context       *)
(* (AsyncLocalStorage): into what fn awaits, and also into the timers and  *)
(* fire-and-forget work that fn leaves behind.                             *)
(***************************************************************************)
EXTENDS Naturals

CONSTANTS
  Calls,      \* invocations of withSessionWriteLock, each made at most once
  Sessions,   \* session ids
  None,       \* no call
  Nests,      \* pairs <<outer, inner>>: a fn on outer may await a call on inner
  Detaches    \* TRUE iff a fn may leave work behind that nobody awaits

ASSUME ConstantsAssumption ==
  /\ None \notin Calls
  /\ Nests \subseteq Sessions \X Sessions
  /\ Detaches \in BOOLEAN

VARIABLES
  pc,         \* pc[c]: where call c stands
  sess,       \* sess[c]: the session c was made on
  previous,   \* previous[c]: the call whose promise c found in the map
  held,       \* held[c]: the sessions held in the context of c's fn
  awaiters,   \* awaiters[c]: the calls whose fn is suspended until c returns
  result,     \* result[c]: how c's fn ended
  chain,      \* chain[s]: the call whose promise sessionWriteChain maps s to
  ticket,     \* history: ticket[c] is the position of c among the calls on s
  tickets     \* history: tickets[s] is the number of calls accepted on s

vars == <<pc, sess, previous, held, awaiters, result, chain, ticket, tickets>>

PcValues == {"idle", "waiting", "running", "settled", "returned", "refused"}

Accepted(c) == pc[c] \in {"waiting", "running", "settled", "returned"}
Started(c)  == pc[c] \in {"running", "settled", "returned"}
Settled(c)  == pc[c] \in {"settled", "returned"}
Over(c)     == pc[c] \in {"returned", "refused"}

Init ==
  /\ pc = [c \in Calls |-> "idle"]
  /\ sess \in [Calls -> Sessions]
  /\ previous = [c \in Calls |-> None]
  /\ held = [c \in Calls |-> {}]
  /\ awaiters = [c \in Calls |-> {}]
  /\ result = [c \in Calls |-> "none"]
  /\ chain = [s \in Sessions |-> None]
  /\ ticket = [c \in Calls |-> 0]
  /\ tickets = [s \in Sessions |-> 0]

-----------------------------------------------------------------------------
(* Operators named Mutant... are operations as a plausible slip would have *)
(* written them.  Nothing below uses them: they are there to show that the *)
(* properties notice.                                                      *)

(* The synchronous part of the call: the re-entrancy guard, or the look-up *)
(* and the replacement of the map entry.  "ctx" is the set of sessions     *)
(* held by the calling context, "suspended" the calls that await this one. *)
Enter(c, ctx, suspended) ==
  LET s == sess[c] IN
  /\ pc[c] = "idle"
  /\ awaiters' = [awaiters EXCEPT ![c] = suspended]
  /\ IF s \in ctx
     THEN /\ pc' = [pc EXCEPT ![c] = "refused"]
          /\ UNCHANGED <<previous, held, chain, ticket, tickets>>
     ELSE /\ previous' = [previous EXCEPT ![c] = chain[s]]
          /\ pc' = [pc EXCEPT ![c] = IF chain[s] = None THEN "running" ELSE "waiting"]
          /\ chain' = [chain EXCEPT ![s] = c]
          /\ held' = [held EXCEPT ![c] = ctx \cup {s}]
          /\ ticket' = [ticket EXCEPT ![c] = tickets[s] + 1]
          /\ tickets' = [tickets EXCEPT ![s] = @ + 1]
  /\ UNCHANGED <<sess, result>>

(* A request handler or a timer outside every lock makes the call. *)
CallFromOutside(c) == Enter(c, {}, {})

(* The fn of p makes the call and awaits it. *)
CallNested(c, p) ==
  /\ pc[p] = "running"
  /\ sess[c] = sess[p] \/ <<sess[p], sess[c]>> \in Nests
  /\ Enter(c, held[p], awaiters[p] \cup {p})

(* Work that the fn of p started and did not await (void promise, timer,   *)
(* setImmediate) makes the call: p may be long over, its context is not.   *)
CallDetached(c, p) ==
  /\ Detaches
  /\ Started(p)
  /\ Enter(c, held[p], {})

(* fn does not await the previous promise. *)
MutantStartAtOnce(c) ==
  /\ pc[c] = "waiting"
  /\ pc' = [pc EXCEPT ![c] = "running"]
  /\ UNCHANGED <<sess, previous, held, awaiters, result, chain, ticket, tickets>>

(* No catch around the await: a failure keeps the next fn from running. *)
MutantStartAfterSuccess(c) ==
  /\ MutantStartAtOnce(c)
  /\ result[previous[c]] = "ok"

(* The awaited promise has settled, either way: fn starts. *)
Start(c) ==
  /\ pc[c] = "waiting"
  /\ Settled(previous[c])
  /\ pc' = [pc EXCEPT ![c] = "running"]
  /\ UNCHANGED <<sess, previous, held, awaiters, result, chain, ticket, tickets>>

(* fn resolves or throws, once the calls it awaits are over. *)
Settle(c, r) ==
  /\ pc[c] = "running"
  /\ \A d \in Calls : c \in awaiters[d] => Over(d)
  /\ pc' = [pc EXCEPT ![c] = "settled"]
  /\ result' = [result EXCEPT ![c] = r]
  /\ UNCHANGED <<sess, previous, held, awaiters, chain, ticket, tickets>>

(* The entry goes whoever set it. *)
MutantReturnAlwaysDeletes(c) ==
  /\ pc[c] = "settled"
  /\ pc' = [pc EXCEPT ![c] = "returned"]
  /\ chain' = [chain EXCEPT ![sess[c]] = None]
  /\ UNCHANGED <<sess, previous, held, awaiters, result, ticket, tickets>>

(* The clean-up sits after the await instead of in a finally block. *)
MutantReturnDeletesOnSuccess(c) ==
  /\ pc[c] = "settled"
  /\ pc' = [pc EXCEPT ![c] = "returned"]
  /\ chain' = [chain EXCEPT ![sess[c]] = IF @ = c /\ result[c] = "ok" THEN None ELSE @]
  /\ UNCHANGED <<sess, previous, held, awaiters, result, ticket, tickets>>

(* The finally block: drop the map entry unless a later call replaced it. *)
Return(c) ==
  /\ pc[c] = "settled"
  /\ pc' = [pc EXCEPT ![c] = "returned"]
  /\ chain' = [chain EXCEPT ![sess[c]] = IF @ = c THEN None ELSE @]
  /\ UNCHANGED <<sess, previous, held, awaiters, result, ticket, tickets>>

Next ==
  \E c \in Calls :
    \/ CallFromOutside(c)
    \/ \E p \in Calls : CallNested(c, p) \/ CallDetached(c, p)
    \/ Start(c)
    \/ \E r \in {"ok", "error"} : Settle(c, r)
    \/ Return(c)

(* The runtime runs every ready continuation, and every fn ends: its reads, *)
(* writes and model calls all carry timeouts.                               *)
Fairness ==
  \A c \in Calls :
    /\ WF_vars(Start(c))
    /\ WF_vars(\E r \in {"ok", "error"} : Settle(c, r))
    /\ WF_vars(Return(c))

Spec == Init /\ [][Next]_vars /\ Fairness

-----------------------------------------------------------------------------
TypeOK ==
  /\ pc \in [Calls -> PcValues]
  /\ sess \in [Calls -> Sessions]
  /\ previous \in [Calls -> Calls \cup {None}]
  /\ held \in [Calls -> SUBSET Sessions]
  /\ awaiters \in [Calls -> SUBSET Calls]
  /\ result \in [Calls -> {"none", "ok", "error"}]
  /\ chain \in [Sessions -> Calls \cup {None}]
  /\ ticket \in [Calls -> Nat]
  /\ tickets \in [Sessions -> Nat]

(* The critical sections of one session never overlap: at most one fn per  *)
(* session runs in the process.  This is what every read-modify-write of a *)
(* chat document behind withSessionWriteLock relies on.                    *)
MutualExclusion ==
  \A c, d \in Calls :
    c # d /\ sess[c] = sess[d] /\ pc[c] = "running" => pc[d] # "running"

(* Writers are served in the order in which they called: a fn starts only  *)
(* when the fn of every earlier call on its session has settled, although  *)
(* a call looks no further back than the one promise it found in the map.  *)
ServedInOrder ==
  \A c, d \in Calls :
    /\ sess[c] = sess[d] /\ Accepted(c) /\ Started(d)
    /\ ticket[c] < ticket[d]
    => Settled(c)

(* The map does not leak: when nothing is pending on a session, its entry  *)
(* is gone, even though a call only deletes the entry it set itself.       *)
MapDrained ==
  \A s \in Sessions :
    (\A c \in Calls : sess[c] = s => pc[c] = "idle" \/ Over(c)) => chain[s] = None

(* A queued call is eventually served, whatever became of those before it: *)
(* a failed fn does not poison the chain, and nobody waits in a circle,    *)
(* not even when the locks of different sessions are nested.               *)
EveryCallIsServed == \A c \in Calls : pc[c] = "waiting" ~> Started(c)

(* The promise chain is a first-come first-served mutex per session: its   *)
(* queue are the calls with a ticket above the last one that was served.   *)
LastServed(s, n) ==
  /\ \A c \in Calls : sess[c] = s /\ Started(c) => ticket[c] <= n
  /\ n = 0 \/ \E c \in Calls : sess[c] = s /\ Started(c) /\ ticket[c] = n

Served(s) == CHOOSE n \in 0 .. tickets[s] : LastServed(s, n)

QueueOf(s) ==
  [i \in 1 .. tickets[s] - Served(s) |->
     CHOOSE c \in Calls : sess[c] = s /\ Accepted(c) /\ ticket[c] = Served(s) + i]

HolderOf(s) ==
  LET open == {c \in Calls : sess[c] = s /\ pc[c] = "running"}
  IN  IF open = {} THEN None ELSE CHOOSE c \in open : TRUE

Mutex == INSTANCE SessionMutex
  WITH queue <- [s \in Sessions |-> QueueOf(s)],
       holder <- [s \in Sessions |-> HolderOf(s)]

(* withSessionWriteLock implements the mutex, its liveness included.       *)
ImplementsMutex == Mutex!MutexSpec
=============================================================================
