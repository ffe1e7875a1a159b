------------------------------ MODULE ChatStore ------------------------------
(***************************************************************************)
(* One chat document (src/server/models/chat.model.ts): stored in Cosmos   *)
(* with an etag, cached for five seconds in every server instance, read    *)
(* and rewritten whole by many operations.                                 *)
(*                                                                         *)
(* What an operation changes in the document is abstracted to an edit that *)
(* bears its name: the document is the set of edits it carries.  Documents *)
(* are objects in the memory of an instance, and the cache hands out the   *)
(* object itself, so an operation edits what others may be holding.        *)
(***************************************************************************)
EXTENDS Naturals, Sequences

CONSTANTS
  Ops,          \* operations on the document, each performed at most once
  Instances,    \* server processes
  None,         \* no object, no request
  Deployments,  \* where the operations may run, see below
  MaxRetries    \* attempts of mutateChatDocument (3 in the code)

(* "mutate": mutateChatDocument - lock, fresh read, conditional upsert     *)
(* "locked": withSessionWriteLock, cached read, unconditional upsert       *)
(* "bare":   cached read and unconditional upsert, no lock                 *)
(* "reader": getChatBySessionIdEfficient alone                             *)
AllKinds == {"mutate", "locked", "bare", "reader"}

(* A deployment: the kinds of operation that occur, the instances they run *)
(* in, and how often the store may fail or an instance restart (a bound).  *)
AllDeployments == [kinds : SUBSET AllKinds, homes : SUBSET Instances, faults : Nat]

Documents == [etag : Nat, edits : SUBSET Ops]

ASSUME StoreAssumption ==
  /\ Deployments \subseteq AllDeployments
  /\ None \notin Documents
  /\ MaxRetries \in Nat \ {0}

VARIABLES
  kind,      \* kind[p], home[p]: what p is and the instance it runs in
  home,
  pc,        \* pc[p]: where p stands
  attempt,   \* attempt[p]: fetches made by p
  ref,       \* ref[p]: the object p works on
  obj,       \* obj[o]: the document in object o
  cache,     \* cache[i]: the object in sessionDocCache of instance i, or None
  queue,     \* queue[i]: the lock of the session in i, its holder first
  request,   \* request[p]: the document p sent to Cosmos and Cosmos has not seen
  db,        \* the stored document
  outcome,   \* outcome[p]: how p ended
  faults     \* failures still to come

vars == <<kind, home, pc, attempt, ref, obj, cache, queue, request, db, outcome, faults>>

(* <<p, n>> is the object of p's n-th fetch, <<p, 0>> that of its upsert. *)
Objects == Ops \X (0..MaxRetries)

Writer(p) == kind[p] # "reader"
Locking(p) == kind[p] \in {"mutate", "locked"}

HasLock(p) == Locking(p) => queue[home[p]] # <<>> /\ Head(queue[home[p]]) = p

Init ==
  /\ \E d \in Deployments :
       /\ kind \in [Ops -> d.kinds]
       /\ home \in [Ops -> d.homes]
       /\ faults = d.faults
  /\ pc = [p \in Ops |-> "idle"]
  /\ attempt = [p \in Ops |-> 0]
  /\ ref = [p \in Ops |-> None]
  /\ obj = [o \in Objects |-> [etag |-> 0, edits |-> {}]]
  /\ cache = [i \in Instances |-> None]
  /\ queue = [i \in Instances |-> <<>>]
  /\ request = [p \in Ops |-> None]
  /\ db = [etag |-> 0, edits |-> {}]
  /\ outcome = [p \in Ops |-> "none"]

-----------------------------------------------------------------------------
(* p returns or throws; the lock passes on. *)
Finish(p, o) ==
  /\ pc' = [pc EXCEPT ![p] = "over"]
  /\ outcome' = [outcome EXCEPT ![p] = o]
  /\ queue' = [queue EXCEPT ![home[p]] = IF Locking(p) THEN Tail(@) ELSE @]

Call(p) ==
  /\ pc[p] = "idle"
  /\ pc' = [pc EXCEPT ![p] = "start"]
  /\ queue' = [queue EXCEPT ![home[p]] = IF Locking(p) THEN Append(@, p) ELSE @]
  /\ UNCHANGED <<kind, home, attempt, ref, obj, cache, request, db, outcome, faults>>

(* p has its document: a mere reader is done. *)
HaveDocument(p, o) ==
  /\ ref' = [ref EXCEPT ![p] = o]
  /\ IF Writer(p)
     THEN pc' = [pc EXCEPT ![p] = "read"] /\ UNCHANGED <<outcome, queue>>
     ELSE Finish(p, "ok")

(* A read that is not forced to refresh takes the cached object itself. *)
ReadCached(p) ==
  /\ pc[p] = "start" /\ HasLock(p)
  /\ kind[p] # "mutate"
  /\ cache[home[p]] # None
  /\ HaveDocument(p, cache[home[p]])
  /\ UNCHANGED <<kind, home, attempt, obj, cache, request, db, faults>>

(* Cosmos answers the query of p; the answer is on its way. *)
Fetch(p) ==
  /\ pc[p] = "start" /\ HasLock(p)
  /\ kind[p] = "mutate" \/ cache[home[p]] = None
  /\ pc' = [pc EXCEPT ![p] = "fetching"]
  /\ attempt' = [attempt EXCEPT ![p] = @ + 1]
  /\ obj' = [obj EXCEPT ![<<p, attempt[p] + 1>>] = db]
  /\ UNCHANGED <<kind, home, ref, cache, queue, request, db, outcome, faults>>

(* The answer arrives: whatever the cache holds by now, it is replaced. *)
Fetched(p) ==
  /\ pc[p] = "fetching"
  /\ cache' = [cache EXCEPT ![home[p]] = <<p, attempt[p]>>]
  /\ HaveDocument(p, <<p, attempt[p]>>)
  /\ UNCHANGED <<kind, home, attempt, obj, request, db, faults>>

(* The operation changes the object in place ... *)
Edit(p) ==
  /\ pc[p] = "read"
  /\ pc' = [pc EXCEPT ![p] = "edited"]
  /\ obj' = [obj EXCEPT ![ref[p]].edits = @ \cup {p}]
  /\ UNCHANGED <<kind, home, attempt, ref, cache, queue, request, db, outcome, faults>>

(* The mutator's refusal is looked at after the upsert. *)
MutantDeclineAfterStore(p) ==
  /\ pc[p] = "stored"
  /\ Finish(p, "unchanged")
  /\ UNCHANGED <<kind, home, attempt, ref, obj, cache, request, db, faults>>

(* ... or finds nothing to change: the mutator returned false.  Every       *)
(* mutator that does so decides before its first change of the object.     *)
Decline(p) ==
  /\ pc[p] = "read"
  /\ Finish(p, "unchanged")
  /\ UNCHANGED <<kind, home, attempt, ref, obj, cache, request, db, faults>>

(* updateChatDocument: the document is serialised and sent ... *)
Send(p) ==
  /\ pc[p] = "edited"
  /\ pc' = [pc EXCEPT ![p] = "sent"]
  /\ request' = [request EXCEPT ![p] = obj[ref[p]]]
  /\ UNCHANGED <<kind, home, attempt, ref, obj, cache, queue, db, outcome, faults>>

(* ... and Cosmos stores it under a new etag, *)
MutantAcceptsAnyEtag(p) == request[p] # None   \* no IfMatch header

Accepts(p) == kind[p] = "mutate" => request[p].etag = db.etag

Write(p) ==
  /\ db' = [etag |-> db.etag + 1, edits |-> request[p].edits]
  /\ request' = [request EXCEPT ![p] = None]

Store(p) ==
  /\ pc[p] = "sent"
  /\ Accepts(p)
  /\ Write(p)
  /\ obj' = [obj EXCEPT ![<<p, 0>>] = db']
  /\ pc' = [pc EXCEPT ![p] = "stored"]
  /\ UNCHANGED <<kind, home, attempt, ref, cache, queue, outcome, faults>>

(* or answers 412 when the etag it was sent is not the current one:        *)
(* the cache entry goes and the mutator runs again on a fresh read.        *)
Conflict(p) ==
  /\ pc[p] = "sent"
  /\ ~ Accepts(p)
  /\ request' = [request EXCEPT ![p] = None]
  /\ IF attempt[p] < MaxRetries
     THEN /\ cache' = [cache EXCEPT ![home[p]] = None]
          /\ pc' = [pc EXCEPT ![p] = "start"]
          /\ UNCHANGED <<queue, outcome>>
     ELSE Finish(p, "conflict") /\ UNCHANGED cache
  /\ UNCHANGED <<kind, home, attempt, ref, obj, db, faults>>

(* The stored document comes back and becomes the cached one. *)
Stored(p) ==
  /\ pc[p] = "stored"
  /\ cache' = [cache EXCEPT ![home[p]] = <<p, 0>>]
  /\ Finish(p, "ok")
  /\ UNCHANGED <<kind, home, attempt, ref, obj, request, db, faults>>

-----------------------------------------------------------------------------
(* An entry outlives its five seconds, or an operation elsewhere drops it. *)
Expire(i) ==
  /\ cache[i] # None
  /\ cache' = [cache EXCEPT ![i] = None]
  /\ UNCHANGED <<kind, home, pc, attempt, ref, obj, queue, request, db, outcome, faults>>

(* A read, the mutator, the size check or an upsert throws; what the        *)
(* mutator did stays in the object.  The upsert may be lost, still under    *)
(* way, or stored with its answer lost; the caller cannot tell.             *)
Fault(p) ==
  /\ pc[p] \in {"fetching", "read", "edited", "sent", "stored"}
  /\ faults > 0
  /\ faults' = faults - 1
  /\ Finish(p, "error")
  /\ UNCHANGED <<kind, home, attempt, ref, obj, cache, request, db>>

(* The instance dies with its cache, its lock and its operations. *)
Crash(i) ==
  /\ faults > 0
  /\ faults' = faults - 1
  /\ cache' = [cache EXCEPT ![i] = None]
  /\ queue' = [queue EXCEPT ![i] = <<>>]
  /\ LET gone == {p \in Ops : home[p] = i /\ pc[p] \notin {"idle", "over"}} IN
     /\ pc' = [p \in Ops |-> IF p \in gone THEN "over" ELSE pc[p]]
     /\ outcome' = [p \in Ops |-> IF p \in gone THEN "lost" ELSE outcome[p]]
  /\ UNCHANGED <<kind, home, attempt, ref, obj, request, db>>

(* A request whose sender gave up or died reaches Cosmos after all. *)
StoreLate(p) ==
  /\ pc[p] = "over" /\ request[p] # None
  /\ Accepts(p)
  /\ Write(p)
  /\ UNCHANGED <<kind, home, pc, attempt, ref, obj, cache, queue, outcome, faults>>

Next ==
  \/ \E p \in Ops :
       \/ Call(p) \/ ReadCached(p) \/ Fetch(p) \/ Fetched(p)
       \/ Edit(p) \/ Decline(p) \/ Send(p)
       \/ Store(p) \/ Conflict(p) \/ Stored(p)
       \/ Fault(p) \/ StoreLate(p)
  \/ \E i \in Instances : Expire(i) \/ Crash(i)

Spec == Init /\ [][Next]_vars

-----------------------------------------------------------------------------
PcValues == {"idle", "start", "fetching", "read", "edited", "sent", "stored", "over"}
Outcomes == {"none", "ok", "unchanged", "conflict", "error", "lost"}

TypeOK ==
  /\ kind \in [Ops -> AllKinds]
  /\ home \in [Ops -> Instances]
  /\ pc \in [Ops -> PcValues]
  /\ attempt \in [Ops -> 0..MaxRetries]
  /\ ref \in [Ops -> Objects \cup {None}]
  /\ obj \in [Objects -> Documents]
  /\ cache \in [Instances -> Objects \cup {None}]
  /\ queue \in [Instances -> Seq(Ops)]
  /\ request \in [Ops -> Documents \cup {None}]
  /\ db \in Documents
  /\ outcome \in [Ops -> Outcomes]
  /\ faults \in Nat

(* An update reported as saved is in the stored document and stays there,  *)
(* whatever other writers, instances, failures and restarts do.            *)
NoLostUpdate == \A p \in Ops : Writer(p) /\ outcome[p] = "ok" => p \in db.edits

(* An operation that declined, or gave up on conflicts, leaves no trace in *)
(* the stored document, although the edit that was refused sat in an       *)
(* object the cache had handed to others.                                  *)
RejectedLeavesNoTrace ==
  \A p \in Ops : outcome[p] \in {"unchanged", "conflict"} => p \notin db.edits

(* Read-modify-writes behave as if each took effect at one instant.        *)
Document == INSTANCE AtomicDocument
  WITH applied <- db.edits,
       confirmed <- {p \in Ops : Writer(p) /\ outcome[p] = "ok"}

ImplementsAtomicDocument == Document!DocSpec
=============================================================================
