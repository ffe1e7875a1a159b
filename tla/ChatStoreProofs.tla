--------------------------- MODULE ChatStoreProofs ---------------------------
(***************************************************************************)
(* The chat document for any number of operations, attempts and edits, in  *)
(* the two deployments where its writers are safe.  Writers that all go    *)
(* through mutateChatDocument are safe in any number of instances, beside  *)
(* readers and whatever fails: the etag alone makes them atomic, the lock  *)
(* of an instance only saves conflicts.  Writers without the etag need     *)
(* that lock, one instance for all, and a cache that nobody else fills.    *)
(***************************************************************************)
EXTENDS ChatStore, SequenceTheorems, TLAPS

(* Every operation is a mutateChatDocument or a plain read, wherever it    *)
(* runs and whatever fails.                                                *)
Seam(d) == d.kinds \subseteq {"mutate", "reader"}

(* Every writer holds the lock, with or without the etag, and there is one *)
(* instance; it does not restart and no answer of the store is lost.       *)
LockedAlone(d) ==
  /\ d.kinds \subseteq {"mutate", "locked"}
  /\ \A i, j \in d.homes : i = j
  /\ d.faults = 0

SafeWriters == \A d \in Deployments : Seam(d) \/ LockedAlone(d)

-----------------------------------------------------------------------------
(* The seam and its readers. *)

SeamTypeOK ==
  /\ kind \in [Ops -> {"mutate", "reader"}]
  /\ home \in [Ops -> Instances]
  /\ pc \in [Ops -> PcValues]
  /\ attempt \in [Ops -> 0..MaxRetries]
  /\ ref \in [Ops -> Objects \cup {None}]
  /\ obj \in [Objects -> Documents]
  /\ cache \in [Instances -> Objects \cup {None}]
  /\ request \in [Ops -> Documents \cup {None}]
  /\ db \in Documents
  /\ outcome \in [Ops -> Outcomes]

(* A document that p may send: an old one, or the stored one up to p's own *)
(* edit.                                                                   *)
Based(d, p) ==
  /\ d.etag <= db.etag
  /\ d.etag = db.etag => d.edits \cup {p} = db.edits \cup {p}

(* While p is under way it works on an object of its own. *)
OwnObject ==
  \A p \in Ops :
    /\ pc[p] \in {"idle", "start"} => attempt[p] < MaxRetries
    /\ pc[p] \in {"fetching", "read", "edited"} =>
         /\ attempt[p] > 0
         /\ Based(obj[<<p, attempt[p]>>], p)
    /\ pc[p] \in {"read", "edited"} => ref[p] = <<p, attempt[p]>>
    /\ pc[p] = "edited" => p \in obj[<<p, attempt[p]>>].edits

(* A request on its way was made from such an object and carries p's edit. *)
RequestsBased ==
  \A p \in Ops :
    /\ pc[p] = "sent" => request[p] # None
    /\ request[p] # None =>
         /\ pc[p] \in {"sent", "over"}
         /\ outcome[p] \notin {"ok", "unchanged", "conflict"}
         /\ Based(request[p], p)
         /\ p \in request[p].edits
         /\ p \notin db.edits

(* An edit is stored only by a request that is no longer on its way. *)
StoredOnce ==
  \A p \in Ops :
    /\ p \in db.edits => pc[p] \in {"stored", "over"}
    /\ pc[p] = "stored" => p \in db.edits
    /\ outcome[p] # "none" => pc[p] = "over"

(* A reader never gets as far as a writer. *)
ReadersRead ==
  \A p \in Ops :
    kind[p] = "reader" =>
      /\ pc[p] \in {"idle", "start", "fetching", "over"}
      /\ request[p] = None

SeamInv ==
  /\ SeamTypeOK
  /\ OwnObject
  /\ RequestsBased
  /\ StoredOnce
  /\ ReadersRead
  /\ NoLostUpdate
  /\ RejectedLeavesNoTrace

USE DEF Objects, Documents, PcValues, Outcomes

-----------------------------------------------------------------------------
(* Locked writers in one instance: the one that holds the lock is alone,   *)
(* and what the cache holds between two of them is the stored document.    *)

UnderWay == {"fetching", "read", "edited", "sent", "stored"}

LockedTypeOK ==
  /\ kind \in [Ops -> {"mutate", "locked"}]
  /\ home \in [Ops -> Instances]
  /\ \A p, q \in Ops : home[p] = home[q]
  /\ pc \in [Ops -> PcValues]
  /\ attempt \in [Ops -> 0..MaxRetries]
  /\ ref \in [Ops -> Objects \cup {None}]
  /\ obj \in [Objects -> Documents]
  /\ cache \in [Instances -> Objects \cup {None}]
  /\ queue \in [Instances -> Seq(Ops)]
  /\ request \in [Ops -> Documents \cup {None}]
  /\ db \in Documents
  /\ outcome \in [Ops -> Outcomes]
  /\ faults = 0

(* Who is under way holds the lock. *)
OneUnderWay == \A p \in Ops : pc[p] \in UnderWay => HasLock(p)

(* The cache holds the stored document, or nothing, except from the edit   *)
(* of an operation to its end.                                             *)
CacheIsCurrent ==
  (\A p \in Ops : pc[p] \notin {"edited", "sent", "stored"}) =>
    \A p \in Ops : cache[home[p]] # None => obj[cache[home[p]]] = db

(* The stored document with the edit of p. *)
Edited(p) == [db EXCEPT !.edits = db.edits \cup {p}]

(* What an operation works on is the stored document up to its own edit.   *)
WorksOnCurrent(p) ==
  /\ pc[p] \in {"idle", "start"} => attempt[p] = 0
  /\ pc[p] = "fetching" => attempt[p] = 1 /\ obj[<<p, 1>>] = db
  /\ pc[p] \in {"read", "edited"} => ref[p] \in Objects
  /\ pc[p] = "read" => obj[ref[p]] = db
  /\ pc[p] = "edited" => obj[ref[p]] = Edited(p)
  /\ pc[p] = "sent" => request[p] = Edited(p)
  /\ pc[p] = "stored" => obj[<<p, 0>>] = db

(* An edit is stored at one instant and confirmed afterwards, and nothing  *)
(* is on its way once its sender is through.                               *)
StoredThenTold(p) ==
  /\ request[p] # None <=> pc[p] = "sent"
  /\ p \in db.edits <=> pc[p] = "stored" \/ outcome[p] = "ok"
  /\ outcome[p] # "none" => pc[p] = "over"
  /\ outcome[p] \in {"none", "ok", "unchanged"}

LockedInv ==
  /\ LockedTypeOK
  /\ OneUnderWay
  /\ CacheIsCurrent
  /\ \A p \in Ops : WorksOnCurrent(p) /\ StoredThenTold(p)

-----------------------------------------------------------------------------
LEMMA InitSafe ==
  ASSUME SafeWriters, Init
  PROVE  SeamInv \/ LockedInv
<1>1. PICK d \in Deployments :
        /\ kind \in [Ops -> d.kinds]
        /\ home \in [Ops -> d.homes]
        /\ faults = d.faults
  BY DEF Init
<1>2. CASE Seam(d)
  <2>1. /\ kind \in [Ops -> {"mutate", "reader"}]
        /\ home \in [Ops -> Instances]
    BY <1>1, <1>2, StoreAssumption DEF Seam, AllDeployments
  <2> QED
    BY <2>1, StoreAssumption
     DEF Init, SeamInv, SeamTypeOK, OwnObject, RequestsBased, StoredOnce, ReadersRead,
         NoLostUpdate, RejectedLeavesNoTrace, Based
<1>3. CASE LockedAlone(d)
  <2>1. /\ kind \in [Ops -> {"mutate", "locked"}]
        /\ home \in [Ops -> Instances]
        /\ \A p, q \in Ops : home[p] = home[q]
        /\ faults = 0
    <3>1. d.homes \subseteq Instances
      BY StoreAssumption DEF AllDeployments
    <3> QED BY <1>1, <1>3, <3>1 DEF LockedAlone
  <2>2. LockedTypeOK
    BY <2>1, StoreAssumption DEF Init, LockedTypeOK
  <2> QED
    BY <2>1, <2>2, StoreAssumption
     DEF Init, LockedInv, OneUnderWay, UnderWay, CacheIsCurrent, WorksOnCurrent,
         StoredThenTold
<1> QED BY <1>2, <1>3 DEF SafeWriters

LEMMA FetchSeam ==
  ASSUME SeamInv, NEW p \in Ops, Fetch(p)
  PROVE  SeamInv'
<1> USE StoreAssumption DEF SeamInv
<1>1. attempt[p] + 1 \in 1..MaxRetries
  <2>1. attempt[p] \in 0..MaxRetries /\ MaxRetries \in Nat
    BY DEF SeamTypeOK
  <2>2. attempt[p] < MaxRetries
    BY DEF OwnObject, Fetch
  <2> QED BY <2>1, <2>2
<1>2. SeamTypeOK'
  BY <1>1 DEF SeamTypeOK, Fetch
<1>3. OwnObject'
  <2> SUFFICES ASSUME NEW q \in Ops
               PROVE /\ pc'[q] \in {"idle", "start"} => attempt'[q] < MaxRetries
                     /\ pc'[q] \in {"fetching", "read", "edited"} =>
                          /\ attempt'[q] > 0
                          /\ Based(obj[<<q, attempt[q]>>], q)'
                     /\ pc'[q] \in {"read", "edited"} => ref'[q] = <<q, attempt'[q]>>
                     /\ pc'[q] = "edited" => q \in obj'[<<q, attempt'[q]>>].edits
    BY DEF OwnObject, Based
  <2>1. CASE q = p
    BY <1>1, <2>1 DEF SeamTypeOK, OwnObject, Based, Fetch
  <2>2. CASE q # p
    <3>1. obj'[<<q, attempt'[q]>>] = obj[<<q, attempt[q]>>]
      BY <1>1, <2>2 DEF SeamTypeOK, Fetch
    <3> QED BY <2>2, <3>1 DEF SeamTypeOK, OwnObject, Based, Fetch
  <2> QED BY <2>1, <2>2
<1>4. RequestsBased'
  BY DEF SeamTypeOK, RequestsBased, Based, Fetch
<1>5. StoredOnce'
  BY DEF SeamTypeOK, StoredOnce, Fetch
<1>6. NoLostUpdate' /\ RejectedLeavesNoTrace'
  BY DEF SeamTypeOK, NoLostUpdate, RejectedLeavesNoTrace, Writer, Fetch
<1>7. ReadersRead'
  BY DEF SeamTypeOK, ReadersRead, Fetch
<1> QED BY <1>2, <1>3, <1>4, <1>5, <1>6, <1>7

LEMMA EditSeam ==
  ASSUME SeamInv, NEW p \in Ops, Edit(p)
  PROVE  SeamInv'
<1> USE StoreAssumption DEF SeamInv
<1> DEFINE o == <<p, attempt[p]>>
<1>1. /\ ref[p] = o /\ o \in Objects /\ attempt[p] > 0
      /\ obj' = [obj EXCEPT ![o] = [obj[o] EXCEPT !.edits = obj[o].edits \cup {p}]]
  BY DEF SeamTypeOK, OwnObject, Edit
<1>2. SeamTypeOK'
  BY <1>1 DEF SeamTypeOK, Edit
<1>3. OwnObject'
  <2> SUFFICES ASSUME NEW q \in Ops
               PROVE /\ pc'[q] \in {"idle", "start"} => attempt'[q] < MaxRetries
                     /\ pc'[q] \in {"fetching", "read", "edited"} =>
                          /\ attempt'[q] > 0
                          /\ Based(obj[<<q, attempt[q]>>], q)'
                     /\ pc'[q] \in {"read", "edited"} => ref'[q] = <<q, attempt'[q]>>
                     /\ pc'[q] = "edited" => q \in obj'[<<q, attempt'[q]>>].edits
    BY DEF OwnObject, Based
  <2>1. CASE q = p
    <3>1. /\ obj'[o].edits = obj[o].edits \cup {p}
          /\ obj'[o].etag = obj[o].etag
      BY <1>1 DEF SeamTypeOK
    <3>2. Based(obj[<<p, attempt[p]>>], p)'
      BY <3>1 DEF OwnObject, Based, Edit
    <3> QED BY <1>1, <2>1, <3>1, <3>2 DEF SeamTypeOK, Edit
  <2>2. CASE q # p
    <3>1. obj'[<<q, attempt'[q]>>] = obj[<<q, attempt[q]>>]
      BY <1>1, <2>2 DEF SeamTypeOK, Edit
    <3> QED BY <2>2, <3>1 DEF SeamTypeOK, OwnObject, Based, Edit
  <2> QED BY <2>1, <2>2
<1>4. RequestsBased'
  BY DEF SeamTypeOK, RequestsBased, Based, Edit
<1>5. StoredOnce'
  BY DEF SeamTypeOK, StoredOnce, Edit
<1>6. NoLostUpdate' /\ RejectedLeavesNoTrace'
  BY DEF SeamTypeOK, NoLostUpdate, RejectedLeavesNoTrace, Writer, Edit
<1>7. ReadersRead'
  BY DEF SeamTypeOK, ReadersRead, Edit
<1> QED BY <1>2, <1>3, <1>4, <1>5, <1>6, <1>7

LEMMA SendSeam ==
  ASSUME SeamInv, NEW p \in Ops, Send(p)
  PROVE  SeamInv'
<1> USE StoreAssumption DEF SeamInv
<1>1. /\ ref[p] = <<p, attempt[p]>> /\ ref[p] \in Objects
      /\ Based(obj[ref[p]], p) /\ p \in obj[ref[p]].edits
      /\ obj[ref[p]] \in Documents
  <2>1. /\ ref[p] = <<p, attempt[p]>>
        /\ Based(obj[<<p, attempt[p]>>], p) /\ p \in obj[<<p, attempt[p]>>].edits
    BY DEF OwnObject, Send
  <2>2. <<p, attempt[p]>> \in Objects /\ obj[<<p, attempt[p]>>] \in Documents
    BY DEF SeamTypeOK
  <2> QED BY <2>1, <2>2
<1>2. SeamTypeOK'
  BY <1>1 DEF SeamTypeOK, Send
<1>3. OwnObject'
  BY DEF SeamTypeOK, OwnObject, Based, Send
<1>4. RequestsBased'
  <2> SUFFICES ASSUME NEW q \in Ops
               PROVE /\ pc'[q] = "sent" => request'[q] # None
                     /\ request'[q] # None =>
                          /\ pc'[q] \in {"sent", "over"}
                          /\ outcome'[q] \notin {"ok", "unchanged", "conflict"}
                          /\ Based(request[q], q)'
                          /\ q \in request'[q].edits
                          /\ q \notin db'.edits
    BY DEF RequestsBased, Based
  <2>1. CASE q = p
    <3>1. request'[p] = obj[ref[p]] /\ pc'[p] = "sent" /\ UNCHANGED <<db, outcome>>
      BY DEF SeamTypeOK, Send
    <3>2. p \notin db.edits /\ outcome[p] = "none"
      BY DEF SeamTypeOK, StoredOnce, Send
    <3> QED BY <1>1, <2>1, <3>1, <3>2 DEF Based
  <2>2. CASE q # p
    BY <2>2 DEF SeamTypeOK, RequestsBased, Based, Send
  <2> QED BY <2>1, <2>2
<1>5. StoredOnce'
  BY DEF SeamTypeOK, StoredOnce, Send
<1>6. NoLostUpdate' /\ RejectedLeavesNoTrace'
  BY DEF SeamTypeOK, NoLostUpdate, RejectedLeavesNoTrace, Writer, Send
<1>7. ReadersRead'
  BY DEF SeamTypeOK, ReadersRead, Send
<1> QED BY <1>2, <1>3, <1>4, <1>5, <1>6, <1>7

(* An accepted request adds its edit to the stored document, and only that. *)
LEMMA WriteAddsEdit ==
  ASSUME SeamInv, NEW p \in Ops, request[p] # None, Accepts(p), Write(p)
  PROVE  /\ db' \in Documents
         /\ db'.etag = db.etag + 1
         /\ db'.edits = db.edits \cup {p}
         /\ request' = [request EXCEPT ![p] = None]
         /\ p \notin db.edits
BY DEF SeamInv, SeamTypeOK, RequestsBased, ReadersRead, Based, Accepts, Write

LEMMA StoreSeam ==
  ASSUME SeamInv, NEW p \in Ops, Store(p)
  PROVE  SeamInv'
<1> USE StoreAssumption DEF SeamInv
<1>1. /\ request[p] # None /\ Accepts(p) /\ Write(p) /\ pc[p] = "sent"
      /\ obj' = [obj EXCEPT ![<<p, 0>>] = db']
      /\ pc' = [pc EXCEPT ![p] = "stored"]
      /\ UNCHANGED <<kind, home, attempt, ref, cache, outcome>>
  BY DEF RequestsBased, Store
<1>2. /\ db' \in Documents
      /\ db'.etag = db.etag + 1
      /\ db'.edits = db.edits \cup {p}
      /\ request' = [request EXCEPT ![p] = None]
  BY <1>1, WriteAddsEdit
<1>3. SeamTypeOK'
  BY <1>1, <1>2 DEF SeamTypeOK
<1>4. OwnObject'
  <2> SUFFICES ASSUME NEW q \in Ops
               PROVE /\ pc'[q] \in {"idle", "start"} => attempt'[q] < MaxRetries
                     /\ pc'[q] \in {"fetching", "read", "edited"} =>
                          /\ attempt'[q] > 0
                          /\ Based(obj[<<q, attempt[q]>>], q)'
                     /\ pc'[q] \in {"read", "edited"} => ref'[q] = <<q, attempt'[q]>>
                     /\ pc'[q] = "edited" => q \in obj'[<<q, attempt'[q]>>].edits
    BY DEF OwnObject, Based
  <2>1. CASE q = p
    BY <1>1, <2>1 DEF SeamTypeOK
  <2>2. CASE q # p
    <3>1. obj'[<<q, attempt'[q]>>] = obj[<<q, attempt[q]>>] /\ pc'[q] = pc[q]
      BY <1>1, <2>2 DEF SeamTypeOK
    <3>2. obj[<<q, attempt[q]>>] \in Documents
      BY DEF SeamTypeOK
    <3>3. ASSUME Based(obj[<<q, attempt[q]>>], q) PROVE Based(obj[<<q, attempt[q]>>], q)'
      <4> DEFINE d == obj[<<q, attempt[q]>>]
      <4>1. d.etag \in Nat /\ db.etag \in Nat /\ d.etag <= db.etag
        BY <3>2, <3>3 DEF SeamTypeOK, Based
      <4> QED BY <1>2, <3>1, <4>1 DEF Based
    <3> QED BY <1>1, <3>1, <3>3 DEF OwnObject
  <2> QED BY <2>1, <2>2
<1>5. RequestsBased'
  <2> SUFFICES ASSUME NEW q \in Ops
               PROVE /\ pc'[q] = "sent" => request'[q] # None
                     /\ request'[q] # None =>
                          /\ pc'[q] \in {"sent", "over"}
                          /\ outcome'[q] \notin {"ok", "unchanged", "conflict"}
                          /\ Based(request[q], q)'
                          /\ q \in request'[q].edits
                          /\ q \notin db'.edits
    BY DEF RequestsBased, Based
  <2>1. CASE q = p
    BY <1>1, <1>2, <2>1 DEF SeamTypeOK
  <2>2. CASE q # p
    <3>1. request'[q] = request[q] /\ pc'[q] = pc[q] /\ outcome'[q] = outcome[q]
      BY <1>1, <1>2, <2>2 DEF SeamTypeOK
    <3>2. ASSUME request[q] # None, Based(request[q], q) PROVE Based(request[q], q)'
      <4>1. request[q].etag \in Nat /\ db.etag \in Nat /\ request[q].etag <= db.etag
        BY <3>2 DEF SeamTypeOK, Based
      <4> QED BY <1>2, <3>1, <4>1 DEF Based
    <3> QED BY <1>2, <2>2, <3>1, <3>2 DEF RequestsBased
  <2> QED BY <2>1, <2>2
<1>6. StoredOnce'
  BY <1>1, <1>2 DEF SeamTypeOK, StoredOnce
<1>7. NoLostUpdate' /\ RejectedLeavesNoTrace'
  <2>1. outcome[p] = "none"
    BY <1>1 DEF SeamTypeOK, StoredOnce
  <2> QED BY <1>1, <1>2, <2>1 DEF SeamTypeOK, NoLostUpdate, RejectedLeavesNoTrace, Writer
<1>8. ReadersRead'
  BY <1>1, <1>2 DEF SeamTypeOK, ReadersRead
<1> QED BY <1>3, <1>4, <1>5, <1>6, <1>7, <1>8

LEMMA StoreLateSeam ==
  ASSUME SeamInv, NEW p \in Ops, StoreLate(p)
  PROVE  SeamInv'
<1> USE StoreAssumption DEF SeamInv
<1>1. /\ request[p] # None /\ Accepts(p) /\ Write(p) /\ pc[p] = "over"
      /\ UNCHANGED <<kind, home, attempt, ref, cache, outcome, obj, pc>>
  BY DEF StoreLate
<1>2. /\ db' \in Documents
      /\ db'.etag = db.etag + 1
      /\ db'.edits = db.edits \cup {p}
      /\ request' = [request EXCEPT ![p] = None]
  BY <1>1, WriteAddsEdit
<1>3. SeamTypeOK'
  BY <1>1, <1>2 DEF SeamTypeOK
<1>4. OwnObject'
  <2> SUFFICES ASSUME NEW q \in Ops, pc[q] \in {"fetching", "read", "edited"}
               PROVE  Based(obj[<<q, attempt[q]>>], q)'
    BY <1>1 DEF OwnObject
  <2>1. obj[<<q, attempt[q]>>] \in Documents /\ Based(obj[<<q, attempt[q]>>], q)
    BY DEF SeamTypeOK, OwnObject
  <2>2. /\ obj[<<q, attempt[q]>>].etag \in Nat /\ db.etag \in Nat
        /\ obj[<<q, attempt[q]>>].etag <= db.etag
    BY <2>1 DEF SeamTypeOK, Based
  <2> QED BY <1>1, <1>2, <2>2 DEF Based
<1>5. RequestsBased'
  <2> SUFFICES ASSUME NEW q \in Ops
               PROVE /\ pc'[q] = "sent" => request'[q] # None
                     /\ request'[q] # None =>
                          /\ pc'[q] \in {"sent", "over"}
                          /\ outcome'[q] \notin {"ok", "unchanged", "conflict"}
                          /\ Based(request[q], q)'
                          /\ q \in request'[q].edits
                          /\ q \notin db'.edits
    BY DEF RequestsBased, Based
  <2>1. CASE q = p
    BY <1>1, <1>2, <2>1 DEF SeamTypeOK
  <2>2. CASE q # p
    <3>1. request'[q] = request[q]
      BY <1>2, <2>2 DEF SeamTypeOK
    <3>2. ASSUME request[q] # None, Based(request[q], q) PROVE Based(request[q], q)'
      <4>1. request[q].etag \in Nat /\ db.etag \in Nat /\ request[q].etag <= db.etag
        BY <3>2 DEF SeamTypeOK, Based
      <4> QED BY <1>2, <3>1, <4>1 DEF Based
    <3> QED BY <1>1, <1>2, <2>2, <3>1, <3>2 DEF RequestsBased
  <2> QED BY <2>1, <2>2
<1>6. StoredOnce'
  BY <1>1, <1>2 DEF SeamTypeOK, StoredOnce
<1>7. NoLostUpdate' /\ RejectedLeavesNoTrace'
  <2>1. outcome[p] \notin {"unchanged", "conflict"}
    BY <1>1 DEF RequestsBased
  <2> QED BY <1>1, <1>2, <2>1 DEF NoLostUpdate, RejectedLeavesNoTrace, Writer
<1>8. ReadersRead'
  BY <1>1, <1>2 DEF SeamTypeOK, ReadersRead
<1> QED BY <1>3, <1>4, <1>5, <1>6, <1>7, <1>8

(* The remaining steps touch neither objects nor the stored document. *)
LEMMA QuietSeam ==
  ASSUME SeamInv, NEW p \in Ops,
         \/ Call(p) \/ ReadCached(p) \/ Fetched(p) \/ Decline(p)
         \/ Conflict(p) \/ Stored(p) \/ Fault(p)
  PROVE  SeamInv'
<1> USE StoreAssumption DEF SeamInv
<1>0. kind[p] \in {"mutate", "reader"} /\ UNCHANGED <<kind, attempt, obj, db>>
  BY DEF SeamTypeOK, Call, ReadCached, Fetched, Decline, Conflict, Stored, Fault
<1>1. CASE Call(p)
  <2>1. SeamTypeOK'
    BY <1>1, <1>0 DEF SeamTypeOK, Call
  <2>2. OwnObject'
    BY <1>1, <1>0 DEF SeamTypeOK, OwnObject, Based, Call
  <2>3. RequestsBased'
    BY <1>1, <1>0 DEF SeamTypeOK, RequestsBased, ReadersRead, StoredOnce, Based, Writer, Call
  <2>4. StoredOnce'
    BY <1>1, <1>0 DEF SeamTypeOK, StoredOnce, Call
  <2>5. ReadersRead'
    BY <1>1, <1>0 DEF SeamTypeOK, ReadersRead, Writer, Call
  <2>6. NoLostUpdate' /\ RejectedLeavesNoTrace'
    BY <1>1, <1>0 DEF SeamTypeOK, RequestsBased, StoredOnce, ReadersRead, NoLostUpdate,
       RejectedLeavesNoTrace, Writer, Call
  <2> QED BY <2>1, <2>2, <2>3, <2>4, <2>5, <2>6
<1>2. CASE ReadCached(p)
  <2>1. /\ kind[p] = "reader" /\ pc[p] = "start"
        /\ cache[home[p]] \in Objects
        /\ ref' = [ref EXCEPT ![p] = cache[home[p]]]
        /\ pc' = [pc EXCEPT ![p] = "over"]
        /\ outcome' = [outcome EXCEPT ![p] = "ok"]
        /\ UNCHANGED <<home, cache, request>>
    BY <1>0, <1>2 DEF SeamTypeOK, ReadCached, HaveDocument, Finish, Writer
  <2>2. SeamTypeOK'
    <3>1. ref' \in [Ops -> Objects \cup {None}]
      BY <2>1 DEF SeamTypeOK
    <3> QED BY <1>0, <2>1, <3>1 DEF SeamTypeOK
  <2>3. OwnObject'
    <3>1. \A q \in Ops : q # p => pc'[q] = pc[q] /\ ref'[q] = ref[q]
      BY <2>1 DEF SeamTypeOK
    <3>2. pc'[p] = "over"
      BY <2>1 DEF SeamTypeOK
    <3> QED BY <1>0, <3>1, <3>2 DEF OwnObject, Based
  <2>4. RequestsBased'
    BY <1>0, <2>1 DEF SeamTypeOK, RequestsBased, ReadersRead, Based
  <2>5. StoredOnce'
    BY <1>0, <2>1 DEF SeamTypeOK, StoredOnce
  <2>6. ReadersRead'
    BY <1>0, <2>1 DEF SeamTypeOK, ReadersRead
  <2>7. NoLostUpdate' /\ RejectedLeavesNoTrace'
    BY <1>0, <2>1 DEF SeamTypeOK, StoredOnce, NoLostUpdate, RejectedLeavesNoTrace, Writer
  <2> QED BY <2>2, <2>3, <2>4, <2>5, <2>6, <2>7
<1>3. CASE Fetched(p)
  <2>1. /\ pc[p] = "fetching"
        /\ <<p, attempt[p]>> \in Objects
        /\ ref' = [ref EXCEPT ![p] = <<p, attempt[p]>>]
        /\ cache' = [cache EXCEPT ![home[p]] = <<p, attempt[p]>>]
        /\ \/ /\ kind[p] = "mutate"
              /\ pc' = [pc EXCEPT ![p] = "read"]
              /\ outcome' = outcome
           \/ /\ kind[p] = "reader"
              /\ pc' = [pc EXCEPT ![p] = "over"]
              /\ outcome' = [outcome EXCEPT ![p] = "ok"]
        /\ UNCHANGED <<home, request>>
    BY <1>0, <1>3 DEF SeamTypeOK, Fetched, HaveDocument, Finish, Writer
  <2>2. SeamTypeOK'
    <3>1. PICK o \in Objects : o = <<p, attempt[p]>>
      BY <2>1
    <3>2. ref' \in [Ops -> Objects \cup {None}]
      BY <2>1, <3>1 DEF SeamTypeOK
    <3>3. cache' \in [Instances -> Objects \cup {None}]
      BY <2>1, <3>1 DEF SeamTypeOK
    <3>4. pc' \in [Ops -> PcValues] /\ outcome' \in [Ops -> Outcomes]
      BY <2>1 DEF SeamTypeOK
    <3> QED BY <1>0, <2>1, <3>2, <3>3, <3>4 DEF SeamTypeOK
  <2>3. OwnObject'
    <3>1. \A q \in Ops : q # p => pc'[q] = pc[q] /\ ref'[q] = ref[q]
      BY <2>1 DEF SeamTypeOK
    <3>2. pc'[p] \in {"read", "over"} /\ ref'[p] = <<p, attempt[p]>>
      BY <2>1 DEF SeamTypeOK
    <3> QED BY <1>0, <2>1, <3>1, <3>2 DEF OwnObject, Based
  <2>4. RequestsBased'
    BY <1>0, <2>1 DEF SeamTypeOK, RequestsBased, ReadersRead, Based
  <2>5. StoredOnce'
    BY <1>0, <2>1 DEF SeamTypeOK, StoredOnce
  <2>6. ReadersRead'
    BY <1>0, <2>1 DEF SeamTypeOK, ReadersRead
  <2>7. NoLostUpdate' /\ RejectedLeavesNoTrace'
    BY <1>0, <2>1 DEF SeamTypeOK, StoredOnce, NoLostUpdate, RejectedLeavesNoTrace, Writer
  <2> QED BY <2>2, <2>3, <2>4, <2>5, <2>6, <2>7
<1>4. CASE Decline(p)
  <2>1. SeamTypeOK'
    BY <1>4, <1>0 DEF SeamTypeOK, Decline, Finish
  <2>2. OwnObject'
    BY <1>4, <1>0 DEF SeamTypeOK, OwnObject, Based, Decline, Finish
  <2>3. RequestsBased'
    BY <1>4, <1>0 DEF SeamTypeOK, RequestsBased, ReadersRead, StoredOnce, Based, Writer, Decline, Finish
  <2>4. StoredOnce'
    BY <1>4, <1>0 DEF SeamTypeOK, StoredOnce, Decline, Finish
  <2>5. ReadersRead'
    BY <1>4, <1>0 DEF SeamTypeOK, ReadersRead, Writer, Decline, Finish
  <2>6. NoLostUpdate' /\ RejectedLeavesNoTrace'
    BY <1>4, <1>0 DEF SeamTypeOK, RequestsBased, StoredOnce, ReadersRead, NoLostUpdate,
       RejectedLeavesNoTrace, Writer, Decline, Finish
  <2> QED BY <2>1, <2>2, <2>3, <2>4, <2>5, <2>6
<1>5. CASE Conflict(p)
  <2>1. SeamTypeOK'
    <3>1. \/ pc' = [pc EXCEPT ![p] = "start"] /\ outcome' = outcome
          \/ pc' = [pc EXCEPT ![p] = "over"] /\ outcome' = [outcome EXCEPT ![p] = "conflict"]
      BY <1>5 DEF Conflict, Finish
    <3>2. pc' \in [Ops -> PcValues] /\ outcome' \in [Ops -> Outcomes]
      BY <3>1 DEF SeamTypeOK
    <3>3. cache' = cache \/ cache' = [cache EXCEPT ![home[p]] = None]
      BY <1>5 DEF Conflict, Finish
    <3>4. cache' \in [Instances -> Objects \cup {None}]
      BY <3>3 DEF SeamTypeOK
    <3>5. request' \in [Ops -> Documents \cup {None}] /\ UNCHANGED <<home, ref>>
      BY <1>5 DEF SeamTypeOK, Conflict
    <3> QED BY <1>0, <3>2, <3>4, <3>5 DEF SeamTypeOK
  <2>2. OwnObject'
    <3>1. \/ pc' = [pc EXCEPT ![p] = "over"]
          \/ pc' = [pc EXCEPT ![p] = "start"] /\ attempt[p] < MaxRetries
      BY <1>5 DEF Conflict, Finish
    <3>2. UNCHANGED <<attempt, ref, obj, db>>
      BY <1>5 DEF Conflict
    <3>3. pc \in [Ops -> PcValues]
      BY DEF SeamTypeOK
    <3> QED BY <3>1, <3>2, <3>3 DEF OwnObject, Based
  <2>3. RequestsBased'
    BY <1>5, <1>0 DEF SeamTypeOK, RequestsBased, ReadersRead, StoredOnce, Based, Writer, Conflict, Finish
  <2>4. StoredOnce'
    BY <1>5, <1>0 DEF SeamTypeOK, StoredOnce, Conflict, Finish
  <2>5. ReadersRead'
    BY <1>5, <1>0 DEF SeamTypeOK, ReadersRead, Writer, Conflict, Finish
  <2>6. NoLostUpdate' /\ RejectedLeavesNoTrace'
    BY <1>5, <1>0 DEF SeamTypeOK, RequestsBased, StoredOnce, ReadersRead, NoLostUpdate,
       RejectedLeavesNoTrace, Writer, Conflict, Finish
  <2> QED BY <2>1, <2>2, <2>3, <2>4, <2>5, <2>6
<1>6. CASE Stored(p)
  <2>1. SeamTypeOK'
    BY <1>6, <1>0 DEF SeamTypeOK, Stored, Finish
  <2>2. OwnObject'
    BY <1>6, <1>0 DEF SeamTypeOK, OwnObject, Based, Stored, Finish
  <2>3. RequestsBased'
    BY <1>6, <1>0 DEF SeamTypeOK, RequestsBased, ReadersRead, StoredOnce, Based, Writer, Stored, Finish
  <2>4. StoredOnce'
    BY <1>6, <1>0 DEF SeamTypeOK, StoredOnce, Stored, Finish
  <2>5. ReadersRead'
    BY <1>6, <1>0 DEF SeamTypeOK, ReadersRead, Writer, Stored, Finish
  <2>6. NoLostUpdate' /\ RejectedLeavesNoTrace'
    BY <1>6, <1>0 DEF SeamTypeOK, RequestsBased, StoredOnce, ReadersRead, NoLostUpdate,
       RejectedLeavesNoTrace, Writer, Stored, Finish
  <2> QED BY <2>1, <2>2, <2>3, <2>4, <2>5, <2>6
<1>7. CASE Fault(p)
  <2>1. SeamTypeOK'
    BY <1>7, <1>0 DEF SeamTypeOK, Fault, Finish
  <2>2. OwnObject'
    BY <1>7, <1>0 DEF SeamTypeOK, OwnObject, Based, Fault, Finish
  <2>3. RequestsBased'
    BY <1>7, <1>0 DEF SeamTypeOK, RequestsBased, ReadersRead, StoredOnce, Based, Writer, Fault, Finish
  <2>4. StoredOnce'
    BY <1>7, <1>0 DEF SeamTypeOK, StoredOnce, Fault, Finish
  <2>5. ReadersRead'
    BY <1>7, <1>0 DEF SeamTypeOK, ReadersRead, Writer, Fault, Finish
  <2>6. NoLostUpdate' /\ RejectedLeavesNoTrace'
    BY <1>7, <1>0 DEF SeamTypeOK, RequestsBased, StoredOnce, ReadersRead, NoLostUpdate,
       RejectedLeavesNoTrace, Writer, Fault, Finish
  <2> QED BY <2>1, <2>2, <2>3, <2>4, <2>5, <2>6
<1> QED BY <1>1, <1>2, <1>3, <1>4, <1>5, <1>6, <1>7

LEMMA InstanceSeam ==
  ASSUME SeamInv, NEW i \in Instances, Expire(i) \/ Crash(i)
  PROVE  SeamInv'
<1>1. CASE Expire(i)
  BY <1>1 DEF SeamInv, SeamTypeOK, OwnObject, RequestsBased, StoredOnce, ReadersRead, NoLostUpdate,
     RejectedLeavesNoTrace, Based, Writer, Expire
<1>2. CASE Crash(i)
  BY <1>2 DEF SeamInv, SeamTypeOK, OwnObject, RequestsBased, StoredOnce, ReadersRead, NoLostUpdate,
     RejectedLeavesNoTrace, Based, Writer, Crash
<1> QED BY <1>1, <1>2

LEMMA NextSeam ==
  ASSUME SeamInv, [Next]_vars
  PROVE  SeamInv'
<1>1. CASE UNCHANGED vars
  BY <1>1 DEF vars, SeamInv, SeamTypeOK, OwnObject, RequestsBased, StoredOnce, ReadersRead,
     NoLostUpdate, RejectedLeavesNoTrace, Based, Writer
<1>2. CASE Next
  BY <1>2, FetchSeam, EditSeam, SendSeam, StoreSeam, StoreLateSeam, QuietSeam, InstanceSeam
     DEF Next
<1> QED BY <1>1, <1>2

-----------------------------------------------------------------------------
(* Locked writers.  The others are not under way while p holds the lock. *)
HIDE DEF Objects

LEMMA OthersWait ==
  ASSUME LockedInv, NEW p \in Ops, HasLock(p), NEW q \in Ops, q # p
  PROVE  pc[q] \in {"idle", "start", "over"}
BY DEF LockedInv, LockedTypeOK, OneUnderWay, UnderWay, HasLock, Locking

(* So a step of the holder is judged by what it does to p and the cache. *)
LEMMA HolderStep ==
  ASSUME LockedInv, LockedTypeOK', NEW p \in Ops, HasLock(p), UNCHANGED <<kind, home>>,
         queue' = queue \/ pc'[p] = "over",
         \A q \in Ops \ {p} :
           /\ pc'[q] = pc[q] /\ attempt'[q] = attempt[q]
           /\ request'[q] = request[q] /\ outcome'[q] = outcome[q]
           /\ q \in db'.edits <=> q \in db.edits,
         WorksOnCurrent(p)', StoredThenTold(p)', CacheIsCurrent'
  PROVE  LockedInv'
<1>1. \A q \in Ops \ {p} : pc[q] \in {"idle", "start", "over"}
  BY OthersWait
<1>2. OneUnderWay'
  BY <1>1 DEF OneUnderWay, UnderWay, HasLock, Locking
<1>3. ASSUME NEW q \in Ops \ {p} PROVE WorksOnCurrent(q)' /\ StoredThenTold(q)'
  <2>1. WorksOnCurrent(q) /\ StoredThenTold(q)
    BY DEF LockedInv
  <2> QED BY <1>1, <2>1 DEF WorksOnCurrent, StoredThenTold
<1> QED BY <1>2, <1>3 DEF LockedInv

(* A call joins the queue behind whoever holds the lock. *)
LEMMA CallLocked ==
  ASSUME LockedInv, NEW p \in Ops, Call(p)
  PROVE  LockedInv'
<1> USE StoreAssumption
<1>1. /\ pc[p] = "idle" /\ pc' = [pc EXCEPT ![p] = "start"]
      /\ queue' = [queue EXCEPT ![home[p]] = Append(queue[home[p]], p)]
      /\ UNCHANGED <<kind, home, attempt, ref, obj, cache, request, db, outcome, faults>>
  BY DEF LockedInv, LockedTypeOK, Call, Locking
<1>2. LockedTypeOK'
  <2>1. Append(queue[home[p]], p) \in Seq(Ops)
    BY DEF LockedInv, LockedTypeOK
  <2>2. queue' \in [Instances -> Seq(Ops)]
    BY <1>1, <2>1 DEF LockedInv, LockedTypeOK
  <2> QED BY <1>1, <2>2 DEF LockedInv, LockedTypeOK
<1>3. OneUnderWay'
  <2> SUFFICES ASSUME NEW q \in Ops, pc'[q] \in UnderWay
               PROVE  queue'[home[q]] # <<>> /\ Head(queue'[home[q]]) = q
    BY <1>1 DEF OneUnderWay, HasLock
  <2> DEFINE s == queue[home[q]]
  <2>1. pc[q] \in UnderWay
    BY <1>1 DEF LockedInv, LockedTypeOK, UnderWay
  <2>2. s # <<>> /\ Head(s) = q /\ s \in Seq(Ops)
    BY <2>1 DEF LockedInv, LockedTypeOK, OneUnderWay, HasLock, Locking
  <2>3. queue'[home[q]] = Append(s, p)
    BY <1>1 DEF LockedInv, LockedTypeOK
  <2> QED BY <2>2, <2>3
<1>4. CacheIsCurrent'
  BY <1>1 DEF LockedInv, LockedTypeOK, CacheIsCurrent
<1>5. ASSUME NEW q \in Ops PROVE WorksOnCurrent(q)' /\ StoredThenTold(q)'
  <2>1. WorksOnCurrent(q) /\ StoredThenTold(q)
    BY DEF LockedInv
  <2>2. pc'[q] = IF q = p THEN "start" ELSE pc[q]
    BY <1>1 DEF LockedInv, LockedTypeOK
  <2>3. WorksOnCurrent(q)'
    BY <1>1, <2>1, <2>2 DEF WorksOnCurrent, Edited
  <2>4. StoredThenTold(q)'
    BY <1>1, <2>1, <2>2 DEF StoredThenTold
  <2> QED BY <2>3, <2>4
<1> QED BY <1>2, <1>3, <1>4, <1>5 DEF LockedInv

(* While nobody has edited, the cache is as good as the store. *)
LEMMA CacheIsGood ==
  ASSUME LockedInv, NEW p \in Ops, HasLock(p), pc[p] \in {"start", "fetching", "read"},
         cache[home[p]] # None
  PROVE  cache[home[p]] \in Objects /\ obj[cache[home[p]]] = db
<1>1. \A q \in Ops : pc[q] \notin {"edited", "sent", "stored"}
  BY OthersWait
<1>2. cache[home[p]] \in Objects
  BY DEF LockedInv, LockedTypeOK
<1> QED BY <1>1, <1>2 DEF LockedInv, CacheIsCurrent

LEMMA ReadCachedLocked ==
  ASSUME LockedInv, NEW p \in Ops, ReadCached(p)
  PROVE  LockedInv'
<1> USE StoreAssumption
<1>0. HasLock(p) /\ pc[p] = "start" /\ cache[home[p]] # None
  BY DEF ReadCached
<1>1. cache[home[p]] \in Objects /\ obj[cache[home[p]]] = db
  BY <1>0, CacheIsGood
<1>2. /\ ref' = [ref EXCEPT ![p] = cache[home[p]]]
      /\ pc' = [pc EXCEPT ![p] = "read"]
      /\ UNCHANGED <<kind, home, attempt, obj, cache, queue, request, db, outcome, faults>>
  BY DEF LockedInv, LockedTypeOK, ReadCached, HaveDocument, Writer
<1>3. LockedTypeOK'
  <2>1. ref' \in [Ops -> Objects \cup {None}]
    BY <1>1, <1>2 DEF LockedInv, LockedTypeOK
  <2> QED BY <1>2, <2>1 DEF LockedInv, LockedTypeOK
<1>4. WorksOnCurrent(p)' /\ StoredThenTold(p)'
  <2>1. /\ pc'[p] = "read" /\ ref'[p] = cache[home[p]]
    BY <1>2 DEF LockedInv, LockedTypeOK
  <2>2. WorksOnCurrent(p)'
    BY <1>1, <1>2, <2>1 DEF WorksOnCurrent
  <2>3. StoredThenTold(p)'
    BY <1>0, <1>2, <2>1 DEF LockedInv, StoredThenTold
  <2> QED BY <2>2, <2>3
<1>5. CacheIsCurrent'
  BY <1>1, <1>2 DEF LockedInv, LockedTypeOK, CacheIsCurrent
<1> QED BY <1>0, <1>2, <1>3, <1>4, <1>5, HolderStep DEF LockedInv, LockedTypeOK

LEMMA FetchLocked ==
  ASSUME LockedInv, NEW p \in Ops, Fetch(p)
  PROVE  LockedInv'
<1> USE StoreAssumption
<1>0. HasLock(p) /\ pc[p] = "start" /\ attempt[p] = 0
  BY DEF Fetch, LockedInv, WorksOnCurrent
<1>1. <<p, 1>> \in Objects /\ 1 \in 0 .. MaxRetries
  BY DEF Objects
<1>2. /\ pc' = [pc EXCEPT ![p] = "fetching"]
      /\ attempt' = [attempt EXCEPT ![p] = 1]
      /\ obj' = [obj EXCEPT ![<<p, 1>>] = db]
      /\ UNCHANGED <<kind, home, ref, cache, queue, request, db, outcome, faults>>
  BY <1>0 DEF Fetch
<1>3. LockedTypeOK'
  BY <1>1, <1>2 DEF LockedInv, LockedTypeOK
<1>4. WorksOnCurrent(p)' /\ StoredThenTold(p)'
  <2>1. pc'[p] = "fetching" /\ attempt'[p] = 1 /\ obj'[<<p, 1>>] = db
    BY <1>1, <1>2 DEF LockedInv, LockedTypeOK
  <2>2. WorksOnCurrent(p)'
    BY <1>2, <2>1 DEF WorksOnCurrent
  <2>3. StoredThenTold(p)'
    BY <1>0, <1>2, <2>1 DEF LockedInv, StoredThenTold
  <2> QED BY <2>2, <2>3
<1>5. CacheIsCurrent'
  <2>1. ASSUME cache[home[p]] # None PROVE obj'[cache[home[p]]] = db
    <3>1. cache[home[p]] \in Objects /\ obj[cache[home[p]]] = db
      BY <1>0, <2>1, CacheIsGood
    <3> QED BY <1>2, <3>1 DEF LockedInv, LockedTypeOK
  <2> QED BY <1>2, <2>1 DEF LockedInv, LockedTypeOK, CacheIsCurrent
<1> QED BY <1>0, <1>2, <1>3, <1>4, <1>5, HolderStep DEF LockedInv, LockedTypeOK

LEMMA FetchedLocked ==
  ASSUME LockedInv, NEW p \in Ops, Fetched(p)
  PROVE  LockedInv'
<1> USE StoreAssumption
<1>0. HasLock(p) /\ pc[p] = "fetching" /\ attempt[p] = 1 /\ obj[<<p, 1>>] = db
  BY DEF Fetched, LockedInv, OneUnderWay, UnderWay, WorksOnCurrent
<1>1. PICK o \in Objects : o = <<p, 1>>
  <2>1. 1 \in 0 .. MaxRetries
    OBVIOUS
  <2> QED BY <2>1 DEF Objects
<1>2. /\ cache' = [cache EXCEPT ![home[p]] = o]
      /\ ref' = [ref EXCEPT ![p] = o]
      /\ pc' = [pc EXCEPT ![p] = "read"]
      /\ UNCHANGED <<kind, home, attempt, obj, queue, request, db, outcome, faults>>
  BY <1>0, <1>1 DEF LockedInv, LockedTypeOK, Fetched, HaveDocument, Writer
<1>3. LockedTypeOK'
  BY <1>2 DEF LockedInv, LockedTypeOK
<1>4. WorksOnCurrent(p)' /\ StoredThenTold(p)'
  BY <1>0, <1>1, <1>2 DEF LockedInv, LockedTypeOK, WorksOnCurrent, StoredThenTold
<1>5. CacheIsCurrent'
  BY <1>0, <1>1, <1>2 DEF LockedInv, LockedTypeOK, CacheIsCurrent
<1> QED BY <1>0, <1>2, <1>3, <1>4, <1>5, HolderStep DEF LockedInv, LockedTypeOK

LEMMA EditLocked ==
  ASSUME LockedInv, NEW p \in Ops, Edit(p)
  PROVE  LockedInv'
<1> USE StoreAssumption
<1> DEFINE o == ref[p]
<1>0. HasLock(p) /\ pc[p] = "read" /\ o \in Objects /\ obj[o] = db
  BY DEF Edit, LockedInv, OneUnderWay, UnderWay, WorksOnCurrent
<1>1. Edited(p) \in Documents
  BY DEF LockedInv, LockedTypeOK, Edited
<1>2. /\ pc' = [pc EXCEPT ![p] = "edited"]
      /\ obj' = [obj EXCEPT ![o] = Edited(p)]
      /\ UNCHANGED <<kind, home, attempt, ref, cache, queue, request, db, outcome, faults>>
  BY <1>0 DEF Edit, Edited
<1>3. LockedTypeOK'
  BY <1>1, <1>2 DEF LockedInv, LockedTypeOK
<1>4. pc'[p] = "edited" /\ obj'[o] = Edited(p)
  BY <1>0, <1>2 DEF LockedInv, LockedTypeOK
<1>5. WorksOnCurrent(p)'
  BY <1>0, <1>2, <1>4 DEF WorksOnCurrent, Edited
<1>6. StoredThenTold(p)'
  BY <1>0, <1>2, <1>4 DEF LockedInv, StoredThenTold
<1>7. CacheIsCurrent'
  BY <1>4 DEF CacheIsCurrent
<1> QED BY <1>0, <1>2, <1>3, <1>5, <1>6, <1>7, HolderStep DEF LockedInv, LockedTypeOK

LEMMA DeclineLocked ==
  ASSUME LockedInv, NEW p \in Ops, Decline(p)
  PROVE  LockedInv'
<1> USE StoreAssumption
<1>0. HasLock(p) /\ pc[p] = "read"
  BY DEF Decline, LockedInv, OneUnderWay, UnderWay
<1>1. Tail(queue[home[p]]) \in Seq(Ops)
  BY <1>0 DEF LockedInv, LockedTypeOK, HasLock, Locking
<1>2. /\ pc' = [pc EXCEPT ![p] = "over"]
      /\ outcome' = [outcome EXCEPT ![p] = "unchanged"]
      /\ queue' = [queue EXCEPT ![home[p]] = Tail(queue[home[p]])]
      /\ UNCHANGED <<kind, home, attempt, ref, obj, cache, request, db, faults>>
  BY DEF LockedInv, LockedTypeOK, Decline, Finish, Locking
<1>3. LockedTypeOK'
  BY <1>1, <1>2 DEF LockedInv, LockedTypeOK
<1>4. pc'[p] = "over" /\ outcome'[p] = "unchanged"
  BY <1>2 DEF LockedInv, LockedTypeOK
<1>5. WorksOnCurrent(p)'
  BY <1>4 DEF WorksOnCurrent
<1>6. StoredThenTold(p)'
  BY <1>0, <1>2, <1>4 DEF LockedInv, StoredThenTold
<1>7. CacheIsCurrent'
  <2>1. cache[home[p]] # None => obj[cache[home[p]]] = db
    BY <1>0, CacheIsGood
  <2> QED BY <1>2, <2>1 DEF LockedInv, LockedTypeOK, CacheIsCurrent
<1> QED BY <1>0, <1>2, <1>3, <1>4, <1>5, <1>6, <1>7, HolderStep DEF LockedInv, LockedTypeOK

LEMMA SendLocked ==
  ASSUME LockedInv, NEW p \in Ops, Send(p)
  PROVE  LockedInv'
<1> USE StoreAssumption
<1>0. HasLock(p) /\ pc[p] = "edited" /\ obj[ref[p]] = Edited(p)
  BY DEF Send, LockedInv, OneUnderWay, UnderWay, WorksOnCurrent
<1>1. Edited(p) \in Documents
  BY DEF LockedInv, LockedTypeOK, Edited
<1>2. /\ pc' = [pc EXCEPT ![p] = "sent"]
      /\ request' = [request EXCEPT ![p] = Edited(p)]
      /\ UNCHANGED <<kind, home, attempt, ref, obj, cache, queue, db, outcome, faults>>
  BY <1>0 DEF Send
<1>3. LockedTypeOK'
  BY <1>1, <1>2 DEF LockedInv, LockedTypeOK
<1>4. pc'[p] = "sent" /\ request'[p] = Edited(p)
  BY <1>2 DEF LockedInv, LockedTypeOK
<1>5. WorksOnCurrent(p)'
  BY <1>2, <1>4 DEF WorksOnCurrent, Edited
<1>6. StoredThenTold(p)'
  BY <1>0, <1>1, <1>2, <1>4 DEF LockedInv, StoredThenTold
<1>7. CacheIsCurrent'
  BY <1>4 DEF CacheIsCurrent
<1> QED BY <1>0, <1>2, <1>3, <1>5, <1>6, <1>7, HolderStep DEF LockedInv, LockedTypeOK

(* The holder finds in the store what it read: its edit is added. *)
LEMMA HolderAddsEdit ==
  ASSUME LockedInv, NEW p \in Ops, pc[p] = "sent"
  PROVE  /\ Accepts(p)
         /\ request[p] # None
         /\ p \notin db.edits
         /\ Write(p) => /\ db' = [etag |-> db.etag + 1, edits |-> db.edits \cup {p}]
                        /\ request' = [request EXCEPT ![p] = None]
<1>1. request[p] = Edited(p) /\ request[p] # None /\ p \notin db.edits
  BY DEF LockedInv, WorksOnCurrent, StoredThenTold
<1>2. Edited(p).etag = db.etag /\ Edited(p).edits = db.edits \cup {p}
  BY DEF LockedInv, LockedTypeOK, Edited
<1> QED BY <1>1, <1>2 DEF Accepts, Write

LEMMA StoreLocked ==
  ASSUME LockedInv, NEW p \in Ops, Store(p)
  PROVE  LockedInv'
<1> USE StoreAssumption
<1>0. HasLock(p) /\ pc[p] = "sent"
  BY DEF Store, LockedInv, OneUnderWay, UnderWay
<1>1. <<p, 0>> \in Objects
  BY DEF Objects
<1>2. /\ db' = [etag |-> db.etag + 1, edits |-> db.edits \cup {p}]
      /\ request' = [request EXCEPT ![p] = None]
      /\ obj' = [obj EXCEPT ![<<p, 0>>] = db']
      /\ pc' = [pc EXCEPT ![p] = "stored"]
      /\ UNCHANGED <<kind, home, attempt, ref, cache, queue, outcome, faults>>
  BY <1>0, HolderAddsEdit DEF Store
<1>3. db' \in Documents
  BY <1>2 DEF LockedInv, LockedTypeOK
<1>4. LockedTypeOK'
  BY <1>2, <1>3 DEF LockedInv, LockedTypeOK
<1>5. pc'[p] = "stored" /\ obj'[<<p, 0>>] = db' /\ request'[p] = None /\ p \in db'.edits
  BY <1>1, <1>2 DEF LockedInv, LockedTypeOK
<1>6. WorksOnCurrent(p)'
  BY <1>5 DEF WorksOnCurrent
<1>7. StoredThenTold(p)'
  BY <1>0, <1>2, <1>5 DEF LockedInv, StoredThenTold
<1>8. CacheIsCurrent'
  BY <1>5 DEF CacheIsCurrent
<1>9. \A q \in Ops \ {p} : q \in db'.edits <=> q \in db.edits
  BY <1>2
<1> QED BY <1>0, <1>2, <1>4, <1>6, <1>7, <1>8, <1>9, HolderStep DEF LockedInv, LockedTypeOK

LEMMA StoredLocked ==
  ASSUME LockedInv, NEW p \in Ops, Stored(p)
  PROVE  LockedInv'
<1> USE StoreAssumption
<1>0. HasLock(p) /\ pc[p] = "stored" /\ obj[<<p, 0>>] = db
  BY DEF Stored, LockedInv, OneUnderWay, UnderWay, WorksOnCurrent
<1>1. Tail(queue[home[p]]) \in Seq(Ops)
  BY <1>0 DEF LockedInv, LockedTypeOK, HasLock, Locking
<1>2. PICK o \in Objects : o = <<p, 0>>
  <2>1. <<p, 0>> \in Objects
    BY DEF Objects
  <2> QED BY <2>1
<1>3. /\ pc' = [pc EXCEPT ![p] = "over"]
      /\ outcome' = [outcome EXCEPT ![p] = "ok"]
      /\ queue' = [queue EXCEPT ![home[p]] = Tail(queue[home[p]])]
      /\ cache' = [cache EXCEPT ![home[p]] = o]
      /\ UNCHANGED <<kind, home, attempt, ref, obj, request, db, faults>>
  BY <1>2 DEF LockedInv, LockedTypeOK, Stored, Finish, Locking
<1>4. LockedTypeOK'
  BY <1>1, <1>3 DEF LockedInv, LockedTypeOK
<1>5. pc'[p] = "over" /\ outcome'[p] = "ok"
  BY <1>3 DEF LockedInv, LockedTypeOK
<1>6. WorksOnCurrent(p)'
  BY <1>5 DEF WorksOnCurrent
<1>7. StoredThenTold(p)'
  BY <1>0, <1>3, <1>5 DEF LockedInv, StoredThenTold
<1>8. CacheIsCurrent'
  BY <1>0, <1>2, <1>3 DEF LockedInv, LockedTypeOK, CacheIsCurrent
<1> QED BY <1>0, <1>3, <1>4, <1>5, <1>6, <1>7, <1>8, HolderStep DEF LockedInv, LockedTypeOK

LEMMA ExpireLocked ==
  ASSUME LockedInv, NEW i \in Instances, Expire(i)
  PROVE  LockedInv'
<1>1. /\ cache' = [cache EXCEPT ![i] = None]
      /\ UNCHANGED <<kind, home, pc, attempt, ref, obj, queue, request, db, outcome, faults>>
  BY DEF Expire
<1>2. LockedTypeOK' /\ OneUnderWay' /\ CacheIsCurrent'
  BY <1>1 DEF LockedInv, LockedTypeOK, OneUnderWay, UnderWay, HasLock, Locking, CacheIsCurrent
<1>3. \A p \in Ops : WorksOnCurrent(p)' /\ StoredThenTold(p)'
  BY <1>1 DEF LockedInv, WorksOnCurrent, StoredThenTold, Edited
<1> QED BY <1>2, <1>3 DEF LockedInv

(* No conflict can occur, nothing fails, and no request is left behind. *)
LEMMA NoFailureLocked ==
  ASSUME LockedInv, NEW p \in Ops
  PROVE  ~Conflict(p) /\ ~Fault(p) /\ ~StoreLate(p)
<1>1. ~Conflict(p)
  BY HolderAddsEdit DEF Conflict
<1>2. ~Fault(p)
  BY DEF LockedInv, LockedTypeOK, Fault
<1>3. ~StoreLate(p)
  BY DEF LockedInv, StoredThenTold, StoreLate
<1> QED BY <1>1, <1>2, <1>3

LEMMA NextLocked ==
  ASSUME LockedInv, [Next]_vars
  PROVE  LockedInv'
<1>1. CASE UNCHANGED vars
  <2>1. LockedTypeOK' /\ OneUnderWay' /\ CacheIsCurrent'
    BY <1>1 DEF vars, LockedInv, LockedTypeOK, OneUnderWay, UnderWay, HasLock, Locking,
       CacheIsCurrent
  <2>2. \A p \in Ops : WorksOnCurrent(p)' /\ StoredThenTold(p)'
    BY <1>1 DEF vars, LockedInv, WorksOnCurrent, StoredThenTold, Edited
  <2> QED BY <2>1, <2>2 DEF LockedInv
<1>2. ASSUME NEW p \in Ops, Conflict(p) \/ Fault(p) \/ StoreLate(p) PROVE FALSE
  BY <1>2, NoFailureLocked
<1>3. ASSUME NEW i \in Instances, Crash(i) PROVE FALSE
  BY <1>3 DEF LockedInv, LockedTypeOK, Crash
<1>4. CASE Next
  BY <1>2, <1>3, <1>4, CallLocked, ReadCachedLocked, FetchLocked, FetchedLocked, EditLocked,
     DeclineLocked, SendLocked, StoreLocked, StoredLocked, ExpireLocked
     DEF Next
<1> QED BY <1>1, <1>4

-----------------------------------------------------------------------------
SafeInv == SeamInv \/ LockedInv

LEMMA SafeInvariant ==
  ASSUME SafeWriters
  PROVE  Spec => []SafeInv
<1>1. Init => SafeInv
  BY InitSafe DEF SafeInv
<1>2. SafeInv /\ [Next]_vars => SafeInv'
  BY NextSeam, NextLocked DEF SafeInv
<1> QED BY <1>1, <1>2, PTL DEF Spec

(* When every writer goes through mutateChatDocument, an update reported   *)
(* as saved is never lost, in any number of instances, beside readers and  *)
(* whatever fails; neither is one of any locked writer in one instance     *)
(* that lives on and where nobody reads outside the lock.                  *)
THEOREM SafeWritersLoseNothing ==
  ASSUME SafeWriters
  PROVE  Spec => []NoLostUpdate
<1>1. SeamInv => NoLostUpdate
  BY DEF SeamInv
<1>2. LockedInv => NoLostUpdate
  BY DEF LockedInv, StoredThenTold, NoLostUpdate
<1> QED BY <1>1, <1>2, SafeInvariant, PTL DEF SafeInv

(* A mutator that declined, or that ran out of attempts, changed nothing.  *)
THEOREM SafeWritersLeaveNoTrace ==
  ASSUME SafeWriters
  PROVE  Spec => []RejectedLeavesNoTrace
<1>1. SeamInv => RejectedLeavesNoTrace
  BY DEF SeamInv
<1>2. LockedInv => RejectedLeavesNoTrace
  BY DEF LockedInv, StoredThenTold, RejectedLeavesNoTrace
<1> QED BY <1>1, <1>2, SafeInvariant, PTL DEF SafeInv

(* What a step of either kind of deployment finds. *)
StepKnows ==
  \A p \in Ops :
    /\ request[p] # None /\ Accepts(p) => p \notin db.edits
                                       /\ request[p].edits = db.edits \cup {p}
    /\ pc[p] = "sent" => request[p] # None
    /\ pc[p] = "stored" => p \in db.edits /\ Writer(p)
    /\ pc[p] # "over" => outcome[p] # "ok"

LEMMA SafeInvKnows == SafeInv => StepKnows /\ outcome \in [Ops -> Outcomes]
<1>1. SeamInv => StepKnows /\ outcome \in [Ops -> Outcomes]
  BY DEF SeamInv, SeamTypeOK, RequestsBased, Based, StoredOnce, ReadersRead, Accepts, Writer,
     StepKnows
<1>2. LockedInv => StepKnows /\ outcome \in [Ops -> Outcomes]
  <2> SUFFICES ASSUME LockedInv, NEW p \in Ops
               PROVE  /\ request[p] # None => p \notin db.edits
                                            /\ request[p].edits = db.edits \cup {p}
                      /\ pc[p] = "sent" => request[p] # None
                      /\ pc[p] = "stored" => p \in db.edits /\ Writer(p)
                      /\ pc[p] # "over" => outcome[p] # "ok"
    BY DEF StepKnows, LockedInv, LockedTypeOK
  <2>1. Writer(p) /\ Edited(p).edits = db.edits \cup {p}
    BY DEF LockedInv, LockedTypeOK, Writer, Edited
  <2> QED BY <2>1 DEF LockedInv, WorksOnCurrent, StoredThenTold
<1> QED BY <1>1, <1>2 DEF SafeInv

(* A step applies one edit, confirms one, or does neither.                 *)
LEMMA StepRefines ==
  ASSUME SafeInv, [Next]_vars
  PROVE  [Document!DocNext]_Document!docVars
<1> DEFINE confirmed == {p \in Ops : Writer(p) /\ outcome[p] = "ok"}
<1>0. StepKnows /\ outcome \in [Ops -> Outcomes]
  BY SafeInvKnows
<1>1. ASSUME NEW p \in Ops, Store(p) \/ StoreLate(p)
      PROVE  Document!Apply(p)
  <2>1. /\ request[p] # None /\ Accepts(p) /\ Write(p)
        /\ UNCHANGED <<kind, outcome>>
    BY <1>0, <1>1 DEF StepKnows, Store, StoreLate
  <2>2. db'.edits = db.edits \cup {p} /\ p \notin db.edits
    BY <1>0, <2>1 DEF StepKnows, Write
  <2>3. confirmed' = confirmed
    BY <2>1 DEF Writer
  <2> QED BY <2>2, <2>3 DEF Document!Apply
<1>2. ASSUME NEW p \in Ops, Stored(p)
      PROVE  Document!Confirm(p)
  <2>1. p \in db.edits /\ Writer(p) /\ UNCHANGED <<db, kind>>
    BY <1>0, <1>2 DEF StepKnows, Stored
  <2>2. outcome' = [outcome EXCEPT ![p] = "ok"]
    BY <1>2 DEF Stored, Finish
  <2>3. confirmed' = confirmed \cup {p}
    BY <1>0, <2>1, <2>2 DEF Writer
  <2> QED BY <2>1, <2>3 DEF Document!Confirm
<1>3. ASSUME NEW p \in Ops,
             \/ Call(p) \/ Fetch(p) \/ Edit(p) \/ Send(p)
      PROVE  UNCHANGED Document!docVars
  BY <1>3 DEF Document!docVars, Writer, Call, Fetch, Edit, Send
<1>4. ASSUME NEW p \in Ops,
             \/ ReadCached(p) \/ Fetched(p) \/ Decline(p) \/ Conflict(p) \/ Fault(p)
      PROVE  UNCHANGED Document!docVars
  <2>1. outcome[p] # "ok" /\ UNCHANGED <<db, kind>>
    <3>1. pc[p] # "over"
      BY <1>4 DEF ReadCached, Fetched, Decline, Conflict, Fault
    <3> QED BY <1>0, <1>4, <3>1 DEF StepKnows, ReadCached, Fetched, Decline, Conflict, Fault
  <2>2. \/ outcome' = outcome
        \/ \E o \in {"unchanged", "conflict", "error"} : outcome' = [outcome EXCEPT ![p] = o]
        \/ ~Writer(p) /\ outcome' = [outcome EXCEPT ![p] = "ok"]
    BY <1>4, <2>1 DEF ReadCached, Fetched, HaveDocument, Decline, Conflict, Fault, Finish
  <2>3. confirmed' = confirmed
    BY <1>0, <2>1, <2>2 DEF Writer
  <2> QED BY <2>1, <2>3 DEF Document!docVars
<1>5. ASSUME NEW i \in Instances, Expire(i) \/ Crash(i)
      PROVE  UNCHANGED Document!docVars
  <2>1. CASE Expire(i)
    BY <2>1 DEF Document!docVars, Writer, Expire
  <2>2. CASE Crash(i)
    <3>1. confirmed' = confirmed
      BY <1>0, <2>2 DEF StepKnows, Writer, Crash
    <3> QED BY <2>2, <3>1 DEF Document!docVars, Crash
  <2> QED BY <1>5, <2>1, <2>2
<1>6. CASE UNCHANGED vars
  BY <1>6 DEF vars, Document!docVars, Writer
<1> QED BY <1>1, <1>2, <1>3, <1>4, <1>5, <1>6 DEF Next, Document!DocNext

(* The document is one whose edits take effect at one instant, once, for   *)
(* good, and before they are confirmed.                                    *)
THEOREM SafeWritersAreAtomic ==
  ASSUME SafeWriters
  PROVE  Spec => ImplementsAtomicDocument
<1>1. Init => Document!DocInit
  BY DEF Init, Document!DocInit
<1>2. SafeInv /\ [Next]_vars => [Document!DocNext]_Document!docVars
  BY StepRefines
<1> QED BY <1>1, <1>2, SafeInvariant, PTL DEF Spec, ImplementsAtomicDocument, Document!DocSpec
=============================================================================
