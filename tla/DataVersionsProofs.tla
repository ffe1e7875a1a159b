------------------------- MODULE DataVersionsProofs -------------------------
(***************************************************************************)
(* What holds of the document of a session however many data operations,   *)
(* rebuilds, edits and failures there are, in any number of processes: the *)
(* history ends in the current version, and a save keeps foreign fields.   *)
(* The blob of the current version takes more: that saves do not overlap,  *)
(* which the lock guarantees within a process, and that no handler puts    *)
(* the document back below the version another one has read.               *)
(***************************************************************************)
EXTENDS DataVersions, SequenceTheorems, TLAPS

(* A read and a store find the blob of the version they are about. *)
BlobsExist ==
  /\ {1, doc.version} \subseteq DOMAIN blobs
  /\ \A o \in Ops : caller[o].version \in DOMAIN blobs
  /\ \A o \in Ops : at[o] = "storing" => newVersion[o] \in DOMAIN blobs
  /\ \A r \in Runs : run[r] \in {"begin", "sample"} => ver[r] \in DOMAIN blobs

VInv == TypeOK /\ BlobsExist

LEMMA HomeIsProcess ==
  /\ \A o \in Ops : Home[o] \in Processes
  /\ \A r \in Rebuilds : Home[r] \in Processes /\ r \notin Ops
  /\ Ops \subseteq Runs /\ Rebuilds \subseteq Runs
BY DataVersionsAssumption DEF Runs

LEMMA InitVInv == Init => VInv
<1> SUFFICES ASSUME Init PROVE VInv
  OBVIOUS
<1>1. Uploaded \in Documents
  BY DEF Uploaded, Documents
<1>2. DOMAIN blobs = {1} /\ blobs[1] = {}
  BY DEF Init
<1>3. table \in [Processes -> {None} \cup SUBSET Ops] /\ lock \in [Processes -> {None} \cup Ops]
  BY DEF Init
<1>4. blobs \in [DOMAIN blobs -> SUBSET Ops] /\ DOMAIN blobs \subseteq Nat
  BY <1>2 DEF Init
<1>5. TypeOK
  BY <1>1, <1>3, <1>4, DataVersionsAssumption DEF Init, TypeOK, Places
<1>6. BlobsExist
  BY <1>2 DEF Init, BlobsExist, Uploaded
<1> QED BY <1>5, <1>6 DEF VInv

(* A history made of the one that was read and the new version.            *)
LEMMA HistoryType ==
  ASSUME NEW o \in Ops, held[o].dataVersions \in Seq(Nat), newVersion[o] \in Nat
  PROVE  History(o) \in Seq(Nat)
<1> DEFINE all == Append(held[o].dataVersions, newVersion[o])
<1>1. all \in Seq(Nat) /\ Len(all) \in Nat
  OBVIOUS
<1> HIDE DEF all
<1>2. CASE Len(all) > KeepVersions
  <2>1. \A i \in Len(all) - KeepVersions + 1 .. Len(all) : all[i] \in Nat
    BY <1>1, <1>2, DataVersionsAssumption
  <2>2. SubSeq(all, Len(all) - KeepVersions + 1, Len(all)) \in Seq(Nat)
    BY <1>1, <2>1, SubSeqProperties, DataVersionsAssumption
  <2> QED BY <1>2, <2>2 DEF History, all
<1>3. CASE ~ (Len(all) > KeepVersions)
  BY <1>1, <1>3 DEF History, all
<1> QED BY <1>2, <1>3

LEMMA PatchedType ==
  ASSUME TypeOK, NEW o \in Ops
  PROVE  /\ Patched(o, held[o]) \in Documents
         /\ Patched(o, held[o]).version = newVersion[o]
         /\ Patched(o, held[o]).rows = rows[o]
         /\ Patched(o, held[o]).dataVersions = History(o)
         /\ Patched(o, held[o]).edits = held[o].edits
         /\ Patched(o, held[o]).ragIndex = held[o].ragIndex
<1>1. held[o] \in Documents /\ newVersion[o] \in Nat /\ rows[o] \in SUBSET Ops
  BY DEF TypeOK
<1>2. History(o) \in Seq(Nat)
  BY <1>1, HistoryType DEF Documents
<1> QED BY <1>1, <1>2 DEF Patched, Documents

(* What the end of a save does to the locals. *)
LEMMA OverType ==
  ASSUME TypeOK, NEW o \in Ops, NEW to \in {"refreshing", "context", "over"}, Over(o, to)
  PROVE  /\ at' \in [Ops -> Places] /\ at'[o] = to
         /\ \A p \in Ops : p # o => at'[p] = at[p]
         /\ lock' \in [Processes -> {None} \cup Ops]
         /\ rows' \in [Ops -> SUBSET Ops]
         /\ held' \in [Ops -> Documents] /\ caller' \in [Ops -> Documents]
         /\ newVersion' \in [Ops -> Nat] /\ tries' \in [Ops -> Nat]
         /\ \A p \in Ops : caller'[p] = caller[p] \/ caller'[p] = Uploaded
         /\ \A p \in Ops : p # o => caller'[p] = caller[p] /\ newVersion'[p] = newVersion[p]
<1>1. Uploaded \in Documents
  BY DEF Uploaded, Documents
<1> QED BY <1>1, HomeIsProcess DEF Over, TypeOK, Places

LEMMA OperationVInv ==
  ASSUME VInv, NEW o \in Ops,
         \/ Load(o) \/ Locked(o) \/ updateProcessedDataBlob(o) \/ Store(o) \/ Conflict(o)
         \/ SaveFails(o) \/ Refresh(o) \/ StoreContext(o) \/ Refused(o)
  PROVE  VInv'
<1> USE HomeIsProcess DEF VInv
<1>1. CASE Load(o)
  <2>1. (IF table[Home[o]] = None THEN blobs[doc.version] ELSE table[Home[o]]) \cup {o} \in SUBSET Ops
    BY DEF TypeOK, BlobsExist
  <2>2. rows' \in [Ops -> SUBSET Ops]
    BY <1>1, <2>1 DEF Load, TypeOK
  <2>3. caller' \in [Ops -> Documents] /\ held' \in [Ops -> Documents]
    BY <1>1 DEF Load, TypeOK
  <2>4. at' \in [Ops -> Places]
    BY <1>1 DEF Load, TypeOK, Places
  <2>5. TypeOK'
    BY <1>1, <2>2, <2>3, <2>4 DEF Load, TypeOK, rebuild
  <2>6. BlobsExist'
    BY <1>1 DEF Load, TypeOK, BlobsExist, rebuild
  <2> QED BY <2>5, <2>6
<1>2. CASE Locked(o)
  <2>1. doc.version + 1 \in Nat
    BY DEF TypeOK, Documents
  <2>2. TypeOK'
    BY <1>2, <2>1 DEF Locked, TypeOK, Places, rebuild
  <2>3. BlobsExist'
    BY <1>2 DEF Locked, TypeOK, BlobsExist, rebuild
  <2> QED BY <2>2, <2>3
<1>3. CASE updateProcessedDataBlob(o)
  <2>1. /\ DOMAIN blobs' = DOMAIN blobs \cup {newVersion[o]}
        /\ \A v \in DOMAIN blobs' : blobs'[v] = IF v = newVersion[o] THEN rows[o] ELSE blobs[v]
        /\ newVersion[o] \in Nat /\ rows[o] \in SUBSET Ops
        /\ blobs' = [v \in DOMAIN blobs' |-> blobs'[v]]
    BY <1>3 DEF updateProcessedDataBlob, TypeOK
  <2>2. blobs' \in [DOMAIN blobs' -> SUBSET Ops] /\ DOMAIN blobs' \subseteq Nat
    BY <2>1 DEF TypeOK
  <2>3. TypeOK'
    BY <1>3, <2>2 DEF updateProcessedDataBlob, TypeOK, Places, rebuild
  <2>4. BlobsExist'
    BY <1>3, <2>1 DEF updateProcessedDataBlob, TypeOK, BlobsExist, rebuild
  <2> QED BY <2>3, <2>4
<1>4. CASE Store(o) \/ (Conflict(o) /\ Over(o, "over") /\ UNCHANGED fresh) \/ SaveFails(o)
  <2>1. PICK to \in {"refreshing", "context", "over"} : Over(o, to)
    BY <1>4 DEF Store, SaveFails
  <2>2. \/ doc' = doc /\ fresh' = fresh
        \/ at[o] = "storing" /\ doc' = Patched(o, held[o]) /\ fresh' = {}
    BY <1>4 DEF Store, SaveFails, Conflict, Stored
  <2>3. /\ UNCHANGED <<blobs, table, ver>> /\ (run' = run \/ run' = [run EXCEPT ![o] = "scheduled"])
        /\ faults' \in 0..MaxFaults
    BY <1>4, DataVersionsAssumption DEF Store, SaveFails, Conflict, rebuild, TypeOK
  <2>4. doc' \in Documents /\ doc'.version \in DOMAIN blobs'
    BY <2>2, <2>3, PatchedType DEF TypeOK, BlobsExist
  <2>5. run' \in [Runs -> {"unasked", "scheduled", "begin", "sample", "embed", "failed", "off"}]
        /\ \A r \in Runs : run'[r] \in {"begin", "sample"} => run[r] \in {"begin", "sample"}
    BY <2>3 DEF TypeOK
  <2>6. TypeOK'
    BY <2>1, <2>2, <2>3, <2>4, <2>5, OverType DEF TypeOK
  <2>7. BlobsExist'
    <3>1. Uploaded.version = 1
      BY DEF Uploaded
    <3>2. \A p \in Ops : caller'[p].version \in DOMAIN blobs
      BY <2>1, <3>1, OverType DEF BlobsExist
    <3>3. \A p \in Ops : at'[p] = "storing" => newVersion'[p] \in DOMAIN blobs
      BY <2>1, OverType DEF BlobsExist
    <3> QED BY <2>3, <2>4, <2>5, <3>2, <3>3 DEF BlobsExist
  <2> QED BY <2>6, <2>7
<1>5. CASE Conflict(o) /\ ~ (Over(o, "over") /\ UNCHANGED fresh)
  <2>1. /\ tries' = [tries EXCEPT ![o] = @ + 1]
        /\ held' = [held EXCEPT ![o] = [doc EXCEPT !.dataVersions = held[o].dataVersions]]
        /\ fresh' = fresh \cup {o}
        /\ UNCHANGED <<at, lock, rows, newVersion, caller, doc, blobs, table, run, ver, faults>>
    BY <1>5 DEF Conflict, rebuild
  <2>2. [doc EXCEPT !.dataVersions = held[o].dataVersions] \in Documents
    BY DEF TypeOK, Documents
  <2> QED BY <2>1, <2>2 DEF TypeOK, BlobsExist
<1>6. CASE Refresh(o)
  <2>1. table' \in [Processes -> {None} \cup SUBSET Ops] /\ faults' \in 0..MaxFaults
    BY <1>6, DataVersionsAssumption DEF Refresh, TypeOK
  <2> QED BY <1>6, <2>1 DEF Refresh, TypeOK, BlobsExist, rebuild, Places
<1>7. CASE StoreContext(o)
  <2>1. Uploaded \in Documents /\ Uploaded.version = 1
    BY DEF Uploaded, Documents
  <2>2. (doc' = caller[o] \/ doc' = doc) /\ fresh' \subseteq fresh /\ faults' \in 0..MaxFaults
    BY <1>7, DataVersionsAssumption DEF StoreContext, Stored, TypeOK
  <2>3. doc' \in Documents /\ doc'.version \in DOMAIN blobs
    BY <2>2 DEF TypeOK, BlobsExist
  <2> QED BY <1>7, <2>1, <2>2, <2>3 DEF StoreContext, TypeOK, BlobsExist, rebuild, Places
<1>8. CASE Refused(o)
  BY <1>8 DEF Refused, TypeOK, BlobsExist, operation
<1> QED BY <1>1, <1>2, <1>3, <1>4, <1>5, <1>6, <1>7, <1>8

LEMMA RebuildVInv ==
  ASSUME VInv, NEW r \in Rebuilds,
         \/ Schedule(r) \/ Begin(r) \/ Indexing(r) \/ getSampleFromDuckDB(r)
         \/ Ready(r) \/ Error(r) \/ RebuildFails(r)
  PROVE  VInv'
<1> USE HomeIsProcess DEF VInv
<1>1. CASE Schedule(r)
  BY <1>1 DEF Schedule, TypeOK, BlobsExist, operation
<1>2. CASE Begin(r)
  <2>1. doc.version \in Nat
    BY DEF TypeOK, Documents
  <2> QED BY <1>2, <2>1 DEF Begin, TypeOK, BlobsExist, operation
<1>3. CASE Indexing(r) \/ Ready(r) \/ Error(r)
  <2>1. PICK x \in [status : {"none", "indexing", "ready", "error"}, version : Nat] :
           Stored([doc EXCEPT !.ragIndex = x])
    <3>1. doc.ragIndex \in [status : {"none", "indexing", "ready", "error"}, version : Nat]
      BY DEF TypeOK, Documents
    <3>2. ver[r] \in Nat
      BY DEF TypeOK
    <3> QED BY <1>3, <3>1, <3>2 DEF Indexing, Ready, Error, updateRagIndexField
  <2>2. doc' \in Documents /\ doc'.version = doc.version /\ fresh' = {}
    BY <2>1 DEF Stored, TypeOK, Documents
  <2>3. /\ UNCHANGED <<blobs, table, lock, at, rows, held, newVersion, tries, caller, faults>>
        /\ \/ run' = [run EXCEPT ![r] = "sample"] /\ run[r] = "begin" /\ ver' = ver
           \/ run' = [run EXCEPT ![r] = "off"] /\ ver' = [ver EXCEPT ![r] = 0]
    BY <1>3 DEF Indexing, Ready, Error, updateRagIndexField
  <2> QED BY <2>2, <2>3 DEF TypeOK, BlobsExist
<1>4. CASE getSampleFromDuckDB(r)
  <2>1. table' \in [Processes -> {None} \cup SUBSET Ops] /\ faults' \in 0..MaxFaults
    BY <1>4, DataVersionsAssumption DEF getSampleFromDuckDB, TypeOK, BlobsExist
  <2> QED BY <1>4, <2>1 DEF getSampleFromDuckDB, TypeOK, BlobsExist, operation
<1>5. CASE RebuildFails(r)
  BY <1>5, DataVersionsAssumption DEF RebuildFails, TypeOK, BlobsExist, operation
<1> QED BY <1>1, <1>2, <1>3, <1>4, <1>5

LEMMA EditVInv ==
  ASSUME VInv, Edit
  PROVE  VInv'
<1>0. doc.edits + 1 \in Nat /\ doc \in Documents
  BY DEF VInv, TypeOK, Documents
<1>1. doc' \in Documents /\ doc'.version = doc.version /\ fresh' = {}
  BY <1>0 DEF Edit, Stored, Documents
<1> QED BY <1>1 DEF Edit, VInv, TypeOK, BlobsExist, rebuild

LEMMA NextVInv == VInv /\ [Next]_vars => VInv'
<1> SUFFICES ASSUME VInv, [Next]_vars PROVE VInv'
  OBVIOUS
<1>1. CASE UNCHANGED vars
  BY <1>1 DEF vars, operation, rebuild, VInv, TypeOK, BlobsExist
<1> QED BY <1>1, OperationVInv, RebuildVInv, EditVInv DEF Next

LEMMA VInvariant == Spec => []VInv
BY InitVInv, NextVInv, PTL DEF Spec

(* The state of document, blobs, operations and rebuilds is well typed.    *)
THEOREM TypeCorrect == Spec => []TypeOK
BY VInvariant, PTL DEF VInv
-----------------------------------------------------------------------------
(* The ways a step touches the document and the locals of a save.          *)
Saving == {"writing", "storing"}

Released(o) == lock' = [lock EXCEPT ![Home[o]] = None]

(* The others go on with what they had. *)
OthersStay(o) ==
  \A p \in Ops : p # o => /\ at'[p] = at[p] /\ held'[p] = held[p] /\ rows'[p] = rows[p]
                          /\ newVersion'[p] = newVersion[p] /\ caller'[p] = caller[p]

Saved(o) ==      \* reported or not
  /\ at[o] = "storing" /\ o \in fresh /\ at'[o] \notin Saving
  /\ doc' = Patched(o, held[o]) /\ fresh' = {}
  /\ caller'[o] \in {caller[o], Uploaded}
  /\ o \in Handlers /\ at'[o] # "over" => caller'[o] = caller[o]
  /\ at'[o] = "context" => o \in Handlers
  /\ Released(o) /\ OthersStay(o) /\ UNCHANGED blobs

Recalled(o) ==   \* the document of the handler's caller
  /\ at[o] = "context" /\ at'[o] = "over" /\ caller'[o] = Uploaded
  /\ doc' = caller[o] /\ fresh' = {}
  /\ OthersStay(o) /\ UNCHANGED <<lock, blobs>>

Beside ==        \* a field no save owns
  /\ doc' = [doc EXCEPT !.edits = doc'.edits, !.ragIndex = doc'.ragIndex] /\ fresh' = {}
  /\ UNCHANGED <<lock, at, held, rows, newVersion, caller, blobs>>

Begun(o) ==      \* the first read under the lock
  /\ at[o] = "waiting" /\ at'[o] = "writing"
  /\ held'[o] = doc /\ newVersion'[o] = doc.version + 1 /\ fresh' = fresh \cup {o}
  /\ lock[Home[o]] = None /\ lock' = [lock EXCEPT ![Home[o]] = o]
  /\ OthersStay(o) /\ UNCHANGED <<doc, caller, blobs>>

Written(o) ==
  /\ at[o] = "writing" /\ at'[o] = "storing"
  /\ DOMAIN blobs' = DOMAIN blobs \cup {newVersion[o]}
  /\ \A v \in DOMAIN blobs' : blobs'[v] = IF v = newVersion[o] THEN rows[o] ELSE blobs[v]
  /\ UNCHANGED <<doc, lock, held, rows, newVersion, caller, fresh>>
  /\ OthersStay(o)

Reread(o) ==
  /\ at[o] = "storing" /\ fresh' = fresh \cup {o}
  /\ held' = [held EXCEPT ![o] = [doc EXCEPT !.dataVersions = held[o].dataVersions]]
  /\ UNCHANGED <<doc, lock, at, rows, newVersion, caller, blobs>>

Loaded(o) ==
  /\ at[o] = "start" /\ at'[o] \in {"waiting", "refreshing", "over"}
  /\ IF o \in Handlers /\ at'[o] # "over" THEN caller'[o] = doc ELSE caller'[o] = caller[o]
  /\ OthersStay(o) /\ UNCHANGED <<doc, lock, fresh, blobs>>

GivenUp(o) ==    \* or the end of the operation
  /\ at[o] # "start" /\ at'[o] = "over" /\ caller'[o] \in {caller[o], Uploaded}
  /\ IF at[o] \in Saving THEN Released(o) ELSE lock' = lock
  /\ OthersStay(o) /\ UNCHANGED <<doc, fresh, blobs>>

Effects ==
  \/ \E o \in Ops : Saved(o) \/ Recalled(o) \/ Begun(o) \/ Written(o) \/ Reread(o)
                    \/ Loaded(o) \/ GivenUp(o)
  \/ Beside
  \/ UNCHANGED <<doc, lock, at, held, rows, newVersion, caller, fresh, blobs>>

LEMMA OverStays ==
  ASSUME TypeOK, NEW o \in Ops, NEW to \in {"refreshing", "context", "over"}, Over(o, to)
  PROVE  /\ at'[o] = to /\ OthersStay(o)
         /\ caller'[o] \in {caller[o], Uploaded} /\ Released(o)
         /\ to = "context" => caller'[o] = caller[o]
BY HomeIsProcess DEF Over, TypeOK, OthersStay, Released

LEMMA OperationEffects ==
  ASSUME TypeOK, NEW o \in Ops,
         \/ Load(o) \/ Locked(o) \/ updateProcessedDataBlob(o) \/ Store(o) \/ Conflict(o)
         \/ SaveFails(o) \/ Refresh(o) \/ StoreContext(o) \/ Refused(o)
  PROVE  Effects
<1> USE DEF TypeOK
<1>1. CASE Load(o)
  <2>1. Loaded(o)
    BY <1>1 DEF Load, Loaded, OthersStay
  <2> QED BY <2>1 DEF Effects
<1>2. CASE Locked(o)
  <2>1. Begun(o)
    BY <1>2 DEF Locked, Begun, OthersStay
  <2> QED BY <2>1 DEF Effects
<1>3. CASE updateProcessedDataBlob(o)
  <2>1. Written(o)
    BY <1>3 DEF updateProcessedDataBlob, Written, OthersStay
  <2> QED BY <2>1 DEF Effects
<1>4. CASE Store(o) \/ SaveFails(o)
  <2>1. PICK to \in {"refreshing", "context", "over"} :
          /\ Over(o, to) /\ (to = "context" => o \in Handlers)
          /\ o \in Handlers => to \in {"context", "over"}
    BY <1>4, DataVersionsAssumption DEF Store, SaveFails
  <2>2. UNCHANGED blobs
    BY <1>4 DEF Store, SaveFails
  <2>3. CASE at[o] = "storing" /\ o \in fresh /\ Stored(Patched(o, held[o]))
    <3>1. Saved(o)
      BY <2>1, <2>2, <2>3, OverStays DEF Stored, Saved, Saving
    <3> QED BY <3>1 DEF Effects
  <2>4. CASE UNCHANGED <<doc, fresh>> /\ Over(o, "over") /\ at[o] \in {"writing", "storing"}
    <3>1. GivenUp(o)
      BY <2>2, <2>4, OverStays DEF GivenUp, Saving
    <3> QED BY <3>1 DEF Effects
  <2> QED BY <1>4, <2>3, <2>4 DEF Store, SaveFails
<1>5. CASE Conflict(o)
  <2>1. UNCHANGED <<doc, blobs>> /\ at[o] = "storing"
    BY <1>5 DEF Conflict
  <2>2. CASE Over(o, "over") /\ UNCHANGED fresh
    <3>1. GivenUp(o)
      BY <2>1, <2>2, OverStays DEF GivenUp, Saving
    <3> QED BY <3>1 DEF Effects
  <2>3. CASE /\ held' = [held EXCEPT ![o] = [doc EXCEPT !.dataVersions = held[o].dataVersions]]
             /\ fresh' = fresh \cup {o}
             /\ UNCHANGED <<at, lock, rows, newVersion, caller>>
    <3>1. Reread(o)
      BY <2>1, <2>3 DEF Reread
    <3> QED BY <3>1 DEF Effects
  <2> QED BY <1>5, <2>2, <2>3 DEF Conflict
<1>6. CASE Refresh(o)
  <2>1. GivenUp(o)
    BY <1>6 DEF Refresh, GivenUp, OthersStay, Saving
  <2> QED BY <2>1 DEF Effects
<1>7. CASE StoreContext(o)
  <2>1. /\ at[o] = "context" /\ at'[o] = "over" /\ caller'[o] = Uploaded
        /\ OthersStay(o) /\ UNCHANGED <<lock, blobs>>
    BY <1>7 DEF StoreContext, OthersStay
  <2>2. Recalled(o) \/ GivenUp(o)
    BY <1>7, <2>1 DEF StoreContext, Stored, Recalled, GivenUp, Saving
  <2> QED BY <2>2 DEF Effects
<1>8. CASE Refused(o)
  BY <1>8 DEF Refused, Effects, operation
<1> QED BY <1>1, <1>2, <1>3, <1>4, <1>5, <1>6, <1>7, <1>8

LEMMA StepEffects ==
  ASSUME TypeOK, [Next]_vars
  PROVE  Effects
<1>1. ASSUME Edit PROVE Effects
  <2>1. Beside
    BY <1>1 DEF Edit, Stored, Beside, TypeOK, Documents
  <2> QED BY <2>1 DEF Effects
<1>2. ASSUME NEW r \in Rebuilds, Indexing(r) \/ Ready(r) \/ Error(r) PROVE Effects
  <2>1. PICK x : Stored([doc EXCEPT !.ragIndex = x])
    BY <1>2 DEF Indexing, Ready, Error, updateRagIndexField
  <2>2. UNCHANGED <<lock, at, held, rows, newVersion, caller, blobs>>
    BY <1>2 DEF Indexing, Ready, Error, updateRagIndexField
  <2>3. Beside
    BY <2>1, <2>2 DEF Stored, Beside, TypeOK, Documents
  <2> QED BY <2>3 DEF Effects
<1>3. ASSUME NEW r \in Rebuilds, Schedule(r) \/ Begin(r) \/ getSampleFromDuckDB(r) \/ RebuildFails(r)
      PROVE  Effects
  BY <1>3 DEF Schedule, Begin, getSampleFromDuckDB, RebuildFails, operation, Effects
<1>4. CASE UNCHANGED vars
  BY <1>4 DEF vars, operation, Effects
<1> QED BY <1>1, <1>2, <1>3, <1>4, OperationEffects DEF Next

-----------------------------------------------------------------------------
(* A copy that has the etag of the document has its foreign fields.        *)
FreshCopies ==
  \A o \in fresh : at[o] \in Saving => held[o].edits = doc.edits /\ held[o].ragIndex = doc.ragIndex

LEMMA NextFresh == TypeOK /\ FreshCopies /\ [Next]_vars => FreshCopies'
<1> SUFFICES ASSUME TypeOK, FreshCopies, [Next]_vars PROVE FreshCopies'
  OBVIOUS
<1>0. fresh \subseteq Ops
  BY DEF TypeOK
<1>1. ASSUME NEW o \in Ops, Saved(o) \/ Recalled(o) PROVE FreshCopies'
  BY <1>1 DEF Saved, Recalled, FreshCopies
<1>2. CASE Beside
  BY <1>2 DEF Beside, FreshCopies
<1>3. ASSUME NEW o \in Ops, Begun(o) \/ Written(o) \/ Loaded(o) \/ GivenUp(o) PROVE FreshCopies'
  BY <1>0, <1>3 DEF Begun, Written, Loaded, GivenUp, OthersStay, FreshCopies, Saving
<1>4. ASSUME NEW o \in Ops, Reread(o) PROVE FreshCopies'
  <2>1. held'[o].edits = doc.edits /\ held'[o].ragIndex = doc.ragIndex
    BY <1>4 DEF Reread, TypeOK, Documents
  <2> QED BY <1>0, <1>4, <2>1 DEF Reread, FreshCopies, TypeOK
<1>5. CASE UNCHANGED <<doc, lock, at, held, rows, newVersion, caller, fresh, blobs>>
  BY <1>5 DEF FreshCopies
<1> QED BY <1>1, <1>2, <1>3, <1>4, <1>5, StepEffects DEF Effects

(* A save keeps the fields it does not own as another process or a rebuild *)
(* left them, however often it had to try.                                 *)
THEOREM ForeignFieldsStay == Spec => ForeignFieldsKept
<1>1. Init => FreshCopies
  BY DEF Init, FreshCopies
<1>2. ASSUME TypeOK, FreshCopies, [Next]_vars,
             NEW o \in Ops, at[o] = "storing", at'[o] # "storing"
      PROVE  doc'.edits = doc.edits /\ doc'.ragIndex = doc.ragIndex
  <2>1. CASE Saved(o)
    BY <1>2, <2>1, PatchedType DEF Saved, FreshCopies, Saving
  <2>2. CASE doc' = doc
    BY <2>2
  <2>3. \A p \in Ops : Saved(p) \/ Recalled(p) => p = o
    BY <1>2 DEF Saved, Recalled, OthersStay
  <2>4. ~ Recalled(o) /\ ~ Beside
    BY <1>2 DEF Recalled, Beside
  <2> QED BY <1>2, <2>1, <2>2, <2>3, <2>4, StepEffects
          DEF Effects, Begun, Written, Reread, Loaded, GivenUp
<1>3. TypeOK /\ FreshCopies /\ [Next]_vars =>
        [\A o \in Ops : at[o] = "storing" /\ at'[o] # "storing" =>
           doc'.edits = doc.edits /\ doc'.ragIndex = doc.ragIndex]_vars
  BY <1>2
<1> QED BY <1>1, <1>3, NextFresh, TypeCorrect, PTL DEF Spec, ForeignFieldsKept

-----------------------------------------------------------------------------
(* A history that goes up and ends in v; only the first version has none.  *)
Chronicle(h, v) ==
  /\ \A i, j \in DOMAIN h : i < j => h[i] < h[j]
  /\ h # << >> => h[Len(h)] = v
  /\ v > 1 => h # << >>

GoodDoc(d) ==
  d.version >= 1 /\ Chronicle(d.dataVersions, d.version) /\ Len(d.dataVersions) <= KeepVersions

(* The save works on the history up to the version before its own.  That   *)
(* of a later try may be another one than the document's by then.          *)
GoodCopies ==
  /\ GoodDoc(doc)
  /\ \A o \in Ops : GoodDoc(caller[o])
  /\ \A o \in Ops : at[o] \in Saving =>
       newVersion[o] > 1 /\ Chronicle(held[o].dataVersions, newVersion[o] - 1)

(* A longer one, and its last entries. *)
LEMMA ChronicleGrows ==
  ASSUME NEW h \in Seq(Nat), NEW v \in Nat, v > 1, Chronicle(h, v - 1)
  PROVE  Chronicle(Append(h, v), v) /\ Append(h, v) \in Seq(Nat)
<1> DEFINE all == Append(h, v)
           n == Len(h)
<1>1. /\ n \in Nat /\ DOMAIN h = 1 .. n
      /\ all \in Seq(Nat) /\ Len(all) = n + 1 /\ DOMAIN all = 1 .. n + 1
      /\ all[n + 1] = v /\ \A i \in 1 .. n : all[i] = h[i] /\ h[i] \in Nat
  OBVIOUS
<1>2. /\ \A i, j \in 1 .. n : i < j => h[i] < h[j]
      /\ h # << >> => h[n] = v - 1
  BY <1>1 DEF Chronicle
<1>3. all # << >>
  BY <1>1
<1>4. \A i \in 1 .. n : h # << >> /\ n \in 1 .. n
  BY <1>1
<1> HIDE DEF all, n
<1>5. \A i \in 1 .. n : h[i] < v
  <2> SUFFICES ASSUME NEW i \in 1 .. n PROVE h[i] < v
    OBVIOUS
  <2>1. h[n] = v - 1 /\ n \in 1 .. n
    BY <1>2, <1>4
  <2>2. h[n] < v
    BY <2>1
  <2>3. i # n => h[i] < h[n]
    BY <1>1, <1>2, <2>1
  <2>4. h[i] \in Nat /\ h[n] \in Nat
    BY <1>1, <2>1
  <2> QED BY <2>2, <2>3, <2>4
<1>6. \A i, j \in 1 .. n + 1 : i < j => all[i] < all[j]
  <2> SUFFICES ASSUME NEW i \in 1 .. n + 1, NEW j \in 1 .. n + 1, i < j PROVE all[i] < all[j]
    OBVIOUS
  <2>1. i \in 1 .. n /\ (j = n + 1 \/ j \in 1 .. n)
    BY <1>1
  <2>2. CASE j = n + 1
    BY <1>1, <1>5, <2>1, <2>2
  <2>3. CASE j \in 1 .. n
    BY <1>1, <1>2, <2>1, <2>3
  <2> QED BY <2>1, <2>2, <2>3
<1>7. Chronicle(all, v)
  BY <1>1, <1>3, <1>6 DEF Chronicle
<1> QED BY <1>1, <1>7 DEF all

LEMMA ChronicleCut ==
  ASSUME NEW h \in Seq(Nat), NEW v \in Nat, Chronicle(h, v), NEW k \in Nat \ {0}, Len(h) > k
  PROVE  LET kept == SubSeq(h, Len(h) - k + 1, Len(h)) IN Chronicle(kept, v) /\ Len(kept) = k
<1> DEFINE n == Len(h)
           cut == n - k
           kept == SubSeq(h, n - k + 1, n)
<1>1. /\ n \in Nat /\ cut \in Nat /\ n = cut + k /\ n - k + 1 = cut + 1 /\ k \in 1 .. k
      /\ DOMAIN h = 1 .. n /\ h # << >> /\ \A i \in 1 .. n : h[i] \in Nat
  OBVIOUS
<1>2. /\ kept \in Seq(Nat) /\ Len(kept) = n - (cut + 1) + 1
      /\ \A i \in 1 .. n - (cut + 1) + 1 : kept[i] = h[(cut + 1) + i - 1]
  BY <1>1, SubSeqProperties
<1>3. /\ \A i, j \in 1 .. n : i < j => h[i] < h[j]
      /\ h[n] = v
  BY <1>1 DEF Chronicle
<1> HIDE DEF n, cut, kept
<1>4. n - (cut + 1) + 1 = k /\ \A i \in 1 .. k : (cut + 1) + i - 1 = cut + i /\ cut + i \in 1 .. n
  BY <1>1
<1>5. Len(kept) = k /\ DOMAIN kept = 1 .. k /\ kept # << >>
      /\ \A i \in 1 .. k : kept[i] = h[cut + i]
  BY <1>1, <1>2, <1>4
<1>6. \A i, j \in 1 .. k : i < j => kept[i] < kept[j]
  BY <1>1, <1>3, <1>4, <1>5
<1>7. kept[k] = v
  BY <1>1, <1>3, <1>5
<1>8. Chronicle(kept, v)
  BY <1>5, <1>6, <1>7 DEF Chronicle
<1> QED BY <1>5, <1>8 DEF kept, n

LEMMA HistoryIsGood ==
  ASSUME TypeOK, NEW o \in Ops, newVersion[o] > 1,
         Chronicle(held[o].dataVersions, newVersion[o] - 1)
  PROVE  GoodDoc(Patched(o, held[o]))
<1> DEFINE all == Append(held[o].dataVersions, newVersion[o])
<1>1. held[o].dataVersions \in Seq(Nat) /\ newVersion[o] \in Nat /\ KeepVersions \in Nat \ {0}
  BY DataVersionsAssumption DEF TypeOK, Documents
<1>2. Chronicle(all, newVersion[o]) /\ all \in Seq(Nat) /\ Len(all) \in Nat
  BY <1>1, ChronicleGrows
<1> HIDE DEF all
<1>3. Chronicle(History(o), newVersion[o]) /\ Len(History(o)) <= KeepVersions
  <2>1. CASE Len(all) > KeepVersions
    <3>1. History(o) = SubSeq(all, Len(all) - KeepVersions + 1, Len(all))
      BY <2>1 DEF History, all
    <3>2. Chronicle(History(o), newVersion[o]) /\ Len(History(o)) = KeepVersions
      BY <1>1, <1>2, <2>1, <3>1, ChronicleCut
    <3> QED BY <1>1, <3>2
  <2>2. CASE ~ (Len(all) > KeepVersions)
    <3>1. History(o) = all
      BY <2>2 DEF History, all
    <3> QED BY <1>1, <1>2, <2>2, <3>1
  <2> QED BY <2>1, <2>2
<1>4. Patched(o, held[o]).version = newVersion[o] /\ Patched(o, held[o]).dataVersions = History(o)
  BY PatchedType
<1> QED BY <1>1, <1>3, <1>4 DEF GoodDoc

LEMMA InitGood == Init => GoodCopies
<1>1. GoodDoc(Uploaded)
  BY DataVersionsAssumption DEF Uploaded, GoodDoc, Chronicle
<1> QED BY <1>1 DEF Init, GoodCopies, Saving

LEMMA NextGood == TypeOK /\ GoodCopies /\ [Next]_vars => GoodCopies'
<1> SUFFICES ASSUME TypeOK, GoodCopies, [Next]_vars PROVE GoodCopies'
  OBVIOUS
<1>0. GoodDoc(Uploaded)
  BY DataVersionsAssumption DEF Uploaded, GoodDoc, Chronicle
<1>1. ASSUME NEW o \in Ops, Saved(o) PROVE GoodCopies'
  <2>1. GoodDoc(Patched(o, held[o]))
    BY <1>1, HistoryIsGood DEF Saved, GoodCopies, Saving
  <2> QED BY <1>0, <1>1, <2>1 DEF Saved, OthersStay, GoodCopies, GoodDoc
<1>2. ASSUME NEW o \in Ops, Recalled(o) PROVE GoodCopies'
  BY <1>0, <1>2 DEF Recalled, OthersStay, GoodCopies, GoodDoc, Saving
<1>3. CASE Beside
  <2>1. doc'.version = doc.version /\ doc'.dataVersions = doc.dataVersions
    BY <1>3 DEF Beside, TypeOK, Documents
  <2> QED BY <1>3, <2>1 DEF Beside, GoodCopies, GoodDoc
<1>4. ASSUME NEW o \in Ops, Begun(o) PROVE GoodCopies'
  <2>1. doc.version \in Nat /\ (doc.version + 1) - 1 = doc.version
    BY DEF TypeOK, Documents
  <2>2. newVersion'[o] > 1 /\ Chronicle(held'[o].dataVersions, newVersion'[o] - 1)
    BY <1>4, <2>1 DEF Begun, GoodCopies, GoodDoc
  <2> QED BY <1>4, <2>2 DEF Begun, OthersStay, GoodCopies, GoodDoc
<1>5. ASSUME NEW o \in Ops, Written(o) \/ GivenUp(o) PROVE GoodCopies'
  BY <1>0, <1>5 DEF Written, GivenUp, OthersStay, GoodCopies, GoodDoc, Saving
<1>6. ASSUME NEW o \in Ops, Loaded(o) PROVE GoodCopies'
  <2>1. \A p \in Ops : GoodDoc(caller'[p])
    BY <1>6 DEF Loaded, OthersStay, GoodCopies
  <2>2. \A p \in Ops : at'[p] \in Saving =>
          at[p] \in Saving /\ held'[p] = held[p] /\ newVersion'[p] = newVersion[p]
    BY <1>6 DEF Loaded, OthersStay, Saving
  <2> QED BY <1>6, <2>1, <2>2 DEF Loaded, GoodCopies, GoodDoc
<1>7. ASSUME NEW o \in Ops, Reread(o) PROVE GoodCopies'
  <2>1. \A p \in Ops : held'[p].dataVersions = held[p].dataVersions
    BY <1>7 DEF Reread, TypeOK, Documents
  <2> QED BY <1>7, <2>1 DEF Reread, GoodCopies, GoodDoc
<1>8. CASE UNCHANGED <<doc, lock, at, held, rows, newVersion, caller, fresh, blobs>>
  BY <1>8 DEF GoodCopies, GoodDoc
<1> QED BY <1>1, <1>2, <1>3, <1>4, <1>5, <1>6, <1>7, <1>8, StepEffects DEF Effects

(* The history of a document goes up, is not longer than it may be, and    *)
(* ends in the document's version; also of one a handler put back.         *)
THEOREM HistoryIsKept == Spec => []HistoryEndsInCurrent
<1>1. GoodCopies => HistoryEndsInCurrent
  BY DEF GoodCopies, GoodDoc, Chronicle, HistoryEndsInCurrent
<1> QED BY <1>1, InitGood, NextGood, TypeCorrect, PTL DEF Spec

-----------------------------------------------------------------------------
(* The blob of the current version.  Two saves that overlap may give one   *)
(* version to different rows; and a handler may put the version back below *)
(* the document that another one still holds, so that the next save writes *)
(* over its blob.  Nothing else can come between blob and document.        *)
SavesApart == \A o, p \in Ops : at[o] \in Saving /\ at[p] \in Saving => o = p

(* Who saves has the lock. *)
LockHeld == \A o \in Ops : at[o] \in Saving => lock[Home[o]] = o

OneProcess == \A o, p \in Ops : Home[o] = Home[p]

(* Only a handler gets to its caller's document. *)
OnlyHandlers == \A o \in Ops : at[o] = "context" => o \in Handlers

(* The version a save is about to write is not the document's, and not the *)
(* one that a handler is about to put back.                                *)
NewVersions == \A o \in Ops : at[o] \in Saving => newVersion[o] > doc.version

Active(o) == o \in Handlers /\ at[o] \notin {"start", "over"}

NonePutBelow ==
  \A o, p \in Ops : at[o] = "context" /\ Active(p) => caller[p].version <= caller[o].version

CallersBehind ==
  \A o \in Ops : Active(o) =>
    caller[o].version <= doc.version /\ blobs[caller[o].version] = caller[o].rows

WrittenBlobs == \A o \in Ops : at[o] = "storing" => blobs[newVersion[o]] = rows[o]

BlobInv ==
  OnlyHandlers /\ NewVersions /\ CallersBehind /\ WrittenBlobs /\ BlobIsCurrent

LEMMA InitBlobInv == Init => BlobInv
<1> SUFFICES ASSUME Init PROVE BlobInv
  OBVIOUS
<1>1. BlobIsCurrent
  BY DEF Init, BlobIsCurrent, Uploaded
<1> QED BY <1>1 DEF Init, BlobInv, OnlyHandlers, NewVersions, CallersBehind, Active,
                    WrittenBlobs, Saving

(* The lock keeps the saves of a process apart. *)
LEMMA NextLockHeld == TypeOK /\ LockHeld /\ [Next]_vars => LockHeld'
<1> SUFFICES ASSUME TypeOK, LockHeld, [Next]_vars PROVE LockHeld'
  OBVIOUS
<1> USE HomeIsProcess
<1>1. ASSUME NEW o \in Ops, Saved(o) \/ GivenUp(o) PROVE LockHeld'
  <2>1. at'[o] \notin Saving
    BY <1>1 DEF Saved, GivenUp, Saving
  <2>2. \A p \in Ops : p # o => at'[p] = at[p]
    BY <1>1 DEF Saved, GivenUp, OthersStay
  <2>3. CASE lock' = lock
    BY <2>1, <2>2, <2>3 DEF LockHeld
  <2>4. CASE Released(o) /\ at[o] \in Saving
    <3>1. \A p \in Ops : p # o /\ at[p] \in Saving => Home[p] # Home[o]
      BY <2>4 DEF LockHeld
    <3> QED BY <2>1, <2>2, <2>4, <3>1 DEF LockHeld, Released, TypeOK
  <2> QED BY <1>1, <2>3, <2>4 DEF Saved, GivenUp, Saving
<1>2. ASSUME NEW o \in Ops, Begun(o) PROVE LockHeld'
  <2>1. \A p \in Ops : at[p] \in Saving => Home[p] # Home[o]
    BY <1>2, DataVersionsAssumption DEF Begun, LockHeld
  <2> QED BY <1>2, <2>1 DEF Begun, OthersStay, LockHeld, TypeOK
<1>3. ASSUME NEW o \in Ops, Written(o) \/ Loaded(o) \/ Recalled(o) \/ Reread(o) PROVE LockHeld'
  BY <1>3 DEF Written, Loaded, Recalled, Reread, OthersStay, LockHeld, Saving
<1>4. CASE Beside \/ UNCHANGED <<doc, lock, at, held, rows, newVersion, caller, fresh, blobs>>
  BY <1>4 DEF Beside, LockHeld
<1> QED BY <1>1, <1>2, <1>3, <1>4, StepEffects DEF Effects

LEMMA NextOnlyHandlers == OnlyHandlers /\ TypeOK /\ [Next]_vars => OnlyHandlers'
BY StepEffects DEF Effects, Saved, Recalled, Beside, Begun, Written, Reread, Loaded, GivenUp,
                   OthersStay, OnlyHandlers

LEMMA NextBlobInv ==
  ASSUME SavesApart, NonePutBelow, VInv, BlobInv, [Next]_vars
  PROVE  BlobInv'
<1>0. OnlyHandlers'
  BY NextOnlyHandlers DEF VInv, BlobInv
<1>1. /\ doc.version \in Nat /\ doc.version \in DOMAIN blobs
      /\ \A p \in Ops : newVersion[p] \in Nat
      /\ \A p \in Ops : caller[p].version \in Nat /\ caller[p].version \in DOMAIN blobs
      /\ \A p \in Ops : at[p] = "storing" => newVersion[p] \in DOMAIN blobs
  BY DEF VInv, TypeOK, Documents, BlobsExist
<1>2. ASSUME NEW o \in Ops, Saved(o) PROVE BlobInv'
  <2>1. /\ doc'.version = newVersion[o] /\ doc'.rows = rows[o] /\ newVersion[o] > doc.version
        /\ blobs[newVersion[o]] = rows[o]
    BY <1>2, PatchedType DEF Saved, VInv, BlobInv, NewVersions, WrittenBlobs, Saving
  <2>2. \A p \in Ops : at'[p] \notin Saving
    BY <1>2 DEF Saved, OthersStay, SavesApart, Saving
  <2>3. \A p \in Ops : Active(p)' => Active(p) /\ caller'[p] = caller[p]
    BY <1>2 DEF Saved, OthersStay, Active
  <2>4. CallersBehind'
    BY <1>1, <1>2, <2>1, <2>3 DEF Saved, BlobInv, CallersBehind
  <2>5. NewVersions' /\ WrittenBlobs'
    BY <2>2 DEF NewVersions, WrittenBlobs, Saving
  <2>6. BlobIsCurrent'
    BY <1>2, <2>1 DEF Saved, BlobIsCurrent
  <2> QED BY <1>0, <2>4, <2>5, <2>6 DEF BlobInv
<1>3. ASSUME NEW o \in Ops, Recalled(o) PROVE BlobInv'
  <2>1. Active(o)
    BY <1>3 DEF Recalled, Active, BlobInv, OnlyHandlers
  <2>2. doc'.version <= doc.version /\ blobs[doc'.version] = doc'.rows /\ doc'.version \in Nat
    BY <1>1, <1>3, <2>1 DEF Recalled, BlobInv, CallersBehind
  <2>3. \A p \in Ops : Active(p)' => Active(p) /\ caller'[p] = caller[p]
    BY <1>3, <2>1 DEF Recalled, OthersStay, Active
  <2>4. CallersBehind'
    BY <1>3, <2>3 DEF Recalled, NonePutBelow, BlobInv, CallersBehind
  <2>5. \A p \in Ops : at'[p] \in Saving => at[p] \in Saving /\ newVersion'[p] = newVersion[p]
    BY <1>3 DEF Recalled, OthersStay, Saving
  <2>6. NewVersions'
    BY <1>1, <2>2, <2>5 DEF BlobInv, NewVersions
  <2>7. WrittenBlobs'
    BY <1>3 DEF Recalled, OthersStay, BlobInv, WrittenBlobs
  <2>8. BlobIsCurrent'
    BY <1>3, <2>2 DEF Recalled, BlobIsCurrent
  <2> QED BY <1>0, <2>4, <2>6, <2>7, <2>8 DEF BlobInv
<1>4. ASSUME NEW o \in Ops, Begun(o) PROVE BlobInv'
  <2>1. NewVersions'
    BY <1>1, <1>4 DEF Begun, OthersStay, BlobInv, NewVersions
  <2>2. CallersBehind'
    BY <1>4 DEF Begun, OthersStay, BlobInv, CallersBehind, Active
  <2>3. WrittenBlobs' /\ BlobIsCurrent'
    BY <1>4 DEF Begun, OthersStay, BlobInv, WrittenBlobs, BlobIsCurrent
  <2> QED BY <1>0, <2>1, <2>2, <2>3 DEF BlobInv
<1>5. ASSUME NEW o \in Ops, Written(o) PROVE BlobInv'
  <2>1. newVersion[o] > doc.version
    BY <1>5 DEF Written, BlobInv, NewVersions, Saving
  <2>2. BlobIsCurrent'
    BY <1>1, <1>5, <2>1 DEF Written, BlobInv, BlobIsCurrent
  <2>3. \A p \in Ops : at'[p] \in Saving <=> at[p] \in Saving
    BY <1>5 DEF Written, OthersStay, Saving
  <2>4. NewVersions'
    BY <1>5, <2>3 DEF Written, BlobInv, NewVersions
  <2>5. \A p \in Ops : Active(p)' => Active(p)
    BY <1>5 DEF Written, OthersStay, Active
  <2>6. CallersBehind'
    <3> SUFFICES ASSUME NEW p \in Ops, Active(p)
                 PROVE  caller[p].version <= doc.version /\ blobs'[caller[p].version] = caller[p].rows
      BY <1>5, <2>5 DEF Written, CallersBehind
    <3>1. caller[p].version <= doc.version /\ blobs[caller[p].version] = caller[p].rows
      BY DEF BlobInv, CallersBehind
    <3>2. caller[p].version # newVersion[o]
      BY <1>1, <2>1, <3>1
    <3> QED BY <1>1, <1>5, <3>1, <3>2 DEF Written
  <2>7. \A p \in Ops : at'[p] = "storing" => p = o
    BY <1>5 DEF Written, OthersStay, SavesApart, Saving
  <2>8. WrittenBlobs'
    BY <1>5, <2>7 DEF Written, WrittenBlobs
  <2> QED BY <1>0, <2>2, <2>4, <2>6, <2>8 DEF BlobInv
<1>6. ASSUME NEW o \in Ops, Loaded(o) PROVE BlobInv'
  <2>1. CallersBehind'
    BY <1>1, <1>6 DEF Loaded, OthersStay, BlobInv, CallersBehind, BlobIsCurrent, Active
  <2>2. NewVersions' /\ WrittenBlobs' /\ BlobIsCurrent'
    BY <1>6 DEF Loaded, OthersStay, BlobInv, NewVersions, WrittenBlobs, BlobIsCurrent, Saving
  <2> QED BY <1>0, <2>1, <2>2 DEF BlobInv
<1>7. ASSUME NEW o \in Ops, GivenUp(o) PROVE BlobInv'
  <2>1. CallersBehind'
    BY <1>7 DEF GivenUp, OthersStay, BlobInv, CallersBehind, Active
  <2>2. NewVersions' /\ WrittenBlobs' /\ BlobIsCurrent'
    BY <1>7 DEF GivenUp, OthersStay, BlobInv, NewVersions, WrittenBlobs, BlobIsCurrent, Saving
  <2> QED BY <1>0, <2>1, <2>2 DEF BlobInv
<1>8. ASSUME NEW o \in Ops, Reread(o) PROVE BlobInv'
  BY <1>0, <1>8 DEF Reread, BlobInv, NewVersions, WrittenBlobs, BlobIsCurrent, CallersBehind, Active
<1>9. CASE Beside
  <2>1. doc'.version = doc.version /\ doc'.rows = doc.rows
    BY <1>9 DEF Beside, VInv, TypeOK, Documents
  <2> QED BY <1>0, <1>9, <2>1 DEF Beside, BlobInv, NewVersions, WrittenBlobs, BlobIsCurrent,
                                  CallersBehind, Active
<1>10. CASE UNCHANGED <<doc, lock, at, held, rows, newVersion, caller, fresh, blobs>>
  BY <1>0, <1>10 DEF BlobInv, NewVersions, WrittenBlobs, BlobIsCurrent, CallersBehind, Active
<1> QED BY <1>2, <1>3, <1>4, <1>5, <1>6, <1>7, <1>8, <1>9, <1>10, StepEffects DEF VInv, Effects

(* Unless two saves overlap, or a handler puts the document back below the *)
(* version another handler has read, the blob of the current version is    *)
(* what the document describes: no save overwrites it, and none that is    *)
(* refused, fails half way or is stored unheard; in any number of          *)
(* processes, and whatever handlers take back one after the other.         *)
THEOREM BlobIsKept == Spec /\ [](SavesApart /\ NonePutBelow) => []BlobIsCurrent
<1>1. SavesApart /\ NonePutBelow /\ VInv /\ BlobInv /\ [Next]_vars => BlobInv'
  BY NextBlobInv
<1>2. BlobInv => BlobIsCurrent
  BY DEF BlobInv
<1> QED BY <1>1, <1>2, InitBlobInv, VInvariant, PTL DEF Spec

(* Within one process saves never overlap: the write lock is held from     *)
(* before the first read of the document to the answer of the last store.  *)
THEOREM LockKeepsSavesApart == ASSUME OneProcess PROVE Spec => []SavesApart
<1>1. Init => LockHeld
  BY DEF Init, LockHeld, Saving
<1>2. TypeOK /\ LockHeld /\ [Next]_vars => LockHeld'
  BY NextLockHeld
<1>3. LockHeld => SavesApart
  BY DEF OneProcess, LockHeld, SavesApart
<1> QED BY <1>1, <1>2, <1>3, TypeCorrect, PTL DEF Spec
=============================================================================
