---------------------------- MODULE DataVersions ----------------------------
(***************************************************************************)
(* Data operations that replace the dataset of a session                   *)
(* (lib/dataOps/dataPersistence.ts) and the rebuilds of its search index   *)
(* (lib/rag/indexSession.ts): those of the upload and of a new user        *)
(* context, and the one every save of an operation schedules.              *)
(*                                                                         *)
(* An operation loads the rows, works on them, and then saves under the    *)
(* write lock of its process: blob first, document on the condition that   *)
(* its etag stands.  Rows are the set of operations that went into them.   *)
(* They are also in the DuckDB table of the process that has made one: the *)
(* upload's process from the start, another one with its first rebuild.    *)
(* mutateChatDocument is one step and a read returns the stored document:  *)
(* ChatStore has the retries and the cache.                                *)
(***************************************************************************)
EXTENDS Naturals, Sequences

CONSTANTS
  Ops,           \* one data operation each, with the rebuild it schedules
  Tools,         \* those that the agent's tool add_computed_columns makes
  Handlers,      \* those whose handler saves its caller's document once more
  Rebuilds,      \* the other rebuilds
  Processes, Home,
  None,
  KeepVersions,  \* entries of dataVersions that are kept, 10 in the code
  MaxRetries,    \* of a conditional store
  MaxEdits,      \* edits of other fields, from another process
  MaxFaults      \* calls to the stores that fail

ASSUME DataVersionsAssumption ==
  /\ Tools \subseteq Ops /\ Handlers \subseteq Ops \ Tools
  /\ Home \in [Ops \cup Rebuilds -> Processes]
  /\ Ops \cap Rebuilds = {} /\ None \notin Ops
  /\ {KeepVersions, MaxRetries} \subseteq Nat \ {0}
  /\ {MaxEdits, MaxFaults} \subseteq Nat

VARIABLES
  doc,     \* the stored document
  blobs,   \* the blob v<n>.json of each version
  table,   \* the rows in the DuckDB table of each process, None without one
  lock,    \* who has the write lock of the process
  at, rows, held, newVersion, tries,   \* where an operation is, and its locals
  caller,  \* the document that was read for a handler before it began
  fresh,   \* the operations whose copy has the _etag of the document
  run, ver,                            \* where a rebuild is, and the version it read
  faults

operation == <<at, rows, held, newVersion, tries, caller, fresh>>
rebuild == <<run, ver>>
vars == <<doc, blobs, table, lock, operation, rebuild, faults>>

Uploaded == [version |-> 1, rows |-> {}, dataVersions |-> << >>,
             edits |-> 0, ragIndex |-> [status |-> "none", version |-> 0]]

Runs == Ops \cup Rebuilds

Init ==
  /\ doc = Uploaded
  /\ blobs = [v \in {1} |-> {}]
  /\ table \in [Processes -> {None, {}}]
  /\ lock = [p \in Processes |-> None]
  /\ at = [o \in Ops |-> "start"] /\ rows = [o \in Ops |-> {}]
  /\ held = [o \in Ops |-> Uploaded] /\ newVersion = [o \in Ops |-> 0]
  /\ tries = [o \in Ops |-> 0] /\ caller = [o \in Ops |-> Uploaded] /\ fresh = {}
  /\ run = [r \in Runs |-> "unasked"] /\ ver = [r \in Runs |-> 0]
  /\ faults = 0

Stored(d) == doc' = d /\ fresh' = {}

-----------------------------------------------------------------------------
(* loadLatestData: the table of the process, or the blob of the current    *)
(* version, by the document read for the operation.  It takes its time,    *)
(* and may leave no rows at all; the agent's tool is also asked for        *)
(* columns that are not saved.                                             *)
Load(o) ==
  /\ at[o] = "start"
  /\ \/ at' = [at EXCEPT ![o] = "over"] /\ UNCHANGED <<rows, held, caller>>
     \/ LET all == table[Home[o]] IN
        /\ rows' = [rows EXCEPT ![o] = (IF all = None THEN blobs[doc.version] ELSE all) \cup {o}]
        /\ caller' = IF o \in Handlers THEN [caller EXCEPT ![o] = doc] ELSE caller
        /\ \/ at' = [at EXCEPT ![o] = "waiting"] /\ held' = [held EXCEPT ![o] = doc]
           \/ o \in Tools /\ at' = [at EXCEPT ![o] = "refreshing"] /\ UNCHANGED held
  /\ UNCHANGED <<doc, blobs, table, lock, newVersion, tries, fresh, rebuild, faults>>

(* The document is read afresh under the lock. *)
MutantLocked(o) ==   \* the caller's document is trusted
  /\ at[o] = "waiting" /\ lock[Home[o]] = None
  /\ lock' = [lock EXCEPT ![Home[o]] = o]
  /\ newVersion' = [newVersion EXCEPT ![o] = held[o].version + 1]
  /\ at' = [at EXCEPT ![o] = "writing"]
  /\ fresh' = fresh \cup {o}
  /\ UNCHANGED <<doc, blobs, table, rows, held, tries, caller, rebuild, faults>>

Locked(o) ==
  /\ at[o] = "waiting" /\ lock[Home[o]] = None
  /\ lock' = [lock EXCEPT ![Home[o]] = o]
  /\ held' = [held EXCEPT ![o] = doc]
  /\ newVersion' = [newVersion EXCEPT ![o] = doc.version + 1]
  /\ at' = [at EXCEPT ![o] = "writing"]
  /\ fresh' = fresh \cup {o}
  /\ UNCHANGED <<doc, blobs, table, rows, tries, caller, rebuild, faults>>

updateProcessedDataBlob(o) ==
  /\ at[o] = "writing"
  /\ blobs' = [v \in DOMAIN blobs \cup {newVersion[o]} |->
                 IF v = newVersion[o] THEN rows[o] ELSE blobs[v]]
  /\ at' = [at EXCEPT ![o] = "storing"]
  /\ UNCHANGED <<doc, table, lock, rows, held, newVersion, tries, caller, fresh, rebuild, faults>>

(* The last KeepVersions entries of the history that was read. *)
MutantHistory(o) ==   \* the first ones
  LET all == Append(held[o].dataVersions, newVersion[o])
  IN IF Len(all) > KeepVersions THEN SubSeq(all, 1, KeepVersions) ELSE all
History(o) ==
  LET all == Append(held[o].dataVersions, newVersion[o])
  IN IF Len(all) > KeepVersions THEN SubSeq(all, Len(all) - KeepVersions + 1, Len(all)) ELSE all

(* What the save owns goes onto the document it is stored in.  The history *)
(* is the one of the first read, on every try.                             *)
Patched(o, d) ==
  [d EXCEPT !.version = newVersion[o], !.rows = rows[o], !.dataVersions = History(o)]

(* The lock is released; the call's locals are gone. *)
Over(o, to) ==
  /\ at' = [at EXCEPT ![o] = to]
  /\ lock' = [lock EXCEPT ![Home[o]] = None]
  /\ rows' = IF to = "refreshing" THEN rows ELSE [rows EXCEPT ![o] = {}]
  /\ caller' = IF to = "context" THEN caller ELSE [caller EXCEPT ![o] = Uploaded]
  /\ held' = [held EXCEPT ![o] = Uploaded]
  /\ newVersion' = [newVersion EXCEPT ![o] = 0] /\ tries' = [tries EXCEPT ![o] = 0]

Store(o) ==
  /\ at[o] = "storing" /\ o \in fresh
  /\ Stored(Patched(o, held[o]))
  /\ Over(o, CASE o \in Tools -> "refreshing" [] o \in Handlers -> "context" [] OTHER -> "over")
  /\ run' = [run EXCEPT ![o] = "scheduled"]
  /\ UNCHANGED <<blobs, table, ver, faults>>

(* 412: the document is read once more, unless the tries are used up. *)
MutantConflict(o) ==   \* only the etag is taken from the document
  /\ at[o] = "storing" /\ o \notin fresh
  /\ \/ /\ tries[o] + 1 < MaxRetries
        /\ tries' = [tries EXCEPT ![o] = @ + 1]
        /\ UNCHANGED held
        /\ fresh' = fresh \cup {o}
        /\ UNCHANGED <<at, lock, rows, newVersion, caller>>
     \/ tries[o] + 1 >= MaxRetries /\ Over(o, "over") /\ UNCHANGED fresh
  /\ UNCHANGED <<doc, blobs, table, rebuild, faults>>

Conflict(o) ==
  /\ at[o] = "storing" /\ o \notin fresh
  /\ \/ /\ tries[o] + 1 < MaxRetries
        /\ tries' = [tries EXCEPT ![o] = @ + 1]
        /\ held' = [held EXCEPT ![o] = [doc EXCEPT !.dataVersions = held[o].dataVersions]]
        /\ fresh' = fresh \cup {o}
        /\ UNCHANGED <<at, lock, rows, newVersion, caller>>
     \/ tries[o] + 1 >= MaxRetries /\ Over(o, "over") /\ UNCHANGED fresh
  /\ UNCHANGED <<doc, blobs, table, rebuild, faults>>

(* A call throws; the store may have taken the document all the same. *)
SaveFails(o) ==
  /\ at[o] \in {"writing", "storing"} /\ faults < MaxFaults
  /\ \/ UNCHANGED <<doc, fresh>>
     \/ at[o] = "storing" /\ o \in fresh /\ Stored(Patched(o, held[o]))
  /\ Over(o, "over")
  /\ faults' = faults + 1
  /\ UNCHANGED <<blobs, table, rebuild>>

(* add_computed_columns alone puts its rows into the table, saved or not.  *)
Refresh(o) ==
  /\ at[o] = "refreshing"
  /\ at' = [at EXCEPT ![o] = "over"]
  /\ rows' = [rows EXCEPT ![o] = {}]
  /\ \/ table' = [table EXCEPT ![Home[o]] = rows[o]] /\ UNCHANGED faults
     \/ faults < MaxFaults /\ faults' = faults + 1 /\ UNCHANGED table
  /\ UNCHANGED <<doc, blobs, lock, held, newVersion, tries, caller, fresh, rebuild>>

(* createColumn, createDerivedColumn and renameColumn keep the name of the  *)
(* column for the next question: it goes into their caller's document,     *)
(* read before the operation, which is stored whole: no lock, no etag.     *)
StoreContext(o) ==
  /\ at[o] = "context"
  /\ at' = [at EXCEPT ![o] = "over"]
  /\ caller' = [caller EXCEPT ![o] = Uploaded]
  /\ \/ Stored(caller[o]) /\ UNCHANGED faults
     \/ faults < MaxFaults /\ faults' = faults + 1 /\ UNCHANGED <<doc, fresh>>
  /\ UNCHANGED <<blobs, table, lock, rows, held, newVersion, tries, rebuild>>

(* Another process edits a field no save owns. *)
Edit ==
  /\ doc.edits < MaxEdits
  /\ Stored([doc EXCEPT !.edits = @ + 1])
  /\ UNCHANGED <<blobs, table, lock, at, rows, held, newVersion, tries, caller, rebuild, faults>>

-----------------------------------------------------------------------------
(* The upload is over, or the user's context is saved before the index is  *)
(* ready.                                                                  *)
Schedule(r) ==
  /\ run[r] = "unasked" /\ doc.ragIndex.status # "ready"
  /\ run' = [run EXCEPT ![r] = "scheduled"]
  /\ UNCHANGED <<doc, blobs, table, lock, operation, ver, faults>>

(* indexSessionRag reads the document, and takes the version from it.      *)
Begin(r) ==
  /\ run[r] = "scheduled"
  /\ ver' = [ver EXCEPT ![r] = doc.version]
  /\ run' = [run EXCEPT ![r] = "begin"]
  /\ UNCHANGED <<doc, blobs, table, lock, operation, faults>>

(* The timer a save sets runs in the async context of the save, where the  *)
(* session counts as locked: both of the rebuild's edits of the document   *)
(* throw in withSessionWriteLock, the second unreported.                   *)
Refused(o) ==
  /\ run[o] = "scheduled"
  /\ run' = [run EXCEPT ![o] = "off"]
  /\ UNCHANGED <<doc, blobs, table, lock, operation, ver, faults>>

updateRagIndexField(r, from, to, ragIndex) ==
  /\ run[r] = from /\ lock[Home[r]] = None
  /\ Stored([doc EXCEPT !.ragIndex = ragIndex])
  /\ run' = [run EXCEPT ![r] = to]
  /\ ver' = IF to = "off" THEN [ver EXCEPT ![r] = 0] ELSE ver
  /\ UNCHANGED <<blobs, table, lock, at, rows, held, newVersion, tries, caller, faults>>

Indexing(r) == updateRagIndexField(r, "begin", "sample", [doc.ragIndex EXCEPT !.status = "indexing"])
Ready(r) == updateRagIndexField(r, "embed", "off", [status |-> "ready", version |-> ver[r]])
Error(r) == updateRagIndexField(r, "failed", "off", [doc.ragIndex EXCEPT !.status = "error"])

(* The sample is taken from the table, which is made of the blob of that   *)
(* version where there is none; without a sample the rebuild goes on.      *)
getSampleFromDuckDB(r) ==
  /\ run[r] = "sample"
  /\ run' = [run EXCEPT ![r] = "embed"]
  /\ LET p == Home[r] IN
     \/ /\ table' = [table EXCEPT ![p] = IF @ = None THEN blobs[ver[r]] ELSE @]
        /\ UNCHANGED faults
     \/ faults < MaxFaults /\ faults' = faults + 1 /\ UNCHANGED table
  /\ UNCHANGED <<doc, blobs, lock, operation, ver>>

(* The old chunks cannot be deleted, the new ones embedded or stored, or   *)
(* the document edited, which goes unreported when it was for the error.   *)
RebuildFails(r) ==
  /\ run[r] \in {"begin", "sample", "embed", "failed"} /\ faults < MaxFaults
  /\ run' = [run EXCEPT ![r] = IF @ = "failed" THEN "off" ELSE "failed"]
  /\ ver' = [ver EXCEPT ![r] = IF run[r] = "failed" THEN 0 ELSE @]
  /\ faults' = faults + 1
  /\ UNCHANGED <<doc, blobs, table, lock, operation>>

-----------------------------------------------------------------------------
Next ==
  \/ Edit
  \/ \E o \in Ops :
       \/ Load(o) \/ Locked(o) \/ updateProcessedDataBlob(o)
       \/ Store(o) \/ Conflict(o) \/ SaveFails(o)
       \/ Refresh(o) \/ StoreContext(o) \/ Refused(o)
  \/ \E r \in Rebuilds :
       \/ Schedule(r) \/ Begin(r) \/ Indexing(r) \/ getSampleFromDuckDB(r)
       \/ Ready(r) \/ Error(r) \/ RebuildFails(r)

Spec == Init /\ [][Next]_vars

(* Calls are answered and timers fire. *)
FairSpec == Spec /\ WF_vars(Next)

-----------------------------------------------------------------------------
Places == {"start", "waiting", "writing", "storing", "refreshing", "context", "over"}

Documents ==
  [version : Nat, rows : SUBSET Ops, dataVersions : Seq(Nat), edits : Nat,
   ragIndex : [status : {"none", "indexing", "ready", "error"}, version : Nat]]

TypeOK ==
  /\ doc \in Documents
  /\ DOMAIN blobs \subseteq Nat /\ blobs \in [DOMAIN blobs -> SUBSET Ops]
  /\ table \in [Processes -> {None} \cup SUBSET Ops]
  /\ lock \in [Processes -> {None} \cup Ops]
  /\ at \in [Ops -> Places]
  /\ rows \in [Ops -> SUBSET Ops]
  /\ held \in [Ops -> Documents] /\ caller \in [Ops -> Documents]
  /\ newVersion \in [Ops -> Nat] /\ tries \in [Ops -> Nat] /\ fresh \subseteq Ops
  /\ run \in [Runs -> {"unasked", "scheduled", "begin", "sample", "embed", "failed", "off"}]
  /\ ver \in [Runs -> Nat]
  /\ faults \in 0..MaxFaults

(* The blob of the current version is what the document describes: no save *)
(* writes it once it is current, also none that fails half way.  So it is  *)
(* while the saves of a session take turns and no handler's second save    *)
(* puts a version back below one that another handler has read; two        *)
(* processes, or two handlers, can break it (DataVersionsProofs).          *)
BlobIsCurrent == blobs[doc.version] = doc.rows

(* The history goes up and ends in the current version, whatever was cut.  *)
HistoryEndsInCurrent ==
  LET h == doc.dataVersions IN
  /\ \A i, j \in DOMAIN h : i < j => h[i] < h[j]
  /\ Len(h) <= KeepVersions
  /\ doc.version > 1 => h # << >> /\ h[Len(h)] = doc.version

(* A save, stored or given up, keeps what others stored in their fields    *)
(* meanwhile, another process as well as a rebuild that overlaps with it.  *)
ForeignFieldsKept ==
  [][\A o \in Ops : at[o] = "storing" /\ at'[o] # "storing" =>
       doc'.edits = doc.edits /\ doc'.ragIndex = doc.ragIndex]_vars

(* "create_column: persists new column"                                    *)
(* (tests/dataOpsRestBranchesIntegration.test.ts:288): what an operation   *)
(* did to the rows that the document describes is there to stay, as none   *)
(* of the Ops is a revert.                                                 *)
SavedOpsStay == [][doc.rows \subseteq doc'.rows]_vars

(* "ensures that data operations performed by any user are reflected"      *)
(* (utils/dataLoader.ts:199): an operation works on the rows that the      *)
(* document describes.                                                     *)
LoadsLatest ==
  [][\A o \in Ops : at[o] = "start" /\ at'[o] \notin {"start", "over"}
       => doc.rows \subseteq rows'[o]]_vars

(* "a data-RAG reindex (which fires on every saveModifiedData via          *)
(* scheduleIndexSessionRag)" (lib/rag/aiSearchStore.ts:94-95): once an     *)
(* operation is saved, the index gets the version it saved.                *)
SaveIsIndexed == \A o \in Ops : run[o] = "scheduled" ~> doc.ragIndex.version = doc.version
=============================================================================
