------------------------------ MODULE ChatTurn ------------------------------
(***************************************************************************)
(* The life of a streamed turn on one session, from the request to the     *)
(* release of its lease (processStreamChat in                              *)
(* src/server/services/chat/chatStream.service.ts), with what it does to   *)
(* the chat document: the turn lease, edit-and-truncate, and the saving of *)
(* its messages through the retrying queue of lib/persistenceQueue.ts.     *)
(*                                                                         *)
(* Every write of the document here is a mutateChatDocument.  That it      *)
(* takes effect at one instant or not at all, also when it is reported as  *)
(* failed, is what ChatStoreProofs!SafeWritersAreAtomic says; so a write   *)
(* is one step of this module.  What the agent computes is not modelled.   *)
(***************************************************************************)
EXTENDS Naturals, Sequences, SequencesExt

CONSTANTS
  Turns,        \* requests, each a turn of the session
  Instances,    \* server processes
  home,         \* home[t]: the instance that serves t
  ChartTurns,   \* turns whose answer bears a chart
  Questions,    \* contents of user messages
  Stamps,       \* client timestamps of user messages (targetTimestamp)
  Window,       \* timestamps that the duplicate check takes for one (5000 ms)
  MaxAttempts,  \* DEFAULT_MAX_ATTEMPTS
  None,
  MaxFaults     \* bound: failed writes, conflicts and restarts

ASSUME TurnAssumption ==
  /\ Stamps \subseteq Nat
  /\ Window \in Nat \ {0}
  /\ MaxAttempts \in Nat \ {0}
  /\ MaxFaults \in Nat
  /\ None \notin Turns
  /\ ChartTurns \subseteq Turns
  /\ home \in [Turns -> Instances]

VARIABLES
  guard,      \* CONCURRENT_TURN_GUARD_ENABLED
  asked,      \* asked[t]: the user message of t
  pc,         \* pc[t]: where t stands
  editing,    \* editing[t]: its snapshot holds the message it would edit
  leaseHeld,  \* turnLeaseHeld of t
  attempts,   \* attempts[t]: failed attempts to save the messages of t
  reported,   \* reported[t]: the persist_status the client was sent
  chain,      \* chain[i]: persist jobs of the session in i, the running first
  messages,   \* the document: messages,
  charts,     \* charts: for each turn that saved one, whether with its data,
  lease,      \* turnInProgress
  overdue,    \* and whether the lease has outlived TURN_LEASE_TTL_MS
  stripped,   \* turns whose message objects have lost their chart data
  cut,        \* history: turns whose answer an edit removed
  expired,    \* history: turns that lost the lease by its age
  failed,     \* history: turns one of whose lease writes failed
  faults      \* failures so far

docVars == <<messages, charts, lease, overdue>>
historyVars == <<cut, expired, failed>>
requestVars == <<guard, asked>>
vars == <<requestVars, pc, editing, leaseHeld, attempts, reported, chain,
          docVars, stripped, historyVars, faults>>

-----------------------------------------------------------------------------
(* Messages.  An answer is known by its turn; no two have one content.     *)
Question(q, s) == [role |-> "user", content |-> q, at |-> s]
Answer(t) == [role |-> "assistant", content |-> t, at |-> 0]

UserMessages == {Question(q, s) : q \in Questions, s \in Stamps}
Messages == UserMessages \cup {Answer(t) : t \in Turns}

(* The keys by which addMessagesBySessionId knows a message again: role,   *)
(* content, and the timestamp rounded down to five seconds.                *)
Period(m) == m.at \div Window
Similar(m, n) == m.role = n.role /\ m.content = n.content /\ Period(m) = Period(n)

(* Only an exact match counts as a duplicate. *)
MutantFresh(m) == m.role = "user" \/ \A n \in ToSet(messages) : m # n

Fresh(m) == \A n \in ToSet(messages) : ~ Similar(m, n)

(* A batch with a duplicate in it is dropped whole. *)
MutantToSave(t) == IF Fresh(asked[t]) /\ Fresh(Answer(t)) THEN <<asked[t], Answer(t)>> ELSE <<>>

IfFresh(m) == IF Fresh(m) THEN <<m>> ELSE <<>>

(* What saving t appends; nothing when both are there already. *)
ToSave(t) == IfFresh(asked[t]) \o IfFresh(Answer(t))

(* The positions of the user message that m would edit. *)
Edited(m) == {k \in DOMAIN messages : messages[k].role = "user" /\ messages[k].at = m.at}

-----------------------------------------------------------------------------
Init ==
  /\ guard \in BOOLEAN
  /\ asked = [t \in Turns |-> None]
  /\ pc = [t \in Turns |-> "idle"]
  /\ editing = [t \in Turns |-> FALSE]
  /\ leaseHeld = [t \in Turns |-> FALSE]
  /\ attempts = [t \in Turns |-> 0]
  /\ reported = [t \in Turns |-> "none"]
  /\ chain = [i \in Instances |-> <<>>]
  /\ messages = <<>>
  /\ charts = [t \in Turns |-> "absent"]
  /\ lease = None
  /\ overdue = FALSE
  /\ stripped = {}
  /\ cut = {}
  /\ expired = {}
  /\ failed = {}
  /\ faults = 0

Goto(t, l) == pc' = [pc EXCEPT ![t] = l]

(* t returns, and its locals are gone. *)
End(t) ==
  /\ Goto(t, "over")
  /\ editing' = [editing EXCEPT ![t] = FALSE]
  /\ leaseHeld' = [leaseHeld EXCEPT ![t] = FALSE]

Fault ==
  /\ faults < MaxFaults
  /\ faults' = faults + 1

(* The chat document is read, before the lease is asked for; whether the   *)
(* turn is an edit is decided on this snapshot.                            *)
Arrive(t, m) ==
  /\ pc[t] = "idle"
  /\ asked' = [asked EXCEPT ![t] = m]
  /\ Goto(t, "arrived")
  /\ editing' = [editing EXCEPT ![t] = Edited(m) # {}]
  /\ UNCHANGED <<guard, leaseHeld, attempts, reported, chain, docVars, stripped, historyVars, faults>>

(* The mutator of acquireTurnLease. *)
Free == lease = None \/ overdue

TakeLease(t) ==
  /\ lease' = t
  /\ overdue' = FALSE
  /\ expired' = IF lease = None THEN expired ELSE expired \cup {lease}

Acquire(t) ==
  /\ pc[t] = "arrived"
  /\ Free
  /\ TakeLease(t)
  /\ leaseHeld' = [leaseHeld EXCEPT ![t] = TRUE]
  /\ Goto(t, "working")
  /\ UNCHANGED <<requestVars, editing, attempts, reported, chain, messages, charts, stripped, cut, failed, faults>>

(* The guard does not end the turn. *)
MutantContend(t) ==
  /\ pc[t] = "arrived"
  /\ ~ Free
  /\ Goto(t, "working")
  /\ UNCHANGED <<requestVars, editing, leaseHeld, attempts, reported, chain, docVars, stripped, historyVars, faults>>

(* Another turn holds it: refused with the guard, tolerated without. *)
Contend(t) ==
  /\ pc[t] = "arrived"
  /\ ~ Free
  /\ IF guard THEN End(t) ELSE Goto(t, "working") /\ UNCHANGED <<editing, leaseHeld>>
  /\ UNCHANGED <<requestVars, attempts, reported, chain, docVars, stripped, historyVars, faults>>

(* acquireTurnLease throws, its write done or not: the turn goes on. *)
AcquireFails(t) ==
  /\ pc[t] = "arrived"
  /\ Fault
  /\ \/ Free /\ TakeLease(t)
     \/ UNCHANGED <<lease, overdue, expired>>
  /\ failed' = failed \cup {t}
  /\ Goto(t, "working")
  /\ UNCHANGED <<requestVars, editing, leaseHeld, attempts, reported, chain, messages, charts, stripped, cut>>

(* Five minutes after it was taken; nothing renews a lease. *)
Age ==
  /\ lease # None /\ ~ overdue
  /\ overdue' = TRUE
  /\ UNCHANGED <<requestVars, pc, editing, leaseHeld, attempts, reported, chain, messages, charts, lease, stripped, historyVars, faults>>

(* The messages of t become a job in the chain of the session. *)
Enqueue(t) ==
  /\ chain' = [chain EXCEPT ![home[t]] = Append(@, t)]
  /\ Goto(t, "queued")

(* The answer has been sent and enriched; from here on the turn is saved,  *)
(* also when the client has left.  Only an edit does something before.     *)
Respond(t) ==
  /\ pc[t] = "working"
  /\ IF editing[t] THEN Goto(t, "truncating") /\ UNCHANGED chain ELSE Enqueue(t)
  /\ UNCHANGED <<requestVars, editing, leaseHeld, attempts, reported, docVars, stripped, historyVars, faults>>

-----------------------------------------------------------------------------
(* What follows the edited message stays. *)
MutantTruncateAt(t, k) ==
  /\ messages' = [messages EXCEPT ![k] = asked[t]]
  /\ cut' = cut

(* updateMessageAndTruncate: the first user message with the timestamp gets *)
(* the new content and whatever came after it goes ...                      *)
TruncateAt(t, k) ==
  /\ messages' = Append(SubSeq(messages, 1, k - 1), asked[t])
  /\ cut' = cut \cup {u \in Turns : Answer(u) \in ToSet(SubSeq(messages, k + 1, Len(messages)))}

(* ... or, there being no such message, nothing is written. *)
EditAndTruncate(t) ==
  IF Edited(asked[t]) = {} THEN UNCHANGED <<messages, cut>>
  ELSE \E k \in Edited(asked[t]) : (\A j \in Edited(asked[t]) : k <= j) /\ TruncateAt(t, k)

Truncate(t) ==
  /\ pc[t] = "truncating"
  /\ EditAndTruncate(t)
  /\ Enqueue(t)
  /\ UNCHANGED <<requestVars, editing, leaseHeld, attempts, reported, charts, lease, overdue, stripped, expired, failed, faults>>

(* A failure is logged and the turn goes on to save. *)
TruncateFails(t) ==
  /\ pc[t] = "truncating"
  /\ Fault
  /\ EditAndTruncate(t) \/ UNCHANGED <<messages, cut>>
  /\ Enqueue(t)
  /\ UNCHANGED <<requestVars, editing, leaseHeld, attempts, reported, charts, lease, overdue, stripped, expired, failed>>

(* t runs when the job before it in the chain has settled, either way. *)
Turn(t) == pc[t] = "queued" /\ Head(chain[home[t]]) = t

(* The job of t settles and is forgotten. *)
Settle(t, status) ==
  /\ attempts' = [attempts EXCEPT ![t] = 0]
  /\ reported' = [reported EXCEPT ![t] = status]
  /\ chain' = [chain EXCEPT ![home[t]] = Tail(@)]
  /\ Goto(t, "saved")

(* Once there is something to append, a chart the document does not have   *)
(* is added as the message carries it, and the messages of the caller lose *)
(* their chart data.                                                       *)
NewChart(t) == t \in ChartTurns /\ ToSave(t) # <<>> /\ charts[t] = "absent"

Strip(t) == stripped' = IF NewChart(t) THEN stripped \cup {t} ELSE stripped

AppendMessages(t) ==
  /\ messages' = messages \o ToSave(t)
  /\ charts' = IF NewChart(t)
                THEN [charts EXCEPT ![t] = IF t \in stripped THEN "empty" ELSE "full"]
                ELSE charts

Save(t) ==
  /\ Turn(t)
  /\ AppendMessages(t)
  /\ Strip(t)
  /\ Settle(t, "ok")
  /\ UNCHANGED <<requestVars, editing, leaseHeld, lease, overdue, historyVars, faults>>

(* The attempts of one job may all fail in a single outage. *)
Outage(t) == IF attempts[t] = 0 THEN Fault ELSE UNCHANGED faults

More(t) == attempts[t] + 1 < MaxAttempts

(* An attempt throws before the mutator ran, after it, or although its     *)
(* write was stored; after the last one the job has failed.                *)
SaveFails(t) ==
  /\ Turn(t)
  /\ Outage(t)
  /\ \/ UNCHANGED <<messages, charts, stripped>>
     \/ Strip(t) /\ UNCHANGED <<messages, charts>>
     \/ Strip(t) /\ AppendMessages(t)
  /\ IF More(t)
     THEN attempts' = [attempts EXCEPT ![t] = @ + 1] /\ UNCHANGED <<pc, reported, chain>>
     ELSE Settle(t, "failed")
  /\ UNCHANGED <<requestVars, editing, leaseHeld, lease, overdue, historyVars>>

(* A 412 inside the seam: the mutator will run again, on the same messages. *)
SaveConflicts(t) ==
  /\ Turn(t)
  /\ Fault
  /\ Strip(t)
  /\ UNCHANGED <<requestVars, pc, editing, leaseHeld, attempts, reported, chain, docVars, historyVars>>

-----------------------------------------------------------------------------
(* The lease goes whoever holds it. *)
MutantOwns(t) == t \in Turns

Owns(t) == lease = t

(* The mutator of releaseTurnLease. *)
DropLease(t) ==
  /\ lease' = IF Owns(t) THEN None ELSE lease
  /\ overdue' = IF Owns(t) THEN FALSE ELSE overdue

(* Only a turn that saved its messages releases the lease. *)
MutantRelease(t) ==
  /\ pc[t] \in {"working", "saved"}
  /\ IF leaseHeld[t] /\ pc[t] = "saved" THEN DropLease(t) ELSE UNCHANGED <<lease, overdue>>
  /\ End(t)
  /\ UNCHANGED <<requestVars, attempts, reported, chain, messages, charts, stripped, historyVars, faults>>

(* The finally block, after the messages were dealt with, or when the      *)
(* agent throws or the client is gone before the answer was sent: a lease  *)
(* this turn acquired is released.                                         *)
Release(t) ==
  /\ pc[t] \in {"working", "saved"}
  /\ IF leaseHeld[t] THEN DropLease(t) ELSE UNCHANGED <<lease, overdue>>
  /\ End(t)
  /\ UNCHANGED <<requestVars, attempts, reported, chain, messages, charts, stripped, historyVars, faults>>

(* releaseTurnLease swallows its errors. *)
ReleaseFails(t) ==
  /\ pc[t] \in {"working", "saved"} /\ leaseHeld[t]
  /\ Fault
  /\ DropLease(t) \/ UNCHANGED <<lease, overdue>>
  /\ failed' = failed \cup {t}
  /\ End(t)
  /\ UNCHANGED <<requestVars, attempts, reported, chain, messages, charts, stripped, cut, expired>>

(* The process dies with its turns and their queue; the document stays. *)
Crash(i) ==
  LET gone == {t \in Turns : home[t] = i /\ pc[t] \notin {"idle", "over"}} IN
  /\ gone # {}
  /\ Fault
  /\ pc' = [t \in Turns |-> IF t \in gone THEN "over" ELSE pc[t]]
  /\ editing' = [t \in Turns |-> t \notin gone /\ editing[t]]
  /\ leaseHeld' = [t \in Turns |-> t \notin gone /\ leaseHeld[t]]
  /\ chain' = [chain EXCEPT ![i] = <<>>]
  /\ failed' = failed \cup gone
  /\ UNCHANGED <<requestVars, attempts, reported, docVars, stripped, cut, expired>>

Step(t) ==
  \/ Acquire(t) \/ Contend(t) \/ Respond(t)
  \/ Truncate(t) \/ Save(t) \/ Release(t)

Next ==
  \/ \E t \in Turns :
       \/ \E m \in UserMessages : Arrive(t, m)
       \/ Step(t)
       \/ AcquireFails(t) \/ TruncateFails(t) \/ SaveFails(t) \/ SaveConflicts(t)
       \/ ReleaseFails(t)
  \/ Age
  \/ \E i \in Instances : Crash(i)

Spec == Init /\ [][Next]_vars

-----------------------------------------------------------------------------
PcValues == {"idle", "arrived", "working", "truncating", "queued", "saved", "over"}

TypeOK ==
  /\ guard \in BOOLEAN
  /\ asked \in [Turns -> UserMessages \cup {None}]
  /\ pc \in [Turns -> PcValues]
  /\ editing \in [Turns -> BOOLEAN]
  /\ leaseHeld \in [Turns -> BOOLEAN]
  /\ attempts \in [Turns -> 0..(MaxAttempts - 1)]
  /\ reported \in [Turns -> {"none", "ok", "failed"}]
  /\ chain \in [Instances -> Seq(Turns)]
  /\ messages \in Seq(Messages)
  /\ charts \in [Turns -> {"absent", "full", "empty"}]
  /\ lease \in Turns \cup {None}
  /\ overdue \in BOOLEAN
  /\ stripped \subseteq Turns
  /\ cut \subseteq Turns
  /\ expired \subseteq Turns
  /\ failed \subseteq Turns
  /\ faults \in 0..MaxFaults

(* However often an attempt to save is repeated, its write stored or not,  *)
(* no message stands twice in the conversation.                            *)
EachMessageOnce == IsInjective(messages)

(* Another turn asked the same within Window, or asked with the same       *)
(* timestamp: one of the two repeats or edits the other's question.        *)
Shared(t) ==
  \E u \in Turns \ {t} :
    pc[u] # "idle" /\ (Similar(asked[u], asked[t]) \/ asked[u].at = asked[t].at)

(* Whatever appends, duplicate checks, lost answers and edits of several   *)
(* turns come together, an answer stands right below its question.  Where  *)
(* the question is repeated or edited, its message stood there before the  *)
(* turn was saved, and messages of other turns may come in between.        *)
AnswerFollowsItsQuestion ==
  \A t \in Turns, k \in DOMAIN messages :
    messages[k] = Answer(t) =>
      /\ \E j \in 1..(k - 1) : Similar(messages[j], asked[t])
      /\ Similar(messages[k - 1], asked[t]) \/ Shared(t)

(* A turn whose messages were reported as saved keeps its answer until an  *)
(* edit removes it.                                                        *)
SavedAnswerStays ==
  \A t \in Turns : reported[t] = "ok" => Answer(t) \in ToSet(messages) \/ t \in cut

(* A turn that acquired the lease has it until it ends, unless the lease   *)
(* grew too old: no other turn, old or new, takes or clears it.            *)
HeldLeaseIsInDocument ==
  \A t \in Turns : leaseHeld[t] /\ t \notin expired => lease = t

(* With the guard on, two turns are under way together only when a lease   *)
(* grew too old or could not be written.                                   *)
Working(t) == pc[t] \notin {"idle", "arrived", "over"}

OneTurnAtATime ==
  guard => \A t, u \in Turns :
    t # u /\ Working(t) /\ Working(u) => {t, u} \cap (expired \cup failed) # {}

(* A turn that ended leaves its lease behind only after a failure.         *)
NoStrayLease == lease # None => Working(lease) \/ lease \in failed

(* A saved answer has its chart data: addMessagesBySessionId is given full *)
(* charts, and a reload shows the chart again.                             *)
SavedChartsHaveData == \A t \in Turns : charts[t] # "empty"
=============================================================================
