--------------------------- MODULE ChatTurnProofs ----------------------------
(***************************************************************************)
(* The turn lease and the conversation, for any number of turns, instances,*)
(* messages, attempts and failures.                                        *)
(***************************************************************************)
EXTENDS ChatTurn, SequenceTheorems, TLAPS

LeaseTypeOK ==
  /\ pc \in [Turns -> PcValues]
  /\ leaseHeld \in [Turns -> BOOLEAN]
  /\ lease \in Turns \cup {None}

(* A turn believes it holds the lease only while it is under way. *)
HeldByWorking == \A t \in Turns : leaseHeld[t] => Working(t)

(* The lease in the document belongs to a turn that knows it, or to one    *)
(* whose write failed.                                                     *)
LeaseIsKnown == lease # None => leaseHeld[lease] \/ lease \in failed

(* With the guard on nobody works without the lease, save after a failure. *)
GuardedHold == guard => \A t \in Turns : Working(t) => leaseHeld[t] \/ t \in failed

LeaseInv ==
  /\ LeaseTypeOK
  /\ HeldByWorking
  /\ LeaseIsKnown
  /\ GuardedHold
  /\ HeldLeaseIsInDocument

USE DEF PcValues, requestVars, docVars, historyVars

LEMMA InitLease ==
  ASSUME Init
  PROVE  LeaseInv
BY TurnAssumption
   DEF Init, LeaseInv, LeaseTypeOK, HeldByWorking, LeaseIsKnown, GuardedHold,
       HeldLeaseIsInDocument, Working

(* What a step does to the lease and to pc decides; the steps of one turn  *)
(* that leave the lease alone are all alike.                               *)
LEMMA QuietLease ==
  ASSUME LeaseInv, NEW t \in Turns, Working(t),
         UNCHANGED <<guard, leaseHeld, lease, expired, failed>>,
         \/ UNCHANGED pc
         \/ \E l \in {"truncating", "queued", "saved"} : Goto(t, l)
  PROVE  LeaseInv'
<1>1. LeaseTypeOK'
  BY DEF LeaseInv, LeaseTypeOK, Goto
<1>2. \A u \in Turns : Working(u)' <=> Working(u)
  BY DEF LeaseInv, LeaseTypeOK, Goto, Working
<1>3. HeldByWorking' /\ LeaseIsKnown' /\ GuardedHold' /\ HeldLeaseIsInDocument'
  BY <1>2 DEF LeaseInv, HeldByWorking, LeaseIsKnown, GuardedHold, HeldLeaseIsInDocument
<1> QED BY <1>1, <1>3 DEF LeaseInv

LEMMA AcquireLease ==
  ASSUME LeaseInv, NEW t \in Turns, Acquire(t)
  PROVE  LeaseInv'
<1> USE TurnAssumption DEF Acquire, TakeLease, Goto
<1>1. LeaseTypeOK'
  BY DEF LeaseInv, LeaseTypeOK
<1>2. HeldByWorking' /\ LeaseIsKnown' /\ GuardedHold'
  BY DEF LeaseInv, LeaseTypeOK, HeldByWorking, LeaseIsKnown, GuardedHold, Working
<1>3. HeldLeaseIsInDocument'
  BY DEF LeaseInv, LeaseTypeOK, HeldByWorking, HeldLeaseIsInDocument, Working
<1> QED BY <1>1, <1>2, <1>3 DEF LeaseInv

LEMMA AcquireFailsLease ==
  ASSUME LeaseInv, NEW t \in Turns, AcquireFails(t)
  PROVE  LeaseInv'
<1> USE TurnAssumption DEF AcquireFails, TakeLease, Goto
<1>1. LeaseTypeOK'
  BY DEF LeaseInv, LeaseTypeOK
<1>2. HeldByWorking' /\ LeaseIsKnown' /\ GuardedHold'
  BY DEF LeaseInv, LeaseTypeOK, HeldByWorking, LeaseIsKnown, GuardedHold, Working
<1>3. HeldLeaseIsInDocument'
  BY DEF LeaseInv, LeaseTypeOK, HeldByWorking, HeldLeaseIsInDocument, Working
<1> QED BY <1>1, <1>2, <1>3 DEF LeaseInv

LEMMA ContendLease ==
  ASSUME LeaseInv, NEW t \in Turns, Contend(t)
  PROVE  LeaseInv'
<1> USE DEF Contend, End, Goto
<1>1. LeaseTypeOK'
  BY DEF LeaseInv, LeaseTypeOK
<1>2. ~ leaseHeld[t]
  BY DEF LeaseInv, HeldByWorking, Working
<1>3. leaseHeld' = leaseHeld
  BY <1>2 DEF LeaseInv, LeaseTypeOK
<1>4. HeldByWorking' /\ LeaseIsKnown' /\ GuardedHold' /\ HeldLeaseIsInDocument'
  BY <1>2, <1>3 DEF LeaseInv, LeaseTypeOK, HeldByWorking, LeaseIsKnown, GuardedHold,
     HeldLeaseIsInDocument, Working
<1> QED BY <1>1, <1>4 DEF LeaseInv

(* Whoever drops its own lease takes it from nobody else. *)
LEMMA ReleaseLease ==
  ASSUME LeaseInv, NEW t \in Turns, Release(t) \/ ReleaseFails(t)
  PROVE  LeaseInv'
<1> USE TurnAssumption DEF End, Goto, DropLease, Owns
<1>1. LeaseTypeOK'
  BY DEF LeaseInv, LeaseTypeOK, Release, ReleaseFails
<1>2. HeldByWorking' /\ GuardedHold'
  <2>1. /\ pc' = [pc EXCEPT ![t] = "over"]
        /\ leaseHeld' = [leaseHeld EXCEPT ![t] = FALSE]
        /\ guard' = guard /\ failed \subseteq failed'
    BY DEF Release, ReleaseFails
  <2>2. HeldByWorking'
    BY <2>1, Zenon DEF LeaseInv, LeaseTypeOK, HeldByWorking, Working
  <2>3. GuardedHold'
    BY <2>1 DEF LeaseInv, LeaseTypeOK, GuardedHold, Working
  <2> QED BY <2>2, <2>3
<1>3. LeaseIsKnown'
  <2>1. /\ leaseHeld' = [leaseHeld EXCEPT ![t] = FALSE]
        /\ failed \subseteq failed'
        /\ lease' \in {lease, None}
    BY DEF Release, ReleaseFails
  <2>2. lease' = t => t \in failed'
    <3>1. CASE ReleaseFails(t)
      BY <3>1 DEF ReleaseFails
    <3>2. CASE Release(t)
      <4>1. CASE leaseHeld[t]
        BY <3>2, <4>1 DEF Release
      <4>2. CASE ~ leaseHeld[t]
        BY <3>2, <4>2 DEF LeaseInv, LeaseIsKnown, Release
      <4> QED BY <4>1, <4>2
    <3> QED BY <3>1, <3>2
  <2>3. lease' # None /\ lease' # t => leaseHeld'[lease'] \/ lease' \in failed'
    BY <2>1 DEF LeaseInv, LeaseTypeOK, LeaseIsKnown
  <2> QED BY <2>2, <2>3 DEF LeaseIsKnown
<1>4. HeldLeaseIsInDocument'
  BY DEF LeaseInv, LeaseTypeOK, HeldLeaseIsInDocument, Release, ReleaseFails
<1> QED BY <1>1, <1>2, <1>3, <1>4 DEF LeaseInv

LEMMA CrashLease ==
  ASSUME LeaseInv, NEW i \in Instances, Crash(i)
  PROVE  LeaseInv'
<1>1. LeaseTypeOK'
  BY DEF LeaseInv, LeaseTypeOK, Crash
<1>2. HeldByWorking' /\ LeaseIsKnown' /\ GuardedHold' /\ HeldLeaseIsInDocument'
  BY TurnAssumption DEF LeaseInv, LeaseTypeOK, HeldByWorking, LeaseIsKnown, GuardedHold,
     HeldLeaseIsInDocument, Working, Crash
<1> QED BY <1>1, <1>2 DEF LeaseInv

LEMMA NextLease ==
  ASSUME LeaseInv, [Next]_vars
  PROVE  LeaseInv'
<1>1. CASE UNCHANGED vars
  BY <1>1 DEF vars, LeaseInv, LeaseTypeOK, HeldByWorking, LeaseIsKnown, GuardedHold,
     HeldLeaseIsInDocument, Working
<1>2. CASE Age
  BY <1>2 DEF Age, LeaseInv, LeaseTypeOK, HeldByWorking, LeaseIsKnown, GuardedHold,
     HeldLeaseIsInDocument, Working
<1>3. ASSUME NEW t \in Turns, NEW m \in UserMessages, Arrive(t, m)
      PROVE  LeaseInv'
  BY <1>3 DEF Arrive, Goto, LeaseInv, LeaseTypeOK, HeldByWorking, LeaseIsKnown, GuardedHold,
     HeldLeaseIsInDocument, Working
<1>4. ASSUME NEW t \in Turns, Respond(t)
      PROVE  LeaseInv'
  BY <1>4, QuietLease DEF Respond, Enqueue, Working
<1>5. ASSUME NEW t \in Turns, Truncate(t) \/ TruncateFails(t)
      PROVE  LeaseInv'
  BY <1>5, QuietLease DEF Truncate, TruncateFails, Enqueue, Working
<1>6. ASSUME NEW t \in Turns, Save(t) \/ SaveFails(t) \/ SaveConflicts(t)
      PROVE  LeaseInv'
  BY <1>6, QuietLease DEF Save, SaveFails, SaveConflicts, Settle, Turn, Working
<1> QED
  BY <1>1, <1>2, <1>3, <1>4, <1>5, <1>6, AcquireLease, AcquireFailsLease, ContendLease,
     ReleaseLease, CrashLease DEF Next, Step

LEMMA LeaseInvariant == Spec => []LeaseInv
<1>1. Init => LeaseInv
  BY InitLease
<1>2. LeaseInv /\ [Next]_vars => LeaseInv'
  BY NextLease
<1> QED BY <1>1, <1>2, PTL DEF Spec

(* A turn that acquired the lease of its session keeps it until it ends or *)
(* the lease grew too old, whoever else comes, goes or crashes.            *)
THEOREM LeaseIsKept == Spec => []HeldLeaseIsInDocument
<1>1. LeaseInv => HeldLeaseIsInDocument
  BY DEF LeaseInv
<1> QED BY <1>1, LeaseInvariant, PTL

(* The guard admits a second turn only beside one whose lease grew too old *)
(* or could not be written.                                                *)
THEOREM GuardExcludes == Spec => []OneTurnAtATime
<1>1. LeaseInv => OneTurnAtATime
  BY DEF LeaseInv, GuardedHold, HeldLeaseIsInDocument, OneTurnAtATime
<1> QED BY <1>1, LeaseInvariant, PTL

(* A turn that ended without a failure left no lease behind.               *)
THEOREM LeaseIsReturned == Spec => []NoStrayLease
<1>1. LeaseInv => NoStrayLease
  BY DEF LeaseInv, LeaseTypeOK, HeldByWorking, LeaseIsKnown, NoStrayLease
<1> QED BY <1>1, LeaseInvariant, PTL
-----------------------------------------------------------------------------
(* The conversation.  A turn that has begun knows its question; an answer  *)
(* in the document is one of a turn that has begun.                        *)
ConvTypeOK ==
  /\ pc \in [Turns -> PcValues]
  /\ asked \in [Turns -> UserMessages \cup {None}]
  /\ messages \in Seq(Messages)
  /\ reported \in [Turns -> {"none", "ok", "failed"}]

Requested == \A t \in Turns : pc[t] # "idle" => asked[t] \in UserMessages

AnswersAreOfTurns == \A t \in Turns : Answer(t) \in ToSet(messages) => pc[t] # "idle"

(* A question the answer is for stands above it, near or far. *)
BelowOwn ==
  \A t \in Turns, k \in DOMAIN messages :
    messages[k] = Answer(t) => \E j \in 1..(k - 1) : Similar(messages[j], asked[t])

ConvInv ==
  /\ ConvTypeOK
  /\ Requested
  /\ AnswersAreOfTurns
  /\ EachMessageOnce
  /\ BelowOwn
  /\ SavedAnswerStays

(* How the duplicate check tells messages apart.                           *)
LEMMA MessageShapes ==
  /\ \A m \in UserMessages : m \in Messages /\ m.role = "user"
  /\ \A t \in Turns : /\ Answer(t) \in Messages /\ Answer(t).role = "assistant"
                      /\ Answer(t).content = t
  /\ \A m \in Messages : m \in UserMessages \/ \E t \in Turns : m = Answer(t)
<1>1. \A m \in UserMessages : m \in Messages /\ m.role = "user"
  BY DEF UserMessages, Messages, Question
<1>2. \A t \in Turns : Answer(t) \in Messages
  BY DEF Messages
<1>3. \A t \in Turns : Answer(t).role = "assistant" /\ Answer(t).content = t
  BY DEF Answer
<1>4. \A m \in Messages : m \in UserMessages \/ \E t \in Turns : m = Answer(t)
  BY DEF Messages
<1> QED BY <1>1, <1>2, <1>3, <1>4

LEMMA SimilarMessages ==
  /\ \A m : Similar(m, m)
  /\ \A m, n : Similar(m, n) => Similar(n, m)
  /\ \A t \in Turns : \A m \in UserMessages : m # Answer(t) /\ ~ Similar(Answer(t), m)
  /\ \A t \in Turns : \A m \in Messages : Similar(Answer(t), m) => m = Answer(t)
  /\ \A t, u \in Turns : Answer(t) = Answer(u) => t = u
<1>1. \A m : Similar(m, m)
  BY DEF Similar
<1>2. \A m, n : Similar(m, n) => Similar(n, m)
  BY DEF Similar
<1>3. \A t \in Turns : \A m \in UserMessages : m # Answer(t) /\ ~ Similar(Answer(t), m)
  BY MessageShapes DEF Similar
<1>4. ASSUME NEW t \in Turns, NEW u \in Turns, Similar(Answer(t), Answer(u))
      PROVE  Answer(u) = Answer(t)
  BY <1>4, MessageShapes DEF Similar
<1>5. \A t, u \in Turns : Answer(t) = Answer(u) => t = u
  BY MessageShapes
<1> QED BY <1>1, <1>2, <1>3, <1>4, <1>5, MessageShapes

(* What a save appends: what is fresh, the question first.                 *)
AppendsFresh(t, n, all) ==
  /\ all \in Seq(Messages)
  /\ n \in Nat /\ Len(all) \in Nat
  /\ DOMAIN messages = 1 .. n /\ DOMAIN all = 1 .. Len(all)
  /\ Len(all) >= n
  /\ \A i \in 1 .. n : all[i] = messages[i]
  /\ \A i \in 1 .. Len(all) : i > n =>
       /\ all[i] \in {asked[t], Answer(t)} /\ Fresh(all[i])
       /\ \A j \in 1 .. Len(all) : j > n /\ all[i] = all[j] => i = j
       /\ all[i] = Answer(t) /\ Fresh(asked[t]) => \E j \in 1 .. (i - 1) : all[j] = asked[t]
  /\ Fresh(Answer(t)) => Answer(t) \in ToSet(all)

LEMMA SaveShape ==
  ASSUME ConvInv, NEW t \in Turns, asked[t] \in UserMessages
  PROVE  AppendsFresh(t, Len(messages), messages \o ToSave(t))
<1> DEFINE q == asked[t]
           a == Answer(t)
           all == messages \o ToSave(t)
<1> USE DEF AppendsFresh
<1>1. q \in Messages /\ a \in Messages /\ q # a /\ messages \in Seq(Messages)
  BY SimilarMessages, MessageShapes DEF ConvInv, ConvTypeOK
<1>2. CASE Fresh(q) /\ Fresh(a)
  <2>1. ToSave(t) = <<q>> \o <<a>>
    BY <1>2 DEF ToSave, IfFresh
  <2> HIDE DEF q, a
  <2>2. <<q>> \in Seq(Messages) /\ <<a>> \in Seq(Messages)
        /\ all = (messages \o <<q>>) \o <<a>>
    BY <1>1, <2>1, ConcatAssociative
  <2>3. /\ all \in Seq(Messages) /\ Len(all) = Len(messages) + 2
        /\ \A i \in 1 .. Len(messages) : all[i] = messages[i]
        /\ all[Len(messages) + 1] = q /\ all[Len(messages) + 2] = a
    BY <1>1, <2>2
  <2>4. Len(messages) \in Nat /\ DOMAIN messages = 1 .. Len(messages) /\ DOMAIN all = 1 .. Len(all)
    BY <1>1, <2>3
  <2>5. \A i \in 1 .. Len(all) : i > Len(messages) => i = Len(messages) + 1 \/ i = Len(messages) + 2
    BY <2>3, <2>4
  <2>6. a \in ToSet(all)
    BY <2>3, <2>4 DEF ToSet
  <2>7. \A i \in 1 .. Len(all) : i > Len(messages) /\ all[i] = a =>
          Len(messages) + 1 \in 1 .. (i - 1)
    BY <1>1, <2>3, <2>4, <2>5
  <2> QED BY <1>1, <1>2, <2>3, <2>4, <2>5, <2>6, <2>7 DEF q, a
<1>3. CASE Fresh(q) /\ ~ Fresh(a)
  <2>1. ToSave(t) = <<q>>
    BY <1>3 DEF ToSave, IfFresh
  <2> HIDE DEF q, a
  <2>2. /\ all \in Seq(Messages) /\ Len(all) = Len(messages) + 1
        /\ \A i \in 1 .. Len(messages) : all[i] = messages[i]
        /\ all[Len(messages) + 1] = q
    BY <1>1, <2>1
  <2> QED BY <1>1, <1>3, <2>2 DEF ToSet, q, a
<1>4. CASE ~ Fresh(q) /\ Fresh(a)
  <2>1. ToSave(t) = <<a>>
    BY <1>4 DEF ToSave, IfFresh
  <2> HIDE DEF q, a
  <2>2. /\ all \in Seq(Messages) /\ Len(all) = Len(messages) + 1
        /\ \A i \in 1 .. Len(messages) : all[i] = messages[i]
        /\ all[Len(messages) + 1] = a
    BY <1>1, <2>1
  <2> QED BY <1>1, <1>4, <2>2 DEF ToSet, q, a
<1>5. CASE ~ Fresh(q) /\ ~ Fresh(a)
  <2>1. ToSave(t) = <<>>
    BY <1>5 DEF ToSave, IfFresh
  <2>2. all = messages
    BY <1>1, <2>1, ConcatEmptySeq
  <2> QED BY <1>1, <1>5, <2>2
<1> QED BY <1>2, <1>3, <1>4, <1>5

(* What every step keeps: types, and that a turn that has begun stays so.  *)
ConvStep ==
  /\ pc' \in [Turns -> PcValues]
  /\ reported' \in [Turns -> {"none", "ok", "failed"}]
  /\ \A u \in Turns : pc[u] # "idle" => pc'[u] # "idle" /\ asked'[u] = asked[u]
  /\ asked' \in [Turns -> UserMessages \cup {None}]
  /\ \A u \in Turns : pc'[u] # "idle" => asked'[u] \in UserMessages
  /\ cut \subseteq cut'

LEMMA QuietConv ==
  ASSUME ConvInv, ConvStep, messages' = messages,
         \A u \in Turns : reported'[u] = "ok" => reported[u] = "ok"
  PROVE  ConvInv'
<1> USE DEF ConvInv, ConvStep
<1>1. ConvTypeOK' /\ Requested' /\ AnswersAreOfTurns' /\ EachMessageOnce' /\ SavedAnswerStays'
  BY DEF ConvTypeOK, Requested, AnswersAreOfTurns, EachMessageOnce, SavedAnswerStays,
         IsInjective
<1>2. BelowOwn'
  <2> SUFFICES ASSUME NEW t \in Turns, NEW k \in DOMAIN messages, messages[k] = Answer(t)
               PROVE  \E j \in 1 .. (k - 1) : Similar(messages[j], asked'[t])
    BY DEF BelowOwn, Similar, Period
  <2>1. asked'[t] = asked[t]
    BY DEF AnswersAreOfTurns, ToSet
  <2> QED BY <2>1 DEF BelowOwn
<1> QED BY <1>1, <1>2

(* A save appends what is fresh: nothing twice, the answer below.          *)
LEMMA AppendConv ==
  ASSUME ConvInv, ConvStep, NEW t \in Turns, pc[t] # "idle",
         messages' = messages \o ToSave(t),
         \A u \in Turns \ {t} : reported'[u] = "ok" => reported[u] = "ok"
  PROVE  ConvInv'
<1> DEFINE all == messages'
           n == Len(messages)
<1>1. asked[t] \in UserMessages /\ asked'[t] = asked[t]
  BY DEF ConvInv, Requested, ConvStep
<1>2. AppendsFresh(t, n, all)
  BY <1>1, SaveShape
<1> HIDE DEF all, n
<1> USE DEF AppendsFresh
<1>3. ConvTypeOK' /\ Requested'
  BY <1>2 DEF ConvInv, ConvStep, ConvTypeOK, Requested, all
<1>4. \A i \in 1 .. n : \A j \in 1 .. Len(all) : j > n => all[i] # all[j]
  <2> SUFFICES ASSUME NEW i \in 1 .. n, NEW j \in 1 .. Len(all), j > n, all[i] = all[j]
               PROVE  FALSE
    OBVIOUS
  <2>1. all[i] \in ToSet(messages)
    BY <1>2 DEF ToSet
  <2>2. ~ Similar(all[j], all[i])
    BY <1>2, <2>1 DEF Fresh
  <2> QED BY <2>2, SimilarMessages
<1>5. EachMessageOnce'
  <2> SUFFICES ASSUME NEW i \in 1 .. Len(all), NEW j \in 1 .. Len(all), all[i] = all[j]
               PROVE  i = j
    BY <1>2 DEF EachMessageOnce, IsInjective, all
  <2>1. CASE i <= n /\ j <= n
    BY <1>2, <2>1 DEF ConvInv, EachMessageOnce, IsInjective
  <2> QED BY <1>2, <1>4, <2>1
<1>6. \A u \in Turns : Answer(u) \in ToSet(messages)' => Answer(u) \in ToSet(messages) \/ u = t
  <2> SUFFICES ASSUME NEW u \in Turns, NEW i \in 1 .. Len(all), all[i] = Answer(u)
               PROVE  Answer(u) \in ToSet(messages) \/ u = t
    BY <1>2 DEF ToSet, all
  <2>1. CASE i <= n
    BY <1>2, <2>1 DEF ToSet
  <2>2. CASE i > n
    BY <1>1, <1>2, <2>2, SimilarMessages
  <2> QED BY <1>2, <2>1, <2>2
<1>7. AnswersAreOfTurns'
  BY <1>6 DEF ConvInv, AnswersAreOfTurns, ConvStep
<1>8. SavedAnswerStays'
  <2>1. \A m : m \in ToSet(messages) => m \in ToSet(messages)'
    BY <1>2 DEF ToSet, all
  <2>2. Answer(t) \in ToSet(messages)'
    <3>1. CASE Fresh(Answer(t))
      BY <1>2, <3>1 DEF ToSet, all
    <3>2. CASE ~ Fresh(Answer(t))
      <4>1. PICK m \in ToSet(messages) : Similar(Answer(t), m)
        BY <3>2 DEF Fresh
      <4>2. m \in Messages
        BY <4>1 DEF ToSet, ConvInv, ConvTypeOK
      <4> QED BY <2>1, <4>1, <4>2, SimilarMessages
    <3> QED BY <3>1, <3>2
  <2> QED BY <2>1, <2>2 DEF ConvInv, ConvStep, SavedAnswerStays, Answer
<1>9. BelowOwn'
  <2> SUFFICES ASSUME NEW u \in Turns, NEW k \in 1 .. Len(all), all[k] = Answer(u)
               PROVE  \E j \in 1 .. (k - 1) : Similar(all[j], asked'[u])
    BY <1>2 DEF BelowOwn, all, Similar, Period, Answer
  <2>1. CASE k <= n
    <3>1. k \in 1 .. n /\ messages[k] = Answer(u)
      BY <1>2, <2>1
    <3>2. asked'[u] = asked[u]
      <4>1. Answer(u) \in ToSet(messages)
        BY <1>2, <3>1 DEF ToSet
      <4> QED BY <4>1 DEF ConvInv, AnswersAreOfTurns, ConvStep
    <3>3. PICK j \in 1 .. (k - 1) : Similar(messages[j], asked[u])
      BY <1>2, <3>1 DEF ConvInv, BelowOwn
    <3> QED BY <1>2, <2>1, <3>2, <3>3
  <2>2. CASE k > n
    <3>1. u = t
      BY <1>1, <1>2, <2>2, SimilarMessages
    <3>2. CASE Fresh(asked[t])
      <4>1. PICK j \in 1 .. (k - 1) : all[j] = asked[t]
        BY <1>2, <2>2, <3>1, <3>2
      <4> QED BY <1>1, <3>1, <4>1, SimilarMessages
    <3>3. CASE ~ Fresh(asked[t])
      <4>1. PICK j \in 1 .. n : Similar(asked[t], messages[j])
        BY <1>2, <3>3 DEF Fresh, ToSet
      <4>2. j \in 1 .. (k - 1) /\ all[j] = messages[j]
        BY <1>2, <2>2
      <4> QED BY <1>1, <3>1, <4>1, <4>2, SimilarMessages
    <3> QED BY <3>2, <3>3
  <2> QED BY <1>2, <2>1, <2>2
<1> QED BY <1>3, <1>5, <1>7, <1>8, <1>9 DEF ConvInv

(* An edit keeps what stands before the edited message: only user messages *)
(* with another timestamp and answers with their questions.                *)
LEMMA TruncateConv ==
  ASSUME ConvInv, ConvStep, NEW t \in Turns, pc[t] # "idle", NEW k \in Edited(asked[t]),
         \A j \in Edited(asked[t]) : k <= j, TruncateAt(t, k), reported' = reported
  PROVE  ConvInv'
<1> DEFINE all == messages'
           n == Len(messages)
<1>1. asked[t] \in UserMessages /\ asked'[t] = asked[t]
  BY DEF ConvInv, Requested, ConvStep
<1>2. /\ messages \in Seq(Messages) /\ n \in Nat /\ DOMAIN messages = 1 .. n
      /\ k \in 1 .. n /\ messages[k].role = "user" /\ messages[k].at = asked[t].at
  BY DEF ConvInv, ConvTypeOK, Edited
<1>3. /\ all \in Seq(Messages) /\ DOMAIN all = 1 .. k
      /\ \A i \in 1 .. (k - 1) : all[i] = messages[i]
      /\ all[k] = asked[t]
  <2> DEFINE kept == SubSeq(messages, 1, k - 1)
  <2>1. kept \in Seq(Messages) /\ Len(kept) = k - 1 /\ \A i \in 1 .. (k - 1) : kept[i] = messages[i]
    BY <1>2
  <2>2. all = Append(kept, asked[t])
    BY DEF TruncateAt
  <2> HIDE DEF kept
  <2> QED BY <1>1, <1>2, <2>1, <2>2, MessageShapes
<1> HIDE DEF all, n
<1>4. ConvTypeOK' /\ Requested'
  BY <1>3 DEF ConvInv, ConvStep, ConvTypeOK, Requested, all
<1>5. \A i \in 1 .. (k - 1) : messages[i] # asked[t]
  <2> SUFFICES ASSUME NEW i \in 1 .. (k - 1), messages[i] = asked[t] PROVE FALSE
    OBVIOUS
  <2>1. i \in Edited(asked[t])
    BY <1>1, <1>2, MessageShapes DEF Edited
  <2> QED BY <1>2, <2>1
<1>6. EachMessageOnce'
  <2> SUFFICES ASSUME NEW i \in 1 .. k, NEW j \in 1 .. k, all[i] = all[j] PROVE i = j
    BY <1>3 DEF EachMessageOnce, IsInjective, all
  <2>1. CASE i < k /\ j < k
    BY <1>2, <1>3, <2>1 DEF ConvInv, EachMessageOnce, IsInjective
  <2> QED BY <1>2, <1>3, <1>5, <2>1
<1>7. \A u \in Turns : asked[t] # Answer(u)
  BY <1>1, SimilarMessages
<1>8. \A u \in Turns, i \in 1 .. k :
        all[i] = Answer(u) => i \in 1 .. (k - 1) /\ messages[i] = Answer(u) /\ pc[u] # "idle"
  <2> SUFFICES ASSUME NEW u \in Turns, NEW i \in 1 .. k, all[i] = Answer(u)
               PROVE  i \in 1 .. (k - 1) /\ messages[i] = Answer(u) /\ pc[u] # "idle"
    OBVIOUS
  <2>1. i \in 1 .. (k - 1) /\ messages[i] = Answer(u)
    BY <1>2, <1>3, <1>7
  <2>2. Answer(u) \in ToSet(messages)
    BY <1>2, <2>1 DEF ToSet
  <2> QED BY <2>1, <2>2 DEF ConvInv, AnswersAreOfTurns
<1>9. AnswersAreOfTurns'
  <2> SUFFICES ASSUME NEW u \in Turns, NEW i \in 1 .. k, all[i] = Answer(u)
               PROVE  pc'[u] # "idle"
    BY <1>3 DEF AnswersAreOfTurns, ToSet, all, Answer
  <2> QED BY <1>8 DEF ConvStep
<1>10. SavedAnswerStays'
  <2> SUFFICES ASSUME NEW u \in Turns, reported[u] = "ok", u \notin cut'
               PROVE  Answer(u) \in ToSet(messages)'
    BY DEF SavedAnswerStays, Answer
  <2>1. PICK i \in 1 .. n : messages[i] = Answer(u)
    BY <1>2 DEF ConvInv, SavedAnswerStays, ConvStep, ToSet
  <2>2. i # k
    BY <1>2, <2>1, MessageShapes
  <2>3. CASE i > k
    <3> DEFINE after == SubSeq(messages, k + 1, Len(messages))
    <3>0. k + 1 \in 1 .. (n + 1) /\ n \in 0 .. n /\ k + 1 <= n /\ i - k \in 1 .. (n - k)
          /\ (k + 1) + (i - k) - 1 = i
      BY <1>2, <2>3
    <3>1. Len(after) = n - k /\ after[i - k] = messages[i] /\ after \in Seq(Messages)
      <4>1. n = Len(messages)
        BY DEF n
      <4>2. /\ after \in Seq(Messages) /\ Len(after) = n - (k + 1) + 1
            /\ \A j \in 1 .. (n - (k + 1) + 1) : after[j] = messages[(k + 1) + j - 1]
        BY <1>2, <3>0, <4>1, SubSeqProperties
      <4> HIDE DEF after
      <4>3. n - (k + 1) + 1 = n - k
        BY <1>2
      <4> QED BY <3>0, <4>2, <4>3
    <3> HIDE DEF after
    <3>2. i - k \in DOMAIN after
      BY <1>2, <2>3, <3>1
    <3>3. Answer(u) \in ToSet(after)
      BY <2>1, <3>1, <3>2 DEF ToSet
    <3> QED BY <3>3 DEF TruncateAt, after
  <2>4. CASE i < k
    <3>1. i \in DOMAIN all /\ all[i] = Answer(u)
      BY <1>2, <1>3, <2>1, <2>4
    <3> QED BY <3>1 DEF ToSet, all
  <2> QED BY <1>2, <2>2, <2>3, <2>4
<1>11. BelowOwn'
  <2> SUFFICES ASSUME NEW u \in Turns, NEW i \in 1 .. k, all[i] = Answer(u)
               PROVE  \E j \in 1 .. (i - 1) : Similar(all[j], asked'[u])
    BY <1>3 DEF BelowOwn, all, Similar, Period, Answer
  <2>1. i \in 1 .. (k - 1) /\ messages[i] = Answer(u) /\ asked'[u] = asked[u]
    BY <1>8 DEF ConvStep
  <2>2. PICK j \in 1 .. (i - 1) : Similar(messages[j], asked[u])
    BY <1>2, <2>1 DEF ConvInv, BelowOwn
  <2>3. all[j] = messages[j]
    BY <1>2, <1>3, <2>1
  <2> QED BY <2>1, <2>2, <2>3
<1> QED BY <1>4, <1>6, <1>9, <1>10, <1>11 DEF ConvInv

LEMMA InitConv ==
  ASSUME Init
  PROVE  ConvInv
<1>1. ConvTypeOK /\ Requested /\ SavedAnswerStays
  BY DEF Init, ConvTypeOK, Requested, SavedAnswerStays
<1>2. AnswersAreOfTurns /\ EachMessageOnce /\ BelowOwn
  BY DEF Init, AnswersAreOfTurns, EachMessageOnce, IsInjective, BelowOwn, ToSet
<1> QED BY <1>1, <1>2 DEF ConvInv

LEMMA NextConv ==
  ASSUME ConvInv, [Next]_vars
  PROVE  ConvInv'
<1>1. CASE UNCHANGED vars
  BY <1>1, QuietConv DEF vars, ConvInv, ConvStep, ConvTypeOK, Requested
<1>2. CASE Age
  BY <1>2, QuietConv DEF Age, ConvInv, ConvStep, ConvTypeOK, Requested
<1>3. ASSUME NEW t \in Turns, NEW m \in UserMessages, Arrive(t, m)
      PROVE  ConvInv'
  BY <1>3, QuietConv DEF Arrive, Goto, ConvInv, ConvStep, ConvTypeOK, Requested
<1>4. ASSUME NEW t \in Turns, Acquire(t) \/ AcquireFails(t) \/ Contend(t) \/ Respond(t)
      PROVE  ConvInv'
  BY <1>4, QuietConv DEF Acquire, AcquireFails, Contend, End, Respond, Enqueue, Goto,
     ConvInv, ConvStep, ConvTypeOK, Requested
<1>5. ASSUME NEW t \in Turns, Truncate(t) \/ TruncateFails(t)
      PROVE  ConvInv'
  <2>1. /\ UNCHANGED <<asked, reported>> /\ pc[t] = "truncating" /\ Goto(t, "queued")
        /\ EditAndTruncate(t) \/ UNCHANGED <<messages, cut>>
    BY <1>5 DEF Truncate, TruncateFails, Enqueue
  <2>2. cut \subseteq cut'
    BY <2>1 DEF EditAndTruncate, TruncateAt
  <2>3. ConvStep /\ pc[t] # "idle"
    BY <2>1, <2>2 DEF Goto, ConvInv, ConvStep, ConvTypeOK, Requested
  <2>4. CASE UNCHANGED messages
    BY <2>1, <2>3, <2>4, QuietConv
  <2>5. CASE messages' # messages
    <3>1. PICK k \in Edited(asked[t]) :
            (\A j \in Edited(asked[t]) : k <= j) /\ TruncateAt(t, k)
      BY <2>1, <2>5 DEF EditAndTruncate
    <3> QED BY <2>1, <2>3, <3>1, TruncateConv
  <2> QED BY <2>4, <2>5
<1>6. ASSUME NEW t \in Turns, Save(t) \/ SaveFails(t) \/ SaveConflicts(t)
      PROVE  ConvInv'
  <2>1. /\ UNCHANGED <<asked, cut>> /\ pc[t] = "queued"
        /\ UNCHANGED pc \/ Goto(t, "saved")
    BY <1>6 DEF Save, SaveFails, SaveConflicts, Turn, Settle
  <2>2. \/ messages' = messages /\ reported' = reported
        \/ messages' = messages /\ reported' = [reported EXCEPT ![t] = "failed"]
        \/ messages' = messages \o ToSave(t) /\ reported' = reported
        \/ messages' = messages \o ToSave(t) /\ reported' = [reported EXCEPT ![t] = "failed"]
        \/ messages' = messages \o ToSave(t) /\ reported' = [reported EXCEPT ![t] = "ok"]
    BY <1>6 DEF Save, SaveFails, SaveConflicts, AppendMessages, Settle
  <2>3. ConvStep /\ pc[t] # "idle"
    BY <2>1, <2>2 DEF Goto, ConvInv, ConvStep, ConvTypeOK, Requested
  <2>4. \A u \in Turns \ {t} : reported'[u] = "ok" => reported[u] = "ok"
    BY <2>2 DEF ConvInv, ConvTypeOK
  <2>5. CASE messages' = messages \o ToSave(t)
    BY <2>3, <2>4, <2>5, AppendConv
  <2>6. CASE messages' = messages /\ \A u \in Turns : reported'[u] = "ok" => reported[u] = "ok"
    BY <2>3, <2>6, QuietConv
  <2> QED BY <2>2, <2>5, <2>6 DEF ConvInv, ConvTypeOK
<1>7. ASSUME NEW t \in Turns, Release(t) \/ ReleaseFails(t)
      PROVE  ConvInv'
  BY <1>7, QuietConv DEF Release, ReleaseFails, End, Goto, ConvInv, ConvStep, ConvTypeOK, Requested
<1>8. ASSUME NEW i \in Instances, Crash(i)
      PROVE  ConvInv'
  BY <1>8, QuietConv DEF Crash, ConvInv, ConvStep, ConvTypeOK, Requested
<1> QED
  BY <1>1, <1>2, <1>3, <1>4, <1>5, <1>6, <1>7, <1>8 DEF Next, Step

LEMMA ConvInvariant == Spec => []ConvInv
<1>1. Init => ConvInv
  BY InitConv
<1>2. ConvInv /\ [Next]_vars => ConvInv'
  BY NextConv
<1> QED BY <1>1, <1>2, PTL DEF Spec

(* No message is saved twice, however often its save is repeated.          *)
THEOREM NoDuplicates == Spec => []EachMessageOnce
<1>1. ConvInv => EachMessageOnce
  BY DEF ConvInv
<1> QED BY <1>1, ConvInvariant, PTL

(* An answer reported as saved is in the document until an edit cuts it.   *)
THEOREM SavedIsKept == Spec => []SavedAnswerStays
<1>1. ConvInv => SavedAnswerStays
  BY DEF ConvInv
<1> QED BY <1>1, ConvInvariant, PTL
-----------------------------------------------------------------------------
(* Right below.  The question of a turn that shares it with nobody comes   *)
(* into the document together with the answer, and an edit never parts     *)
(* them: it cuts at a question, and at one that is shared.                 *)
Queued == {"queued", "saved", "over"}

SavedLate == \A t \in Turns : Answer(t) \in ToSet(messages) => pc[t] \in Queued

QuestionsAreOfTurns ==
  \A k \in DOMAIN messages :
    messages[k].role = "user" => \E u \in Turns : pc[u] # "idle" /\ messages[k] = asked[u]

AnswerComesWith ==
  \A t \in Turns, k \in DOMAIN messages :
    pc[t] # "idle" /\ messages[k] = asked[t] /\ ~ Shared(t)
      => k + 1 \in DOMAIN messages /\ messages[k + 1] = Answer(t)

RightBelow ==
  \A t \in Turns, k \in DOMAIN messages :
    messages[k] = Answer(t) /\ ~ Shared(t) => k - 1 \in DOMAIN messages /\ messages[k - 1] = asked[t]

NextTo == SavedLate /\ QuestionsAreOfTurns /\ AnswerComesWith /\ RightBelow

(* What every step does to the turns. *)
NextStep ==
  /\ \A u \in Turns : pc[u] # "idle" => pc'[u] # "idle" /\ asked'[u] = asked[u]
  /\ \A u \in Turns : pc[u] \in Queued => pc'[u] \in Queued
  /\ \A u \in Turns : pc'[u] # "idle" => asked'[u] \in UserMessages

(* A question that is shared stays so. *)
LEMMA SharedStays ==
  ASSUME NextStep, NEW t \in Turns, pc[t] # "idle", Shared(t)
  PROVE  Shared(t)'
<1>1. PICK u \in Turns \ {t} :
         pc[u] # "idle" /\ (Similar(asked[u], asked[t]) \/ asked[u].at = asked[t].at)
  BY DEF Shared
<1>2. pc'[u] # "idle" /\ asked'[u] = asked[u] /\ asked'[t] = asked[t]
  BY <1>1 DEF NextStep
<1>3. Similar(asked'[u], asked'[t]) \/ asked'[u].at = asked'[t].at
  BY <1>1, <1>2
<1> QED BY <1>2, <1>3 DEF Shared, Similar, Period

(* Who finds its own question in the document without having saved it      *)
(* shares it.                                                              *)
LEMMA FoundIsShared ==
  ASSUME NEW t \in Turns, NEW u \in Turns, u # t, pc[u] # "idle", asked[u] = asked[t]
  PROVE  Shared(t)
BY SimilarMessages DEF Shared

LEMMA QuietNextTo ==
  ASSUME ConvInv, NextTo, NextStep, messages' = messages
  PROVE  NextTo'
<1> USE DEF NextTo
<1>1. SavedLate'
  BY DEF SavedLate, NextStep, Answer
<1>2. QuestionsAreOfTurns'
  BY DEF QuestionsAreOfTurns, NextStep
<1>3. AnswerComesWith'
  <2> SUFFICES ASSUME NEW t \in Turns, NEW k \in DOMAIN messages,
                      pc'[t] # "idle", messages[k] = asked'[t], ~ Shared(t)'
               PROVE  k + 1 \in DOMAIN messages /\ messages[k + 1] = Answer(t)
    BY DEF AnswerComesWith, Answer
  <2>1. CASE pc[t] # "idle"
    BY <2>1, SharedStays DEF NextStep, AnswerComesWith
  <2>2. CASE pc[t] = "idle"
    <3>1. messages[k].role = "user"
      BY MessageShapes DEF NextStep
    <3>2. PICK u \in Turns : pc[u] # "idle" /\ messages[k] = asked[u]
      BY <3>1 DEF QuestionsAreOfTurns
    <3>3. u # t /\ pc'[u] # "idle" /\ asked'[u] = asked'[t]
      BY <2>2, <3>2 DEF NextStep
    <3>4. Similar(asked'[u], asked'[t])
      BY <3>3, SimilarMessages
    <3> QED BY <3>3, <3>4 DEF Shared, Similar, Period
  <2> QED BY <2>1, <2>2
<1>4. RightBelow'
  <2> SUFFICES ASSUME NEW t \in Turns, NEW k \in DOMAIN messages, messages[k] = Answer(t), ~ Shared(t)'
               PROVE  k - 1 \in DOMAIN messages /\ messages[k - 1] = asked'[t]
    BY DEF RightBelow, Answer
  <2>1. pc[t] # "idle"
    BY DEF SavedLate, Queued, ToSet
  <2> QED BY <2>1, SharedStays DEF NextStep, RightBelow
<1> QED BY <1>1, <1>2, <1>3, <1>4

LEMMA PairAppended ==
  ASSUME ConvInv, NEW t \in Turns, asked[t] \in UserMessages, Fresh(asked[t]), Fresh(Answer(t))
  PROVE  LET all == messages \o ToSave(t) IN
         /\ Len(all) = Len(messages) + 2
         /\ all[Len(messages) + 1] = asked[t] /\ all[Len(messages) + 2] = Answer(t)
<1> DEFINE q == asked[t]
           a == Answer(t)
           all == messages \o ToSave(t)
<1>1. q \in Messages /\ a \in Messages /\ messages \in Seq(Messages)
  BY MessageShapes DEF ConvInv, ConvTypeOK
<1>2. ToSave(t) = <<q>> \o <<a>>
  BY DEF ToSave, IfFresh
<1> HIDE DEF q, a
<1>3. <<q>> \in Seq(Messages) /\ <<a>> \in Seq(Messages)
      /\ all = (messages \o <<q>>) \o <<a>>
  BY <1>1, <1>2, ConcatAssociative
<1>4. /\ Len(all) = Len(messages) + 2
      /\ all[Len(messages) + 1] = q /\ all[Len(messages) + 2] = a
  BY <1>1, <1>3
<1> QED BY <1>4 DEF q, a

LEMMA AppendNextTo ==
  ASSUME ConvInv, NextTo, NextStep, NEW t \in Turns, pc[t] = "queued", pc'[t] \in Queued,
         asked' = asked, \A u \in Turns \ {t} : pc'[u] = pc[u],
         messages' = messages \o ToSave(t)
  PROVE  NextTo'
<1> DEFINE all == messages'
           n == Len(messages)
<1> USE DEF NextTo
<1>1. asked[t] \in UserMessages /\ pc[t] # "idle" /\ \A u \in Turns : pc'[u] # "idle" => pc[u] # "idle"
  BY DEF ConvInv, Requested, Queued
<1>2. AppendsFresh(t, n, all)
  BY <1>1, SaveShape
<1>3. Fresh(asked[t]) /\ Fresh(Answer(t)) =>
        Len(all) = n + 2 /\ all[n + 1] = asked[t] /\ all[n + 2] = Answer(t)
  BY <1>1, PairAppended
<1> HIDE DEF all, n
<1> USE DEF AppendsFresh
<1>4. \A u \in Turns : ~ Shared(u)' /\ pc[u] # "idle" => ~ Shared(u)
  BY SharedStays
(* A turn that shares its question with nobody saves both or neither. *)
<1>5. ASSUME ~ Shared(t) PROVE Fresh(asked[t]) <=> Fresh(Answer(t))
  <2>1. ASSUME ~ Fresh(asked[t]), Fresh(Answer(t)) PROVE FALSE
    <3>1. PICK j \in 1 .. n : Similar(asked[t], messages[j])
      BY <1>2, <2>1 DEF Fresh, ToSet
    <3>2. messages[j].role = "user" /\ j \in DOMAIN messages
      BY <1>1, <1>2, <3>1, MessageShapes DEF Similar
    <3>3. PICK w \in Turns : pc[w] # "idle" /\ messages[j] = asked[w]
      BY <3>2 DEF QuestionsAreOfTurns
    <3>4. CASE w = t
      <4>1. Answer(t) \in ToSet(messages)
        BY <1>1, <1>5, <3>2, <3>3, <3>4 DEF AnswerComesWith, ToSet
      <4> QED BY <2>1, <4>1, SimilarMessages DEF Fresh
    <3>5. CASE w # t
      BY <1>5, <3>1, <3>3, <3>5, SimilarMessages DEF Shared
    <3> QED BY <3>4, <3>5
  <2>2. ASSUME Fresh(asked[t]), ~ Fresh(Answer(t)) PROVE FALSE
    <3>1. PICK j \in 1 .. n : Similar(Answer(t), messages[j])
      BY <1>2, <2>2 DEF Fresh, ToSet
    <3>2. j \in DOMAIN messages /\ messages[j] = Answer(t)
      BY <1>2, <3>1, SimilarMessages DEF ConvInv, ConvTypeOK
    <3>3. asked[t] \in ToSet(messages)
      BY <1>5, <3>2 DEF RightBelow, ToSet
    <3> QED BY <2>2, <3>3, SimilarMessages DEF Fresh
  <2> QED BY <2>1, <2>2
<1>6. SavedLate'
  <2> SUFFICES ASSUME NEW u \in Turns, NEW i \in 1 .. Len(all), all[i] = Answer(u)
               PROVE  pc'[u] \in Queued
    BY <1>2 DEF SavedLate, ToSet, all, Answer
  <2>1. CASE i <= n
    BY <1>2, <2>1 DEF SavedLate, ToSet, NextStep
  <2>2. CASE i > n
    <3>1. u = t
      BY <1>1, <1>2, <2>2, SimilarMessages
    <3> QED BY <3>1
  <2> QED BY <1>2, <2>1, <2>2
<1>7. QuestionsAreOfTurns'
  <2> SUFFICES ASSUME NEW i \in 1 .. Len(all), all[i].role = "user"
               PROVE  \E u \in Turns : pc'[u] # "idle" /\ all[i] = asked[u]
    BY <1>2 DEF QuestionsAreOfTurns, all
  <2>1. CASE i <= n
    BY <1>2, <2>1 DEF QuestionsAreOfTurns, NextStep
  <2>2. CASE i > n
    <3>1. all[i] = asked[t]
      BY <1>2, <2>2, MessageShapes
    <3> QED BY <1>1, <3>1 DEF NextStep
  <2> QED BY <1>2, <2>1, <2>2
<1>8. AnswerComesWith'
  <2> SUFFICES ASSUME NEW u \in Turns, NEW i \in 1 .. Len(all),
                      pc[u] # "idle", all[i] = asked[u], ~ Shared(u)
               PROVE  i + 1 \in 1 .. Len(all) /\ all[i + 1] = Answer(u)
    BY <1>1, <1>2, <1>4 DEF AnswerComesWith, all, Answer
  <2>1. CASE i <= n
    <3>1. i \in DOMAIN messages /\ messages[i] = asked[u]
      BY <1>2, <2>1
    <3>2. i + 1 \in DOMAIN messages /\ messages[i + 1] = Answer(u)
      BY <3>1 DEF AnswerComesWith
    <3> QED BY <1>2, <3>2
  <2>2. CASE i > n
    <3>1. asked[u] \in UserMessages
      BY DEF ConvInv, Requested
    <3>2. all[i] = asked[t]
      BY <1>2, <2>2, <3>1, SimilarMessages
    <3>3. u = t
      BY <1>1, <3>2, FoundIsShared
    <3>4. Fresh(asked[t]) /\ Fresh(Answer(t))
      BY <1>2, <1>5, <2>2, <3>2, <3>3
    <3>5. i = n + 1
      BY <1>1, <1>2, <1>3, <2>2, <3>2, <3>4, SimilarMessages
    <3> QED BY <1>2, <1>3, <3>3, <3>4, <3>5
  <2> QED BY <1>2, <2>1, <2>2
<1>9. RightBelow'
  <2> SUFFICES ASSUME NEW u \in Turns, NEW i \in 1 .. Len(all), all[i] = Answer(u), ~ Shared(u)'
               PROVE  i - 1 \in 1 .. Len(all) /\ all[i - 1] = asked[u]
    BY <1>2 DEF RightBelow, all, Answer
  <2>1. CASE i <= n
    <3>1. i \in DOMAIN messages /\ messages[i] = Answer(u)
      BY <1>2, <2>1
    <3>2. pc[u] # "idle"
      BY <3>1 DEF SavedLate, Queued, ToSet
    <3>3. i - 1 \in DOMAIN messages /\ messages[i - 1] = asked[u]
      BY <1>4, <3>1, <3>2 DEF RightBelow
    <3> QED BY <1>2, <3>3
  <2>2. CASE i > n
    <3>1. u = t /\ Fresh(Answer(t))
      BY <1>1, <1>2, <2>2, SimilarMessages
    <3>2. Fresh(asked[t])
      BY <1>1, <1>4, <1>5, <3>1
    <3>3. i = n + 2
      BY <1>1, <1>2, <1>3, <2>2, <3>1, <3>2, SimilarMessages
    <3> QED BY <1>2, <1>3, <3>1, <3>2, <3>3
  <2> QED BY <1>2, <2>1, <2>2
<1> QED BY <1>6, <1>7, <1>8, <1>9

LEMMA TruncateNextTo ==
  ASSUME ConvInv, NextTo, NextStep, NEW t \in Turns, pc[t] = "truncating",
         asked' = asked, \A u \in Turns \ {t} : pc'[u] = pc[u],
         NEW k \in Edited(asked[t]), TruncateAt(t, k)
  PROVE  NextTo'
<1> DEFINE all == messages'
           n == Len(messages)
<1> USE DEF NextTo
<1>1. asked[t] \in UserMessages /\ pc[t] # "idle" /\ \A u \in Turns : pc'[u] # "idle" => pc[u] # "idle"
  BY DEF ConvInv, Requested
<1>2. /\ messages \in Seq(Messages) /\ n \in Nat /\ DOMAIN messages = 1 .. n
      /\ k \in 1 .. n /\ messages[k].role = "user" /\ messages[k].at = asked[t].at
  BY DEF ConvInv, ConvTypeOK, Edited
<1>3. /\ all \in Seq(Messages) /\ DOMAIN all = 1 .. k
      /\ \A i \in 1 .. (k - 1) : all[i] = messages[i]
      /\ all[k] = asked[t]
  <2> DEFINE kept == SubSeq(messages, 1, k - 1)
  <2>1. kept \in Seq(Messages) /\ Len(kept) = k - 1 /\ \A i \in 1 .. (k - 1) : kept[i] = messages[i]
    BY <1>2
  <2>2. all = Append(kept, asked[t])
    BY DEF TruncateAt
  <2> HIDE DEF kept
  <2> QED BY <1>1, <1>2, <2>1, <2>2, MessageShapes
<1> HIDE DEF all, n
<1>4. \A u \in Turns : ~ Shared(u)' /\ pc[u] # "idle" => ~ Shared(u)
  BY SharedStays
(* The message that is edited is another turn's. *)
<1>5. Shared(t)
  <2>1. PICK w \in Turns : pc[w] # "idle" /\ messages[k] = asked[w]
    BY <1>2 DEF QuestionsAreOfTurns
  <2>2. CASE w # t
    BY <1>2, <2>1, <2>2 DEF Shared
  <2>3. CASE w = t
    <3> SUFFICES ASSUME ~ Shared(t) PROVE FALSE
      OBVIOUS
    <3>1. Answer(t) \in ToSet(messages)
      BY <1>2, <2>1, <2>3 DEF AnswerComesWith, ToSet
    <3> QED BY <3>1 DEF SavedLate, Queued
  <2> QED BY <2>2, <2>3
<1>6. \A u \in Turns, i \in 1 .. k : all[i] = Answer(u) => i \in 1 .. (k - 1) /\ messages[i] = Answer(u)
  BY <1>1, <1>2, <1>3, SimilarMessages
<1>7. SavedLate'
  <2> SUFFICES ASSUME NEW u \in Turns, NEW i \in 1 .. k, all[i] = Answer(u)
               PROVE  pc'[u] \in Queued
    BY <1>3 DEF SavedLate, ToSet, all, Answer
  <2>1. Answer(u) \in ToSet(messages)
    BY <1>2, <1>6 DEF ToSet
  <2> QED BY <2>1 DEF SavedLate, NextStep
<1>8. QuestionsAreOfTurns'
  <2> SUFFICES ASSUME NEW i \in 1 .. k, all[i].role = "user"
               PROVE  \E u \in Turns : pc'[u] # "idle" /\ all[i] = asked[u]
    BY <1>3 DEF QuestionsAreOfTurns, all
  <2>1. CASE i \in 1 .. (k - 1)
    BY <1>2, <1>3, <2>1 DEF QuestionsAreOfTurns, NextStep
  <2>2. CASE i = k
    BY <1>1, <1>3, <2>2 DEF NextStep
  <2> QED BY <1>2, <2>1, <2>2
<1>9. AnswerComesWith'
  <2> SUFFICES ASSUME NEW u \in Turns, NEW i \in 1 .. k, pc[u] # "idle", all[i] = asked[u], ~ Shared(u)
               PROVE  i + 1 \in 1 .. k /\ all[i + 1] = Answer(u)
    BY <1>1, <1>3, <1>4 DEF AnswerComesWith, all, Answer
  <2>1. CASE i \in 1 .. (k - 1)
    <3>1. i + 1 \in 1 .. n /\ messages[i + 1] = Answer(u)
      BY <1>2, <1>3, <2>1 DEF AnswerComesWith
    <3>2. i + 1 # k
      BY <1>2, <3>1, MessageShapes
    <3>3. i + 1 \in 1 .. (k - 1)
      BY <1>2, <2>1, <3>2
    <3> QED BY <1>2, <1>3, <3>1, <3>3
  <2>2. CASE i = k
    <3>1. asked[u] = asked[t]
      BY <1>3, <2>2
    <3>2. CASE u = t
      BY <1>5, <3>2
    <3>3. CASE u # t
      BY <1>1, <3>1, <3>3, FoundIsShared
    <3> QED BY <3>2, <3>3
  <2> QED BY <1>2, <2>1, <2>2
<1>10. RightBelow'
  <2> SUFFICES ASSUME NEW u \in Turns, NEW i \in 1 .. k, all[i] = Answer(u), ~ Shared(u)'
               PROVE  i - 1 \in 1 .. k /\ all[i - 1] = asked[u]
    BY <1>3 DEF RightBelow, all, Answer
  <2>1. i \in 1 .. (k - 1) /\ messages[i] = Answer(u) /\ i \in 1 .. n
    BY <1>2, <1>6
  <2>2. pc[u] # "idle"
    BY <1>2, <2>1 DEF SavedLate, Queued, ToSet
  <2>3. i - 1 \in 1 .. n /\ messages[i - 1] = asked[u]
    BY <1>2, <1>4, <2>1, <2>2 DEF RightBelow
  <2> QED BY <1>2, <1>3, <2>1, <2>3
<1> QED BY <1>7, <1>8, <1>9, <1>10

LEMMA NextNextTo ==
  ASSUME ConvInv, NextTo, [Next]_vars
  PROVE  NextTo'
<1> USE DEF Queued
<1>0. pc \in [Turns -> PcValues] /\ asked \in [Turns -> UserMessages \cup {None}] /\ Requested
  BY DEF ConvInv, ConvTypeOK
<1>1. CASE UNCHANGED vars \/ Age
  BY <1>0, <1>1, QuietNextTo DEF vars, Age, NextStep, Requested
<1>2. ASSUME NEW t \in Turns, NEW m \in UserMessages, Arrive(t, m)
      PROVE  NextTo'
  BY <1>0, <1>2, QuietNextTo DEF Arrive, Goto, NextStep, Requested
<1>3. ASSUME NEW t \in Turns, \/ Acquire(t) \/ AcquireFails(t) \/ Contend(t) \/ Respond(t)
                              \/ Release(t) \/ ReleaseFails(t)
      PROVE  NextTo'
  <2>1. asked' = asked /\ messages' = messages /\ pc[t] \in {"arrived", "working", "saved"}
        /\ \E l \in {"working", "over", "truncating", "queued"} :
             Goto(t, l) /\ (pc[t] = "saved" => l = "over")
    BY <1>3 DEF Acquire, AcquireFails, Contend, End, Respond, Enqueue, Goto, Release, ReleaseFails
  <2>2. NextStep
    BY <1>0, <2>1 DEF Goto, NextStep, Requested
  <2> QED BY <2>1, <2>2, QuietNextTo
<1>4. ASSUME NEW t \in Turns, Truncate(t) \/ TruncateFails(t)
      PROVE  NextTo'
  <2>1. /\ asked' = asked /\ pc[t] = "truncating" /\ Goto(t, "queued")
        /\ EditAndTruncate(t) \/ UNCHANGED messages
    BY <1>4 DEF Truncate, TruncateFails, Enqueue
  <2>2. NextStep /\ \A u \in Turns \ {t} : pc'[u] = pc[u]
    BY <1>0, <2>1 DEF Goto, NextStep, Requested
  <2>3. CASE UNCHANGED messages
    BY <2>2, <2>3, QuietNextTo
  <2>4. CASE messages' # messages
    <3>1. PICK k \in Edited(asked[t]) : TruncateAt(t, k)
      BY <2>1, <2>4 DEF EditAndTruncate
    <3> QED BY <2>1, <2>2, <3>1, TruncateNextTo
  <2> QED BY <2>3, <2>4
<1>5. ASSUME NEW t \in Turns, Save(t) \/ SaveFails(t) \/ SaveConflicts(t)
      PROVE  NextTo'
  <2>1. /\ asked' = asked /\ pc[t] = "queued" /\ (UNCHANGED pc \/ Goto(t, "saved"))
        /\ messages' = messages \/ messages' = messages \o ToSave(t)
    BY <1>5 DEF Save, SaveFails, SaveConflicts, Turn, Settle, AppendMessages
  <2>2. NextStep /\ pc'[t] \in Queued /\ \A u \in Turns \ {t} : pc'[u] = pc[u]
    BY <1>0, <2>1 DEF Goto, NextStep, Requested
  <2> QED BY <2>1, <2>2, QuietNextTo, AppendNextTo
<1>6. ASSUME NEW i \in Instances, Crash(i)
      PROVE  NextTo'
  BY <1>0, <1>6, QuietNextTo DEF Crash, NextStep, Requested
<1> QED
  BY <1>1, <1>2, <1>3, <1>4, <1>5, <1>6 DEF Next, Step

(* An answer stands right below its question; where the question was       *)
(* repeated or edited, below it.                                           *)
THEOREM AnswersInOrder == Spec => []AnswerFollowsItsQuestion
<1>1. Init => NextTo
  BY DEF Init, NextTo, SavedLate, QuestionsAreOfTurns, AnswerComesWith, RightBelow, ToSet
<1>2. ConvInv /\ NextTo /\ [Next]_vars => NextTo'
  BY NextNextTo
<1>3. ConvInv /\ NextTo => AnswerFollowsItsQuestion
  BY SimilarMessages DEF ConvInv, NextTo, BelowOwn, RightBelow, AnswerFollowsItsQuestion
<1> QED BY <1>1, <1>2, <1>3, ConvInvariant, PTL DEF Spec
=============================================================================
