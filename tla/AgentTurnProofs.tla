-------------------------- MODULE AgentTurnProofs --------------------------
(***************************************************************************)
(* The turn keeps its budgets, its loop makes progress, what it found is   *)
(* not lost, and up to its end it is what TurnOutline promises, for every  *)
(* value of the budgets.                                                   *)
(*                                                                         *)
(* Then the turn with its sub-turns (FollowUpPass): the provider's slots   *)
(* and the DuckDB handles, for any number of callers, slots, attempts and  *)
(* sub-questions.                                                          *)
(***************************************************************************)
EXTENDS AgentTurn, FollowUpPass, FiniteSetTheorems, TLAPS

Early   == {"triage", "lookup", "query", "brief", "hypotheses"}
Asking  == {"head", "plan", "planAgain"}
Walking == {"step", "tool", "verify", "reflect"}

(* Where the turn is says how far its counters have come.                  *)
Before    == pc \in Early => plans = 0 /\ ~obs
Progress  == pc \in Asking \cup {"tool", "verify", "reflect"} \/ (pc = "step" /\ left = 0)
               => plans <= walked
Evidence  == pc \in Asking /\ obs => replans > 0
Replanned == pc \in {"plan", "planAgain"} \cup Walking => replans <= MaxReplans
Room      == pc \in {"tool", "verify", "reflect"} => left < MaxPlan
Attempts  ==
  /\ pc = "tool" /\ ~retried => tools < MaxToolCalls
  /\ pc = "tool" /\ retried => tools <= MaxToolCalls
  /\ pc = "verify" /\ ~retried => tools <= MaxToolCalls
Ended     ==
  /\ pc = "over" => handle # "open"
  /\ pc # "over" => handle # "closed" /\ answer = "none"

IInv ==
  /\ Counters /\ Budgets /\ PlansWalk /\ EvidenceKept
  /\ Before /\ Progress /\ Evidence /\ Replanned /\ Room /\ Attempts /\ Ended

(* The assumption, constant by constant. *)
LEMMA BudgetsAreNumbers ==
  /\ MaxSteps \in Nat /\ MaxToolCalls \in Nat /\ MaxReplans \in Nat
  /\ MaxLlmCalls \in Nat /\ MaxPlan \in Nat /\ MaxPlan > 0
BY TurnAssumption DEF TurnAssumption

(* completeJson never takes the counter past the saturation, nor back.     *)
LEMMA AskedCounts ==
  ASSUME Counters, NEW ok, Asked(ok)
  PROVE  llmCalls' \in 0..(MaxLlmCalls + 1) /\ llmCalls' >= llmCalls
BY BudgetsAreNumbers DEF Counters, Asked, Passes

(* The phases in their order. *)
LEMMA AfterMaps ==
  /\ DOMAIN After \subseteq Phases
  /\ \A p \in DOMAIN After :
       /\ p \in {"brief", "hypotheses", "repair", "repairAgain", "charts", "dashboard",
                 "verifyAnswer"}
       /\ p = "brief" => After[p] = "hypotheses"
       /\ p = "hypotheses" => After[p] = "head"
       /\ p \notin Early => After[p] \in {"repairAgain", "charts", "dashboard", "verifyAnswer",
                                          "done"}
BY DEF After, Early, Phases

LEMMA InitInv == Init => IInv
BY BudgetsAreNumbers
DEF Init, IInv, Counters, Budgets, PlansWalk, EvidenceKept, Before, Progress, Evidence,
    Replanned, Room, Attempts, Ended, Early, Asking, Walking, Phases

(* The head and the walk: what the budgets and the progress rest on.       *)
LEMMA HeadKeeps == IInv /\ LoopHead => IInv'
BY BudgetsAreNumbers
DEF IInv, Counters, Budgets, PlansWalk, EvidenceKept, Before, Progress, Evidence, Replanned,
    Room, Attempts, Ended, Early, Asking, Walking, Phases, planVars, stepVars, envVars,
    LoopHead, GoOn, EndWith

LEMMA PlanKeeps == IInv /\ (Skill \/ Plan) => IInv'
<1> SUFFICES ASSUME IInv, Skill \/ Plan PROVE IInv'
  OBVIOUS
<1> USE BudgetsAreNumbers
    DEF IInv, Counters, Budgets, PlansWalk, EvidenceKept, Before, Progress, Evidence, Replanned,
        Room, Attempts, Ended, Early, Asking, Walking, Phases, planVars, stepVars, envVars
<1>1. CASE Skill
  BY <1>1 DEF Skill, Accept, MayOpen
<1>2. CASE Plan
  <2>1. PICK ok \in BOOLEAN : Asked(ok)
    BY <1>2 DEF Plan
  <2>2. llmCalls' \in 0..(MaxLlmCalls + 1)
    BY <2>1, AskedCounts
  <2>3. \/ Accept
        \/ pc = "plan" /\ GoOn("planAgain") /\ UNCHANGED planVars
        \/ EndWith("empty") /\ UNCHANGED planVars
    BY <1>2 DEF Plan
  <2>4. pc \in {"plan", "planAgain"} /\ UNCHANGED <<stepVars, obs, envVars>>
    BY <1>2 DEF Plan
  <2> QED
    BY <2>2, <2>3, <2>4 DEF Accept, MayOpen, GoOn, EndWith
<1> QED
  BY <1>1, <1>2

LEMMA WalkKeeps == IInv /\ (StopEarly \/ PlanWalked \/ NextStep \/ Tool) => IInv'
<1> SUFFICES ASSUME IInv, StopEarly \/ PlanWalked \/ NextStep \/ Tool PROVE IInv'
  OBVIOUS
<1> USE BudgetsAreNumbers
    DEF IInv, Counters, Budgets, PlansWalk, EvidenceKept, Before, Progress, Evidence, Replanned,
        Room, Attempts, Ended, Early, Asking, Walking, Phases, planVars, stepVars, envVars
<1>1. CASE StopEarly
  BY <1>1 DEF StopEarly, GoOn
<1>2. CASE PlanWalked
  BY <1>2 DEF PlanWalked, GoOn
<1>3. CASE NextStep
  BY <1>3 DEF NextStep, Spent, GoOn
<1>4. CASE Tool
  BY <1>4 DEF Tool, MayOpen
<1> QED
  BY <1>1, <1>2, <1>3, <1>4

LEMMA JudgedKeeps == IInv /\ (Verify \/ Reflect) => IInv'
<1> SUFFICES ASSUME IInv, Verify \/ Reflect PROVE IInv'
  OBVIOUS
<1> USE BudgetsAreNumbers
    DEF IInv, Counters, Budgets, PlansWalk, EvidenceKept, Before, Progress, Evidence, Replanned,
        Room, Attempts, Ended, Early, Asking, Walking, Phases, planVars, stepVars, envVars
<1>1. llmCalls' \in 0..(MaxLlmCalls + 1)
  BY AskedCounts DEF Verify, Reflect
<1>2. CASE Verify
  BY <1>1, <1>2 DEF Verify, GoOn
<1>3. CASE Reflect
  BY <1>1, <1>3 DEF Reflect, GoOn, EndWith
<1> QED
  BY <1>2, <1>3

(* The phases around the loop. *)
LEMMA PhasesKeep ==
  IInv /\ (Triage \/ Lookup \/ LookupQuery \/ Phase \/ Narrate \/ Synthesize \/ Return) => IInv'
<1> SUFFICES ASSUME IInv,
                    Triage \/ Lookup \/ LookupQuery \/ Phase \/ Narrate \/ Synthesize \/ Return
             PROVE  IInv'
  OBVIOUS
<1> USE BudgetsAreNumbers
    DEF IInv, Counters, Budgets, PlansWalk, EvidenceKept, Before, Progress, Evidence, Replanned,
        Room, Attempts, Ended, Early, Asking, Walking, planVars, stepVars, envVars
<1>1. llmCalls' \in 0..(MaxLlmCalls + 1)
  BY AskedCounts
  DEF Triage, Lookup, LookupQuery, Phase, Narrate, Synthesize, Return
<1>2. CASE Triage
  BY <1>1, <1>2 DEF Triage, GoOn, EndWith, Phases
<1>3. CASE Lookup
  BY <1>1, <1>3 DEF Lookup, GoOn, Phases, After
<1>4. CASE LookupQuery
  BY <1>1, <1>4 DEF LookupQuery, MayOpen, Phases, After
<1>5. CASE Phase
  <2>1. pc' = After[pc] /\ pc \in DOMAIN After /\ UNCHANGED <<handle, answer>>
    BY <1>5 DEF Phase, GoOn
  <2>2. UNCHANGED <<planVars, stepVars, obs, envVars>>
    BY <1>5 DEF Phase
  <2>3. pc' \in Phases \ ({"over", "plan", "planAgain"} \cup Walking)
    BY <2>1, AfterMaps DEF Phases, After
  <2>4. pc' = "head" => pc = "hypotheses"
    BY <2>1, AfterMaps
  <2>5. pc' \in Early => pc \in Early
    BY <2>1, AfterMaps
  <2> QED
    BY <1>1, <2>1, <2>2, <2>3, <2>4, <2>5, AfterMaps
<1>6. CASE Narrate
  BY <1>1, <1>6, AfterMaps DEF Narrate, GoOn, Phases, After
<1>7. CASE Synthesize
  BY <1>1, <1>7, AfterMaps DEF Synthesize, GoOn, Phases, After
<1>8. CASE Return
  BY <1>1, <1>8 DEF Return, EndWith, Phases
<1> QED
  BY <1>2, <1>3, <1>4, <1>5, <1>6, <1>7, <1>8

LEMMA NextKeeps == IInv /\ [Next]_vars => IInv'
<1> SUFFICES ASSUME IInv, [Next]_vars PROVE IInv'
  OBVIOUS
<1>1. CASE Turn
  BY <1>1, HeadKeeps, PlanKeeps, WalkKeeps, JudgedKeeps, PhasesKeep DEF Turn
<1>2. CASE DeadlinePasses \/ HangUp \/ UNCHANGED vars
  BY <1>2
  DEF DeadlinePasses, HangUp, vars, IInv, Counters, Budgets, PlansWalk, EvidenceKept, Before,
      Progress, Evidence, Replanned, Room, Attempts, Ended, planVars, stepVars, envVars
<1> QED
  BY <1>1, <1>2 DEF Next

LEMMA Invariance == Spec => []IInv
BY InitInv, NextKeeps, PTL DEF Spec

(* The flags are Booleans. *)
LEMMA FlagsHold == Spec => []Flags
<1>1. Init => Flags
  BY DEF Init, Flags
<1>2. Flags /\ [Next]_vars => Flags'
  <2> SUFFICES ASSUME Flags, [Next]_vars PROVE Flags'
    OBVIOUS
  <2> USE DEF Flags, planVars, stepVars, envVars
  <2>1. CASE Triage \/ Lookup \/ LookupQuery \/ Phase \/ LoopHead \/ Skill \/ Plan
    BY <2>1, Zenon DEF Triage, Lookup, LookupQuery, Phase, LoopHead, Skill, Plan
  <2>2. CASE StopEarly \/ PlanWalked \/ NextStep \/ Tool
    BY <2>2, Zenon DEF StopEarly, PlanWalked, NextStep, Tool
  <2>3. CASE Verify \/ Reflect \/ Narrate \/ Synthesize \/ Return
    BY <2>3, Zenon DEF Verify, Reflect, Narrate, Synthesize, Return
  <2>4. CASE DeadlinePasses \/ HangUp \/ UNCHANGED vars
    BY <2>4, Zenon DEF DeadlinePasses, HangUp, vars
  <2> QED
    BY <2>1, <2>2, <2>3, <2>4 DEF Next, Turn
<1> QED
  BY <1>1, <1>2, PTL DEF Spec

(* The turn keeps to its budgets of steps and tool calls.                  *)
THEOREM BudgetsHold == Spec => [](TypeOK /\ Budgets)
BY Invariance, FlagsHold, PTL DEF IInv, TypeOK

(* A loop that keeps planning walks a step for every plan.                 *)
THEOREM PlansWalkHold == Spec => []PlansWalk
BY Invariance, PTL DEF IInv

(* An answer is empty despite observations only after a replan.            *)
THEOREM EvidenceHolds == Spec => []EvidenceKept
BY Invariance, PTL DEF IInv

(* Towards TurnOutline: a turn that is over does nothing, the counter only *)
(* grows, and the handle opens before the end and closes with it.          *)
LEMMA TurnSteps ==
  ASSUME IInv, Turn
  PROVE  /\ pc # "over" /\ llmCalls' >= llmCalls
         /\ \/ pc' # "over" /\ handle' \in {handle, "open"}
            \/ pc' = "over" /\ handle' = IF handle = "open" THEN "closed" ELSE handle
<1> USE DEF GoOn, EndWith, MayOpen
<1>1. Counters
  BY DEF IInv
<1>2. llmCalls' >= llmCalls
  BY <1>1, AskedCounts, BudgetsAreNumbers
  DEF Counters, Turn, Triage, Lookup, LookupQuery, Phase, LoopHead, Skill, Plan, StopEarly,
      PlanWalked, NextStep, Tool, Verify, Reflect, Narrate, Synthesize, Return
<1>3. CASE Triage \/ Lookup \/ LookupQuery
  BY <1>2, <1>3 DEF Triage, Lookup, LookupQuery
<1>4. CASE Phase
  <2>1. pc \in DOMAIN After /\ pc' = After[pc] /\ UNCHANGED handle
    BY <1>4 DEF Phase
  <2>2. pc # "over" /\ pc' # "over"
    BY <2>1, AfterMaps DEF Early
  <2> QED
    BY <1>2, <2>1, <2>2
<1>5. CASE LoopHead \/ Skill \/ Plan
  BY <1>2, <1>5 DEF LoopHead, Skill, Plan, Accept
<1>6. CASE StopEarly \/ PlanWalked \/ NextStep \/ Tool
  BY <1>2, <1>6 DEF StopEarly, PlanWalked, NextStep, Tool
<1>7. CASE Verify \/ Reflect
  BY <1>2, <1>7 DEF Verify, Reflect
<1>8. CASE Narrate \/ Synthesize \/ Return
  BY <1>2, <1>8 DEF Narrate, Synthesize, Return
<1> QED
  BY <1>3, <1>4, <1>5, <1>6, <1>7, <1>8 DEF Turn

(* Up to its end the turn is what TurnOutline promises.                    *)
THEOREM TurnIsSafe == Spec => Outline!Safe
<1> DEFINE Made == IF llmCalls > MaxLlmCalls THEN MaxLlmCalls ELSE llmCalls
<1>1. Init => Outline!Init
  BY BudgetsAreNumbers DEF Init, Outline!Init
<1>2. IInv /\ IInv' /\ [Next]_vars => [Outline!Next]_<<pc = "over", Made, handle>>
  <2> SUFFICES ASSUME IInv, IInv', [Next]_vars
               PROVE  [Outline!Next]_<<pc = "over", Made, handle>>
    OBVIOUS
  <2>1. CASE Turn
    <3>1. Made' \in Made..MaxLlmCalls
      BY <2>1, TurnSteps, BudgetsAreNumbers DEF IInv, Counters
    <3>2. CASE pc' # "over"
      BY <2>1, <3>1, <3>2, TurnSteps DEF Outline!Next, Outline!Work
    <3>3. CASE pc' = "over"
      <4>1. handle' = IF handle = "none" THEN "none" ELSE "closed"
        BY <2>1, <3>3, TurnSteps DEF IInv, Counters, Ended
      <4> QED
        BY <2>1, <3>1, <3>3, <4>1, TurnSteps DEF Outline!Next, Outline!End
    <3> QED
      BY <3>2, <3>3
  <2>2. CASE DeadlinePasses \/ HangUp \/ UNCHANGED vars
    BY <2>2 DEF DeadlinePasses, HangUp, vars
  <2> QED
    BY <2>1, <2>2 DEF Next
<1> QED
  BY <1>1, <1>2, Invariance, PTL DEF Spec, Outline!Safe
-----------------------------------------------------------------------------
(* The gate of the provider. *)
Holders == {c \in Callers : Holding(c)}

(* The counter counts the holders. *)
Counts == inFlight = Cardinality(Holders) /\ inFlight <= MaxConcurrency

(* The queue holds the waiting callers, each once. *)
Queued ==
  /\ \A i \in 1..Len(waiters) : call[waiters[i]] = "waiting"
  /\ \A i, j \in 1..Len(waiters) : waiters[i] = waiters[j] => i = j
  /\ \A c \in Callers : call[c] = "waiting" => \E i \in 1..Len(waiters) : waiters[i] = c

Full == waiters # <<>> => inFlight = MaxConcurrency

(* A call sleeps only while it has an attempt left. *)
Sleeps == \A c \in Callers : call[c] = "sleeping" => attempt[c] < MaxAttempts

SlotInv == SlotTypeOK /\ Counts /\ Queued /\ Full /\ Sleeps

-----------------------------------------------------------------------------
LEMMA HoldersFinite == IsFiniteSet(Holders) /\ Cardinality(Holders) \in Nat
<1>1. Holders \subseteq Callers
  BY DEF Holders
<1> QED BY <1>1, SlotAssumption, FS_Subset, FS_CardinalityType

LEMMA SlotInitInv == SlotInit => SlotInv
<1> SUFFICES ASSUME SlotInit PROVE SlotInv
  OBVIOUS
<1>1. SlotTypeOK
  BY SlotAssumption DEF SlotInit, SlotTypeOK
<1>2. Holders = {}
  BY DEF SlotInit, Holders, Holding
<1>3. Counts
  BY <1>2, FS_EmptySet, SlotAssumption DEF SlotInit, Counts
<1>4. Queued /\ Full /\ Sleeps
  BY DEF SlotInit, Queued, Full, Sleeps
<1> QED BY <1>1, <1>3, <1>4 DEF SlotInv

(* A caller with a free slot in front of it finds nobody in the queue. *)
LEMMA EnterKeeps ==
  ASSUME SlotInv, NEW c \in Callers, Enter(c)
  PROVE  SlotInv'
<1> USE DEF SlotInv
<1>1. waiters = <<>> /\ waiters' = <<>>
  BY DEF Full, Enter, SlotTypeOK
<1>2. SlotTypeOK'
  BY SlotAssumption DEF SlotTypeOK, Enter
<1>3. Holders' = Holders \cup {c} /\ c \notin Holders
  BY DEF Enter, Holders, Holding, SlotTypeOK
<1>4. Cardinality(Holders') = Cardinality(Holders) + 1
  BY <1>3, HoldersFinite, FS_AddElement
<1>5. Counts'
  BY <1>4, SlotAssumption DEF Counts, Enter, SlotTypeOK
<1>6. Queued'
  BY <1>1 DEF Queued, Enter, SlotTypeOK
<1>7. Full'
  BY <1>1 DEF Full
<1>8. Sleeps'
  BY DEF Sleeps, Enter, SlotTypeOK
<1> QED BY <1>2, <1>5, <1>6, <1>7, <1>8

LEMMA QueueKeeps ==
  ASSUME SlotInv, NEW c \in Callers, Queue(c)
  PROVE  SlotInv'
<1> USE DEF SlotInv
<1>1. SlotTypeOK'
  BY DEF SlotTypeOK, Queue
<1>2. Holders' = Holders
  BY DEF Queue, Holders, Holding, SlotTypeOK
<1>3. Counts' /\ Full'
  BY <1>2, SlotAssumption DEF Counts, Full, Queue, SlotTypeOK
<1>4. Queued'
  <2>1. /\ Len(waiters') = Len(waiters) + 1
        /\ \A i \in 1..Len(waiters) : waiters'[i] = waiters[i]
        /\ waiters'[Len(waiters) + 1] = c
    BY DEF Queue, SlotTypeOK
  <2>2. \A i \in 1..Len(waiters) : waiters[i] \in Callers /\ waiters[i] # c
    BY DEF Queue, Queued, SlotTypeOK
  <2>3. \A d \in Callers : call'[d] = IF d = c THEN "waiting" ELSE call[d]
    BY DEF Queue, SlotTypeOK
  <2>4. Len(waiters) \in Nat
    BY DEF SlotTypeOK
  <2>5. \A i \in 1..Len(waiters') : call'[waiters'[i]] = "waiting"
    BY <2>1, <2>2, <2>3, <2>4 DEF Queued
  <2>6. \A i, j \in 1..Len(waiters') : waiters'[i] = waiters'[j] => i = j
    BY <2>1, <2>2, <2>4 DEF Queued
  <2>7. \A d \in Callers :
          call'[d] = "waiting" => \E i \in 1..Len(waiters') : waiters'[i] = d
    BY <2>1, <2>3, <2>4 DEF Queued
  <2> QED BY <2>5, <2>6, <2>7 DEF Queued
<1>5. Sleeps'
  BY DEF Sleeps, Queue, SlotTypeOK
<1> QED BY <1>1, <1>3, <1>4, <1>5

(* Sleeping before a retry, a call keeps its slot. *)
LEMMA RetryKeeps ==
  ASSUME SlotInv, NEW c \in Callers, Refused(c) \/ Retry(c)
  PROVE  SlotInv'
<1> USE DEF SlotInv
<1>1. SlotTypeOK'
  <2>1. call' \in [Callers -> {"idle", "waiting", "posting", "sleeping"}]
    BY DEF SlotTypeOK, Refused, Retry
  <2>2. attempt' \in [Callers -> 0..MaxAttempts]
    <3>1. CASE Refused(c)
      BY <3>1 DEF SlotTypeOK, Refused
    <3>2. CASE Retry(c)
      <4>1. attempt[c] \in 0..MaxAttempts /\ attempt[c] < MaxAttempts
        BY <3>2 DEF SlotTypeOK, Retry, Sleeps
      <4>2. attempt[c] + 1 \in 0..MaxAttempts
        BY <4>1, SlotAssumption
      <4> QED BY <3>2, <4>2 DEF SlotTypeOK, Retry
    <3> QED BY <3>1, <3>2
  <2> QED BY <2>1, <2>2 DEF SlotTypeOK, Refused, Retry
<1>2. Holders' = Holders
  BY DEF Refused, Retry, Holders, Holding, SlotTypeOK
<1>3. waiters' = waiters /\ inFlight' = inFlight
  BY DEF Refused, Retry
<1>4. \A d \in Callers : call'[d] = "waiting" <=> call[d] = "waiting"
  BY DEF Refused, Retry, SlotTypeOK
<1>5. Queued'
  <2>1. \A i \in 1..Len(waiters) : waiters[i] \in Callers
    BY DEF SlotTypeOK
  <2> QED BY <1>3, <1>4, <2>1 DEF Queued
<1>6. Sleeps'
  BY DEF Sleeps, Refused, Retry, SlotTypeOK
<1> QED BY <1>1, <1>2, <1>3, <1>5, <1>6 DEF Counts, Full

(* A slot given back goes to the head of the queue, or is counted free. *)
LEMMA FinishKeeps ==
  ASSUME SlotInv, NEW c \in Callers, Finish(c)
  PROVE  SlotInv'
<1> USE DEF SlotInv
<1>1. c \in Holders /\ Cardinality(Holders) >= 1
  <2>1. c \in Holders
    BY DEF Finish, Holders, Holding
  <2>2. Cardinality(Holders \ {c}) = Cardinality(Holders) - 1 /\ Cardinality(Holders \ {c}) \in Nat
    BY <2>1, HoldersFinite, FS_RemoveElement, FS_CardinalityType
  <2> QED BY <2>1, <2>2, HoldersFinite
<1>2. CASE waiters = <<>>
  <2>1. Holders' = Holders \ {c}
    BY <1>2 DEF Finish, Holders, Holding, SlotTypeOK
  <2>2. Cardinality(Holders') = Cardinality(Holders) - 1
    BY <2>1, <1>1, HoldersFinite, FS_RemoveElement
  <2>3. Counts'
    BY <1>2, <2>2, <1>1, SlotAssumption DEF Counts, Finish, SlotTypeOK
  <2>4. SlotTypeOK'
    BY <1>2, <1>1, SlotAssumption DEF Counts, Finish, SlotTypeOK
  <2>5. Queued' /\ Full' /\ Sleeps'
    BY <1>2 DEF Queued, Full, Sleeps, Finish, SlotTypeOK
  <2> QED BY <2>3, <2>4, <2>5
<1>3. CASE waiters # <<>>
  <2> DEFINE h == Head(waiters)
  <2>1. h = waiters[1] /\ 1 \in 1..Len(waiters) /\ Len(waiters) \in Nat /\ h \in Callers
    BY <1>3 DEF SlotTypeOK
  <2>2. call[h] = "waiting" /\ h # c
    BY <2>1 DEF Queued, Finish
  <2>3. /\ waiters' = Tail(waiters) /\ inFlight' = inFlight
        /\ call' = [call EXCEPT ![c] = "idle", ![h] = "posting"]
        /\ attempt' = [attempt EXCEPT ![c] = 0, ![h] = 1]
    BY <1>3 DEF Finish
  <2>4. SlotTypeOK'
    <3>1. waiters' \in Seq(Callers)
      BY <1>3, <2>3 DEF SlotTypeOK
    <3>2. call' \in [Callers -> {"idle", "waiting", "posting", "sleeping"}]
      BY <2>3 DEF SlotTypeOK
    <3>3. attempt' \in [Callers -> 0..MaxAttempts]
      <4>1. 0 \in 0..MaxAttempts /\ 1 \in 0..MaxAttempts
        BY SlotAssumption
      <4>2. [attempt EXCEPT ![c] = 0, ![h] = 1] \in [Callers -> 0..MaxAttempts]
        BY <4>1 DEF SlotTypeOK
      <4> QED BY <2>3, <4>2
    <3> QED BY <2>3, <3>1, <3>2, <3>3 DEF SlotTypeOK
  <2>5. Holders' = (Holders \ {c}) \cup {h} /\ h \notin Holders \ {c}
    BY <2>1, <2>2, <2>3 DEF Holders, Holding, SlotTypeOK
  <2>6. Cardinality(Holders') = Cardinality(Holders)
    <3>1. IsFiniteSet(Holders \ {c}) /\ Cardinality(Holders \ {c}) = Cardinality(Holders) - 1
      BY <1>1, HoldersFinite, FS_RemoveElement
    <3>2. Cardinality((Holders \ {c}) \cup {h}) = Cardinality(Holders \ {c}) + 1
      BY <3>1, <2>5, FS_AddElement
    <3> QED BY <3>1, <3>2, <2>5, HoldersFinite
  <2>7. Counts'
    BY <2>3, <2>6 DEF Counts
  <2>8. Full'
    BY <1>3, <2>3 DEF Full
  <2>9. /\ Len(waiters') = Len(waiters) - 1
        /\ \A i \in 1..Len(waiters') : waiters'[i] = waiters[i + 1] /\ i + 1 \in 1..Len(waiters)
    BY <1>3, <2>3 DEF SlotTypeOK
  <2>10. \A d \in Callers : d # h => (call'[d] = "waiting" <=> call[d] = "waiting" /\ d # c)
    BY <2>3, <2>1 DEF SlotTypeOK
  <2>11. call[c] = "posting" /\ call'[h] = "posting"
    BY <2>1, <2>2, <2>3 DEF Finish, SlotTypeOK
  <2>12. \A i \in 1..Len(waiters) : waiters[i] \in Callers
    BY DEF SlotTypeOK
  <2>13. \A i \in 1..Len(waiters') : call'[waiters'[i]] = "waiting"
    <3> TAKE i \in 1..Len(waiters')
    <3>1. waiters'[i] = waiters[i + 1] /\ i + 1 \in 1..Len(waiters) /\ i \in Nat
      BY <2>9
    <3>2. waiters[i + 1] # h
      BY <3>1, <2>1, <2>9 DEF Queued
    <3>3. call[waiters[i + 1]] = "waiting" /\ waiters[i + 1] # c
      BY <3>1, <2>11 DEF Queued
    <3> QED BY <3>1, <3>2, <3>3, <2>10, <2>12
  <2>14. \A i, j \in 1..Len(waiters') : waiters'[i] = waiters'[j] => i = j
    <3> TAKE i, j \in 1..Len(waiters')
    <3>1. /\ waiters'[i] = waiters[i + 1] /\ i + 1 \in 1..Len(waiters)
          /\ waiters'[j] = waiters[j + 1] /\ j + 1 \in 1..Len(waiters)
          /\ i \in Int /\ j \in Int
      BY <2>9
    <3>2. waiters[i + 1] = waiters[j + 1] => i + 1 = j + 1
      BY <3>1 DEF Queued
    <3> QED BY <3>1, <3>2
  <2>15. \A d \in Callers :
           call'[d] = "waiting" => \E i \in 1..Len(waiters') : waiters'[i] = d
    <3> SUFFICES ASSUME NEW d \in Callers, call'[d] = "waiting"
                 PROVE  \E i \in 1..Len(waiters') : waiters'[i] = d
      OBVIOUS
    <3>1. call[d] = "waiting" /\ d # h
      BY <2>10, <2>11
    <3>2. PICK i \in 1..Len(waiters) : waiters[i] = d
      BY <3>1 DEF Queued
    <3>3. i # 1 /\ i \in Nat
      BY <3>1, <3>2, <2>1
    <3>4. i - 1 \in 1..Len(waiters') /\ (i - 1) + 1 = i
      BY <3>2, <3>3, <2>1, <2>9
    <3> QED BY <3>2, <3>4, <2>9
  <2>16. Queued'
    BY <2>13, <2>14, <2>15 DEF Queued
  <2>17. Sleeps'
    BY <2>1, <2>3 DEF Sleeps, SlotTypeOK
  <2> QED BY <2>4, <2>7, <2>8, <2>16, <2>17
<1> QED BY <1>2, <1>3

-----------------------------------------------------------------------------
LEMMA SlotsKept == SlotInv /\ [SlotNext]_slotVars => SlotInv'
<1> SUFFICES ASSUME SlotInv, [SlotNext]_slotVars PROVE SlotInv'
  OBVIOUS
<1>1. CASE UNCHANGED slotVars
  BY <1>1 DEF slotVars, SlotInv, SlotTypeOK, Counts, Queued, Full, Sleeps, Holders, Holding
<1>2. CASE SlotNext
  <2>1. PICK c \in Callers : Enter(c) \/ Queue(c) \/ Refused(c) \/ Retry(c) \/ Finish(c)
    BY <1>2 DEF SlotNext
  <2> QED BY <2>1, EnterKeeps, QueueKeeps, RetryKeeps, FinishKeeps
<1> QED BY <1>1, <1>2

LEMMA SlotInvImplies == SlotInv => Ceiling /\ NobodyWaitsInVain
<1> SUFFICES ASSUME SlotInv PROVE Ceiling /\ NobodyWaitsInVain
  OBVIOUS
<1>1. Ceiling
  BY DEF SlotInv, Counts, Holders, Ceiling
<1>2. ASSUME NEW c \in Callers, call[c] = "waiting" PROVE Cardinality(Holders) = MaxConcurrency
  <2>1. PICK i \in 1..Len(waiters) : waiters[i] = c
    BY <1>2 DEF SlotInv, Queued
  <2>2. waiters # <<>>
    BY <2>1
  <2> QED BY <2>2 DEF SlotInv, Full, Counts
<1> QED BY <1>1, <1>2 DEF NobodyWaitsInVain, Holders

LEMMA SlotInvariant == SlotSpec => []SlotInv
BY SlotInitInv, SlotsKept, PTL DEF SlotSpec

(* The gate on its own never lets in more calls than MaxConcurrency.       *)
THEOREM SlotsAreBounded == SlotSpec => []Ceiling
BY SlotInvariant, SlotInvImplies, PTL

(* And no call waits at it beside a free slot.                             *)
THEOREM SlotsAreHandedOn == SlotSpec => []NobodyWaitsInVain
BY SlotInvariant, SlotInvImplies, PTL

(* A turn with sub-turns uses the gate by its actions only. *)
THEOREM PassUsesSlots == PassSpec => SlotSpec
<1>1. PassInit => SlotInit
  BY DEF PassInit
<1>2. [PassNext]_turnVars => [SlotNext]_slotVars
  <2> SUFFICES ASSUME [PassNext]_turnVars PROVE [SlotNext]_slotVars
    OBVIOUS
  <2>1. CASE UNCHANGED turnVars
    BY <2>1 DEF turnVars
  <2>2. ASSUME NEW t \in Callers, Ask(t) PROVE [SlotNext]_slotVars
    BY <2>2 DEF Ask, SlotNext
  <2>3. ASSUME NEW t \in Callers, Provider(t) PROVE [SlotNext]_slotVars
    BY <2>3 DEF Provider, SlotNext
  <2>4. ASSUME NEW t \in Callers, Query(t) \/ End(t) PROVE UNCHANGED slotVars
    BY <2>4 DEF Query, End
  <2>5. ASSUME StartPass \/ EndPass \/ \E batch \in SUBSET Subs : Launch(batch)
        PROVE  UNCHANGED slotVars
    BY <2>5 DEF StartPass, EndPass, Launch
  <2> QED BY <2>1, <2>2, <2>3, <2>4, <2>5 DEF PassNext
<1> QED BY <1>1, <1>2, PTL DEF PassSpec, SlotSpec

(* So the turn and its sub-turns together stay below the ceiling,          *)
THEOREM PassWithinSlots == PassSpec => []Ceiling
BY PassUsesSlots, SlotsAreBounded, PTL

(* and none of their calls waits in vain.                                  *)
THEOREM PassWaitsForSlots == PassSpec => []NobodyWaitsInVain
BY PassUsesSlots, SlotsAreHandedOn, PTL

-----------------------------------------------------------------------------
(* A turn that has not started holds nothing, and whoever opened a handle  *)
(* is a turn.                                                              *)
HandleInv ==
  /\ stage \in [Callers -> {"off", "plan", "pass", "synthesis", "over"}]
  /\ questions \in SUBSET Subs
  /\ cache \in [Callers -> Callers \cup {None}]
  /\ handles \in [Callers -> {"none", "open", "closed"}]
  /\ stage[Main] = "plan" => \A s \in Subs : stage[s] = "off"
  /\ stage[Main] # "off"
  /\ \A s \in questions : stage[s] = "off"
  /\ \A t \in Callers : stage[t] \in {"off", "over"} => cache[t] = None
  /\ NoOrphanHandle

LEMMA HandleStep == HandleInv /\ [PassNext]_turnVars => HandleInv'
<1> SUFFICES ASSUME HandleInv, [PassNext]_turnVars PROVE HandleInv'
  OBVIOUS
<1> USE PassAssumption DEF HandleInv, NoOrphanHandle
<1>1. CASE UNCHANGED passVars
  BY <1>1 DEF passVars
<1>2. ASSUME NEW t \in Callers, Ask(t) PROVE HandleInv'
  BY <1>2 DEF Ask
<1>3. ASSUME NEW t \in Callers, Query(t) PROVE HandleInv'
  BY <1>3 DEF Query, Working
<1>4. ASSUME NEW t \in Callers, End(t) PROVE HandleInv'
  <2>1. /\ stage' = [stage EXCEPT ![t] = "over"]
        /\ cache' = [cache EXCEPT ![t] = None]
        /\ handles' = [h \in Callers |-> IF h = cache[t] THEN "closed" ELSE handles[h]]
        /\ questions' = questions
        /\ stage[t] \in {"plan", "synthesis"}
        /\ t = Main => stage[t] = "synthesis"
    BY <1>4 DEF End, Working
  <2>2. NoOrphanHandle'
    <3> SUFFICES ASSUME NEW h \in Callers, handles'[h] = "open"
                 PROVE  \E u \in Callers : cache'[u] = h /\ stage'[u] # "over"
      OBVIOUS
    <3>1. handles[h] = "open" /\ h # cache[t]
      BY <2>1
    <3>2. PICK u \in Callers : cache[u] = h /\ stage[u] # "over"
      BY <3>1
    <3> QED BY <3>1, <3>2, <2>1
  <2>3. t \notin questions
    BY <2>1
  <2>4. stage'[Main] = "plan" => \A s \in Subs : stage'[s] = "off"
    BY <2>1
  <2> QED BY <2>1, <2>2, <2>3, <2>4
<1>5. CASE StartPass
  BY <1>5 DEF StartPass, Working
<1>6. CASE EndPass
  BY <1>6 DEF EndPass, Between
<1>7. ASSUME NEW batch \in SUBSET Subs, Launch(batch) PROVE HandleInv'
  <2>1. /\ stage' = [u \in Callers |-> IF u \in batch THEN "plan" ELSE stage[u]]
        /\ cache' = [u \in Callers |-> IF u \in batch THEN cache[Main] ELSE cache[u]]
        /\ handles' = handles /\ questions' = questions \ batch /\ batch \subseteq questions
        /\ stage[Main] = "pass" /\ Main \notin batch
    BY <1>7 DEF Launch, Between
  <2>2. NoOrphanHandle'
    <3> SUFFICES ASSUME NEW h \in Callers, handles'[h] = "open"
                 PROVE  \E u \in Callers : cache'[u] = h /\ stage'[u] # "over"
      OBVIOUS
    <3>1. PICK u \in Callers : cache[u] = h /\ stage[u] # "over"
      BY <2>1
    <3>2. u \notin batch
      BY <3>1, <2>1
    <3> QED BY <3>1, <3>2, <2>1
  <2> QED BY <2>1, <2>2
<1> QED BY <1>1, <1>2, <1>3, <1>4, <1>5, <1>6, <1>7 DEF PassNext, Provider, turnVars, passVars

(* An open DuckDB handle is always in the context of a turn that has still *)
(* to end, however the sub-turns came by their copies of it.               *)
THEOREM HandlesClosed == PassSpec => []NoOrphanHandle
<1>1. PassInit => HandleInv
  BY PassAssumption DEF PassInit, HandleInv, NoOrphanHandle
<1>2. HandleInv => NoOrphanHandle
  BY DEF HandleInv
<1> QED BY <1>1, <1>2, HandleStep, PTL DEF PassSpec
=============================================================================
