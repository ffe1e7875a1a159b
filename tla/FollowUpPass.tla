---------------------------- MODULE FollowUpPass ----------------------------
(***************************************************************************)
(* An agent turn that investigates the sub-questions it spawned            *)
(* (src/server/lib/agents/runtime/spawnedFollowUpPass.ts): batches of      *)
(* sub-turns, each a whole turn on a copy of its parent's context, which   *)
(* share with it the provider's slots (ProviderSlots) and the DuckDB       *)
(* handle that the copied context refers to (turnColumnarStorage.ts).      *)
(*                                                                         *)
(* What a turn does between its calls and its queries is AgentTurn's       *)
(* matter.  Here it is left open, but for one call at a time.              *)
(***************************************************************************)
EXTENDS ProviderSlots

CONSTANTS
  Main,      \* the turn of the user's question
  Subs,      \* the sub-turns, one per sub-question
  None,      \* no handle
  Parallel,  \* SPAWNED_FOLLOWUP_PARALLEL
  MainCalls, SubCalls,  \* maxTotalLlmCallsPerTurn, of the turn and of a sub-turn
  MaxPassCalls          \* SPAWNED_FOLLOWUP_MAX_LLM_CALLS

ASSUME PassAssumption ==
  /\ Main \notin Subs /\ Callers = Subs \cup {Main} /\ None \notin Callers
  /\ Parallel \in Nat \ {0}
  /\ {MainCalls, SubCalls, MaxPassCalls} \subseteq Nat

VARIABLES
  stage,      \* stage[t]: "off", "plan", "pass", "synthesis" or "over"
  questions,  \* the sub-questions not investigated yet
  calls,      \* calls[t]: model calls made so far
  cache,      \* cache[t]: whose handle t's context holds, or None
  handles     \* handles[t]: the handle that t opened, "none", "open" or "closed"

passVars == <<stage, questions, calls, cache, handles>>
turnVars == <<slotVars, passVars>>

Working(t) == stage[t] \in {"plan", "synthesis"} /\ call[t] = "idle"
Limit(t) == IF t = Main THEN MainCalls ELSE SubCalls

PassInit ==
  /\ SlotInit
  /\ stage = [t \in Callers |-> IF t = Main THEN "plan" ELSE "off"]
  /\ questions = {}
  /\ calls = [t \in Callers |-> 0]
  /\ cache = [t \in Callers |-> None]
  /\ handles = [t \in Callers |-> "none"]

(* A model call; once the budget is spent onLlmCall throws before it.      *)
Ask(t) ==
  /\ Working(t) /\ calls[t] < Limit(t)
  /\ calls' = [calls EXCEPT ![t] = @ + 1]
  /\ Enter(t) \/ Queue(t)
  /\ UNCHANGED <<stage, questions, cache, handles>>

Provider(t) ==
  /\ Refused(t) \/ Retry(t) \/ Finish(t)
  /\ UNCHANGED passVars

(* getTurnColumnarStorage: the first query of a context opens the handle.  *)
Query(t) ==
  /\ Working(t) /\ cache[t] = None
  /\ cache' = [cache EXCEPT ![t] = t]
  /\ handles' = [handles EXCEPT ![t] = "open"]
  /\ UNCHANGED <<slotVars, stage, questions, calls>>

(* closeTurnColumnarStorage, in the finally of runAgentTurn. *)
MutantEnd(t) ==   \* only the turn that owns the pass closes
  /\ Working(t)
  /\ t = Main => stage[t] = "synthesis"
  /\ stage' = [stage EXCEPT ![t] = "over"]
  /\ cache' = [cache EXCEPT ![t] = None]
  /\ handles' = [h \in Callers |-> IF t = Main /\ h = cache[t] THEN "closed" ELSE handles[h]]
  /\ UNCHANGED <<slotVars, questions, calls>>

End(t) ==
  /\ Working(t)
  /\ t = Main => stage[t] = "synthesis"
  /\ stage' = [stage EXCEPT ![t] = "over"]
  /\ cache' = [cache EXCEPT ![t] = None]
  /\ handles' = [h \in Callers |-> IF h = cache[t] THEN "closed" ELSE handles[h]]
  /\ UNCHANGED <<slotVars, questions, calls>>

-----------------------------------------------------------------------------
(* The reflector's sub-questions start the pass, if there are any.         *)
StartPass ==
  /\ Working(Main) /\ stage[Main] = "plan"
  /\ questions' \in SUBSET Subs
  /\ stage' = [stage EXCEPT ![Main] = IF questions' = {} THEN "synthesis" ELSE "pass"]
  /\ UNCHANGED <<slotVars, calls, cache, handles>>

Between == stage[Main] = "pass" /\ \A s \in Subs : stage[s] \in {"off", "over"}

(* What the pass knows of the calls of its sub-turns: the number of their  *)
(* events "llm_call", which nothing in the server emits.                   *)
passCalls == 0

(* A batch: each sub-turn gets a copy of the context, its handle included. *)
Launch(batch) ==
  /\ Between /\ passCalls < MaxPassCalls
  /\ batch \subseteq questions /\ batch # {}
  /\ batch = questions \/ Cardinality(batch) = Parallel
  /\ Cardinality(batch) <= Parallel
  /\ questions' = questions \ batch
  /\ stage' = [t \in Callers |-> IF t \in batch THEN "plan" ELSE stage[t]]
  /\ cache' = [t \in Callers |-> IF t \in batch THEN cache[Main] ELSE cache[t]]
  /\ UNCHANGED <<slotVars, calls, handles>>

(* All are investigated, the calls are spent, or the time (maxWallMs) is.  *)
EndPass ==
  /\ Between
  /\ questions' = {}
  /\ stage' = [stage EXCEPT ![Main] = "synthesis"]
  /\ UNCHANGED <<slotVars, calls, cache, handles>>

-----------------------------------------------------------------------------
PassNext ==
  \/ \E t \in Callers : Ask(t) \/ Provider(t) \/ Query(t) \/ End(t)
  \/ StartPass \/ EndPass
  \/ \E batch \in SUBSET Subs : Launch(batch)

PassSpec == PassInit /\ [][PassNext]_turnVars

(* Turns end (AgentTurn) and the provider answers. *)
PassFairSpec ==
  /\ PassSpec
  /\ \A t \in Callers :
       /\ WF_turnVars(End(t))
       /\ WF_turnVars(Finish(t) /\ UNCHANGED passVars)
       /\ WF_turnVars(Retry(t) /\ UNCHANGED passVars)
  /\ WF_turnVars(StartPass) /\ WF_turnVars(EndPass)

-----------------------------------------------------------------------------
PassTypeOK ==
  /\ SlotTypeOK
  /\ stage \in [Callers -> {"off", "plan", "pass", "synthesis", "over"}]
  /\ questions \in SUBSET Subs
  /\ \A t \in Callers : calls[t] \in 0..Limit(t)
  /\ cache \in [Callers -> Callers \cup {None}]
  /\ handles \in [Callers -> {"none", "open", "closed"}]

(* An open handle is in the context of a turn that has still to end and    *)
(* will close it, whoever opened it and whoever else was given a copy.     *)
NoOrphanHandle ==
  \A h \in Callers : handles[h] = "open" => \E t \in Callers : cache[t] = h /\ stage[t] # "over"

(* A turn that started its pass ends, whatever the provider refuses.       *)
PassEnds == stage[Main] = "pass" ~> stage[Main] = "over"
=============================================================================
