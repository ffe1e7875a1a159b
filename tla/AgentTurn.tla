----------------------------- MODULE AgentTurn -----------------------------
(***************************************************************************)
(* One agent turn, runAgentTurn                                            *)
(* (src/server/lib/agents/runtime/agentLoop.service.ts): the two fast      *)
(* paths, the brief, the loop that plans, runs tools, verifies and         *)
(* reflects, then the synthesis and what follows it.                       *)
(*                                                                         *)
(* What the model, the tools and the user say is left open; what is kept   *)
(* is who is asked when, what every answer leads to, and the budgets.      *)
(* The turn runs alone: the other turns of the process meet it in          *)
(* FollowUpPass, the chat document in ChatTurn and TurnCheckpoint.         *)
(***************************************************************************)
EXTENDS Naturals

CONSTANTS
  MaxSteps, MaxToolCalls,  \* the budgets of loadAgentConfigFromEnv
  MaxReplans,              \* maxReplansPerStep
  MaxLlmCalls,             \* maxTotalLlmCallsPerTurn
  MaxPlan                  \* bound: the steps of one plan

ASSUME TurnAssumption ==
  /\ {MaxSteps, MaxToolCalls, MaxReplans, MaxLlmCalls} \subseteq Nat
  /\ MaxPlan \in Nat \ {0}

VARIABLES
  pc,        \* what the turn does next
  llmCalls,  \* the counter of onLlmCall, up to MaxLlmCalls + 1
  replans,   \* plans given up because of a tool's arguments
  plans,     \* plans accepted
  left,      \* steps of the plan still to walk
  walked,    \* stepsWalked
  tools,     \* toolCallsDone
  retried,   \* the step is at its second attempt
  sour,      \* a verdict "retry_tool" is in the trace
  obs,       \* there are observations
  late,      \* the deadline has passed
  aborted,   \* the client has hung up
  handle,    \* the turn's DuckDB handle, "none", "open" or "closed"
  answer     \* "none" until the turn ends, then "empty" or "text"

planVars == <<replans, plans, left>>
stepVars == <<walked, tools, retried, sour>>
envVars  == <<late, aborted>>
vars == <<pc, llmCalls, planVars, stepVars, obs, envVars, handle, answer>>

Passes == 3  \* what completeJson does at most for one answer

(* The phases that ask the model once, or not at all, and then go on.      *)
After == [brief |-> "hypotheses", hypotheses |-> "head",
          repair |-> "repairAgain", repairAgain |-> "charts",
          charts |-> "dashboard", dashboard |-> "verifyAnswer",
          verifyAnswer |-> "done"]

Phases == DOMAIN After \cup
  {"triage", "lookup", "query", "head", "plan", "planAgain", "step", "tool", "verify",
   "reflect", "narrate", "synthesize", "reply", "done", "over"}

Init ==
  /\ pc = "triage" /\ answer = "none" /\ handle = "none"
  /\ llmCalls = 0 /\ replans = 0 /\ plans = 0 /\ left = 0 /\ walked = 0 /\ tools = 0
  /\ retried = FALSE /\ sour = FALSE /\ obs = FALSE
  /\ late \in BOOLEAN /\ aborted = FALSE

-----------------------------------------------------------------------------
(* completeJson: up to three passes, each counted by onLlmCall before it   *)
(* posts.  Above the budget onLlmCall throws, inside completeJson's own    *)
(* try: the caller gets ok = FALSE, as if the model had answered nonsense. *)
Asked(ok) ==
  \E k \in 1..Passes :
    \/ llmCalls + k <= MaxLlmCalls /\ llmCalls' = llmCalls + k
    \/ llmCalls + k > MaxLlmCalls /\ ~ok /\ llmCalls' = MaxLlmCalls + 1

(* Every return passes by closeTurnColumnarStorage: before the loop by the *)
(* fast paths' own call, after it by the finally.                          *)
MutantEndWith(text) ==   \* the handle is left to the garbage collector
  /\ pc' = "over" /\ answer' = text
  /\ UNCHANGED handle

EndWith(text) ==
  /\ pc' = "over" /\ answer' = text
  /\ handle' = IF handle = "open" THEN "closed" ELSE handle

MayOpen == handle' \in {handle, "open"}

GoOn(phase) == pc' = phase /\ UNCHANGED <<handle, answer>>

(* tryDirectAnswer: off, or not eligible, or one question to the model.    *)
Triage ==
  /\ pc = "triage"
  /\ \/ GoOn("lookup") /\ UNCHANGED llmCalls
     \/ \E ok \in BOOLEAN : Asked(ok) /\ (GoOn("lookup") \/ (ok /\ EndWith("text")))
  /\ UNCHANGED <<planVars, stepVars, obs, envVars>>

(* tryQuickAnswer: a small plan, and a query that may open the handle;     *)
(* when it finds nothing, the handle stays for the loop.                   *)
Lookup ==
  /\ pc = "lookup"
  /\ \/ GoOn("brief") /\ UNCHANGED llmCalls
     \/ \E ok \in BOOLEAN : Asked(ok) /\ (GoOn("brief") \/ (ok /\ GoOn("query")))
  /\ UNCHANGED <<planVars, stepVars, obs, envVars>>

LookupQuery ==
  /\ pc = "query"
  /\ pc' \in {"brief", "reply"}
  /\ MayOpen
  /\ UNCHANGED <<llmCalls, planVars, stepVars, obs, envVars, answer>>

(* The brief and the hypotheses before the loop; after it the repairs of   *)
(* the envelope, the charts, the dashboard and the final verifier.  None   *)
(* of them fails the turn, and checkAbort only spares it the charts: it is *)
(* called in the try that swallows what the chart planner throws.          *)
Phase ==
  /\ pc \in DOMAIN After
  /\ GoOn(After[pc])
  /\ UNCHANGED llmCalls \/ (~(pc = "charts" /\ aborted) /\ \E ok \in BOOLEAN : Asked(ok))
  /\ UNCHANGED <<planVars, stepVars, obs, envVars>>

-----------------------------------------------------------------------------
(* The head of the loop.                                                   *)
LoopHead ==
  /\ pc = "head"
  /\ \/ replans > MaxReplans /\ GoOn("narrate")
     \/ replans <= MaxReplans /\ aborted /\ EndWith("text")
     \/ replans <= MaxReplans /\ ~aborted /\ late /\ GoOn("narrate")
     \/ replans <= MaxReplans /\ ~aborted /\ ~late /\ GoOn("plan")
  /\ UNCHANGED <<llmCalls, planVars, stepVars, obs, envVars>>

(* A plan has at least one step.  Steps of one parallel group run before   *)
(* the walk begins, and are not counted before their turn comes.           *)
MutantAccept ==   \* the check of empty_steps is dropped
  /\ pc' = "step"
  /\ plans' = plans + 1
  /\ left' \in 0..MaxPlan
  /\ MayOpen
  /\ UNCHANGED <<replans, answer>>

Accept ==
  /\ pc' = "step"
  /\ plans' = plans + 1
  /\ left' \in 1..MaxPlan
  /\ MayOpen
  /\ UNCHANGED <<replans, answer>>

(* A skill that fits the brief takes the first plan's place. *)
Skill ==
  /\ pc = "plan" /\ replans = 0
  /\ Accept
  /\ UNCHANGED <<llmCalls, stepVars, obs, envVars>>

(* runPlannerWithOneRetry: a plan refused for a reason that has a hint is  *)
(* asked for once more, an error of the API is not.  A plan refused for    *)
(* good ends the turn with an empty answer.                                *)
Plan ==
  /\ pc \in {"plan", "planAgain"}
  /\ \E ok \in BOOLEAN :
       /\ Asked(ok)
       /\ \/ ok /\ Accept
          \/ pc = "plan" /\ GoOn("planAgain") /\ UNCHANGED planVars
          \/ pc = "planAgain" /\ EndWith("empty") /\ UNCHANGED planVars
          \/ pc = "plan" /\ ~ok /\ llmCalls' <= MaxLlmCalls
             /\ EndWith("empty") /\ UNCHANGED planVars
  /\ UNCHANGED <<stepVars, obs, envVars>>

-----------------------------------------------------------------------------
(* The walk over the plan's steps.                                         *)
Spent == late \/ walked >= MaxSteps \/ tools >= MaxToolCalls

StopEarly ==
  /\ pc = "step" /\ left > 0 /\ Spent
  /\ GoOn("narrate")
  /\ UNCHANGED <<llmCalls, planVars, stepVars, obs, envVars>>

(* The end of a plan made after a replan is followed by one more plan.     *)
MutantPlanWalked ==   \* so is the end of the first
  /\ pc = "step" /\ left = 0
  /\ GoOn(IF obs THEN "head" ELSE "narrate")
  /\ UNCHANGED <<llmCalls, planVars, stepVars, obs, envVars>>

PlanWalked ==
  /\ pc = "step" /\ left = 0
  /\ GoOn(IF replans > 0 /\ obs THEN "head" ELSE "narrate")
  /\ UNCHANGED <<llmCalls, planVars, stepVars, obs, envVars>>

MutantNextStep ==   \* the budgets are looked at when the plan is made
  /\ pc = "step" /\ left > 0
  /\ left' = left - 1
  /\ walked' = walked + 1
  /\ retried' = FALSE
  /\ GoOn("tool")
  /\ UNCHANGED <<llmCalls, replans, plans, tools, sour, obs, envVars>>

NextStep ==
  /\ pc = "step" /\ left > 0 /\ ~Spent
  /\ left' = left - 1
  /\ walked' = walked + 1
  /\ retried' = FALSE
  /\ GoOn("tool")
  /\ UNCHANGED <<llmCalls, replans, plans, tools, sour, obs, envVars>>

(* One attempt: the tool runs, in a handle it may open.  Bad arguments     *)
(* give the plan up, a question to the user ends the turn.  A result with  *)
(* prose is verified; one without may still be attempted again, for the    *)
(* verdict on an earlier step of the same name (lastVerdictForStep).       *)
Tool ==
  /\ pc = "tool"
  /\ tools' = tools + 1
  /\ MayOpen
  /\ \/ /\ pc' = "head" /\ replans' = replans + 1 /\ obs' = TRUE
        /\ UNCHANGED retried
     \/ /\ pc' \in {"reply", "verify", "reflect"}
        /\ UNCHANGED <<replans, retried, obs>>
     \/ /\ sour /\ ~retried
        /\ pc' = "tool" /\ retried' = TRUE
        /\ UNCHANGED <<replans, obs>>
  /\ UNCHANGED <<llmCalls, plans, left, walked, sour, envVars, answer>>

(* runVerifier passes what it could not ask about. *)
Verify ==
  /\ pc = "verify"
  /\ \E ok \in BOOLEAN :
       /\ Asked(ok)
       /\ \/ GoOn("reflect") /\ UNCHANGED <<retried, sour>>
          \/ /\ ok /\ sour' = TRUE   \* retry_tool
             /\ retried' = TRUE
             /\ GoOn(IF retried THEN "reflect" ELSE "tool")
  /\ UNCHANGED <<planVars, walked, tools, obs, envVars>>

(* runReflector goes on when it could not ask, and is skipped for all but  *)
(* the last of a parallel group.  "finish" counts at the plan's last step  *)
(* only, "replan" never; a gap adds a step.                                *)
Reflect ==
  /\ pc = "reflect"
  /\ obs' = TRUE
  /\ \/ GoOn("step") /\ UNCHANGED <<llmCalls, left>>
     \/ \E ok \in BOOLEAN :
          /\ Asked(ok)
          /\ \/ GoOn("step") /\ UNCHANGED left
             \/ ok /\ left = 0 /\ GoOn("narrate") /\ UNCHANGED left
             \/ ok /\ EndWith("text") /\ UNCHANGED left
             \/ ok /\ left' = left + 1 /\ GoOn("step")
  /\ UNCHANGED <<replans, plans, stepVars, envVars>>

-----------------------------------------------------------------------------
(* runNarrator, or the synthesizer when there is nothing to narrate or it  *)
(* failed; nothing at all without observations.                            *)
Narrate ==
  /\ pc = "narrate"
  /\ \/ ~obs /\ GoOn("charts") /\ UNCHANGED llmCalls
     \/ obs /\ GoOn("synthesize") /\ UNCHANGED llmCalls
     \/ obs /\ \E ok \in BOOLEAN : Asked(ok) /\ GoOn(IF ok THEN "repair" ELSE "synthesize")
  /\ UNCHANGED <<planVars, stepVars, obs, envVars>>

(* synthesizeFinalAnswerEnvelope, then two retries in plain text.  What    *)
(* they throw, and what checkAbort throws before them, is caught: the      *)
(* observations are rendered instead.                                      *)
Synthesize ==
  /\ pc = "synthesize"
  /\ IF aborted THEN UNCHANGED llmCalls ELSE \E ok \in BOOLEAN : Asked(ok)
  /\ GoOn("charts")
  /\ UNCHANGED <<planVars, stepVars, obs, envVars>>

(* What the fast path, or a tool's question to the user, answers; else the *)
(* answer is empty only if there was nothing to render.                    *)
Return ==
  /\ pc \in {"reply", "done"}
  /\ EndWith(IF pc = "reply" \/ obs THEN "text" ELSE "empty")
  /\ UNCHANGED <<llmCalls, planVars, stepVars, obs, envVars>>

-----------------------------------------------------------------------------
Turn ==
  \/ Triage \/ Lookup \/ LookupQuery \/ Phase
  \/ LoopHead \/ Skill \/ Plan
  \/ StopEarly \/ PlanWalked \/ NextStep \/ Tool \/ Verify \/ Reflect
  \/ Narrate \/ Synthesize \/ Return

(* The deadline passes; the client closes its stream. *)
DeadlinePasses ==
  /\ pc # "over" /\ ~late /\ late' = TRUE
  /\ UNCHANGED <<pc, llmCalls, planVars, stepVars, obs, aborted, handle, answer>>

HangUp ==
  /\ pc # "over" /\ ~aborted /\ aborted' = TRUE
  /\ UNCHANGED <<pc, llmCalls, planVars, stepVars, obs, late, handle, answer>>

Next == Turn \/ DeadlinePasses \/ HangUp

Spec == Init /\ [][Next]_vars

(* Calls and queries return. *)
FairSpec == Spec /\ WF_vars(Turn)

-----------------------------------------------------------------------------
Counters ==
  /\ pc \in Phases
  /\ llmCalls \in 0..(MaxLlmCalls + 1)
  /\ replans \in 0..(MaxReplans + 1)
  /\ plans \in Nat
  /\ left \in 0..MaxPlan
  /\ walked \in Nat /\ tools \in Nat
  /\ handle \in {"none", "open", "closed"}
  /\ answer \in {"none", "empty", "text"}

Flags ==
  /\ retried \in BOOLEAN /\ sour \in BOOLEAN /\ obs \in BOOLEAN
  /\ late \in BOOLEAN /\ aborted \in BOOLEAN

TypeOK == Counters /\ Flags

(* The turn keeps to its budgets of steps and tool calls, but for the      *)
(* second attempt of the step that spent the last call: with retries, gap  *)
(* steps and replans alike.                                                *)
Budgets == walked <= MaxSteps /\ tools <= MaxToolCalls + 1

(* Every plan but the last walked a step: a loop that plans again after a  *)
(* replan for as long as the plans come to an end is held by the budget of *)
(* steps alone, since maxReplansPerStep does not count those plans.        *)
PlansWalk == plans <= walked + 1

(* A turn that has found something returns something, unless it gave a     *)
(* plan up on the way: a plan refused after a replan ends the turn with an *)
(* empty answer, whatever was observed before.                             *)
EvidenceKept == answer = "empty" /\ obs => replans > 0

(* The turn is what TurnOutline promises.  The counter's last value stands *)
(* for a call that was not made.                                           *)
Outline == INSTANCE TurnOutline WITH
  over  <- pc = "over",
  calls <- IF llmCalls > MaxLlmCalls THEN MaxLlmCalls ELSE llmCalls

ImplementsOutline == Outline!Spec
=============================================================================
