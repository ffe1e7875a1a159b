--------------------------- MODULE ProviderSlots ---------------------------
(***************************************************************************)
(* The gate in front of the Anthropic API                                  *)
(* (src/server/lib/agents/runtime/anthropicSemaphore.ts): a counter and a  *)
(* queue of waiters in one process, wrapped around callAnthropic           *)
(* (anthropicProvider.ts), which keeps its slot while it sleeps before a   *)
(* retry.                                                                  *)
(***************************************************************************)
EXTENDS Naturals, Sequences, FiniteSets

CONSTANTS
  Callers,         \* those who call the API, one call at a time each
  MaxConcurrency,  \* readMaxConcurrency()
  MaxAttempts      \* ANTHROPIC_MAX_ATTEMPTS

(* A fraction in ANTHROPIC_MAX_CONCURRENCY is floored, to 0 if it is below *)
(* 1: then no call is ever let in.  The model leaves that setting out.     *)
ASSUME SlotAssumption ==
  /\ IsFiniteSet(Callers)
  /\ MaxConcurrency \in Nat \ {0}
  /\ MaxAttempts \in Nat \ {0}

VARIABLES
  inFlight,  \* the counter
  waiters,   \* the callers in the queue, the oldest first
  call,      \* call[c]: "idle", "waiting", "posting" or "sleeping"
  attempt    \* attempt[c]: which POST of the call is under way

slotVars == <<inFlight, waiters, call, attempt>>

Holding(c) == call[c] \in {"posting", "sleeping"}

SlotInit ==
  /\ inFlight = 0
  /\ waiters = <<>>
  /\ call = [c \in Callers |-> "idle"]
  /\ attempt = [c \in Callers |-> 0]

(* acquireAnthropicSlot, with room and without. *)
MutantEnter(c) ==   \* one too many
  /\ call[c] = "idle" /\ inFlight <= MaxConcurrency
  /\ inFlight' = inFlight + 1
  /\ call' = [call EXCEPT ![c] = "posting"]
  /\ attempt' = [attempt EXCEPT ![c] = 1]
  /\ UNCHANGED waiters

Enter(c) ==
  /\ call[c] = "idle" /\ inFlight < MaxConcurrency
  /\ inFlight' = inFlight + 1
  /\ call' = [call EXCEPT ![c] = "posting"]
  /\ attempt' = [attempt EXCEPT ![c] = 1]
  /\ UNCHANGED waiters

Queue(c) ==
  /\ call[c] = "idle" /\ inFlight >= MaxConcurrency
  /\ waiters' = Append(waiters, c)
  /\ call' = [call EXCEPT ![c] = "waiting"]
  /\ UNCHANGED <<inFlight, attempt>>

(* The API refuses with 429 or 5xx and attempts are left. *)
Refused(c) ==
  /\ call[c] = "posting" /\ attempt[c] < MaxAttempts
  /\ call' = [call EXCEPT ![c] = "sleeping"]
  /\ UNCHANGED <<inFlight, waiters, attempt>>

Retry(c) ==
  /\ call[c] = "sleeping"
  /\ call' = [call EXCEPT ![c] = "posting"]
  /\ attempt' = [attempt EXCEPT ![c] = @ + 1]
  /\ UNCHANGED <<inFlight, waiters>>

(* The call returns or throws.  release() counts down and wakes the oldest *)
(* waiter, who counts up before anybody else runs.                         *)
MutantFinish(c) ==   \* the slot is not handed on
  /\ call[c] = "posting"
  /\ inFlight' = inFlight - 1
  /\ call' = [call EXCEPT ![c] = "idle"]
  /\ attempt' = [attempt EXCEPT ![c] = 0]
  /\ UNCHANGED waiters

Finish(c) ==
  /\ call[c] = "posting"
  /\ IF waiters = <<>>
     THEN /\ inFlight' = inFlight - 1
          /\ call' = [call EXCEPT ![c] = "idle"]
          /\ attempt' = [attempt EXCEPT ![c] = 0]
          /\ UNCHANGED waiters
     ELSE /\ waiters' = Tail(waiters)
          /\ call' = [call EXCEPT ![c] = "idle", ![Head(waiters)] = "posting"]
          /\ attempt' = [attempt EXCEPT ![c] = 0, ![Head(waiters)] = 1]
          /\ UNCHANGED inFlight

SlotNext ==
  \E c \in Callers : Enter(c) \/ Queue(c) \/ Refused(c) \/ Retry(c) \/ Finish(c)

SlotSpec == SlotInit /\ [][SlotNext]_slotVars

-----------------------------------------------------------------------------
SlotTypeOK ==
  /\ inFlight \in Nat
  /\ waiters \in Seq(Callers)
  /\ call \in [Callers -> {"idle", "waiting", "posting", "sleeping"}]
  /\ attempt \in [Callers -> 0..MaxAttempts]

(* At most MaxConcurrency calls are with the provider at once, those that  *)
(* sleep before a retry included: the counter never drifts from the        *)
(* callers it counts.                                                      *)
Ceiling == Cardinality({c \in Callers : Holding(c)}) <= MaxConcurrency

(* Nobody waits beside a free slot: a slot given back is handed on.        *)
NobodyWaitsInVain ==
  (\E c \in Callers : call[c] = "waiting")
    => Cardinality({c \in Callers : Holding(c)}) = MaxConcurrency
=============================================================================
