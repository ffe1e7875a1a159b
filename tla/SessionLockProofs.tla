-------------------------- MODULE SessionLockProofs --------------------------
(***************************************************************************)
(* Safety of the promise chain for any number of calls and sessions, any   *)
(* nesting and any work left behind.                                       *)
(***************************************************************************)
EXTENDS SessionLock, SequenceTheorems, TLAPS

(* A call on a session knows its place, and no other call has it. *)
TicketsDistinct ==
  /\ \A c \in Calls : Accepted(c) => ticket[c] <= tickets[sess[c]]
  /\ \A c, d \in Calls :
       c # d /\ sess[c] = sess[d] /\ Accepted(c) /\ Accepted(d)
         => ticket[c] # ticket[d]

(* The map entry is the newest call, still unreturned; without an entry    *)
(* nothing on the session is unsettled.                                    *)
ChainIsNewest ==
  \A s \in Sessions :
    IF chain[s] = None
    THEN \A c \in Calls : sess[c] = s /\ Accepted(c) => Settled(c)
    ELSE /\ sess[chain[s]] = s
         /\ pc[chain[s]] \in {"waiting", "running", "settled"}
         /\ ticket[chain[s]] = tickets[s]

(* A waiting call waits for the call right before it. *)
WaitsForPredecessor ==
  \A c \in Calls : pc[c] = "waiting" =>
    /\ previous[c] \in Calls
    /\ sess[previous[c]] = sess[c]
    /\ Accepted(previous[c])
    /\ ticket[c] = ticket[previous[c]] + 1

IInv == TypeOK /\ TicketsDistinct /\ ChainIsNewest /\ WaitsForPredecessor /\ ServedInOrder

LEMMA InitIInv == Init => IInv
BY ConstantsAssumption
   DEF Init, IInv, TypeOK, PcValues, TicketsDistinct, ChainIsNewest,
       WaitsForPredecessor, ServedInOrder, Accepted, Started, Settled

(* Entering keeps the invariant, whoever calls and whatever it holds. *)
LEMMA EnterIInv ==
  ASSUME IInv, NEW c \in Calls, NEW ctx \in SUBSET Sessions,
         NEW suspended \in SUBSET Calls, Enter(c, ctx, suspended)
  PROVE  IInv'
<1> DEFINE s == sess[c]
<1> USE ConstantsAssumption
<1> s \in Sessions
  BY DEF IInv, TypeOK
<1>1. CASE s \in ctx
  <2>1. /\ pc' = [pc EXCEPT ![c] = "refused"]
        /\ pc[c] = "idle"
        /\ UNCHANGED <<previous, held, chain, ticket, tickets, sess, result>>
        /\ awaiters' = [awaiters EXCEPT ![c] = suspended]
    BY <1>1 DEF Enter
  <2>2. TypeOK'
    BY <2>1 DEF IInv, TypeOK, PcValues
  <2>3. TicketsDistinct'
    BY <2>1 DEF IInv, TypeOK, TicketsDistinct, Accepted
  <2>4. ChainIsNewest'
    BY <2>1 DEF IInv, TypeOK, ChainIsNewest, Accepted, Settled
  <2>5. WaitsForPredecessor'
    BY <2>1 DEF IInv, TypeOK, WaitsForPredecessor, Accepted
  <2>6. ServedInOrder'
    BY <2>1 DEF IInv, TypeOK, ServedInOrder, Accepted, Started, Settled
  <2> QED BY <2>2, <2>3, <2>4, <2>5, <2>6 DEF IInv
<1>2. CASE s \notin ctx
  <2>1. /\ pc[c] = "idle"
        /\ previous' = [previous EXCEPT ![c] = chain[s]]
        /\ pc' = [pc EXCEPT ![c] = IF chain[s] = None THEN "running" ELSE "waiting"]
        /\ chain' = [chain EXCEPT ![s] = c]
        /\ held' = [held EXCEPT ![c] = ctx \cup {s}]
        /\ ticket' = [ticket EXCEPT ![c] = tickets[s] + 1]
        /\ tickets' = [tickets EXCEPT ![s] = tickets[s] + 1]
        /\ UNCHANGED <<sess, result>>
        /\ awaiters' = [awaiters EXCEPT ![c] = suspended]
    BY <1>2 DEF Enter
  <2>2. TypeOK'
    BY <2>1 DEF IInv, TypeOK, PcValues
  <2>3. TicketsDistinct'
    BY <2>1 DEF IInv, TypeOK, TicketsDistinct, Accepted
  <2>4. ChainIsNewest'
    BY <2>1 DEF IInv, TypeOK, ChainIsNewest, Accepted, Settled
  <2>5. WaitsForPredecessor'
    <3> SUFFICES ASSUME NEW d \in Calls, pc'[d] = "waiting"
                 PROVE  /\ previous'[d] \in Calls
                        /\ sess'[previous'[d]] = sess'[d]
                        /\ Accepted(previous[d])' 
                        /\ ticket'[d] = ticket'[previous'[d]] + 1
      BY DEF WaitsForPredecessor, Accepted
    <3>1. CASE d = c
      BY <2>1, <3>1 DEF IInv, TypeOK, ChainIsNewest, Accepted
    <3>2. CASE d # c
      BY <2>1, <3>2 DEF IInv, TypeOK, WaitsForPredecessor, Accepted
    <3> QED BY <3>1, <3>2
  <2>6. ServedInOrder'
    <3> SUFFICES ASSUME NEW a \in Calls, NEW b \in Calls,
                        sess[a] = sess[b], Accepted(a)', Started(b)',
                        ticket'[a] < ticket'[b]
                 PROVE  Settled(a)'
      BY <2>1 DEF ServedInOrder
    <3>1. CASE b = c
      BY <2>1, <3>1 DEF IInv, TypeOK, ChainIsNewest, Accepted, Started, Settled
    <3>2. CASE b # c /\ a = c
      BY <2>1, <3>2 DEF IInv, TypeOK, TicketsDistinct, Accepted, Started, Settled
    <3>3. CASE b # c /\ a # c
      BY <2>1, <3>3 DEF IInv, TypeOK, ServedInOrder, Accepted, Started, Settled
    <3> QED BY <3>1, <3>2, <3>3
  <2> QED BY <2>2, <2>3, <2>4, <2>5, <2>6 DEF IInv
<1> QED BY <1>1, <1>2

LEMMA StartIInv ==
  ASSUME IInv, NEW c \in Calls, Start(c)
  PROVE  IInv'
<1>1. TypeOK'
  BY DEF IInv, TypeOK, PcValues, Start
<1>2. TicketsDistinct'
  BY DEF IInv, TypeOK, TicketsDistinct, Accepted, Start
<1>3. ChainIsNewest'
  BY ConstantsAssumption DEF IInv, TypeOK, ChainIsNewest, Accepted, Settled, Start
<1>4. WaitsForPredecessor'
  BY DEF IInv, TypeOK, WaitsForPredecessor, Accepted, Start
<1>5. ServedInOrder'
  <2> SUFFICES ASSUME NEW a \in Calls, NEW b \in Calls,
                      sess[a] = sess[b], Accepted(a)', Started(b)',
                      ticket[a] < ticket[b]
               PROVE  Settled(a)'
    BY DEF ServedInOrder, Start
  <2>1. CASE b = c
    <3> DEFINE p == previous[c]
    <3>1. /\ p \in Calls /\ sess[p] = sess[c] /\ Settled(p)
          /\ ticket[c] = ticket[p] + 1
      BY DEF Start, IInv, WaitsForPredecessor
    <3>2. a # c /\ Accepted(a)
      BY <2>1 DEF Start, IInv, TypeOK, Accepted
    <3>3. CASE a = p
      BY <3>1, <3>2, <3>3 DEF Start, IInv, TypeOK, Settled
    <3>4. CASE a # p
      <4>1. ticket[a] < ticket[p]
        BY <2>1, <3>1, <3>2, <3>4 DEF IInv, TypeOK, TicketsDistinct, Accepted, Settled
      <4>2. Settled(a)
        BY <2>1, <3>1, <3>2, <4>1 DEF IInv, ServedInOrder, Started, Settled
      <4> QED BY <3>2, <4>2 DEF Start, IInv, TypeOK, Settled
    <3> QED BY <3>3, <3>4
  <2>2. CASE b # c
    BY <2>2 DEF Start, IInv, TypeOK, ServedInOrder, Accepted, Started, Settled
  <2> QED BY <2>1, <2>2
<1> QED BY <1>1, <1>2, <1>3, <1>4, <1>5 DEF IInv

LEMMA SettleIInv ==
  ASSUME IInv, NEW c \in Calls, NEW r \in {"ok", "error"}, Settle(c, r)
  PROVE  IInv'
<1>1. TypeOK'
  BY DEF IInv, TypeOK, PcValues, Settle
<1>2. TicketsDistinct'
  BY DEF IInv, TypeOK, TicketsDistinct, Accepted, Settle
<1>3. ChainIsNewest'
  BY ConstantsAssumption DEF IInv, TypeOK, ChainIsNewest, Accepted, Settled, Settle
<1>4. WaitsForPredecessor'
  BY DEF IInv, TypeOK, WaitsForPredecessor, Accepted, Settle
<1>5. ServedInOrder'
  BY DEF IInv, TypeOK, ServedInOrder, Accepted, Started, Settled, Settle
<1> QED BY <1>1, <1>2, <1>3, <1>4, <1>5 DEF IInv

(* The newest call may drop the entry: by then all the others are settled. *)
LEMMA ReturnIInv ==
  ASSUME IInv, NEW c \in Calls, Return(c)
  PROVE  IInv'
<1>1. TypeOK'
  BY DEF IInv, TypeOK, PcValues, Return
<1>2. TicketsDistinct'
  BY DEF IInv, TypeOK, TicketsDistinct, Accepted, Return
<1>3. ChainIsNewest'
  <2> SUFFICES ASSUME NEW s \in Sessions
               PROVE  IF chain'[s] = None
                      THEN \A d \in Calls : sess'[d] = s /\ Accepted(d)' => Settled(d)'
                      ELSE /\ sess'[chain'[s]] = s
                           /\ pc'[chain'[s]] \in {"waiting", "running", "settled"}
                           /\ ticket'[chain'[s]] = tickets'[s]
    BY DEF ChainIsNewest, Accepted, Settled
  <2>1. CASE chain[s] = c
    <3>1. sess[c] = s /\ ticket[c] = tickets[s] /\ chain'[s] = None
      BY <2>1, ConstantsAssumption DEF IInv, TypeOK, ChainIsNewest, Return
    <3>2. ASSUME NEW d \in Calls, sess[d] = s, Accepted(d), d # c
          PROVE  Settled(d)
      <4>1. sess[d] = sess[c] /\ Accepted(d) /\ pc[c] = "settled"
        BY <3>1, <3>2 DEF Return
      <4>2. ticket[d] < ticket[c]
        BY <3>1, <3>2, <4>1 DEF IInv, TypeOK, TicketsDistinct, Accepted
      <4> QED BY <4>1, <4>2 DEF IInv, ServedInOrder, Started
    <3>3. \A d \in Calls : sess'[d] = s /\ Accepted(d)' => Settled(d)'
      <4> SUFFICES ASSUME NEW d \in Calls, sess'[d] = s, Accepted(d)'
                   PROVE  Settled(d)'
        OBVIOUS
      <4>1. CASE d = c
        BY <4>1 DEF IInv, TypeOK, Settled, Return
      <4>2. CASE d # c
        <5>1. sess[d] = s /\ Accepted(d)
          BY <4>2 DEF IInv, TypeOK, Accepted, Return
        <5> QED BY <3>2, <4>2, <5>1 DEF IInv, TypeOK, Settled, Return
      <4> QED BY <4>1, <4>2
    <3> QED BY <3>1, <3>3 DEF Accepted, Settled
  <2>2. CASE chain[s] # c
    BY <2>2, ConstantsAssumption DEF IInv, TypeOK, ChainIsNewest, Accepted, Settled, Return
  <2> QED BY <2>1, <2>2
<1>4. WaitsForPredecessor'
  BY DEF IInv, TypeOK, WaitsForPredecessor, Accepted, Return
<1>5. ServedInOrder'
  BY DEF IInv, TypeOK, ServedInOrder, Accepted, Started, Settled, Return
<1> QED BY <1>1, <1>2, <1>3, <1>4, <1>5 DEF IInv

LEMMA NextIInv == IInv /\ [Next]_vars => IInv'
<1> SUFFICES ASSUME IInv, [Next]_vars PROVE IInv'
  OBVIOUS
<1>1. ASSUME NEW c \in Calls, CallFromOutside(c) PROVE IInv'
  BY <1>1, EnterIInv DEF CallFromOutside
<1>2. ASSUME NEW c \in Calls, NEW p \in Calls, CallNested(c, p) \/ CallDetached(c, p)
      PROVE  IInv'
  <2>1. held[p] \in SUBSET Sessions /\ awaiters[p] \cup {p} \in SUBSET Calls
    BY DEF IInv, TypeOK
  <2> QED BY <1>2, <2>1, EnterIInv DEF CallNested, CallDetached
<1>3. ASSUME NEW c \in Calls, Start(c) PROVE IInv'
  BY <1>3, StartIInv
<1>4. ASSUME NEW c \in Calls, NEW r \in {"ok", "error"}, Settle(c, r) PROVE IInv'
  BY <1>4, SettleIInv
<1>5. ASSUME NEW c \in Calls, Return(c) PROVE IInv'
  BY <1>5, ReturnIInv
<1>6. CASE UNCHANGED vars
  BY <1>6 DEF vars, IInv, TypeOK, TicketsDistinct, ChainIsNewest, WaitsForPredecessor,
              ServedInOrder, Accepted, Started, Settled
<1> QED BY <1>1, <1>2, <1>3, <1>4, <1>5, <1>6 DEF Next

LEMMA SpecIInv == Spec => []IInv
BY InitIInv, NextIInv, PTL DEF Spec

(* The variables of the chain always have their types. *)
THEOREM TypeCorrect == Spec => []TypeOK
<1>1. IInv => TypeOK
  BY DEF IInv
<1> QED BY <1>1, SpecIInv, PTL

LEMMA IInvExcludes == IInv => MutualExclusion
<1> SUFFICES ASSUME IInv, NEW c \in Calls, NEW d \in Calls, c # d,
                    sess[c] = sess[d], pc[c] = "running", pc[d] = "running"
             PROVE  FALSE
  BY DEF MutualExclusion
<1>1. ticket[c] < ticket[d] \/ ticket[d] < ticket[c]
  BY DEF IInv, TypeOK, TicketsDistinct, Accepted
<1>2. Settled(c) \/ Settled(d)
  BY <1>1 DEF IInv, ServedInOrder, Accepted, Started, Settled
<1> QED BY <1>2 DEF Settled

(* Two fns never run on one session, however many calls there are and      *)
(* however they nest: withSessionWriteLock is a mutex.                     *)
THEOREM Exclusion == Spec => []MutualExclusion
BY IInvExcludes, SpecIInv, PTL

(* Calls on one session are served in the order in which they were made.   *)
THEOREM FirstComeFirstServed == Spec => []ServedInOrder
<1>1. IInv => ServedInOrder
  BY DEF IInv
<1> QED BY <1>1, SpecIInv, PTL

(* When nothing is pending on a session its map entry is gone.             *)
THEOREM NoLeak == Spec => []MapDrained
<1>1. IInv => MapDrained
  BY DEF IInv, TypeOK, ChainIsNewest, MapDrained, Over
<1> QED BY <1>1, SpecIInv, PTL

-----------------------------------------------------------------------------
(* The queue of the mutex.  The calls on a session are numbered without    *)
(* gaps, and served up to one of these numbers.                            *)
Numbered ==
  /\ \A c \in Calls : Accepted(c) => ticket[c] >= 1
  /\ \A s \in Sessions : \A k \in 1 .. tickets[s] :
       \E c \in Calls : sess[c] = s /\ Accepted(c) /\ ticket[c] = k

ServedUpTo(s, n) ==
  \A c \in Calls : sess[c] = s /\ Accepted(c) => (Started(c) <=> ticket[c] <= n)

ServedInPart == \A s \in Sessions : \E n \in 0 .. tickets[s] : ServedUpTo(s, n)

QInv == IInv /\ Numbered /\ ServedInPart

LEMMA InitQInv == Init => QInv
<1> SUFFICES ASSUME Init PROVE Numbered /\ ServedInPart
  BY InitIInv DEF QInv
<1> QED BY DEF Init, Numbered, ServedInPart, ServedUpTo, Accepted

(* Accepted and started calls stay the same ones, with their tickets. *)
LEMMA SameQInv ==
  ASSUME QInv, IInv', UNCHANGED <<sess, ticket, tickets>>,
         \A c \in Calls : (Accepted(c)' <=> Accepted(c)) /\ (Started(c)' <=> Started(c))
  PROVE  QInv'
<1>1. Numbered'
  BY DEF QInv, Numbered
<1>2. ServedInPart'
  BY DEF QInv, ServedInPart, ServedUpTo
<1> QED BY <1>1, <1>2 DEF QInv

LEMMA EnterQInv ==
  ASSUME QInv, IInv', NEW c \in Calls, NEW ctx, NEW suspended, Enter(c, ctx, suspended)
  PROVE  QInv'
<1> DEFINE s == sess[c]
<1>0. s \in Sessions /\ tickets[s] \in Nat /\ pc[c] = "idle" /\ ~ Accepted(c) /\ ~ Started(c)
  BY DEF QInv, IInv, TypeOK, Enter, Accepted, Started
<1>1. CASE s \in ctx
  <2>1. UNCHANGED <<sess, ticket, tickets>> /\ pc' = [pc EXCEPT ![c] = "refused"]
    BY <1>1 DEF Enter
  <2> QED BY <1>0, <2>1, SameQInv DEF QInv, IInv, TypeOK, Accepted, Started
<1>2. CASE s \notin ctx
  <2>1. /\ pc' = [pc EXCEPT ![c] = IF chain[s] = None THEN "running" ELSE "waiting"]
        /\ ticket' = [ticket EXCEPT ![c] = tickets[s] + 1]
        /\ tickets' = [tickets EXCEPT ![s] = tickets[s] + 1]
        /\ sess' = sess
    BY <1>2 DEF Enter
  <2>2. /\ Accepted(c)' /\ ticket'[c] = tickets[s] + 1 /\ tickets'[s] = tickets[s] + 1
        /\ Started(c)' <=> chain[s] = None
        /\ \A d \in Calls : d # c => /\ Accepted(d)' <=> Accepted(d)
                                     /\ Started(d)' <=> Started(d)
                                     /\ ticket'[d] = ticket[d]
        /\ \A t \in Sessions : t # s => tickets'[t] = tickets[t]
    BY <1>0, <2>1 DEF QInv, IInv, TypeOK, Accepted, Started
  <2>3. \A d \in Calls : Accepted(d) => d # c /\ ticket[d] \in Nat /\ ticket[d] <= tickets[sess[d]]
    BY <1>0 DEF QInv, IInv, TypeOK, TicketsDistinct
  <2>4. Numbered'
    <3>1. ASSUME NEW d \in Calls, Accepted(d)' PROVE ticket'[d] >= 1
      BY <1>0, <2>2, <3>1 DEF QInv, Numbered
    <3>2. ASSUME NEW t \in Sessions, NEW k \in 1 .. tickets'[t]
          PROVE  \E d \in Calls : sess'[d] = t /\ Accepted(d)' /\ ticket'[d] = k
      <4>1. CASE t = s /\ k = tickets[s] + 1
        BY <2>1, <2>2, <4>1
      <4>2. CASE ~ (t = s /\ k = tickets[s] + 1)
        <5>1. k \in 1 .. tickets[t]
          BY <1>0, <2>2, <3>2, <4>2
        <5>2. PICK d \in Calls : sess[d] = t /\ Accepted(d) /\ ticket[d] = k
          BY <5>1 DEF QInv, Numbered
        <5> QED BY <2>1, <2>2, <2>3, <5>2
      <4> QED BY <4>1, <4>2
    <3> QED BY <3>1, <3>2 DEF Numbered
  <2>5. ServedInPart'
    <3> SUFFICES ASSUME NEW t \in Sessions PROVE \E n \in 0 .. tickets'[t] : ServedUpTo(t, n)'
      BY DEF ServedInPart
    <3>1. PICK n \in 0 .. tickets[t] : ServedUpTo(t, n)
      BY DEF QInv, ServedInPart
    <3>2. CASE t # s
      BY <2>1, <2>2, <3>1, <3>2 DEF ServedUpTo
    <3>3. CASE t = s /\ chain[s] = None
      <4>1. \A d \in Calls : sess[d] = s /\ Accepted(d) => Started(d)
        BY <1>0, <3>3 DEF QInv, IInv, ChainIsNewest, Settled, Started
      <4>2. PICK m \in Nat : m = tickets[s] + 1
        BY <1>0
      <4>3. ServedUpTo(t, m)'
        BY <1>0, <2>1, <2>2, <2>3, <3>3, <4>1, <4>2 DEF ServedUpTo
      <4> QED BY <2>2, <3>3, <4>2, <4>3
    <3>4. CASE t = s /\ chain[s] # None
      <4>1. ServedUpTo(t, n)'
        BY <1>0, <2>1, <2>2, <3>1, <3>4 DEF ServedUpTo
      <4> QED BY <1>0, <2>2, <3>1, <3>4, <4>1
    <3> QED BY <3>2, <3>3, <3>4
  <2> QED BY <2>4, <2>5 DEF QInv
<1> QED BY <1>1, <1>2

LEMMA StartQInv ==
  ASSUME QInv, IInv', NEW c \in Calls, Start(c)
  PROVE  /\ QInv'
         /\ \A n \in Nat : ServedUpTo(sess[c], n) => ticket[c] = n + 1 /\ ServedUpTo(sess[c], n + 1)'
<1> DEFINE s == sess[c]
<1>1. /\ s \in Sessions /\ tickets[s] \in Nat /\ ticket[c] \in Nat /\ ticket[c] <= tickets[s]
      /\ Accepted(c) /\ ~ Started(c) /\ Started(c)' /\ UNCHANGED <<sess, ticket, tickets>>
      /\ \A d \in Calls : Accepted(d)' <=> Accepted(d)
      /\ \A d \in Calls : d # c => (Started(d)' <=> Started(d))
  BY DEF QInv, IInv, TypeOK, TicketsDistinct, Start, Accepted, Started
<1>2. /\ previous[c] \in Calls /\ sess[previous[c]] = s
      /\ Accepted(previous[c]) /\ Started(previous[c]) /\ ticket[c] = ticket[previous[c]] + 1
  BY DEF Start, QInv, IInv, WaitsForPredecessor, Settled, Started
<1>3. Numbered'
  BY <1>1 DEF QInv, Numbered
<1>4. ASSUME NEW n \in Nat, ServedUpTo(s, n)
      PROVE  ticket[c] = n + 1 /\ ServedUpTo(s, n + 1)'
  <2>1. ticket[previous[c]] <= n /\ ~ (ticket[c] <= n) /\ ticket[previous[c]] \in Nat
    BY <1>1, <1>2, <1>4 DEF ServedUpTo, QInv, IInv, TypeOK
  <2>2. ticket[c] = n + 1
    BY <1>1, <1>2, <2>1
  <2>3. ASSUME NEW d \in Calls, sess[d] = s, Accepted(d), d # c
        PROVE  Started(d) <=> ticket[d] <= n + 1
    <3>1. ticket[d] # n + 1 /\ ticket[d] \in Nat
      BY <1>1, <2>2, <2>3 DEF QInv, IInv, TypeOK, TicketsDistinct
    <3>2. Started(d) <=> ticket[d] <= n
      BY <1>4, <2>3 DEF ServedUpTo
    <3> QED BY <3>1, <3>2
  <2> QED BY <1>1, <2>2, <2>3 DEF ServedUpTo
<1>5. ServedInPart'
  <2> SUFFICES ASSUME NEW t \in Sessions PROVE \E n \in 0 .. tickets[t] : ServedUpTo(t, n)'
    BY <1>1 DEF ServedInPart
  <2>1. PICK n \in 0 .. tickets[t] : ServedUpTo(t, n)
    BY DEF QInv, ServedInPart
  <2>2. CASE t = s
    BY <1>1, <1>4, <2>1, <2>2
  <2>3. CASE t # s
    BY <1>1, <2>1, <2>3 DEF ServedUpTo
  <2> QED BY <2>2, <2>3
<1> QED BY <1>3, <1>4, <1>5 DEF QInv

LEMMA NextQInv == QInv /\ [Next]_vars => QInv'
<1> SUFFICES ASSUME QInv, [Next]_vars PROVE QInv'
  OBVIOUS
<1>0. IInv'
  BY NextIInv DEF QInv
<1>1. ASSUME NEW c \in Calls, NEW p \in Calls, CallFromOutside(c) \/ CallNested(c, p) \/ CallDetached(c, p)
      PROVE  QInv'
  BY <1>0, <1>1, EnterQInv DEF CallFromOutside, CallNested, CallDetached
<1>2. ASSUME NEW c \in Calls, Start(c) PROVE QInv'
  BY <1>0, <1>2, StartQInv
<1>3. ASSUME NEW c \in Calls, NEW r \in {"ok", "error"}, Settle(c, r) \/ Return(c) PROVE QInv'
  BY <1>0, <1>3, SameQInv DEF Settle, Return, QInv, IInv, TypeOK, Accepted, Started
<1>4. CASE UNCHANGED vars
  BY <1>0, <1>4, SameQInv DEF vars, Accepted, Started
<1> QED BY <1>1, <1>2, <1>3, <1>4 DEF Next

(* What the queue and the holder of a session are. *)
QueueFacts ==
  \A s \in Sessions :
    /\ Served(s) \in 0 .. tickets[s] /\ ServedUpTo(s, Served(s))
    /\ \A n \in 0 .. tickets[s] : ServedUpTo(s, n) => n = Served(s)
    /\ QueueOf(s) \in Seq(Calls) /\ Len(QueueOf(s)) = tickets[s] - Served(s)
    /\ \A i \in 1 .. tickets[s] - Served(s) :
         /\ QueueOf(s)[i] \in Calls /\ sess[QueueOf(s)[i]] = s /\ Accepted(QueueOf(s)[i])
         /\ ticket[QueueOf(s)[i]] = Served(s) + i

HolderFacts ==
  \A s \in Sessions :
    /\ \A c \in Calls : sess[c] = s /\ pc[c] = "running" => HolderOf(s) = c
    /\ (\A c \in Calls : sess[c] = s => pc[c] # "running") => HolderOf(s) = None

LEMMA QueueIsKnown == QInv => QueueFacts
<1> SUFFICES ASSUME QInv, NEW s \in Sessions
             PROVE  /\ Served(s) \in 0 .. tickets[s] /\ ServedUpTo(s, Served(s))
                    /\ \A n \in 0 .. tickets[s] : ServedUpTo(s, n) => n = Served(s)
                    /\ QueueOf(s) \in Seq(Calls) /\ Len(QueueOf(s)) = tickets[s] - Served(s)
                    /\ \A i \in 1 .. tickets[s] - Served(s) :
                         /\ QueueOf(s)[i] \in Calls /\ sess[QueueOf(s)[i]] = s
                         /\ Accepted(QueueOf(s)[i]) /\ ticket[QueueOf(s)[i]] = Served(s) + i
  BY DEF QueueFacts
<1>0. tickets[s] \in Nat
  BY DEF QInv, IInv, TypeOK
<1>1. Served(s) \in 0 .. tickets[s] /\ ServedUpTo(s, Served(s))
  <2>1. PICK m \in 0 .. tickets[s] : ServedUpTo(s, m)
    BY DEF QInv, ServedInPart
  <2>2. \A c \in Calls : Started(c) => Accepted(c)
    BY DEF Started, Accepted
  <2>3. LastServed(s, m)
    <3>1. CASE m # 0
      <4>1. PICK c \in Calls : sess[c] = s /\ Accepted(c) /\ ticket[c] = m
        BY <1>0, <3>1 DEF QInv, Numbered
      <4>2. Started(c)
        BY <1>0, <2>1, <4>1 DEF ServedUpTo
      <4> QED BY <2>1, <2>2, <4>1, <4>2 DEF LastServed, ServedUpTo
    <3> QED BY <2>1, <2>2, <3>1 DEF LastServed, ServedUpTo
  <2>4. ASSUME NEW n \in 0 .. tickets[s], LastServed(s, n) PROVE n = m
    <3>1. CASE n < m
      BY <1>0, <2>3, <2>4, <3>1 DEF LastServed
    <3>2. CASE n > m
      BY <1>0, <2>3, <2>4, <3>2 DEF LastServed
    <3> QED BY <1>0, <3>1, <3>2
  <2>5. Served(s) = m
    BY <2>3, <2>4 DEF Served
  <2> QED BY <2>1, <2>5
<1>2. ASSUME NEW m \in 0 .. tickets[s], NEW n \in 0 .. tickets[s],
             ServedUpTo(s, m), ServedUpTo(s, n), m < n
      PROVE  FALSE
  <2>1. n \in 1 .. tickets[s]
    BY <1>0, <1>2
  <2>2. PICK c \in Calls : sess[c] = s /\ Accepted(c) /\ ticket[c] = n
    BY <2>1 DEF QInv, Numbered
  <2> QED BY <1>0, <1>2, <2>2 DEF ServedUpTo
<1>3. \A n \in 0 .. tickets[s] : ServedUpTo(s, n) => n = Served(s)
  BY <1>0, <1>1, <1>2
<1> DEFINE k == tickets[s] - Served(s)
<1>4. k \in Nat /\ \A i \in 1 .. k : Served(s) + i \in 1 .. tickets[s]
  BY <1>0, <1>1
<1>5. QueueOf(s) = [i \in 1 .. k |->
                      CHOOSE c \in Calls : sess[c] = s /\ Accepted(c) /\ ticket[c] = Served(s) + i]
  BY DEF QueueOf
<1>6. ASSUME NEW i \in 1 .. k
      PROVE  /\ QueueOf(s)[i] \in Calls /\ sess[QueueOf(s)[i]] = s
             /\ Accepted(QueueOf(s)[i]) /\ ticket[QueueOf(s)[i]] = Served(s) + i
  <2>1. \E c \in Calls : sess[c] = s /\ Accepted(c) /\ ticket[c] = Served(s) + i
    BY <1>4 DEF QInv, Numbered
  <2>2. QueueOf(s)[i] = CHOOSE c \in Calls : sess[c] = s /\ Accepted(c) /\ ticket[c] = Served(s) + i
    BY <1>5
  <2> QED BY <2>1, <2>2
<1>7. QueueOf(s) \in Seq(Calls) /\ Len(QueueOf(s)) = k
  <2>1. QueueOf(s) = [i \in 1 .. k |-> QueueOf(s)[i]]
    BY <1>5
  <2>2. \A i \in 1 .. k : QueueOf(s)[i] \in Calls
    BY <1>6
  <2> HIDE DEF k
  <2>3. QueueOf(s) \in [1 .. k -> Calls]
    BY <2>1, <2>2
  <2> QED BY <1>4, <2>3
<1> QED BY <1>1, <1>3, <1>6, <1>7

LEMMA HolderIsKnown == QInv => HolderFacts
<1> SUFFICES ASSUME QInv, NEW s \in Sessions
             PROVE  /\ \A c \in Calls : sess[c] = s /\ pc[c] = "running" => HolderOf(s) = c
                    /\ (\A c \in Calls : sess[c] = s => pc[c] # "running") => HolderOf(s) = None
  BY DEF HolderFacts
<1>1. MutualExclusion
  BY IInvExcludes DEF QInv
<1> DEFINE open == {c \in Calls : sess[c] = s /\ pc[c] = "running"}
<1>2. ASSUME NEW c \in Calls, sess[c] = s, pc[c] = "running" PROVE HolderOf(s) = c
  <2>1. \A d \in open : d = c
    BY <1>1, <1>2 DEF MutualExclusion
  <2>2. c \in open /\ open # {}
    BY <1>2
  <2>3. HolderOf(s) = CHOOSE d \in open : TRUE
    BY <2>2 DEF HolderOf
  <2>4. (CHOOSE d \in open : TRUE) \in open
    BY <2>2
  <2> QED BY <2>1, <2>3, <2>4
<1>3. ASSUME \A c \in Calls : sess[c] = s => pc[c] # "running" PROVE HolderOf(s) = None
  BY <1>3 DEF HolderOf
<1> QED BY <1>2, <1>3

(* Both sides of a step, for the lemmas below. *)
Known == QInv /\ QInv' /\ QueueFacts /\ QueueFacts' /\ HolderFacts /\ HolderFacts' /\ sess' = sess

LEMMA StepIsKnown == QInv /\ [Next]_vars => Known
<1>1. QInv /\ [Next]_vars => sess' = sess
  BY DEF Next, CallFromOutside, CallNested, CallDetached, Enter, Start, Settle, Return, vars
<1> QED BY <1>1, NextQInv, QueueIsKnown, HolderIsKnown, PTL DEF Known

(* A session whose calls stand where they stood. *)
SameCalls(s) ==
  /\ tickets'[s] = tickets[s]
  /\ \A c \in Calls : sess[c] = s =>
       /\ Accepted(c)' <=> Accepted(c)
       /\ Started(c)' <=> Started(c)
       /\ ticket'[c] = ticket[c]

LEMMA SameQueue ==
  ASSUME Known, NEW s \in Sessions, SameCalls(s)
  PROVE  QueueOf(s)' = QueueOf(s)
<1>0. tickets[s] \in Nat /\ tickets'[s] = tickets[s]
  BY DEF Known, QInv, IInv, TypeOK, SameCalls
<1>1. PICK n \in 0 .. tickets[s] : n = Served(s)
  BY DEF Known, QueueFacts
<1>2. ServedUpTo(s, n)
  BY <1>1 DEF Known, QueueFacts
<1>3. ServedUpTo(s, n)'
  BY <1>2 DEF Known, SameCalls, ServedUpTo
<1>4. Served(s)' = n
  BY <1>0, <1>3 DEF Known, QueueFacts
<1> DEFINE k == tickets[s] - n
<1>5. /\ k \in Nat
      /\ QueueOf(s) \in Seq(Calls) /\ Len(QueueOf(s)) = k
      /\ QueueOf(s)' \in Seq(Calls) /\ Len(QueueOf(s)') = k
  BY <1>0, <1>1, <1>4 DEF Known, QueueFacts
<1>6. ASSUME NEW i \in 1 .. k PROVE QueueOf(s)'[i] = QueueOf(s)[i]
  <2>1. PICK d \in Calls : d = QueueOf(s)[i] /\ sess[d] = s /\ Accepted(d) /\ ticket[d] = n + i
    BY <1>1 DEF Known, QueueFacts
  <2>2. PICK e \in Calls : e = QueueOf(s)'[i] /\ sess[e] = s /\ Accepted(e)' /\ ticket'[e] = n + i
    <3>1. i \in 1 .. tickets'[s] - Served(s)'
      BY <1>0, <1>4
    <3>2. /\ QueueOf(s)'[i] \in Calls /\ sess'[QueueOf(s)'[i]] = s
          /\ pc'[QueueOf(s)'[i]] \in {"waiting", "running", "settled", "returned"}
          /\ ticket'[QueueOf(s)'[i]] = Served(s)' + i
      BY <3>1 DEF Known, QueueFacts, Accepted
    <3> QED BY <1>4, <3>2 DEF Known, Accepted
  <2>3. Accepted(e) /\ ticket[e] = n + i
    BY <2>2 DEF SameCalls
  <2>4. d = e
    BY <2>1, <2>2, <2>3 DEF Known, QInv, IInv, TicketsDistinct
  <2> QED BY <2>1, <2>2, <2>4
<1> HIDE DEF k
<1> QED BY <1>5, <1>6, SeqEqual

LEMMA SameHolder ==
  ASSUME Known, NEW s \in Sessions,
         \A c \in Calls : sess[c] = s => (pc'[c] = "running" <=> pc[c] = "running")
  PROVE  HolderOf(s)' = HolderOf(s)
<1>1. CASE \E c \in Calls : sess[c] = s /\ pc[c] = "running"
  <2>1. PICK c \in Calls : sess[c] = s /\ pc[c] = "running"
    BY <1>1
  <2> QED BY <2>1 DEF Known, HolderFacts
<1>2. CASE \A c \in Calls : sess[c] = s => pc[c] # "running"
  BY <1>2 DEF Known, HolderFacts
<1> QED BY <1>1, <1>2

(* A step changes the queue and the holder of one session at most. *)
OthersRest(s) ==
  \A t \in Sessions : t # s => QueueOf(t)' = QueueOf(t) /\ HolderOf(t)' = HolderOf(t)

LEMMA OthersStay ==
  ASSUME Known, NEW c \in Calls,
         \A t \in Sessions : t # sess[c] => tickets'[t] = tickets[t],
         \A d \in Calls : d # c => pc'[d] = pc[d] /\ ticket'[d] = ticket[d]
  PROVE  OthersRest(sess[c])
<1> SUFFICES ASSUME NEW t \in Sessions, t # sess[c]
             PROVE  QueueOf(t)' = QueueOf(t) /\ HolderOf(t)' = HolderOf(t)
  BY DEF OthersRest
<1>1. SameCalls(t)
  BY DEF SameCalls, Accepted, Started
<1>2. \A d \in Calls : sess[d] = t => (pc'[d] = "running" <=> pc[d] = "running")
  OBVIOUS
<1> QED BY <1>1, <1>2, SameQueue, SameHolder

(* Who is called while another is served, or waits, goes to the end.       *)
LEMMA EnterIsRequest ==
  ASSUME Known, NEW c \in Calls, NEW ctx, NEW suspended, Enter(c, ctx, suspended)
  PROVE  LET s == sess[c] IN
         /\ OthersRest(s)
         /\ \/ QueueOf(s)' = QueueOf(s) /\ HolderOf(s)' = HolderOf(s)
            \/ /\ HolderOf(s) = None /\ QueueOf(s) = << >>
               /\ HolderOf(s)' = c /\ QueueOf(s)' = QueueOf(s)
            \/ /\ c # HolderOf(s) /\ \A i \in 1 .. Len(QueueOf(s)) : QueueOf(s)[i] # c
               /\ QueueOf(s)' = Append(QueueOf(s), c) /\ HolderOf(s)' = HolderOf(s)
<1>1. PICK s \in Sessions : s = sess[c]
  BY DEF Known, QInv, IInv, TypeOK
<1>2. /\ tickets[s] \in Nat /\ pc[c] = "idle" /\ ~ Accepted(c) /\ c # None
      /\ \A d \in Calls : ticket[d] \in Nat
  BY ConstantsAssumption DEF Known, QInv, IInv, TypeOK, Enter, Accepted
<1>3. CASE s \in ctx
  <2>1. UNCHANGED <<ticket, tickets>> /\ pc' = [pc EXCEPT ![c] = "refused"]
    BY <1>1, <1>3 DEF Enter
  <2>2. SameCalls(s) /\ \A d \in Calls : pc'[d] = "running" <=> pc[d] = "running"
    BY <1>2, <2>1 DEF Known, QInv, IInv, TypeOK, SameCalls, Accepted, Started
  <2>3. QueueOf(s)' = QueueOf(s) /\ HolderOf(s)' = HolderOf(s)
    BY <2>2, SameQueue, SameHolder
  <2>4. OthersRest(s)
    BY <1>1, <2>1, OthersStay DEF Known, QInv, IInv, TypeOK
  <2> QED BY <1>1, <2>3, <2>4 DEF Known
<1>4. CASE s \notin ctx
  <2>1. /\ pc' = [pc EXCEPT ![c] = IF chain[s] = None THEN "running" ELSE "waiting"]
        /\ ticket' = [ticket EXCEPT ![c] = tickets[s] + 1]
        /\ tickets' = [tickets EXCEPT ![s] = tickets[s] + 1]
    BY <1>1, <1>4 DEF Enter
  <2>2. /\ \A d \in Calls : d # c => pc'[d] = pc[d] /\ ticket'[d] = ticket[d]
        /\ \A t \in Sessions : t # s => tickets'[t] = tickets[t]
        /\ tickets'[s] = tickets[s] + 1 /\ ticket'[c] = tickets[s] + 1
        /\ pc'[c] = IF chain[s] = None THEN "running" ELSE "waiting"
    BY <1>2, <2>1 DEF Known, QInv, IInv, TypeOK
  <2>3. OthersRest(s)
    BY <1>1, <2>2, OthersStay
  <2>4. \A d \in Calls : Accepted(d) /\ sess[d] = s => ticket[d] <= tickets[s] /\ d # c
    BY <1>2 DEF Known, QInv, IInv, TicketsDistinct
  <2>5. PICK n \in 0 .. tickets[s] : n = Served(s) /\ ServedUpTo(s, n)
    BY DEF Known, QueueFacts
  <2>6. CASE chain[s] = None
    <3>1. \A d \in Calls : Accepted(d) /\ sess[d] = s => Settled(d)
      BY <2>6 DEF Known, QInv, IInv, ChainIsNewest
    <3>2. \A d \in Calls : sess[d] = s => pc[d] # "running"
      BY <3>1 DEF Accepted, Settled
    <3>3. HolderOf(s) = None /\ HolderOf(s)' = c
      BY <1>1, <2>2, <2>6, <3>2 DEF Known, HolderFacts
    <3>4. PICK m \in Nat : m = tickets[s]
      BY <1>2
    <3>5. ServedUpTo(s, m)
      BY <1>2, <2>4, <3>1, <3>4 DEF ServedUpTo, Settled, Started
    <3>6. PICK k \in Nat : k = m + 1
      BY <3>4
    <3>7. ServedUpTo(s, k)'
      BY <1>2, <2>2, <2>4, <2>6, <3>1, <3>4, <3>6 DEF Known, ServedUpTo, Settled, Started, Accepted
    <3>8. Served(s) = m /\ Served(s)' = k
      BY <2>2, <3>4, <3>5, <3>6, <3>7 DEF Known, QueueFacts
    <3>9. /\ QueueOf(s) \in Seq(Calls) /\ Len(QueueOf(s)) = 0
          /\ QueueOf(s)' \in Seq(Calls) /\ Len(QueueOf(s)') = 0
      BY <2>2, <3>4, <3>6, <3>8 DEF Known, QueueFacts
    <3>10. QueueOf(s) = << >> /\ QueueOf(s)' = << >>
      BY <3>9
    <3> QED BY <1>1, <2>3, <3>3, <3>10 DEF Known
  <2>7. CASE chain[s] # None
    <3>1. HolderOf(s)' = HolderOf(s)
      BY <1>2, <2>2, <2>7, SameHolder
    <3>2. HolderOf(s) # c
      BY <1>2 DEF Known, HolderFacts
    <3>3. ServedUpTo(s, n)'
      BY <1>2, <2>2, <2>4, <2>5, <2>7 DEF Known, ServedUpTo, Started, Accepted
    <3>4. Served(s)' = n
      BY <1>2, <2>2, <3>3 DEF Known, QueueFacts
    <3> DEFINE k == tickets[s] - n
    <3>5. /\ k \in Nat /\ QueueOf(s) \in Seq(Calls) /\ Len(QueueOf(s)) = k
          /\ QueueOf(s)' \in Seq(Calls) /\ Len(QueueOf(s)') = k + 1
          /\ tickets'[s] - Served(s)' = k + 1
      BY <1>2, <2>2, <2>5, <3>4 DEF Known, QueueFacts
    <3>6. \A i \in 1 .. k : /\ QueueOf(s)[i] \in Calls /\ sess[QueueOf(s)[i]] = s
                            /\ Accepted(QueueOf(s)[i]) /\ ticket[QueueOf(s)[i]] = n + i
      BY <2>5 DEF Known, QueueFacts
    <3>7. \A i \in 1 .. k + 1 :
            /\ QueueOf(s)'[i] \in Calls /\ sess[QueueOf(s)'[i]] = s
            /\ pc'[QueueOf(s)'[i]] \in {"waiting", "running", "settled", "returned"}
            /\ ticket'[QueueOf(s)'[i]] = n + i
      BY <3>4, <3>5 DEF Known, QueueFacts, Accepted
    <3>8. n + (k + 1) = tickets[s] + 1
      BY <1>2
    <3> HIDE DEF k
    <3>9. \A i \in 1 .. k : QueueOf(s)[i] # c
      BY <2>4, <3>6
    <3>10. QueueOf(s)'[k + 1] = c
      <4>1. PICK d \in Calls : d = QueueOf(s)'[k + 1]
        BY <3>5, <3>7
      <4>2. sess[d] = s /\ Accepted(d)' /\ ticket'[d] = tickets[s] + 1
        BY <3>5, <3>7, <3>8, <4>1 DEF Accepted
      <4> QED BY <1>1, <1>2, <2>2, <2>4, <4>1, <4>2 DEF Accepted
    <3>11. ASSUME NEW i \in 1 .. k PROVE QueueOf(s)'[i] = QueueOf(s)[i]
      <4>1. PICK d \in Calls : d = QueueOf(s)[i] /\ sess[d] = s /\ Accepted(d) /\ ticket[d] = n + i
        BY <3>6
      <4>2. PICK e \in Calls : e = QueueOf(s)'[i]
        BY <3>5, <3>7
      <4>3. sess[e] = s /\ Accepted(e)' /\ ticket'[e] = n + i
        BY <3>5, <3>7, <4>2 DEF Accepted
      <4>4. n + i # tickets[s] + 1
        BY <1>2, <3>5, <3>8
      <4>5. e # c /\ Accepted(e) /\ ticket[e] = n + i
        BY <2>2, <4>3, <4>4 DEF Accepted
      <4>6. d = e
        BY <4>1, <4>3, <4>5 DEF Known, QInv, IInv, TicketsDistinct
      <4> QED BY <4>1, <4>2, <4>6
    <3>12. QueueOf(s)' = Append(QueueOf(s), c)
      <4>1. /\ Append(QueueOf(s), c) \in Seq(Calls) /\ Len(Append(QueueOf(s), c)) = k + 1
            /\ \A i \in 1 .. k : Append(QueueOf(s), c)[i] = QueueOf(s)[i]
            /\ Append(QueueOf(s), c)[k + 1] = c
        BY <3>5
      <4>2. \A i \in 1 .. k + 1 : QueueOf(s)'[i] = Append(QueueOf(s), c)[i]
        BY <3>5, <3>10, <3>11, <4>1
      <4> QED BY <3>5, <4>1, <4>2, SeqEqual
    <3> QED BY <1>1, <2>3, <3>1, <3>2, <3>5, <3>9, <3>12 DEF Known
  <2> QED BY <2>6, <2>7
<1> QED BY <1>3, <1>4

(* Who starts was first in the queue. *)
LEMMA StartIsServe ==
  ASSUME Known, NEW c \in Calls, Start(c)
  PROVE  LET s == sess[c] IN
         /\ OthersRest(s) /\ HolderOf(s) = None /\ HolderOf(s)' = c
         /\ QueueOf(s) # << >> /\ c = Head(QueueOf(s)) /\ QueueOf(s)' = Tail(QueueOf(s))
<1>1. PICK s \in Sessions : s = sess[c]
  BY DEF Known, QInv, IInv, TypeOK
<1>2. /\ tickets[s] \in Nat /\ pc[c] = "waiting" /\ pc'[c] = "running"
      /\ Accepted(c) /\ ticket[c] \in Nat /\ ticket[c] <= tickets[s]
      /\ \A d \in Calls : d # c => pc'[d] = pc[d]
      /\ UNCHANGED <<ticket, tickets>>
  BY <1>1 DEF Known, QInv, IInv, TypeOK, TicketsDistinct, Start, Accepted
<1>3. OthersRest(s)
  BY <1>1, <1>2, OthersStay
<1>4. \A d \in Calls : sess[d] = s => pc[d] # "running"
  <2> SUFFICES ASSUME NEW d \in Calls, sess[d] = s, pc[d] = "running" PROVE FALSE
    OBVIOUS
  <2>1. IInv' /\ pc'[d] = "running" /\ d # c
    BY <1>2 DEF Known, QInv
  <2>2. MutualExclusion'
    BY <2>1, IInvExcludes, PTL
  <2> QED BY <1>1, <1>2, <2>1, <2>2 DEF MutualExclusion, Known
<1>5. HolderOf(s) = None /\ HolderOf(s)' = c
  BY <1>1, <1>2, <1>4 DEF Known, HolderFacts
<1>6. PICK n \in 0 .. tickets[s] : n = Served(s) /\ ServedUpTo(s, n)
  BY DEF Known, QueueFacts
<1>7. PICK m \in Nat : m = n + 1
  OBVIOUS
<1>8. ticket[c] = m /\ ServedUpTo(s, m)'
  <2>1. QInv /\ IInv' /\ n \in Nat /\ ServedUpTo(sess[c], n)
    BY <1>1, <1>6 DEF Known, QInv
  <2>2. ticket[c] = n + 1 /\ ServedUpTo(sess[c], n + 1)'
    BY <2>1, StartQInv
  <2> QED BY <1>1, <1>7, <2>2 DEF Known, ServedUpTo
<1>9. Served(s)' = m /\ tickets'[s] = tickets[s]
  BY <1>2, <1>7, <1>8 DEF Known, QueueFacts
<1> DEFINE k == tickets[s] - n
<1>10. /\ k \in Nat /\ k >= 1 /\ tickets'[s] - Served(s)' = k - 1
       /\ QueueOf(s) \in Seq(Calls) /\ Len(QueueOf(s)) = k
       /\ QueueOf(s)' \in Seq(Calls) /\ Len(QueueOf(s)') = k - 1
  BY <1>2, <1>6, <1>7, <1>8, <1>9 DEF Known, QueueFacts
<1>11. \A i \in 1 .. k : /\ QueueOf(s)[i] \in Calls /\ sess[QueueOf(s)[i]] = s
                         /\ Accepted(QueueOf(s)[i]) /\ ticket[QueueOf(s)[i]] = n + i
  BY <1>6 DEF Known, QueueFacts
<1>12. \A i \in 1 .. k - 1 :
         /\ QueueOf(s)'[i] \in Calls /\ sess[QueueOf(s)'[i]] = s
         /\ pc'[QueueOf(s)'[i]] \in {"waiting", "running", "settled", "returned"}
         /\ ticket'[QueueOf(s)'[i]] = m + i
  BY <1>9, <1>10 DEF Known, QueueFacts, Accepted
<1> HIDE DEF k
<1>13. QueueOf(s) # << >> /\ QueueOf(s)[1] = c
  <2>1. PICK d \in Calls : d = QueueOf(s)[1] /\ sess[d] = s /\ Accepted(d) /\ ticket[d] = n + 1
    BY <1>10, <1>11
  <2>2. d = c
    BY <1>1, <1>2, <1>7, <1>8, <2>1 DEF Known, QInv, IInv, TicketsDistinct
  <2> QED BY <1>10, <2>1, <2>2
<1>14. ASSUME NEW i \in 1 .. k - 1 PROVE QueueOf(s)'[i] = QueueOf(s)[i + 1]
  <2>1. i + 1 \in 1 .. k /\ n + (i + 1) = m + i
    BY <1>7, <1>10
  <2>2. PICK d \in Calls : d = QueueOf(s)[i + 1] /\ sess[d] = s /\ Accepted(d) /\ ticket[d] = n + (i + 1)
    BY <1>11, <2>1
  <2>3. PICK e \in Calls : e = QueueOf(s)'[i]
    BY <1>12
  <2>4. sess[e] = s /\ Accepted(e)' /\ ticket'[e] = m + i
    BY <1>12, <2>3 DEF Accepted
  <2>5. Accepted(e) /\ ticket[e] = m + i
    BY <1>2, <2>4 DEF Accepted
  <2>6. d = e
    BY <2>1, <2>2, <2>4, <2>5 DEF Known, QInv, IInv, TicketsDistinct
  <2> QED BY <2>2, <2>3, <2>6
<1>15. QueueOf(s)' = Tail(QueueOf(s)) /\ Head(QueueOf(s)) = c
  <2>1. /\ Tail(QueueOf(s)) \in Seq(Calls) /\ Len(Tail(QueueOf(s))) = k - 1
        /\ \A i \in 1 .. k - 1 : Tail(QueueOf(s))[i] = QueueOf(s)[i + 1]
        /\ Head(QueueOf(s)) = QueueOf(s)[1]
    BY <1>10, <1>13, HeadTailProperties
  <2>2. QueueOf(s)' = Tail(QueueOf(s))
    BY <1>10, <1>14, <2>1, SeqEqual
  <2> QED BY <1>13, <2>1, <2>2
<1> QED BY <1>1, <1>3, <1>5, <1>13, <1>15 DEF Known

LEMMA SettleIsRelease ==
  ASSUME Known, NEW c \in Calls, NEW r, Settle(c, r)
  PROVE  LET s == sess[c] IN
         /\ OthersRest(s) /\ HolderOf(s) # None /\ HolderOf(s)' = None
         /\ QueueOf(s)' = QueueOf(s)
<1>1. PICK s \in Sessions : s = sess[c]
  BY DEF Known, QInv, IInv, TypeOK
<1>2. /\ pc[c] = "running" /\ pc'[c] = "settled" /\ c # None
      /\ \A d \in Calls : d # c => pc'[d] = pc[d]
      /\ UNCHANGED <<ticket, tickets>>
  BY ConstantsAssumption DEF Known, QInv, IInv, TypeOK, Settle
<1>3. OthersRest(s)
  BY <1>1, <1>2, OthersStay
<1>4. SameCalls(s)
  BY <1>2 DEF SameCalls, Accepted, Started
<1>5. QueueOf(s)' = QueueOf(s)
  BY <1>4, SameQueue
<1>6. HolderOf(s) = c
  BY <1>1, <1>2 DEF Known, HolderFacts
<1>7. \A d \in Calls : sess[d] = s => pc'[d] # "running"
  <2>1. MutualExclusion
    BY IInvExcludes DEF Known, QInv
  <2> QED BY <1>1, <1>2, <2>1 DEF MutualExclusion
<1>8. HolderOf(s)' = None
  BY <1>7 DEF Known, HolderFacts
<1> QED BY <1>1, <1>2, <1>3, <1>5, <1>6, <1>8 DEF Known

LEMMA RestIsStutter ==
  ASSUME Known, (\E c \in Calls : Return(c)) \/ UNCHANGED vars, NEW s \in Sessions
  PROVE  QueueOf(s)' = QueueOf(s) /\ HolderOf(s)' = HolderOf(s)
<1>1. /\ UNCHANGED <<ticket, tickets>>
      /\ \A d \in Calls : \/ pc'[d] = pc[d]
                          \/ pc[d] = "settled" /\ pc'[d] = "returned"
  BY DEF Return, vars, Known, QInv, IInv, TypeOK
<1>2. SameCalls(s) /\ \A d \in Calls : pc'[d] = "running" <=> pc[d] = "running"
  BY <1>1 DEF SameCalls, Accepted, Started
<1> QED BY <1>2, SameQueue, SameHolder

(* Up to the promise that everybody is served, the chain is the mutex:     *)
(* calls are queued in the order in which they are made, the first one is  *)
(* served when nobody is, and nobody else gets in.                         *)
THEOREM ChainIsMutex == Spec => Mutex!MutexSafe
<1> DEFINE queue == [s \in Sessions |-> QueueOf(s)]
           holder == [s \in Sessions |-> HolderOf(s)]
<1>1. Init => Mutex!MutexInit
  <2> SUFFICES ASSUME Init, NEW s \in Sessions PROVE QueueOf(s) = << >> /\ HolderOf(s) = None
    BY DEF Mutex!MutexInit
  <2>1. QueueFacts /\ HolderFacts
    BY InitQInv, QueueIsKnown, HolderIsKnown
  <2>2. tickets[s] = 0 /\ \A c \in Calls : pc[c] # "running"
    BY DEF Init
  <2>3. QueueOf(s) \in Seq(Calls) /\ Len(QueueOf(s)) = 0
    BY <2>1, <2>2 DEF QueueFacts
  <2> QED BY <2>1, <2>2, <2>3 DEF HolderFacts
<1>2. ASSUME QInv, [Next]_vars PROVE [Mutex!MutexNext]_<<queue, holder>>
  <2>0. Known
    BY <1>2, StepIsKnown
  <2>1. ASSUME NEW c \in Calls, NEW ctx, NEW suspended, Enter(c, ctx, suspended)
        PROVE  [Mutex!MutexNext]_<<queue, holder>>
    <3>1. PICK s \in Sessions : s = sess[c]
      BY <2>0 DEF Known, QInv, IInv, TypeOK
    <3>2. /\ OthersRest(s)
          /\ \/ QueueOf(s)' = QueueOf(s) /\ HolderOf(s)' = HolderOf(s)
             \/ /\ HolderOf(s) = None /\ QueueOf(s) = << >>
                /\ HolderOf(s)' = c /\ QueueOf(s)' = QueueOf(s)
             \/ /\ c # HolderOf(s) /\ \A i \in 1 .. Len(QueueOf(s)) : QueueOf(s)[i] # c
                /\ QueueOf(s)' = Append(QueueOf(s), c) /\ HolderOf(s)' = HolderOf(s)
      BY <2>0, <2>1, <3>1, EnterIsRequest DEF Known
    <3>3. UNCHANGED <<queue, holder>> \/ Mutex!RequestFree(c, s) \/ Mutex!Request(c, s)
      BY <3>2 DEF OthersRest, Mutex!RequestFree, Mutex!Request
    <3> QED BY <3>3 DEF Mutex!MutexNext
  <2>2. ASSUME NEW c \in Calls, Start(c) PROVE [Mutex!MutexNext]_<<queue, holder>>
    <3>1. PICK s \in Sessions : s = sess[c]
      BY <2>0 DEF Known, QInv, IInv, TypeOK
    <3>2. /\ OthersRest(s) /\ HolderOf(s) = None /\ HolderOf(s)' = c
          /\ QueueOf(s) # << >> /\ c = Head(QueueOf(s)) /\ QueueOf(s)' = Tail(QueueOf(s))
      BY <2>0, <2>2, <3>1, StartIsServe DEF Known
    <3>3. Mutex!Serve(s)
      BY <3>2 DEF OthersRest, Mutex!Serve
    <3> QED BY <3>3 DEF Mutex!MutexNext
  <2>3. ASSUME NEW c \in Calls, NEW r, Settle(c, r) PROVE [Mutex!MutexNext]_<<queue, holder>>
    <3>1. PICK s \in Sessions : s = sess[c]
      BY <2>0 DEF Known, QInv, IInv, TypeOK
    <3>2. /\ OthersRest(s) /\ HolderOf(s) # None /\ HolderOf(s)' = None
          /\ QueueOf(s)' = QueueOf(s)
      BY <2>0, <2>3, <3>1, SettleIsRelease DEF Known
    <3>3. Mutex!Release(s)
      BY <3>2 DEF OthersRest, Mutex!Release
    <3> QED BY <3>3 DEF Mutex!MutexNext
  <2>4. ASSUME (\E c \in Calls : Return(c)) \/ UNCHANGED vars PROVE [Mutex!MutexNext]_<<queue, holder>>
    <3>1. UNCHANGED <<queue, holder>>
      BY <2>0, <2>4, RestIsStutter
    <3> QED BY <3>1
  <2> HIDE DEF queue, holder
  <2> QED BY <1>2, <2>1, <2>2, <2>3, <2>4 DEF Next, CallFromOutside, CallNested, CallDetached
<1>3. QInv /\ [Next]_vars => [Mutex!MutexNext]_<<queue, holder>>
  BY <1>2
<1> QED BY <1>1, <1>3, InitQInv, NextQInv, PTL DEF Spec, Mutex!MutexSafe, Mutex!mutexVars
=============================================================================
