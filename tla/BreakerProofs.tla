--------------------------- MODULE BreakerProofs ----------------------------
(***************************************************************************)
(* Theorems about Breaker, for every number of jobs and every setting with *)
(* ErrorRatio <= requestsThreshold.                                        *)
(***************************************************************************)
EXTENDS Breaker, TLAPS

\* Every call of this generation was answered or is under way, and a delay is only
\* older than the generation while the generation has no failure.
Counted ==
  /\ state # "open" => requests = successes + failures + quick + slow
  /\ state = "open" => quick = 0 /\ slow = 0
  /\ state = "half-open" =>
       failures = 0 /\ successes < MaxRequests /\ requests <= MaxRequests
  /\ setIn = "earlier" => failures = 0

IInv == TypeOK /\ Counted

\* What a new generation does to the invariant, for a call that returned or none.
LEMMA NewGenerationKeeps ==
  ASSUME IInv, NEW s \in {"closed", "open", "half-open"}, NEW returned \in {0, 1},
         returned <= quick + slow, NewGeneration(s, returned)
  PROVE  IInv'
  BY BreakerAssumption DEF IInv, TypeOK, Counted, NewGeneration

LEMMA InitIInv == Init => IInv
  BY BreakerAssumption DEF Init, IInv, TypeOK, Counted

\* A first failure does not reach the threshold, so that the delay is dropped.
LEMMA FirstFailureDrops ==
  ASSUME IInv, state = "closed", failures = 0
  PROVE  ~Reached
<1>1. requests \in Nat /\ ErrorRatio \in Nat /\ requestsThreshold \in Nat
  BY BreakerAssumption DEF IInv, TypeOK
<1>2. (failures + 1) * ErrorRatio = ErrorRatio
  BY <1>1
<1>3. SUFFICES ASSUME requests > requestsThreshold, ErrorRatio >= requests
               PROVE  FALSE
  BY <1>2 DEF Reached, Enough
<1> QED
  BY <1>1, <1>3, BreakerAssumption

LEMMA NextIInv == IInv /\ [Next]_vars => IInv'
<1> SUFFICES ASSUME IInv, [Next]_vars PROVE IInv'
  OBVIOUS
<1>1. CASE Allow
  BY <1>1, BreakerAssumption
  DEF IInv, TypeOK, Counted, Allow, Admitted, delay
<1>2. CASE TimeOut
  <2>1. CASE state = "half-open" \/ Opens
    BY <1>2, <2>1, NewGenerationKeeps DEF TimeOut, IInv, TypeOK
  <2>2. CASE ~(state = "half-open" \/ Opens)
    <3>1. /\ slow > 0 /\ slow' = slow - 1 /\ failures' = failures + 1
          /\ Delay
          /\ UNCHANGED <<state, requests, successes, quick, outdated, server>>
      BY <1>2, <2>2 DEF TimeOut
    <3>2. state = "closed"
      BY <2>2, <3>1 DEF IInv, TypeOK, Counted
    <3>3. TypeOK'
      BY <3>1, BreakerAssumption DEF Delay, IInv, TypeOK
    <3>4. setIn' = "earlier" => failures' = 0
      <4>1. CASE failures = 0
        BY <3>1, <3>2, <4>1, FirstFailureDrops DEF Delay
      <4>2. CASE failures # 0
        BY <3>1, <4>2 DEF Delay, IInv, Counted
      <4> QED BY <4>1, <4>2
    <3>5. Counted'
      BY <3>1, <3>2, <3>4 DEF IInv, TypeOK, Counted
    <3> QED BY <3>3, <3>5 DEF IInv
  <2> QED BY <2>1, <2>2
<1>3. CASE Respond
  <2>1. CASE state = "half-open" /\ successes + 1 >= MaxRequests
    BY <1>3, <2>1, NewGenerationKeeps DEF Respond, IInv, TypeOK
  <2>2. CASE ~(state = "half-open" /\ successes + 1 >= MaxRequests)
    <3>1. /\ quick > 0 /\ quick' = quick - 1 /\ successes' = successes + 1
          /\ UNCHANGED <<state, requests, failures, slow, outdated, delay, server>>
      BY <1>3, <2>2 DEF Respond
    <3>2. TypeOK'
      BY <3>1, BreakerAssumption DEF delay, IInv, TypeOK
    <3>3. state = "half-open" => successes' < MaxRequests
      BY <2>2, <3>1, BreakerAssumption DEF IInv, TypeOK
    <3>4. Counted'
      BY <3>1, <3>3 DEF delay, IInv, TypeOK, Counted
    <3> QED BY <3>2, <3>4 DEF IInv
  <2> QED BY <2>1, <2>2
<1>4. CASE ReturnOutdated
  BY <1>4, BreakerAssumption DEF ReturnOutdated, IInv, TypeOK, Counted, counts, delay
<1>5. CASE DelayElapses
  BY <1>5 DEF DelayElapses, IInv, TypeOK, Counted, counts, calls
<1>6. CASE IntervalEnds
  BY <1>6, NewGenerationKeeps DEF IntervalEnds, IInv, TypeOK
<1>7. CASE TimeoutEnds
  BY <1>7, NewGenerationKeeps DEF TimeoutEnds, IInv, TypeOK
<1>8. CASE Key
  BY <1>8 DEF Key, IInv, TypeOK, Counted, counts, calls, delay
<1>9. CASE UNCHANGED vars
  BY <1>9 DEF vars, IInv, TypeOK, Counted, counts, calls, delay
<1> QED
  BY <1>1, <1>2, <1>3, <1>4, <1>5, <1>6, <1>7, <1>8, <1>9 DEF Next

\* The invariant that the theorems below rest on.
LEMMA Invariant == Spec => []IInv
  BY InitIInv, NextIInv, PTL DEF Spec

\* The variables keep their types, and there are never more calls than jobs.
THEOREM BreakerTypeCorrect == Spec => []TypeOK
<1>1. IInv => TypeOK
  BY DEF IInv
<1> QED BY <1>1, Invariant, PTL

\* A half-open breaker never turns calls away while it waits for none.
THEOREM Half_Open_Decides == Spec => []HalfOpenDecides
<1>1. IInv => HalfOpenDecides
  BY BreakerAssumption DEF IInv, TypeOK, Counted, HalfOpenDecides, Admitted
<1> QED BY <1>1, Invariant, PTL

\* A half-open breaker closes only when all calls that it lets through succeeded,
\* whatever comes back late.
THEOREM Closes_When_All_Succeeded == Spec => ClosesWhenAllSucceeded
<1>1. IInv /\ [Next]_vars
        => [state = "half-open" /\ state' = "closed"
              => requests = MaxRequests /\ quick = 1 /\ slow = 0 /\ failures = 0]_vars
  <2> SUFFICES ASSUME IInv, Next, state = "half-open", state' = "closed"
               PROVE  requests = MaxRequests /\ quick = 1 /\ slow = 0 /\ failures = 0
    OBVIOUS
  <2>1. Respond
    <3>1. ~Allow /\ ~ReturnOutdated /\ ~DelayElapses /\ ~Key
      BY DEF Allow, ReturnOutdated, DelayElapses, Key
    <3>2. ~IntervalEnds /\ ~TimeoutEnds /\ ~TimeOut
      BY DEF IntervalEnds, TimeoutEnds, TimeOut, NewGeneration
    <3> QED BY <3>1, <3>2 DEF Next
  <2>2. quick > 0 /\ successes + 1 >= MaxRequests
    BY <2>1 DEF Respond
  <2> QED
    BY <2>2, BreakerAssumption DEF IInv, TypeOK, Counted
<1> QED BY <1>1, Invariant, PTL DEF Spec, ClosesWhenAllSucceeded

\* The breaker never opens on a delay of an earlier generation.
THEOREM Opens_After_Own_Delay == Spec => OpensAfterOwnDelay
<1>1. IInv /\ [Next]_vars
        => [state = "closed" /\ state' = "open"
              => preOpenStart = "elapsed" /\ setIn = "this"]_vars
  <2> SUFFICES ASSUME IInv, Next, state = "closed", state' = "open"
               PROVE  preOpenStart = "elapsed" /\ setIn = "this"
    OBVIOUS
  <2>1. TimeOut
    <3>1. ~Allow /\ ~ReturnOutdated /\ ~DelayElapses /\ ~Key
      BY DEF Allow, ReturnOutdated, DelayElapses, Key
    <3>2. ~IntervalEnds /\ ~TimeoutEnds /\ ~Respond
      BY DEF IntervalEnds, TimeoutEnds, Respond, NewGeneration
    <3> QED BY <3>1, <3>2 DEF Next
  <2>2. Opens
    BY <2>1 DEF TimeOut
  <2>3. failures # 0
    BY <2>2, FirstFailureDrops DEF Opens
  <2>4. setIn = "this"
    BY <2>3 DEF IInv, TypeOK, Counted
  <2> QED BY <2>2, <2>4 DEF Opens
<1> QED BY <1>1, Invariant, PTL DEF Spec, OpensAfterOwnDelay
=============================================================================
