------------------------------ MODULE Breaker -------------------------------
(***************************************************************************)
(* The circuit breaker of _examples/circuit-breaker-playground: requests   *)
(* of plt pass through a gobreaker.TwoStepCircuitBreaker, whose decision   *)
(* to open is delayed by the ReadyToTrip of delayedSettings.  Calls are    *)
(* counted by what is left to happen to them; durations are left out: a    *)
(* timer may fire at any moment after it was set.                          *)
(***************************************************************************)
EXTENDS Integers

CONSTANTS
  Concurrency,          \* jobs that plt runs at once
  requestsThreshold,    \* 100 in the code
  ErrorRatio,           \* 1 / errorThreshold: 100
  MaxRequests,          \* 1000
  MaxCount              \* bound of the model: calls within one generation

ASSUME BreakerAssumption ==
  /\ Concurrency \in Nat \ {0}
  /\ requestsThreshold \in Nat /\ ErrorRatio \in Nat \ {0}
  /\ ErrorRatio <= requestsThreshold
  /\ MaxRequests \in Nat \ {0} /\ MaxCount \in Nat
  /\ MaxRequests <= MaxCount

VARIABLES
  state, requests, failures, successes,   \* of the breaker; its Counts
  quick, slow,      \* calls of this generation, by how the server treats them
  outdated,         \* calls of earlier generations
  preOpenStart,     \* of the delay: never set, set, or set long enough ago
  setIn,            \* the generation it was set in: this or an earlier one
  server            \* healthy if maxResp is below requestTimeout, else slow

counts == <<requests, failures, successes>>
calls == <<quick, slow, outdated>>
delay == <<preOpenStart, setIn>>
vars == <<state, counts, calls, delay, server>>

Healthy == server = "healthy"

Init ==
  /\ state = "closed"
  /\ requests = 0 /\ failures = 0 /\ successes = 0
  /\ quick = 0 /\ slow = 0 /\ outdated = 0
  /\ preOpenStart = "zero" /\ setIn = "this"
  /\ server = "slow"

\* A change of state, or the end of the interval: the counts are cleared, and what
\* comes back of the calls under way, all but those that returned, is ignored.
NewGeneration(s, returned) ==
  /\ state' = s
  /\ requests' = 0 /\ failures' = 0 /\ successes' = 0
  /\ quick' = 0 /\ slow' = 0 /\ outdated' = outdated + quick + slow - returned
  /\ setIn' = (IF preOpenStart = "zero" THEN "this" ELSE "earlier")
  /\ UNCHANGED <<preOpenStart, server>>

-----------------------------------------------------------------------------
(* A request: Allow, RoundTrip with its timeout, done.                     *)

\* Calls that are let through.  Any other is rejected and leaves no trace.
Admitted ==
  \/ state = "closed" /\ requests < MaxCount
  \/ state = "half-open" /\ requests < MaxRequests

\* The server takes too long for some of the calls, unless it is healthy.
Allow ==
  /\ quick + slow + outdated < Concurrency
  /\ Admitted
  /\ requests' = requests + 1
  /\ \/ quick' = quick + 1 /\ UNCHANGED slow
     \/ ~Healthy /\ slow' = slow + 1 /\ UNCHANGED quick
  /\ UNCHANGED <<state, failures, successes, outdated, delay, server>>

\* Faulty variant of Enough: one request less.
EnoughAt(n) == n >= requestsThreshold

Enough(n) == n > requestsThreshold

\* ReadyToTrip: the next value of the delay for a failure that is counted, and
\* whether the breaker opens.
Reached == Enough(requests) /\ (failures + 1) * ErrorRatio >= requests
Opens == Reached /\ preOpenStart = "elapsed"

Delay ==
  IF Reached
    THEN /\ preOpenStart' = (IF preOpenStart = "zero" THEN "set" ELSE preOpenStart)
         /\ UNCHANGED setIn
    ELSE preOpenStart' = "zero" /\ setIn' = "this"

\* The context of the request expires: done(false).
TimeOut ==
  /\ slow > 0
  /\ IF state = "half-open" \/ Opens
       THEN NewGeneration("open", 1)
       ELSE /\ slow' = slow - 1 /\ failures' = failures + 1
            /\ Delay
            /\ UNCHANGED <<state, requests, successes, quick, outdated, server>>

\* Faulty variant of Respond: done is called for an error only.
RespondSilent ==
  /\ quick > 0 /\ quick' = quick - 1
  /\ UNCHANGED <<state, counts, slow, outdated, delay, server>>

\* The response arrives in time: done(true).
Respond ==
  /\ quick > 0
  /\ IF state = "half-open" /\ successes + 1 >= MaxRequests
       THEN NewGeneration("closed", 1)
       ELSE /\ quick' = quick - 1 /\ successes' = successes + 1
            /\ UNCHANGED <<state, requests, failures, slow, outdated, delay, server>>

\* Faulty variant of ReturnOutdated: a late success counts for this generation.
ReturnOutdatedCounted ==
  /\ outdated > 0 /\ outdated' = outdated - 1
  /\ successes' = successes + 1
  /\ UNCHANGED <<state, requests, failures, quick, slow, delay, server>>

\* done for a call that was let through in an earlier generation.
ReturnOutdated ==
  /\ outdated > 0 /\ outdated' = outdated - 1
  /\ UNCHANGED <<state, counts, quick, slow, delay, server>>

-----------------------------------------------------------------------------
(* Time and the user.                                                      *)

\* delayedOpenDuration.
DelayElapses ==
  /\ preOpenStart = "set" /\ preOpenStart' = "elapsed"
  /\ UNCHANGED <<state, counts, calls, setIn, server>>

\* Interval and Timeout of the settings; the breaker notices with the next call.
IntervalEnds == state = "closed" /\ NewGeneration("closed", 0)
TimeoutEnds == state = "open" /\ NewGeneration("half-open", 0)

\* <Up> and <Down> change maxResp.
Key ==
  /\ server' = (IF Healthy THEN "slow" ELSE "healthy")
  /\ UNCHANGED <<state, counts, calls, delay>>

Next ==
  \/ Allow \/ TimeOut \/ Respond \/ ReturnOutdated
  \/ DelayElapses \/ IntervalEnds \/ TimeoutEnds \/ Key

\* Jobs go on, calls return, and timers fire; the user need not do anything.
Fairness ==
  /\ WF_vars(Allow) /\ WF_vars(TimeOut) /\ WF_vars(Respond) /\ WF_vars(ReturnOutdated)
  /\ WF_vars(IntervalEnds) /\ WF_vars(TimeoutEnds)

Spec == Init /\ [][Next]_vars
FairSpec == Spec /\ Fairness

-----------------------------------------------------------------------------
(* Properties.                                                             *)

\* The calls under way are calls of the jobs.
TypeOK ==
  /\ state \in {"closed", "open", "half-open"}
  /\ requests \in 0 .. MaxCount /\ failures \in Nat /\ successes \in Nat
  /\ quick \in Nat /\ slow \in Nat /\ outdated \in Nat
  /\ quick + slow + outdated <= Concurrency
  /\ preOpenStart \in {"zero", "set", "elapsed"}
  /\ setIn \in {"this", "earlier"} /\ server \in {"healthy", "slow"}

\* A half-open breaker that lets nobody through waits for a call that will decide
\* what becomes of it: it cannot stay half-open for ever, whichever calls of this
\* and of earlier generations return, and in whichever order.
HalfOpenDecides ==
  state = "half-open" /\ ~Admitted => quick + slow > 0

\* A half-open breaker closes when as many calls as it lets through have all come
\* back in time, the last one just now: a call of an earlier generation that returns
\* late does not stand for one of them.
ClosesWhenAllSucceeded ==
  [][state = "half-open" /\ state' = "closed"
       => requests = MaxRequests /\ quick = 1 /\ slow = 0 /\ failures = 0]_vars

\* The breaker opens on a delay that began in the same generation: one left over
\* from before it opened last, or before the interval ended, is dropped in time,
\* although nothing but a failure calls ReadyToTrip to drop it.
OpensAfterOwnDelay ==
  [][state = "closed" /\ state' = "open" => preOpenStart = "elapsed" /\ setIn = "this"]_vars

\* Once the server is healthy for good, the breaker closes for good.
Recovers == <>[]Healthy => <>[](state = "closed")
=============================================================================
