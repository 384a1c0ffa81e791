---------------------------- MODULE RunnerProofs ----------------------------
(***************************************************************************)
(* Theorems about Runner, for every value of its constants.                *)
(***************************************************************************)
EXTENDS Runner, FiniteSetTheorems, TLAPS

(* What the constants and the operators on them are.                       *)

\* Numbers of the run that newRunner derives from the flags.
LEMMA Constants ==
  /\ n \in Nat \ {0}
  /\ MaxConcurrency \in Nat \ {0} /\ StepDivisor \in Nat \ {0}
  /\ InitialLimit \in Nat \ {0}
  /\ Prefilled \in 0 .. MaxConcurrency
  /\ Excess \in Nat
  /\ RateLimit \in Int
  /\ MaxRate \in Nat
BY RunnerAssumption DEF RunnerAssumption, n, InitialLimit, Prefilled, Excess

\* A key changes a limit that is not negative by at least one.
LEMMA DeltaType ==
  ASSUME NEW lim \in Int
  PROVE  /\ Delta(lim) \in Int
         /\ lim >= 0 => Delta(lim) > 0
BY Constants, SMT DEF Delta

-----------------------------------------------------------------------------
(* Type correctness.  One lemma per goroutine.                             *)

\* The fields that report prints keep their types.
LEMMA ReportsUpdate ==
  ASSUME NEW r \in Reports, NEW k \in Nat, NEW m \in Nat,
         NEW e \in {"nil", "job", "limiter"}
  PROVE  /\ [r EXCEPT !.succeeded = k] \in Reports
         /\ [r EXCEPT !.failed = k] \in Reports
         /\ [r EXCEPT !.cause = e] \in Reports
         /\ [r EXCEPT !.samples = k, !.slow = m] \in Reports
BY DEF Reports

\* The statements of Run and report keep the types.
LEMMA MainType == TypeOK /\ Main => TypeOK'
<1> SUFFICES ASSUME TypeOK, Main PROVE TypeOK'
  OBVIOUS
<1> USE Constants DEF TypeOK, Jobs, Stages, Looping, Reporting, Ended, notMain,
    rateVars, errVars, statVars, stopVars, pollVars, uiVars, envVars
<1>1. CASE Fetch
  BY <1>1 DEF Fetch
<1>2. CASE Wait
  BY <1>2 DEF Wait
<1>3. CASE Acquire
  BY <1>3 DEF Acquire
<1>4. CASE Check
  BY <1>4 DEF Check
<1>5. CASE DrainTest
  BY <1>5 DEF DrainTest
<1>6. CASE Fill
  BY <1>6 DEF Fill
<1>7. CASE ReportCount
  <2>1. reported' \in Reports
    BY <1>7, ReportsUpdate DEF ReportCount
  <2> QED
    BY <1>7, <2>1 DEF ReportCount
<1>8. CASE ReportErrors
  <2>1. CASE mainPc' = "panic"
    BY <1>8, <2>1 DEF ReportErrors
  <2>2. CASE mainPc' # "panic"
    <3>1. reported' = [reported EXCEPT !.failed = errCnt]
      BY <1>8, <2>2 DEF ReportErrors
    <3>2. reported' \in Reports
      BY <3>1, ReportsUpdate
    <3>3. mainPc' = "reportOutcome"
      BY <1>8, <2>2 DEF ReportErrors
    <3> QED
      BY <1>8, <3>2, <3>3 DEF ReportErrors
  <2> QED
    BY <2>1, <2>2
<1>9. CASE ReportOutcome
  <2>1. CASE mainPc' = "reportStats"
    BY <1>9, <2>1 DEF ReportOutcome
  <2>2. CASE mainPc' # "reportStats"
    <3>1. reported' = [reported EXCEPT !.cause = lastErr]
      BY <1>9, <2>2 DEF ReportOutcome
    <3>2. reported' \in Reports
      BY <3>1, ReportsUpdate
    <3>3. mainPc' = "failed"
      BY <1>9, <2>2 DEF ReportOutcome
    <3> QED
      BY <1>9, <3>2, <3>3 DEF ReportOutcome
  <2> QED
    BY <2>1, <2>2
<1>10. CASE ReportStats
  <2>1. reported' \in Reports
    BY <1>10, ReportsUpdate DEF ReportStats
  <2> QED
    BY <1>10, <2>1 DEF ReportStats
<1> QED
  BY <1>1, <1>2, <1>3, <1>4, <1>5, <1>6, <1>7, <1>8, <1>9,
     <1>10 DEF Main

\* The goroutine of a job keeps the types.
LEMMA JobType == ASSUME NEW j \in Jobs PROVE TypeOK /\ Job(j) => TypeOK'
<1> SUFFICES ASSUME TypeOK, Job(j) PROVE TypeOK'
  OBVIOUS
<1> USE Constants DEF TypeOK, Jobs, Stages, Stage, notJob, notPoller, notUI, mainVars,
    rateVars, errVars, statVars, stopVars, pollVars, uiVars, envVars
<1>1. CASE Fail(j)
  BY <1>1 DEF Fail
<1>2. CASE CountError(j)
  BY <1>2 DEF CountError
<1>3. CASE Succeed(j)
  BY <1>3 DEF Succeed
<1>4. CASE AddHist(j)
  BY <1>4 DEF AddHist
<1>5. CASE AddPrecise(j)
  BY <1>5 DEF AddPrecise
<1>6. CASE AddRolling(j)
  BY <1>6 DEF AddRolling
<1>7. CASE Release(j)
  BY <1>7 DEF Release
<1> QED
  BY <1>1, <1>2, <1>3, <1>4, <1>5, <1>6, <1>7 DEF Job

\* The handlers of the keys keep the types.
LEMMA KeyType == ASSUME NEW key PROVE TypeOK /\ Key(key) => TypeOK'
<1> SUFFICES ASSUME TypeOK, Key(key) PROVE TypeOK'
  OBVIOUS
<1> USE Constants DEF TypeOK, Jobs, Stages, notJob, notPoller, notUI, mainVars,
    rateVars, errVars, statVars, stopVars, pollVars, uiVars, envVars
<1>1. CASE Custom(key)
  BY <1>1 DEF Custom, Press
<1>2. CASE Quit(key)
  BY <1>2 DEF Quit, BuiltIn, Press
<1>3. CASE IncreaseConcurrency(key)
  <2>1. Delta(concurrencyLimit) \in Nat \ {0}
    BY DeltaType
  <2> QED
    BY <1>3, <2>1 DEF IncreaseConcurrency, BuiltIn, Press
<1>4. CASE DecreaseConcurrency(key)
  <2>1. Delta(concurrencyLimit) \in Nat \ {0}
    BY DeltaType
  <2> QED
    BY <1>4, <2>1 DEF DecreaseConcurrency, BuiltIn, Press
<1>5. CASE IncreaseRateLimit(key)
  <2>1. BaseRate \in Int /\ Delta(BaseRate) \in Int
    BY DeltaType DEF BaseRate
  <2> QED
    BY <1>5, <2>1 DEF IncreaseRateLimit, ChangeRate, BuiltIn, Press
<1>6. CASE DecreaseRateLimit(key)
  <2>1. BaseRate \in Int /\ Delta(BaseRate) \in Int
    BY DeltaType DEF BaseRate
  <2> QED
    BY <1>6, <2>1 DEF DecreaseRateLimit, ChangeRate, BuiltIn, Press
<1> QED
  BY <1>1, <1>2, <1>3, <1>4, <1>5, <1>6 DEF Key

\* What a handler does after its first step keeps the types.  The loops that
\* move slots end at zero because they start above it.
LEMMA PollerType == TypeOK /\ PollerInLimits /\ Poller => TypeOK'
<1> SUFFICES ASSUME TypeOK, PollerInLimits, Poller PROVE TypeOK'
  OBVIOUS
<1> USE Constants DEF TypeOK, Jobs, Stages, notJob, notPoller, notUI, mainVars,
    rateVars, errVars, statVars, stopVars, pollVars, uiVars, envVars
<1>1. CASE SendExit
  BY <1>1 DEF SendExit
<1>2. CASE Pop
  BY <1>2 DEF Pop, Settle, PollerInLimits
<1>3. CASE Push
  BY <1>3 DEF Push, Settle, PollerInLimits
<1>4. CASE RefreshRateLimiter
  BY <1>4 DEF RefreshRateLimiter
<1> QED
  BY <1>1, <1>2, <1>3, <1>4 DEF Poller

\* The drawing loop keeps the types.
LEMMA UIType == TypeOK /\ UI => TypeOK'
<1> SUFFICES ASSUME TypeOK, UI PROVE TypeOK'
  OBVIOUS
<1> USE Constants DEF TypeOK, Jobs, Stages, notJob, notPoller, notUI, mainVars,
    rateVars, errVars, statVars, stopVars, pollVars, uiVars, envVars
<1>1. CASE Tick
  BY <1>1 DEF Tick
<1>2. CASE TakeExit
  BY <1>2 DEF TakeExit
<1>3. CASE Frame
  BY <1>3 DEF Frame
<1>4. CASE ResetRolling
  BY <1>4 DEF ResetRolling
<1> QED
  BY <1>1, <1>2, <1>3, <1>4 DEF UI

\* The goroutine of the interrupts and the environment keep the types.
LEMMA OtherType == TypeOK /\ (Stop \/ Expire \/ Signal \/ Over) => TypeOK'
<1> SUFFICES ASSUME TypeOK, Stop \/ Expire \/ Signal \/ Over PROVE TypeOK'
  OBVIOUS
<1> USE Constants DEF TypeOK, Jobs, Stages, notJob, notPoller, notUI, mainVars,
    rateVars, errVars, statVars, stopVars, pollVars, uiVars, envVars
<1>1. CASE Stop
  <2>1. CASE done
    BY <1>1, <2>1 DEF Stop
  <2>2. CASE ~done
    BY <1>1, <2>2 DEF Stop
  <2> QED
    BY <2>1, <2>2
<1>2. CASE Expire
  BY <1>2 DEF Expire
<1>3. CASE Signal
  BY <1>3 DEF Signal
<1>4. CASE Over
  BY <1>4 DEF Over, vars
<1> QED
  BY <1>1, <1>2, <1>3, <1>4

-----------------------------------------------------------------------------
(* Steps that are not of main and not of a job.                            *)

\* The keyboard, the drawing loop, interrupts and the clock leave main, the jobs
\* and what they count alone.
LEMMA OthersFrame ==
  ASSUME [Next]_vars, ~Main, \A j \in Jobs : ~Job(j)
  PROVE  UNCHANGED <<mainVars, job, errVars, slow, roundTripHist,
                     roundTripPrecise, reported>>
<1>1. ASSUME NEW key \in Keys, Key(key)
      PROVE  UNCHANGED <<mainVars, job, errVars, slow, roundTripHist,
                         roundTripPrecise, reported>>
  BY <1>1 DEF Key, Custom, Quit, IncreaseConcurrency, DecreaseConcurrency,
     IncreaseRateLimit, DecreaseRateLimit, ChangeRate, BuiltIn, Press,
     notPoller, statVars
<1>2. CASE Poller
  BY <1>2 DEF Poller, SendExit, Pop, Push, Settle, RefreshRateLimiter,
     notPoller, statVars
<1>3. CASE UI
  BY <1>3 DEF UI, Tick, TakeExit, Frame, ResetRolling, notUI, statVars
<1>4. CASE Stop \/ Expire \/ Signal \/ Over \/ UNCHANGED vars
  BY <1>4 DEF Stop, Expire, Signal, Over, vars, statVars
<1> QED
  BY <1>1, <1>2, <1>3, <1>4 DEF Next

-----------------------------------------------------------------------------
(* The slots of the semaphore.                                             *)

\* The jobs in flight are finitely many, whatever the number of jobs.
LEMMA InFlightFinite ==
  /\ IsFiniteSet(InFlight)
  /\ Cardinality(InFlight) \in Nat
  /\ Cardinality(InFlight) = 0 <=> InFlight = {}
<1>1. IsFiniteSet(Jobs)
  BY Constants, FS_Interval DEF Jobs
<1>2. IsFiniteSet(InFlight)
  BY <1>1, FS_Subset DEF InFlight
<1> QED
  BY <1>2, FS_CardinalityType, FS_EmptySet

\* What a step of one goroutine does to the number of jobs in flight.
LEMMA InFlightStep ==
  ASSUME job \in [Jobs -> Stages], NEW j \in Jobs, NEW to \in Stages,
         job' = [job EXCEPT ![j] = to]
  PROVE  /\ job[j] \notin {"idle", "done"} /\ to \notin {"idle", "done"}
              => InFlight' = InFlight
         /\ job[j] = "idle" /\ to \notin {"idle", "done"}
              => Cardinality(InFlight') = Cardinality(InFlight) + 1
         /\ job[j] \notin {"idle", "done"} /\ to = "done"
              => Cardinality(InFlight') = Cardinality(InFlight) - 1
<1>1. job[j] \notin {"idle", "done"} /\ to \notin {"idle", "done"}
        => InFlight' = InFlight
  BY DEF InFlight
<1>2. job[j] = "idle" /\ to \notin {"idle", "done"}
        => InFlight' = InFlight \cup {j} /\ j \notin InFlight
  BY DEF InFlight
<1>3. job[j] \notin {"idle", "done"} /\ to = "done"
        => InFlight' = InFlight \ {j} /\ j \in InFlight
  BY DEF InFlight
<1> QED
  BY <1>1, <1>2, <1>3, InFlightFinite, FS_AddElement, FS_RemoveElement

\* Steps that neither move a slot nor launch or end a job.
LEMMA SlotFrame ==
  ASSUME SlotInv, TypeOK', UNCHANGED <<semaphore, concurrencyLimit, filled, i>>,
         InFlight' = InFlight,
         \A k \in Jobs : job[k] = "idle" => job'[k] = "idle",
         mainPc' \in {"fetch", "wait", "acquire"}
           => mainPc \in {"fetch", "wait", "acquire"},
         \/ UNCHANGED pollVars
         \/ pollPc \notin {"pop", "push"} /\ pollPc' \notin {"pop", "push"}
  PROVE  SlotInv'
<1>1. NextJobIdle'
  BY DEF SlotInv, NextJobIdle
<1>2. Pending' = Pending
  BY DEF Pending, pollVars
<1>3. PollerInLimits'
  BY <1>2 DEF SlotInv, PollerInLimits, Usable, pollVars
<1>4. SlotAccounting'
  BY <1>2 DEF SlotInv, SlotAccounting, Usable
<1> QED
  BY <1>1, <1>3, <1>4 DEF SlotInv

\* Main takes slots for jobs and, at the end, for itself.
LEMMA MainSlots ==
  ASSUME SlotInv, Main
  PROVE  SlotInv'
<1>1. TypeOK'
  BY MainType DEF SlotInv
<1>2. ASSUME UNCHANGED <<semaphore, filled, i, job, concurrencyLimit, pollVars>>,
             mainPc' \in {"fetch", "wait", "acquire"}
               => mainPc \in {"fetch", "wait", "acquire"}
      PROVE  SlotInv'
  BY <1>1, <1>2, SlotFrame DEF InFlight
<1>3. CASE Fetch \/ Wait \/ DrainTest
  BY <1>2, <1>3 DEF Fetch, Wait, DrainTest, notMain
<1>4. CASE ReportCount \/ ReportErrors \/ ReportOutcome \/ ReportStats
  BY <1>2, <1>4 DEF ReportCount, ReportErrors, ReportOutcome, ReportStats, notMain
<1>5. CASE Acquire
  <2>1. /\ mainPc = "acquire" /\ mainPc' = "check"
        /\ semaphore' = semaphore + 1
        /\ job' = [job EXCEPT ![i] = "running"]
        /\ UNCHANGED <<i, filled, concurrencyLimit, pollVars>>
    BY <1>5 DEF Acquire, notMain
  <2>2. i \in Jobs /\ job[i] = "idle" /\ job \in [Jobs -> Stages]
    BY <2>1 DEF SlotInv, TypeOK, NextJobIdle
  <2>3. Cardinality(InFlight') = Cardinality(InFlight) + 1
    BY <2>1, <2>2, InFlightStep DEF Stages
  <2>4. NextJobIdle'
    BY <2>1, <2>2 DEF SlotInv, NextJobIdle, Jobs
  <2>5. PollerInLimits'
    BY <2>1 DEF SlotInv, PollerInLimits, Usable, Pending, pollVars
  <2>6. Usable \in Int /\ UNCHANGED Usable
    BY <2>1, Constants DEF SlotInv, TypeOK, Usable, Pending, pollVars
  <2>7. SlotAccounting'
    BY <2>1, <2>3, <2>6, InFlightFinite, Constants
    DEF SlotInv, SlotAccounting, TypeOK
  <2> QED
    BY <1>1, <2>4, <2>5, <2>7 DEF SlotInv
<1>6. CASE Check
  <2>1. CASE mainPc' = "drain"
    BY <1>2, <1>6, <2>1 DEF Check, notMain
  <2>2. CASE mainPc' # "drain"
    <3>1. /\ mainPc = "check" /\ mainPc' = "fetch" /\ i' = i + 1
          /\ UNCHANGED <<semaphore, filled, job, concurrencyLimit, pollVars>>
      BY <1>6, <2>2 DEF Check, notMain
    <3>2. NextJobIdle'
      BY <3>1, Constants DEF SlotInv, TypeOK, NextJobIdle, Jobs
    <3>3. PollerInLimits'
      BY <3>1 DEF SlotInv, PollerInLimits, Usable, Pending, pollVars
    <3>4. SlotAccounting'
      BY <3>1 DEF SlotInv, SlotAccounting, Usable, Pending, InFlight, pollVars
    <3> QED
      BY <1>1, <3>2, <3>3, <3>4 DEF SlotInv
  <2> QED
    BY <2>1, <2>2
<1>7. CASE Fill
  <2>1. /\ mainPc = "fill" /\ mainPc' = "drain"
        /\ semaphore' = semaphore + 1 /\ filled' = filled + 1
        /\ UNCHANGED <<i, job, concurrencyLimit, pollVars>>
    BY <1>7 DEF Fill, notMain
  <2>2. NextJobIdle'
    BY <2>1 DEF SlotInv, NextJobIdle
  <2>3. PollerInLimits'
    BY <2>1 DEF SlotInv, PollerInLimits, Usable, Pending, pollVars
  <2>4. /\ Usable \in Int /\ UNCHANGED Usable
        /\ UNCHANGED InFlight
    BY <2>1, Constants DEF SlotInv, TypeOK, Usable, Pending, InFlight, pollVars
  <2>5. SlotAccounting'
    BY <2>1, <2>4, InFlightFinite, Constants DEF SlotInv, SlotAccounting, TypeOK
  <2> QED
    BY <1>1, <2>2, <2>3, <2>5 DEF SlotInv
<1> QED
  BY <1>3, <1>4, <1>5, <1>6, <1>7 DEF Main

\* A job gives its slot back with its last step and only then.
LEMMA JobSlots ==
  ASSUME SlotInv, NEW j \in Jobs, Job(j)
  PROVE  SlotInv'
<1>1. TypeOK'
  BY JobType DEF SlotInv
<1>2. job \in [Jobs -> Stages]
  BY DEF SlotInv, TypeOK
<1>3. /\ UNCHANGED <<mainPc, filled, i, concurrencyLimit, pollVars>>
      /\ job[j] # "idle"
      /\ \E to \in Stages : job' = [job EXCEPT ![j] = to]
  BY DEF Job, Fail, CountError, Succeed, AddHist, AddPrecise, AddRolling,
         Release, Stage, Stages, notJob, mainVars
<1>4. \A k \in Jobs : job[k] = "idle" => job'[k] = "idle"
  BY <1>2, <1>3
<1>5. CASE Release(j)
  <2>1. /\ job[j] = "release" /\ job' = [job EXCEPT ![j] = "done"]
        /\ semaphore' = semaphore - 1
    BY <1>5 DEF Release, Stage
  <2>2. Cardinality(InFlight') = Cardinality(InFlight) - 1
    BY <1>2, <2>1, InFlightStep DEF Stages
  <2>3. NextJobIdle'
    BY <1>3, <1>4 DEF SlotInv, NextJobIdle
  <2>4. PollerInLimits'
    BY <1>3 DEF SlotInv, PollerInLimits, Usable, Pending, pollVars
  <2>5. Usable \in Int /\ UNCHANGED Usable
    BY <1>3, Constants DEF SlotInv, TypeOK, Usable, Pending, pollVars
  <2>6. SlotAccounting'
    BY <1>3, <2>1, <2>2, <2>5, InFlightFinite, Constants
    DEF SlotInv, SlotAccounting, TypeOK
  <2> QED
    BY <1>1, <2>3, <2>4, <2>6 DEF SlotInv
<1>6. CASE ~Release(j)
  <2>1. /\ UNCHANGED semaphore
        /\ job[j] \notin {"idle", "done"}
        /\ \E to \in Stages \ {"idle", "done"} : job' = [job EXCEPT ![j] = to]
    BY <1>6 DEF Job, Fail, CountError, Succeed, AddHist, AddPrecise, AddRolling,
                Stage, Stages
  <2>2. InFlight' = InFlight
    BY <1>2, <2>1, InFlightStep
  <2> QED
    BY <1>1, <1>3, <1>4, <2>1, <2>2, SlotFrame
<1> QED
  BY <1>5, <1>6

\* A key that moves the limit records as many slots as it moves it by.
LEMMA KeySlots ==
  ASSUME SlotInv, NEW key, Key(key)
  PROVE  SlotInv'
<1>1. TypeOK'
  BY KeyType DEF SlotInv
<1>2. /\ pollPc = "poll"
      /\ UNCHANGED <<mainPc, filled, i, job, semaphore>>
  BY DEF Key, Custom, Quit, IncreaseConcurrency, DecreaseConcurrency,
         IncreaseRateLimit, DecreaseRateLimit, ChangeRate, BuiltIn, Press,
         notPoller, mainVars
<1>3. UNCHANGED InFlight
  BY <1>2 DEF InFlight
<1>4. Delta(concurrencyLimit) \in Nat \ {0}
  BY DeltaType DEF SlotInv, TypeOK
<1>5. CASE pollPc' = "pop"
  <2>1. /\ concurrencyLimit' = concurrencyLimit + Delta(concurrencyLimit)
        /\ concurrencyLimit' <= MaxConcurrency
        /\ owed' = Delta(concurrencyLimit)
    BY <1>2, <1>5 DEF Key, Custom, Quit, IncreaseConcurrency,
       DecreaseConcurrency, IncreaseRateLimit, DecreaseRateLimit, ChangeRate,
       BuiltIn, pollVars
  <2>2. Usable \in Int /\ Usable' = Usable
    BY <1>2, <1>4, <1>5, <2>1, Constants DEF SlotInv, TypeOK, Usable, Pending
  <2>3. PollerInLimits'
    BY <1>4, <1>5, <2>1, <2>2 DEF SlotInv, PollerInLimits
  <2>4. SlotAccounting'
    BY <1>2, <1>3, <2>2 DEF SlotInv, SlotAccounting
  <2>5. NextJobIdle'
    BY <1>2 DEF SlotInv, NextJobIdle
  <2> QED
    BY <1>1, <2>3, <2>4, <2>5 DEF SlotInv
<1>6. CASE pollPc' = "push"
  <2>1. /\ concurrencyLimit' = concurrencyLimit - Delta(concurrencyLimit)
        /\ owed' = Delta(concurrencyLimit)
    BY <1>2, <1>6 DEF Key, Custom, Quit, IncreaseConcurrency,
       DecreaseConcurrency, IncreaseRateLimit, DecreaseRateLimit, ChangeRate,
       BuiltIn, pollVars
  <2>2. Usable \in Int /\ Usable' = Usable
    BY <1>2, <1>4, <1>6, <2>1, Constants DEF SlotInv, TypeOK, Usable, Pending
  <2>3. PollerInLimits'
    BY <1>4, <1>6, <2>1, <2>2 DEF SlotInv, PollerInLimits
  <2>4. SlotAccounting'
    BY <1>2, <1>3, <2>2 DEF SlotInv, SlotAccounting
  <2>5. NextJobIdle'
    BY <1>2 DEF SlotInv, NextJobIdle
  <2> QED
    BY <1>1, <2>3, <2>4, <2>5 DEF SlotInv
<1>7. CASE pollPc' \notin {"pop", "push"}
  <2>1. UNCHANGED concurrencyLimit
    BY <1>7 DEF Key, Custom, Quit, IncreaseConcurrency, DecreaseConcurrency,
       IncreaseRateLimit, DecreaseRateLimit, ChangeRate
  <2> QED
    BY <1>1, <1>2, <1>3, <1>7, <2>1, SlotFrame
<1> QED
  BY <1>5, <1>6, <1>7

\* Every slot the poller moves is one less that it owes.
LEMMA PollerSlots ==
  ASSUME SlotInv, Poller
  PROVE  SlotInv'
<1>1. TypeOK'
  BY PollerType DEF SlotInv
<1>2. UNCHANGED <<mainPc, filled, i, job, concurrencyLimit>>
  BY DEF Poller, SendExit, Pop, Push, Settle, RefreshRateLimiter, notPoller,
         mainVars
<1>3. UNCHANGED InFlight
  BY <1>2 DEF InFlight
<1>4. NextJobIdle'
  BY <1>2 DEF SlotInv, NextJobIdle
<1>5. CASE SendExit \/ RefreshRateLimiter
  BY <1>1, <1>2, <1>3, <1>5, SlotFrame DEF SendExit, RefreshRateLimiter
<1>6. CASE Pop
  <2>1. /\ pollPc = "pop" /\ semaphore' = semaphore - 1
        /\ owed' = owed - 1 /\ owed > 0
        /\ pollPc' = (IF owed = 1 THEN "poll" ELSE "pop")
    BY <1>6 DEF Pop, Settle, SlotInv, PollerInLimits
  <2>2. Usable \in Int /\ Usable' = Usable + 1
    BY <1>2, <2>1, Constants DEF SlotInv, TypeOK, Usable, Pending
  <2>3. Usable' <= concurrencyLimit
    BY <1>2, <2>1, Constants DEF SlotInv, TypeOK, Usable, Pending
  <2>4. PollerInLimits'
    BY <1>2, <2>1, <2>2, <2>3, Constants DEF SlotInv, TypeOK, PollerInLimits
  <2>5. SlotAccounting'
    BY <1>2, <1>3, <2>1, <2>2, InFlightFinite, Constants
    DEF SlotInv, SlotAccounting, TypeOK
  <2> QED
    BY <1>1, <1>4, <2>4, <2>5 DEF SlotInv
<1>7. CASE Push
  <2>1. /\ pollPc = "push" /\ semaphore' = semaphore + 1
        /\ owed' = owed - 1 /\ owed > 0
        /\ pollPc' = (IF owed = 1 THEN "poll" ELSE "push")
    BY <1>7 DEF Push, Settle, SlotInv, PollerInLimits
  <2>2. Usable \in Int /\ Usable' = Usable - 1
    BY <1>2, <2>1, Constants DEF SlotInv, TypeOK, Usable, Pending
  <2>3. PollerInLimits'
    BY <2>1, <2>2, Constants DEF SlotInv, TypeOK, PollerInLimits
  <2>4. SlotAccounting'
    BY <1>2, <1>3, <2>1, <2>2, InFlightFinite, Constants
    DEF SlotInv, SlotAccounting, TypeOK
  <2> QED
    BY <1>1, <1>4, <2>3, <2>4 DEF SlotInv
<1> QED
  BY <1>5, <1>6, <1>7 DEF Poller

\* The drawing loop, interrupts and the environment move no slots.
LEMMA OtherSlots ==
  ASSUME SlotInv, UI \/ Stop \/ Expire \/ Signal \/ Over
  PROVE  SlotInv'
<1>1. TypeOK'
  BY UIType, OtherType DEF SlotInv
<1>2. UNCHANGED <<mainPc, filled, i, job, semaphore, concurrencyLimit, pollVars>>
  BY DEF UI, Tick, TakeExit, Frame, ResetRolling, Stop, Expire, Signal, Over,
         notUI, mainVars, vars
<1> QED
  BY <1>1, <1>2, SlotFrame DEF InFlight

\* newRunner leaves InitialLimit slots, or none beyond the capacity.
LEMMA SlotInit == Init => SlotInv
<1> SUFFICES ASSUME Init PROVE SlotInv
  OBVIOUS
<1>1. 0 \in Jobs
  BY Constants DEF Jobs
<1>2. reported \in Reports
  BY DEF Init, Reports
<1>3. job \in [Jobs -> Stages]
  BY DEF Init, Stages
<1>4. TypeOK
  <2>1. rateLimit \in Int /\ rl \in Int
    BY Constants DEF Init
  <2>2. pollPc \in {"off", "poll"} /\ uiPc \in {"off", "select"}
    BY DEF Init
  <2>3. semaphore \in 0 .. MaxConcurrency /\ concurrencyLimit \in Nat \ {0}
    BY Constants DEF Init
  <2>4. /\ mainPc = "fetch" /\ i = 0 /\ waitOn = 0 /\ filled = 0
        /\ currentReqRate = 0 /\ errCnt = 0 /\ lastErr = "nil" /\ slow = 0
        /\ roundTripHist = 0 /\ roundTripPrecise = 0 /\ roundTripRolling = 0
        /\ exit = 0 /\ owed = 0 /\ reqPrev = 0 /\ presses = 0 /\ interrupts = 0
    BY DEF Init
  <2>5. /\ done \in BOOLEAN /\ exited \in BOOLEAN
        /\ doReturn \in BOOLEAN /\ expired \in BOOLEAN
    BY DEF Init
  <2> QED
    BY <1>1, <1>2, <1>3, <2>1, <2>2, <2>3, <2>4, <2>5 DEF TypeOK, Looping
<1>5. NextJobIdle
  BY DEF Init, NextJobIdle
<1>6. Usable = MaxConcurrency - Prefilled
  BY Constants DEF Init, Usable, Pending, Excess
<1>7. PollerInLimits
  BY <1>6, Constants DEF Init, PollerInLimits
<1>8. InFlight = {}
  BY DEF Init, InFlight
<1>9. SlotAccounting
  BY <1>6, <1>8, FS_EmptySet, Constants DEF Init, SlotAccounting
<1> QED
  BY <1>4, <1>5, <1>7, <1>9 DEF SlotInv

\* The invariant of the slots is inductive.
LEMMA SlotStep == SlotInv /\ [Next]_vars => SlotInv'
<1> SUFFICES ASSUME SlotInv, [Next]_vars PROVE SlotInv'
  OBVIOUS
<1>1. CASE Next
  BY <1>1, MainSlots, JobSlots, KeySlots, PollerSlots, OtherSlots DEF Next
<1>2. CASE UNCHANGED vars
  <2>1. TypeOK'
    BY <1>2 DEF SlotInv, TypeOK, vars, mainVars, rateVars, errVars, statVars,
                stopVars, pollVars, uiVars, envVars
  <2> QED
    BY <1>2, <2>1, SlotFrame DEF InFlight, vars, mainVars
<1> QED
  BY <1>1, <1>2

\* Every element of the semaphore is a slot out of use, a job in flight or a slot
\* of the final wait, at every moment between the channel operations.
THEOREM SlotsInvariant == Spec => []SlotInv
BY SlotInit, SlotStep, PTL DEF Spec

\* Every variable keeps its type: no counter of the run ever goes negative, and
\* the loop variable never leaves the range of the job numbers.
THEOREM TypeCorrect == Spec => []TypeOK
<1>1. SlotInv => TypeOK
  BY DEF SlotInv
<1> QED
  BY <1>1, SlotsInvariant, PTL

\* However the limit is moved while jobs start and finish, no more jobs are in
\* flight than the limit, counting slots a decrease still waits for.
THEOREM Concurrency_Bound == Spec => []ConcurrencyBound
<1>1. SlotInv => ConcurrencyBound
  BY InFlightFinite, Constants
  DEF SlotInv, TypeOK, SlotAccounting, ConcurrencyBound, Usable, Pending
<1> QED
  BY <1>1, SlotsInvariant, PTL

\* The deferred receive of a job and the receives of increaseConcurrency always
\* find an element in the channel.
THEOREM Release_Never_Blocks == Spec => []ReleaseNeverBlocks
<1>1. SlotInv => ReleaseNeverBlocks
  <2> SUFFICES ASSUME SlotInv,
                      pollPc = "pop" \/ \E j \in Jobs : job[j] = "release"
               PROVE  semaphore > 0
    BY DEF ReleaseNeverBlocks
  <2>1. /\ semaphore = MaxConcurrency - Usable + Cardinality(InFlight) + filled
        /\ Usable \in Int /\ Usable <= MaxConcurrency
        /\ filled \in Nat /\ semaphore \in Nat
    BY Constants
    DEF SlotInv, TypeOK, SlotAccounting, PollerInLimits, Usable, Pending
  <2>2. CASE pollPc = "pop"
    <3>1. Usable < MaxConcurrency
      BY <2>2, Constants DEF SlotInv, TypeOK, PollerInLimits, Usable, Pending
    <3> QED
      BY <2>1, <3>1, InFlightFinite, Constants
  <2>3. CASE \E j \in Jobs : job[j] = "release"
    <3>1. InFlight # {}
      BY <2>3 DEF InFlight
    <3>2. Cardinality(InFlight) > 0
      BY <3>1, InFlightFinite
    <3> QED
      BY <2>1, <3>2, InFlightFinite, Constants
  <2> QED
    BY <2>2, <2>3
<1> QED
  BY <1>1, SlotsInvariant, PTL

\* The final wait takes no slot before the loop is over.
WaitIsLast == mainPc \in Looping => filled = 0

\* WaitIsLast is preserved.
LEMMA WaitIsLastStep == WaitIsLast /\ [Next]_vars => WaitIsLast'
<1> SUFFICES ASSUME WaitIsLast, [Next]_vars PROVE WaitIsLast'
  OBVIOUS
<1>1. CASE Main
  BY <1>1 DEF WaitIsLast, Looping, Main, Fetch, Wait, Acquire, Check, DrainTest,
     Fill, ReportCount, ReportErrors, ReportOutcome, ReportStats
<1>2. ASSUME NEW j \in Jobs, Job(j)
      PROVE  WaitIsLast'
  BY <1>2 DEF WaitIsLast, Job, Fail, CountError, Succeed, AddHist, AddPrecise,
     AddRolling, Release, notJob, mainVars
<1>3. CASE ~Main /\ \A j \in Jobs : ~Job(j)
  BY <1>3, OthersFrame DEF WaitIsLast, mainVars
<1> QED
  BY <1>1, <1>2, <1>3

\* If the channel can hold the concurrency that was asked for, whoever waits for
\* room in it gets some, whatever keys are pressed: a full channel has a job in
\* flight or a raised limit that takes elements out.  The exception is a limit
\* lowered below what the final wait has already taken.
THEOREM Slot_Comes_Back ==
  ASSUME InitialLimit <= MaxConcurrency
  PROVE  Spec => []SlotComesBack
<1>1. SlotInv /\ WaitIsLast => SlotComesBack
  <2> SUFFICES ASSUME SlotInv, WaitIsLast, semaphore = MaxConcurrency,
                      pollPc # "pop",
                      \/ mainPc = "acquire"
                      \/ mainPc = "fill" /\ filled < concurrencyLimit
                      \/ pollPc = "push" /\ filled <= concurrencyLimit
               PROVE  InFlight # {}
    BY DEF SlotComesBack
  <2>1. Excess = 0
    BY Constants DEF Excess, Prefilled
  <2>2. Usable = concurrencyLimit + (IF pollPc = "push" THEN owed ELSE 0)
    BY <2>1, Constants DEF Usable, Pending, SlotInv, TypeOK
  <2>3. filled < Usable
    <3>1. CASE mainPc = "acquire"
      BY <2>2, <3>1 DEF WaitIsLast, Looping, SlotInv, TypeOK
    <3>2. CASE mainPc = "fill" /\ filled < concurrencyLimit
      BY <2>2, <3>2 DEF SlotInv, TypeOK
    <3>3. CASE pollPc = "push" /\ filled <= concurrencyLimit
      BY <2>2, <3>3 DEF SlotInv, TypeOK, PollerInLimits
    <3> QED
      BY <3>1, <3>2, <3>3
  <2>4. Cardinality(InFlight) # 0
    BY <2>2, <2>3, InFlightFinite, Constants DEF SlotInv, TypeOK, SlotAccounting
  <2> QED
    BY <2>4, InFlightFinite
<1>2. Init => WaitIsLast
  BY DEF Init, WaitIsLast
<1>3. Spec => []WaitIsLast
  BY <1>2, WaitIsLastStep, PTL DEF Spec
<1> QED
  BY <1>1, <1>3, SlotsInvariant, PTL

-----------------------------------------------------------------------------
(* The final wait.                                                         *)

\* Without the key that lowers the limit, the report starts when every launched
\* job has finished.
Drained == pollPc # "push" /\ ReportAfterJobs

\* Without the key Left, Drained is preserved.
LEMMA DrainedStep ==
  ASSUME ~LiveUI \/ "<Left>" \notin Keys,
         SlotInv, Drained, [Next]_vars
  PROVE  Drained'
<1>1. CASE Main
  <2>1. UNCHANGED pollPc
    BY <1>1 DEF Main, Fetch, Wait, Acquire, Check, DrainTest, Fill, ReportCount,
       ReportErrors, ReportOutcome, ReportStats, notMain, pollVars
  <2>2. CASE mainPc' \in Reporting \cup Ended /\ DrainTest
    <3>1. filled >= concurrencyLimit /\ UNCHANGED job
      BY <2>2 DEF DrainTest, Reporting, Ended, SlotInv, TypeOK
    <3>2. Usable <= concurrencyLimit /\ Usable \in Int
      BY Constants DEF Drained, SlotInv, TypeOK, Usable, Pending
    <3>3. Cardinality(InFlight) <= 0
      BY <3>1, <3>2, InFlightFinite, Constants
      DEF SlotInv, TypeOK, SlotAccounting
    <3>4. InFlight = {}
      BY <3>3, InFlightFinite
    <3> QED
      BY <2>1, <3>1, <3>4 DEF Drained, ReportAfterJobs, InFlight
  <2>3. CASE mainPc' \in Reporting \cup Ended /\ ~DrainTest
    <3>1. mainPc \in Reporting /\ UNCHANGED job
      BY <1>1, <2>3 DEF Main, Fetch, Wait, Acquire, Check, Fill, ReportCount,
         ReportErrors, ReportOutcome, ReportStats, Reporting, Ended
    <3> QED
      BY <2>1, <3>1 DEF Drained, ReportAfterJobs, InFlight
  <2>4. CASE mainPc' \notin Reporting \cup Ended
    BY <2>1, <2>4 DEF Drained, ReportAfterJobs
  <2> QED
    BY <2>2, <2>3, <2>4
<1>2. ASSUME NEW j \in Jobs, Job(j)
      PROVE  Drained'
  <2>1. UNCHANGED <<mainPc, pollPc>> /\ j \in InFlight
    BY <1>2 DEF Job, Fail, CountError, Succeed, AddHist, AddPrecise, AddRolling,
       Release, Stage, notJob, mainVars, pollVars, InFlight
  <2> QED
    BY <2>1 DEF Drained, ReportAfterJobs
<1>3. ASSUME NEW key \in Keys, Key(key)
      PROVE  Drained'
  <2>1. UNCHANGED <<mainPc, job>>
    BY <1>3 DEF Key, Custom, Quit, IncreaseConcurrency, DecreaseConcurrency,
       IncreaseRateLimit, DecreaseRateLimit, ChangeRate, BuiltIn, Press,
       notPoller, mainVars
  <2>2. ~DecreaseConcurrency(key)
    BY <1>3 DEF DecreaseConcurrency, BuiltIn, Press
  <2>3. pollPc' # "push"
    BY <1>3, <2>2 DEF Drained, Key, Custom, Quit, IncreaseConcurrency,
       IncreaseRateLimit, DecreaseRateLimit, ChangeRate, BuiltIn, Press, pollVars
  <2> QED
    BY <2>1, <2>3 DEF Drained, ReportAfterJobs, InFlight
<1>4. CASE Poller
  BY <1>4 DEF Drained, ReportAfterJobs, InFlight, Poller, SendExit, Pop, Push,
     Settle, RefreshRateLimiter, notPoller, mainVars
<1>5. CASE UI \/ Stop \/ Expire \/ Signal \/ Over
  BY <1>5 DEF Drained, ReportAfterJobs, InFlight, UI, Tick, TakeExit, Frame,
     ResetRolling, Stop, Expire, Signal, Over, notUI, mainVars, pollVars, vars
<1>6. CASE UNCHANGED vars
  BY <1>6 DEF Drained, ReportAfterJobs, InFlight, vars, mainVars, pollVars
<1> QED
  BY <1>1, <1>2, <1>3, <1>4, <1>5, <1>6 DEF Next

\* If no key lowers the limit, Drained always holds.
LEMMA DrainedInvariant ==
  ASSUME ~LiveUI \/ "<Left>" \notin Keys
  PROVE  Spec => []Drained
<1>1. Init => Drained
  BY DEF Init, Drained, ReportAfterJobs, Reporting, Ended
<1>2. SlotInv /\ Drained /\ [Next]_vars => Drained'
  BY DrainedStep
<1> QED
  BY <1>1, <1>2, SlotsInvariant, PTL DEF Spec

\* If no key lowers the limit, the report starts when every launched job has
\* finished, as the comment of the final wait says.
THEOREM Report_After_Jobs ==
  ASSUME ~LiveUI \/ "<Left>" \notin Keys
  PROVE  Spec => []ReportAfterJobs
<1>1. Drained => ReportAfterJobs
  BY DEF Drained
<1>2. Spec => []Drained
  BY DrainedInvariant
<1> QED
  BY <1>1, <1>2, PTL

\* With any keys and any concurrency, at most as many jobs are left in flight when
\* the final wait ends as a decrease of the limit has still slots to take.
THEOREM Report_Misses_Few == Spec => ReportMissesFew
<1>1. SlotInv /\ [Next]_vars
        => [mainPc = "drain" /\ mainPc' = "report"
              => Cardinality(InFlight) <= (IF pollPc = "push" THEN owed ELSE 0)]_vars
  <2> SUFFICES ASSUME SlotInv, [Next]_vars, mainPc = "drain", mainPc' = "report"
               PROVE  Cardinality(InFlight) <= (IF pollPc = "push" THEN owed ELSE 0)
    OBVIOUS
  <2>1. Main
    <3>1. ASSUME NEW j \in Jobs PROVE ~Job(j)
      BY DEF Job, Fail, CountError, Succeed, AddHist, AddPrecise, AddRolling,
         Release, notJob, mainVars
    <3> QED
      BY <3>1, OthersFrame DEF mainVars
  <2>2. filled >= concurrencyLimit
    BY <2>1 DEF Main, Fetch, Wait, Acquire, Check, DrainTest, Fill, ReportCount,
       ReportErrors, ReportOutcome, ReportStats, SlotInv, TypeOK
  <2>3. /\ Usable \in Int
        /\ Usable <= concurrencyLimit + (IF pollPc = "push" THEN owed ELSE 0)
    BY Constants DEF Usable, Pending, SlotInv, TypeOK
  <2> QED
    BY <2>2, <2>3, InFlightFinite, Constants DEF SlotInv, TypeOK, SlotAccounting
<1> QED
  BY <1>1, SlotsInvariant, PTL DEF Spec, ReportMissesFew

-----------------------------------------------------------------------------
(* Errors and interrupts.                                                  *)

\* An error is stored before it is counted, and never removed.
ErrorStored ==
  /\ errCnt > 0 \/ (\E j \in Jobs : job[j] = "count") => lastErr # "nil"
  /\ NeverPanics

\* ErrorStored is preserved.
LEMMA ErrorStep == TypeOK /\ ErrorStored /\ [Next]_vars => ErrorStored'
<1> SUFFICES ASSUME TypeOK, ErrorStored, [Next]_vars PROVE ErrorStored'
  OBVIOUS
<1>0. job \in [Jobs -> Stages] /\ i \in Jobs
  BY DEF TypeOK
<1>1. CASE Main
  <2>1. CASE Acquire
    BY <1>0, <2>1 DEF ErrorStored, NeverPanics, Acquire, notMain
  <2>2. CASE ReportErrors
    BY <2>2 DEF ErrorStored, NeverPanics, ReportErrors, notMain
  <2>3. CASE ~Acquire /\ ~ReportErrors
    <3>1. /\ UNCHANGED <<errCnt, job>>
          /\ lastErr' \in {lastErr, "limiter"} /\ mainPc' # "panic"
      BY <1>1, <2>3 DEF Main, Fetch, Wait, Check, DrainTest, Fill, ReportCount,
         ReportOutcome, ReportStats, notMain
    <3> QED
      BY <3>1 DEF ErrorStored, NeverPanics
  <2> QED
    BY <2>1, <2>2, <2>3
<1>2. ASSUME NEW j \in Jobs, Job(j)
      PROVE  ErrorStored'
  <2>1. CASE Fail(j)
    BY <2>1 DEF ErrorStored, NeverPanics, Fail, notJob, mainVars
  <2>2. CASE CountError(j)
    BY <1>0, <2>2 DEF ErrorStored, NeverPanics, CountError, Stage, notJob, mainVars
  <2>3. CASE ~Fail(j) /\ ~CountError(j)
    <3>1. /\ UNCHANGED <<errCnt, lastErr, mainPc>>
          /\ \E to \in Stages \ {"count"} : job' = [job EXCEPT ![j] = to]
      BY <1>2, <2>3 DEF Job, Succeed, AddHist, AddPrecise, AddRolling, Release,
         Stage, Stages, notJob, mainVars, errVars
    <3> QED
      BY <1>0, <3>1 DEF ErrorStored, NeverPanics
  <2> QED
    BY <2>1, <2>2, <2>3
<1>3. ASSUME UNCHANGED <<errCnt, lastErr, job, mainPc>>
      PROVE  ErrorStored'
  BY <1>3 DEF ErrorStored, NeverPanics
<1>4. ASSUME NEW key \in Keys, Key(key)
      PROVE  ErrorStored'
  BY <1>3, <1>4 DEF Key, Custom, Quit, IncreaseConcurrency, DecreaseConcurrency,
     IncreaseRateLimit, DecreaseRateLimit, ChangeRate, BuiltIn, Press,
     notPoller, mainVars, errVars
<1>5. CASE Poller
  BY <1>3, <1>5 DEF Poller, SendExit, Pop, Push, Settle, RefreshRateLimiter,
     notPoller, mainVars, errVars
<1>6. CASE UI \/ Stop \/ Expire \/ Signal \/ Over \/ UNCHANGED vars
  BY <1>3, <1>6 DEF UI, Tick, TakeExit, Frame, ResetRolling, Stop, Expire,
     Signal, Over, notUI, mainVars, errVars, vars
<1> QED
  BY <1>1, <1>2, <1>4, <1>5, <1>6 DEF Next

\* ErrorStored always holds.
LEMMA ErrorInvariant == Spec => []ErrorStored
<1>1. Init => ErrorStored
  BY DEF Init, ErrorStored, NeverPanics
<1> QED
  BY <1>1, ErrorStep, TypeCorrect, PTL DEF Spec

\* report never calls Error on a nil lastErr, even when the key that lowers the
\* limit made it start while jobs are still running.
THEOREM Never_Panics == Spec => []NeverPanics
<1>1. ErrorStored => NeverPanics
  BY DEF ErrorStored
<1> QED
  BY <1>1, ErrorInvariant, PTL

\* Interrupts are delivered at most once: one is on its way from the poller, or
\* in the channel, or has set done.
One(b) == IF b THEN 1 ELSE 0
InterruptsOnce ==
  /\ One(pollPc = "send") + exit + One(done) <= interrupts
  /\ ForcedExit

\* InterruptsOnce is preserved.
LEMMA InterruptStep == TypeOK /\ InterruptsOnce /\ [Next]_vars => InterruptsOnce'
<1> SUFFICES ASSUME TypeOK, InterruptsOnce, [Next]_vars PROVE InterruptsOnce'
  OBVIOUS
<1> USE DEF One
<1>0. exit \in {0, 1} /\ interrupts \in Nat /\ done \in BOOLEAN
  BY DEF TypeOK
<1>1. ASSUME UNCHANGED <<exit, done, exited>>, interrupts' = interrupts,
             pollPc' = "send" => pollPc = "send"
      PROVE  InterruptsOnce'
  BY <1>0, <1>1 DEF InterruptsOnce, ForcedExit
<1>2. CASE Main
  BY <1>1, <1>2 DEF Main, Fetch, Wait, Acquire, Check, DrainTest, Fill,
     ReportCount, ReportErrors, ReportOutcome, ReportStats, notMain, stopVars,
     pollVars, envVars
<1>3. ASSUME NEW j \in Jobs, Job(j)
      PROVE  InterruptsOnce'
  BY <1>1, <1>3 DEF Job, Fail, CountError, Succeed, AddHist, AddPrecise,
     AddRolling, Release, Stage, notJob, stopVars, pollVars, envVars
<1>4. ASSUME NEW key \in Keys, Key(key)
      PROVE  InterruptsOnce'
  <2>1. CASE Quit(key)
    <3>1. /\ pollPc = "poll" /\ pollPc' = "send"
          /\ interrupts' = interrupts + 1
          /\ UNCHANGED <<exit, done, exited>>
      BY <2>1 DEF Quit, BuiltIn, Press, notPoller
    <3> QED
      BY <1>0, <3>1 DEF InterruptsOnce, ForcedExit
  <2>2. CASE ~Quit(key)
    BY <1>1, <1>4, <2>2 DEF Key, Custom, IncreaseConcurrency,
       DecreaseConcurrency, IncreaseRateLimit, DecreaseRateLimit, ChangeRate,
       BuiltIn, Press, notPoller, pollVars
  <2> QED
    BY <2>1, <2>2
<1>5. CASE Poller
  <2>1. CASE SendExit
    <3>1. /\ pollPc = "send" /\ pollPc' = "poll" /\ exit = 0 /\ exit' = 1
          /\ UNCHANGED <<done, exited, interrupts>>
      BY <2>1 DEF SendExit, notPoller
    <3> QED
      BY <1>0, <3>1 DEF InterruptsOnce, ForcedExit
  <2>2. CASE ~SendExit
    BY <1>1, <1>5, <2>2 DEF Poller, Pop, Push, Settle, RefreshRateLimiter,
       notPoller
  <2> QED
    BY <2>1, <2>2
<1>6. CASE UI
  <2>1. CASE TakeExit
    <3>1. /\ exit' = 0 /\ UNCHANGED <<pollPc, done, exited, interrupts>>
      BY <2>1 DEF TakeExit, notUI, pollVars, envVars
    <3> QED
      BY <1>0, <3>1 DEF InterruptsOnce, ForcedExit
  <2>2. CASE ~TakeExit
    BY <1>1, <1>6, <2>2 DEF UI, Tick, Frame, ResetRolling, notUI, pollVars,
       envVars
  <2> QED
    BY <2>1, <2>2
<1>7. CASE Stop
  <2>1. exit = 1 /\ exit' = 0 /\ UNCHANGED <<pollPc, interrupts>>
    BY <1>0, <1>7 DEF Stop, pollVars, envVars
  <2>2. CASE done
    <3>1. UNCHANGED done
      BY <1>7, <2>2 DEF Stop
    <3> QED
      BY <1>0, <2>1, <2>2, <3>1 DEF InterruptsOnce, ForcedExit
  <2>3. CASE ~done
    <3>1. done' = TRUE /\ UNCHANGED exited
      BY <1>7, <2>3 DEF Stop
    <3> QED
      BY <1>0, <2>1, <2>3, <3>1 DEF InterruptsOnce, ForcedExit
  <2> QED
    BY <2>2, <2>3
<1>8. CASE Signal
  <2>1. /\ exit' = 1 /\ interrupts' = interrupts + 1
        /\ UNCHANGED <<pollPc, done, exited>>
    BY <1>8 DEF Signal, pollVars
  <2> QED
    BY <1>0, <2>1 DEF InterruptsOnce, ForcedExit
<1>9. CASE Expire \/ Over \/ UNCHANGED vars
  BY <1>1, <1>9 DEF Expire, Over, vars, stopVars, pollVars, envVars
<1> QED
  BY <1>2, <1>3, <1>4, <1>5, <1>6, <1>7, <1>8, <1>9 DEF Next

\* The process is forced to exit by the second interrupt, never by the first.
THEOREM Forced_Exit == Spec => []ForcedExit
<1>1. Init => InterruptsOnce
  BY DEF Init, InterruptsOnce, ForcedExit, One
<1>2. InterruptsOnce => ForcedExit
  BY DEF InterruptsOnce
<1> QED
  BY <1>1, <1>2, InterruptStep, TypeCorrect, PTL DEF Spec

-----------------------------------------------------------------------------
(* Keys, limits and the end of the loop.                                   *)

\* LimiterInstalled is preserved: the handler that changes the limit does not
\* finish before it has renewed the limiter.
LEMMA LimiterStep == LimiterInstalled /\ [Next]_vars => LimiterInstalled'
<1> SUFFICES ASSUME LimiterInstalled, [Next]_vars PROVE LimiterInstalled'
  OBVIOUS
<1>1. ASSUME UNCHANGED <<rateLimit, rl>>, pollPc = "refresh" => pollPc' = "refresh"
      PROVE  LimiterInstalled'
  BY <1>1 DEF LimiterInstalled
<1>2. CASE Main
  BY <1>1, <1>2 DEF Main, Fetch, Wait, Acquire, Check, DrainTest, Fill,
     ReportCount, ReportErrors, ReportOutcome, ReportStats, notMain, rateVars,
     pollVars
<1>3. ASSUME NEW j \in Jobs, Job(j)
      PROVE  LimiterInstalled'
  BY <1>1, <1>3 DEF Job, Fail, CountError, Succeed, AddHist, AddPrecise,
     AddRolling, Release, notJob, rateVars, pollVars
<1>4. ASSUME NEW key \in Keys, Key(key)
      PROVE  LimiterInstalled'
  <2>1. CASE IncreaseRateLimit(key) \/ DecreaseRateLimit(key)
    BY <2>1 DEF LimiterInstalled, IncreaseRateLimit, DecreaseRateLimit, ChangeRate
  <2>2. CASE Custom(key) \/ Quit(key) \/ IncreaseConcurrency(key)
             \/ DecreaseConcurrency(key)
    BY <1>1, <2>2 DEF Custom, Quit, IncreaseConcurrency, DecreaseConcurrency,
       BuiltIn, Press
  <2> QED
    BY <1>4, <2>1, <2>2 DEF Key
<1>5. CASE Poller
  <2>1. CASE RefreshRateLimiter
    BY <2>1 DEF LimiterInstalled, RefreshRateLimiter
  <2>2. CASE SendExit \/ Pop \/ Push
    BY <1>1, <2>2 DEF SendExit, Pop, Push, Settle
  <2> QED
    BY <1>5, <2>1, <2>2 DEF Poller
<1>6. CASE UI \/ Stop \/ Expire \/ Signal \/ Over \/ UNCHANGED vars
  BY <1>1, <1>6 DEF UI, Tick, TakeExit, Frame, ResetRolling, Stop, Expire,
     Signal, Over, notUI, rateVars, pollVars, vars
<1> QED
  BY <1>2, <1>3, <1>4, <1>5, <1>6 DEF Next

\* Whatever rates the keys start from and in whatever order they are pressed,
\* between two keys main fetches the limiter that the limit asks for.
THEOREM Limiter_Installed == Spec => []LimiterInstalled
<1>1. Init => LimiterInstalled
  BY DEF Init, LimiterInstalled
<1> QED
  BY <1>1, LimiterStep, PTL DEF Spec

\* Neither the limits nor the limiters are negative.
RatesPositive == rateLimit >= 0 /\ rl >= 0 /\ waitOn >= 0 /\ (mainPc = "wait" => waitOn > 0)

\* Without the key Down, RatesPositive is preserved.
LEMMA RatesPositiveStep ==
  ASSUME ~LiveUI \/ "<Down>" \notin Keys
  PROVE  TypeOK /\ RatesPositive /\ [Next]_vars => RatesPositive'
<1> SUFFICES ASSUME TypeOK, RatesPositive, [Next]_vars PROVE RatesPositive'
  OBVIOUS
<1>1. ASSUME UNCHANGED <<rateLimit, rl, waitOn, mainPc>>
      PROVE  RatesPositive'
  BY <1>1 DEF RatesPositive
<1>2. CASE Main
  BY <1>2 DEF RatesPositive, TypeOK, Main, Fetch, Wait, Acquire, Check, DrainTest,
     Fill, ReportCount, ReportErrors, ReportOutcome, ReportStats, notMain, rateVars
<1>3. ASSUME NEW j \in Jobs, Job(j)
      PROVE  RatesPositive'
  BY <1>1, <1>3 DEF Job, Fail, CountError, Succeed, AddHist, AddPrecise,
     AddRolling, Release, notJob, rateVars, mainVars
<1>4. ASSUME NEW key \in Keys, Key(key)
      PROVE  RatesPositive'
  <2>1. CASE IncreaseRateLimit(key)
    <3>1. BaseRate \in Int /\ BaseRate >= 0
      BY DEF RatesPositive, TypeOK, BaseRate
    <3>2. Delta(BaseRate) \in Int /\ Delta(BaseRate) > 0
      BY <3>1, DeltaType
    <3>3. rateLimit' >= 0 /\ UNCHANGED <<rl, mainVars>>
      BY <2>1, <3>1, <3>2 DEF IncreaseRateLimit, ChangeRate, notPoller
    <3> QED
      BY <3>3 DEF RatesPositive, mainVars
  <2>2. ~DecreaseRateLimit(key)
    BY DEF DecreaseRateLimit, BuiltIn, Press
  <2>3. CASE Custom(key) \/ Quit(key) \/ IncreaseConcurrency(key)
             \/ DecreaseConcurrency(key)
    BY <1>1, <2>3 DEF Custom, Quit, IncreaseConcurrency, DecreaseConcurrency,
       notPoller, mainVars
  <2> QED
    BY <1>4, <2>1, <2>2, <2>3 DEF Key
<1>5. CASE Poller
  BY <1>5 DEF RatesPositive, Poller, SendExit, Pop, Push, Settle,
     RefreshRateLimiter, notPoller, mainVars
<1>6. CASE UI \/ Stop \/ Expire \/ Signal \/ Over \/ UNCHANGED vars
  BY <1>1, <1>6 DEF UI, Tick, TakeExit, Frame, ResetRolling, Stop, Expire,
     Signal, Over, notUI, mainVars, rateVars, vars
<1> QED
  BY <1>2, <1>3, <1>4, <1>5, <1>6 DEF Next

\* Without the key Down, main never waits for a limiter that lets nobody through:
\* whatever the flags and the observed rates, only that key can make a limit that
\* is not positive and install it.
THEOREM Wait_Returns ==
  ASSUME ~LiveUI \/ "<Down>" \notin Keys
  PROVE  Spec => [](mainPc = "wait" => waitOn > 0)
<1>1. Init => RatesPositive
  BY Constants DEF Init, RatesPositive
<1>2. TypeOK /\ RatesPositive /\ [Next]_vars => RatesPositive'
  BY RatesPositiveStep
<1>3. RatesPositive => (mainPc = "wait" => waitOn > 0)
  BY DEF RatesPositive
<1> QED
  BY <1>1, <1>2, <1>3, TypeCorrect, PTL DEF Spec

\* The jobs launched so far are finitely many, and a launch adds one.
LEMMA LaunchedStep ==
  /\ IsFiniteSet(Launched)
  /\ Cardinality(Launched) \in Nat
  /\ SlotInv /\ Acquire => /\ i \in Jobs
                           /\ Launched' = Launched \cup {i}
                           /\ Cardinality(Launched') = Cardinality(Launched) + 1
  /\ SlotInv /\ [Next]_vars /\ ~Acquire => Launched' = Launched
<1>1. IsFiniteSet(Launched) /\ Cardinality(Launched) \in Nat
  <2>1. IsFiniteSet(Jobs)
    BY Constants, FS_Interval DEF Jobs
  <2>2. IsFiniteSet(Launched)
    BY <2>1, FS_Subset DEF Launched
  <2> QED
    BY <2>2, FS_CardinalityType
<1>2. ASSUME SlotInv, Acquire
      PROVE  /\ i \in Jobs
             /\ Launched' = Launched \cup {i}
             /\ Cardinality(Launched') = Cardinality(Launched) + 1
  <2>1. /\ i \in Jobs /\ job[i] = "idle" /\ job \in [Jobs -> Stages]
        /\ job' = [job EXCEPT ![i] = "running"]
    BY <1>2 DEF Acquire, SlotInv, TypeOK, NextJobIdle
  <2>2. Launched' = Launched \cup {i} /\ i \notin Launched
    BY <2>1 DEF Launched
  <2> QED
    BY <1>1, <2>1, <2>2, FS_AddElement
<1>3. ASSUME SlotInv, [Next]_vars, ~Acquire
      PROVE  Launched' = Launched
  <2>1. CASE Main
    BY <1>3, <2>1 DEF Main, Fetch, Wait, Check, DrainTest, Fill, ReportCount,
       ReportErrors, ReportOutcome, ReportStats, Launched
  <2>2. ASSUME NEW j \in Jobs, Job(j)
        PROVE  Launched' = Launched
    <3>1. job[j] # "idle" /\ \E to \in Stages \ {"idle"} : job' = [job EXCEPT ![j] = to]
      BY <2>2 DEF Job, Fail, CountError, Succeed, AddHist, AddPrecise,
         AddRolling, Release, Stage, Stages
    <3>2. job \in [Jobs -> Stages]
      BY <1>3 DEF SlotInv, TypeOK
    <3> QED
      BY <3>1, <3>2 DEF Launched
  <2>3. CASE ~Main /\ \A j \in Jobs : ~Job(j)
    BY <1>3, <2>3, OthersFrame DEF Launched
  <2> QED
    BY <2>1, <2>2, <2>3
<1> QED
  BY <1>1, <1>2, <1>3

\* Main has not tested the break condition since it went for another job.
Committed == One(mainPc \in {"fetch", "wait", "acquire"})

\* The run has been told to stop and can reach at most k + 1 launched jobs.
Stopping(k) ==
  /\ done \/ expired
  /\ Cardinality(Launched) + Committed <= k + 1

\* Stopping is preserved.
LEMMA StoppingStep ==
  ASSUME NEW k \in Nat
  PROVE  SlotInv /\ Stopping(k) /\ [Next]_vars => Stopping(k)'
<1> SUFFICES ASSUME SlotInv, Stopping(k), [Next]_vars PROVE Stopping(k)'
  OBVIOUS
<1> USE DEF Committed, One
<1>0. Cardinality(Launched) \in Nat
  BY LaunchedStep
<1>1. done' \/ expired'
  <2>1. CASE Main
    BY <2>1 DEF Stopping, Main, Fetch, Wait, Acquire, Check, DrainTest, Fill,
       ReportCount, ReportErrors, ReportOutcome, ReportStats, notMain, stopVars,
       envVars
  <2>2. ASSUME NEW j \in Jobs, Job(j) PROVE done' \/ expired'
    BY <2>2 DEF Stopping, Job, Fail, CountError, Succeed, AddHist, AddPrecise,
       AddRolling, Release, notJob, stopVars, envVars
  <2>3. ASSUME NEW key \in Keys, Key(key) PROVE done' \/ expired'
    BY <2>3 DEF Stopping, Key, Custom, Quit, IncreaseConcurrency,
       DecreaseConcurrency, IncreaseRateLimit, DecreaseRateLimit, ChangeRate,
       BuiltIn, Press, notPoller
  <2>4. CASE Poller
    BY <2>4 DEF Stopping, Poller, SendExit, Pop, Push, Settle,
       RefreshRateLimiter, notPoller
  <2>5. CASE UI \/ Stop \/ Expire \/ Signal \/ Over \/ UNCHANGED vars
    BY <2>5 DEF Stopping, UI, Tick, TakeExit, Frame, ResetRolling, Stop, Expire,
       Signal, Over, notUI, stopVars, envVars, vars
  <2> QED
    BY <2>1, <2>2, <2>3, <2>4, <2>5 DEF Next
<1>2. CASE Acquire
  <2>1. mainPc = "acquire" /\ mainPc' = "check"
    BY <1>2 DEF Acquire
  <2>2. Cardinality(Launched') = Cardinality(Launched) + 1
    BY <1>2, LaunchedStep
  <2> QED
    BY <1>0, <1>1, <2>1, <2>2 DEF Stopping
<1>3. CASE ~Acquire
  <2>1. Launched' = Launched
    BY <1>3, LaunchedStep
  <2>2. mainPc' \in {"fetch", "wait", "acquire"} => mainPc \in {"fetch", "wait", "acquire"}
    <3>1. CASE Main
      BY <1>3, <3>1 DEF Stopping, Main, Fetch, Wait, Check, DrainTest, Fill,
         ReportCount, ReportErrors, ReportOutcome, ReportStats
    <3>2. ASSUME NEW j \in Jobs, Job(j) PROVE mainPc' = mainPc
      BY <3>2 DEF Job, Fail, CountError, Succeed, AddHist, AddPrecise,
         AddRolling, Release, notJob, mainVars
    <3>3. CASE ~Main /\ \A j \in Jobs : ~Job(j)
      BY <3>3, OthersFrame DEF mainVars
    <3> QED
      BY <3>1, <3>2, <3>3
  <2> QED
    BY <1>0, <1>1, <2>1, <2>2 DEF Stopping
<1> QED
  BY <1>2, <1>3

\* Once an interrupt has stopped the run or --duration has passed, at most one
\* more job is launched, whatever main was waiting for at that moment.
THEOREM Stop_Bound == Spec => StopBound
<1>1. ASSUME NEW k \in 0 .. n
      PROVE  Spec => []((done \/ expired) /\ Cardinality(Launched) = k
                          => [](Cardinality(Launched) <= k + 1))
  <2>1. k \in Nat
    BY Constants
  <2>2. (done \/ expired) /\ Cardinality(Launched) = k => Stopping(k)
    BY <2>1 DEF Stopping, Committed, One
  <2>3. Stopping(k) => Cardinality(Launched) <= k + 1
    BY <2>1, LaunchedStep DEF Stopping, Committed, One
  <2>4. SlotInv /\ Stopping(k) /\ [Next]_vars => Stopping(k)'
    BY <2>1, StoppingStep
  <2> QED
    BY <2>2, <2>3, <2>4, SlotsInvariant, PTL DEF Spec
<1>2. (\A k \in 0 .. n :
         Spec => []((done \/ expired) /\ Cardinality(Launched) = k
                      => [](Cardinality(Launched) <= k + 1)))
       => (Spec => StopBound)
  BY DEF StopBound
<1> QED
  BY <1>1, <1>2
-----------------------------------------------------------------------------
(* What a run reports, for every number of jobs and every concurrency:     *)
(* each job that was launched is counted once, a failed run names a cause, *)
(* and the whole implements LoadRun.                                       *)

(* Jobs by stage.                                                          *)

\* Jobs in one of some stages.
At(stage, some) == {j \in Jobs : stage[j] \in some}

Begun == Stages \ {"idle"}
Uncounted == {"running", "count", "hist"}

LEMMA AtFinite ==
  ASSUME NEW f, NEW S
  PROVE  IsFiniteSet(At(f, S)) /\ Cardinality(At(f, S)) \in Nat
<1>1. IsFiniteSet(Jobs)
  BY Constants, FS_Interval DEF Jobs
<1>2. IsFiniteSet(At(f, S))
  BY <1>1, FS_Subset DEF At
<1> QED
  BY <1>2, FS_CardinalityType

\* What a step of one job does to the number of jobs in some stages.
LEMMA AtStep ==
  ASSUME NEW f \in [Jobs -> Stages], NEW j \in Jobs, NEW to \in Stages,
         NEW g, g[j] = to, \A k \in Jobs \ {j} : g[k] = f[k], NEW S
  PROVE  /\ (f[j] \in S <=> to \in S) => At(g, S) = At(f, S)
         /\ f[j] \notin S /\ to \in S
              => Cardinality(At(g, S)) = Cardinality(At(f, S)) + 1
         /\ f[j] \in S /\ to \notin S
              => Cardinality(At(g, S)) = Cardinality(At(f, S)) - 1
<1>1. (f[j] \in S <=> to \in S) => At(g, S) = At(f, S)
  BY DEF At
<1>2. f[j] \notin S /\ to \in S => At(g, S) = At(f, S) \cup {j} /\ j \notin At(f, S)
  BY DEF At
<1>3. f[j] \in S /\ to \notin S => At(g, S) = At(f, S) \ {j} /\ j \in At(f, S)
  BY DEF At
<1>4. IsFiniteSet(At(f, S)) /\ Cardinality(At(f, S)) \in Nat
  BY AtFinite
<1>5. f[j] \notin S /\ to \in S => Cardinality(At(g, S)) = Cardinality(At(f, S)) + 1
  BY <1>2, <1>4, FS_AddElement
<1>6. f[j] \in S /\ to \notin S => Cardinality(At(g, S)) = Cardinality(At(f, S)) - 1
  BY <1>3, <1>4, FS_RemoveElement
<1> QED
  BY <1>1, <1>5, <1>6

LEMMA LaunchedIsBegun == TypeOK => Launched = At(job, Begun)
  BY DEF TypeOK, Launched, At, Begun

-----------------------------------------------------------------------------
(* Outcomes.                                                               *)

\* Every job that was launched is counted or will be, and each success reaches
\* the collectors one after the other.
Counts ==
  /\ errCnt + roundTripHist + Cardinality(At(job, Uncounted)) = Cardinality(At(job, Begun))
  /\ roundTripHist = roundTripPrecise + Cardinality(At(job, {"precise"}))
  /\ slow <= roundTripHist + Cardinality(At(job, {"hist"}))

\* What the goroutine of a job does to the counters.
LEMMA JobCounts ==
  ASSUME TypeOK, Counts, NEW j \in Jobs, Job(j)
  PROVE  Counts'
<1> USE DEF Stages
<1>0. /\ job \in [Jobs -> Stages]
      /\ errCnt \in Nat /\ roundTripHist \in Nat /\ roundTripPrecise \in Nat
      /\ slow \in Nat
  BY DEF TypeOK
<1>1. /\ Cardinality(At(job, Uncounted)) \in Nat /\ Cardinality(At(job, Begun)) \in Nat
      /\ Cardinality(At(job, {"precise"})) \in Nat /\ Cardinality(At(job, {"hist"})) \in Nat
  BY AtFinite
<1>2. ASSUME NEW from \in Begun, NEW to \in Begun, Stage(j, from, to)
      PROVE  /\ At(job, Begun)' = At(job, Begun)
             /\ (from \in Uncounted <=> to \in Uncounted)
                  => At(job, Uncounted)' = At(job, Uncounted)
             /\ from \in Uncounted /\ to \notin Uncounted
                  => Cardinality(At(job, Uncounted)') = Cardinality(At(job, Uncounted)) - 1
             /\ from # "precise" /\ to # "precise"
                  => At(job, {"precise"})' = At(job, {"precise"})
             /\ from # "precise" /\ to = "precise"
                  => Cardinality(At(job, {"precise"})') = Cardinality(At(job, {"precise"})) + 1
             /\ from = "precise" /\ to # "precise"
                  => Cardinality(At(job, {"precise"})') = Cardinality(At(job, {"precise"})) - 1
             /\ from # "hist" /\ to # "hist" => At(job, {"hist"})' = At(job, {"hist"})
             /\ from # "hist" /\ to = "hist"
                  => Cardinality(At(job, {"hist"})') = Cardinality(At(job, {"hist"})) + 1
             /\ from = "hist" /\ to # "hist"
                  => Cardinality(At(job, {"hist"})') = Cardinality(At(job, {"hist"})) - 1
  <2>1. job[j] = from /\ job' = [job EXCEPT ![j] = to] /\ to \in Stages
    BY <1>2 DEF Stage, Begun
  <2> DEFINE g == job'
  <2>6. /\ At(job, Begun)' = At(g, Begun)
        /\ At(job, Uncounted)' = At(g, Uncounted)
        /\ At(job, {"precise"})' = At(g, {"precise"})
        /\ At(job, {"hist"})' = At(g, {"hist"})
    BY DEF At, Begun, Uncounted
  <2>7. g[j] = to /\ \A k \in Jobs \ {j} : g[k] = job[k]
    BY <1>0, <2>1
  <2> HIDE DEF g
  <2>2. At(job, Begun)' = At(job, Begun)
    BY <1>0, <1>2, <2>1, <2>6, <2>7, AtStep DEF Begun
  <2>3. /\ (from \in Uncounted <=> to \in Uncounted)
             => At(job, Uncounted)' = At(job, Uncounted)
        /\ from \in Uncounted /\ to \notin Uncounted
             => Cardinality(At(job, Uncounted)') = Cardinality(At(job, Uncounted)) - 1
    BY <1>0, <2>1, <2>6, <2>7, AtStep
  <2>4. /\ from # "precise" /\ to # "precise"
             => At(job, {"precise"})' = At(job, {"precise"})
        /\ from # "precise" /\ to = "precise"
             => Cardinality(At(job, {"precise"})') = Cardinality(At(job, {"precise"})) + 1
        /\ from = "precise" /\ to # "precise"
             => Cardinality(At(job, {"precise"})') = Cardinality(At(job, {"precise"})) - 1
    BY <1>0, <1>2, <2>1, <2>6, <2>7, AtStep DEF Begun
  <2>5. /\ from # "hist" /\ to # "hist" => At(job, {"hist"})' = At(job, {"hist"})
        /\ from # "hist" /\ to = "hist"
             => Cardinality(At(job, {"hist"})') = Cardinality(At(job, {"hist"})) + 1
        /\ from = "hist" /\ to # "hist"
             => Cardinality(At(job, {"hist"})') = Cardinality(At(job, {"hist"})) - 1
    BY <1>0, <1>2, <2>1, <2>6, <2>7, AtStep DEF Begun
  <2> QED
    BY <2>2, <2>3, <2>4, <2>5
<1> USE DEF Begun, Uncounted
<1>3. CASE Fail(j)
  BY <1>0, <1>1, <1>2, <1>3 DEF Fail, Counts, statVars
<1>4. CASE CountError(j)
  BY <1>0, <1>1, <1>2, <1>4 DEF CountError, Counts, statVars
<1>5. CASE Succeed(j)
  BY <1>0, <1>1, <1>2, <1>5 DEF Succeed, Counts, errVars
<1>6. CASE AddHist(j)
  BY <1>0, <1>1, <1>2, <1>6 DEF AddHist, Counts, errVars
<1>7. CASE AddPrecise(j)
  BY <1>0, <1>1, <1>2, <1>7 DEF AddPrecise, Counts, errVars
<1>8. CASE AddRolling(j)
  BY <1>0, <1>1, <1>2, <1>8 DEF AddRolling, Counts, errVars
<1>9. CASE Release(j)
  BY <1>0, <1>1, <1>2, <1>9 DEF Release, Counts, errVars, statVars
<1> QED
  BY <1>3, <1>4, <1>5, <1>6, <1>7, <1>8, <1>9 DEF Job

\* Main adds a job to those that will be counted, and counts none.
LEMMA MainCounts ==
  ASSUME SlotInv, Counts, Main
  PROVE  Counts'
<1>0. job \in [Jobs -> Stages] /\ errCnt \in Nat /\ roundTripHist \in Nat
  BY DEF SlotInv, TypeOK
<1>1. /\ Cardinality(At(job, Uncounted)) \in Nat /\ Cardinality(At(job, Begun)) \in Nat
  BY AtFinite
<1>2. UNCHANGED <<errCnt, slow, roundTripHist, roundTripPrecise>>
  BY DEF Main, Fetch, Wait, Acquire, Check, DrainTest, Fill, ReportCount,
     ReportErrors, ReportOutcome, ReportStats, notMain, statVars
<1>3. CASE Acquire
  <2>1. /\ i \in Jobs /\ job[i] = "idle"
        /\ job' = [job EXCEPT ![i] = "running"]
    BY <1>3 DEF SlotInv, TypeOK, NextJobIdle, Acquire
  <2> DEFINE g == job'
  <2>2. /\ At(job, Begun)' = At(g, Begun)
        /\ At(job, Uncounted)' = At(g, Uncounted)
        /\ At(job, {"precise"})' = At(g, {"precise"})
        /\ At(job, {"hist"})' = At(g, {"hist"})
    BY DEF At, Begun, Uncounted
  <2>3. g[i] = "running" /\ \A k \in Jobs \ {i} : g[k] = job[k]
    BY <1>0, <2>1
  <2> HIDE DEF g
  <2>4. "running" \in Stages
    BY DEF Stages
  <2>5. Cardinality(At(g, Begun)) = Cardinality(At(job, Begun)) + 1
    BY <1>0, <2>1, <2>3, <2>4, AtStep DEF Begun, Stages
  <2>6. Cardinality(At(g, Uncounted)) = Cardinality(At(job, Uncounted)) + 1
    BY <1>0, <2>1, <2>3, <2>4, AtStep DEF Uncounted
  <2>7. At(g, {"precise"}) = At(job, {"precise"}) /\ At(g, {"hist"}) = At(job, {"hist"})
    BY <1>0, <2>1, <2>3, <2>4, AtStep
  <2> QED
    BY <1>0, <1>1, <1>2, <2>2, <2>5, <2>6, <2>7 DEF Counts
<1>4. CASE ~Acquire
  <2>1. UNCHANGED job
    BY <1>4 DEF Main, Fetch, Wait, Check, DrainTest, Fill, ReportCount,
       ReportErrors, ReportOutcome, ReportStats
  <2> QED
    BY <1>2, <2>1 DEF Counts, At, Begun, Uncounted
<1> QED
  BY <1>3, <1>4

\* Counts is preserved.
LEMMA CountsStep == SlotInv /\ Counts /\ [Next]_vars => Counts'
<1> SUFFICES ASSUME SlotInv, Counts, [Next]_vars PROVE Counts'
  OBVIOUS
<1>1. CASE Main
  BY <1>1, MainCounts
<1>2. ASSUME NEW j \in Jobs, Job(j)
      PROVE  Counts'
  BY <1>2, JobCounts DEF SlotInv
<1>3. CASE ~Main /\ \A j \in Jobs : ~Job(j)
  BY <1>3, OthersFrame DEF Counts, At, Begun, Uncounted, errVars
<1> QED
  BY <1>1, <1>2, <1>3

\* Counts always holds.
LEMMA CountsInvariant == Spec => []Counts
<1>1. Init => Counts
  <2> SUFFICES ASSUME Init PROVE Counts
    OBVIOUS
  <2>1. /\ At(job, Uncounted) = {} /\ At(job, Begun) = {}
        /\ At(job, {"precise"}) = {} /\ At(job, {"hist"}) = {}
    BY DEF Init, At, Uncounted, Begun
  <2> QED
    BY <2>1, FS_EmptySet DEF Init, Counts
<1> QED
  BY <1>1, CountsStep, SlotsInvariant, PTL DEF Spec

-----------------------------------------------------------------------------
(* The numbers of the jobs.                                                *)

\* The other half of NextJobIdle: jobs are launched in the order of their
\* numbers and none is left out.
NoneLeftOut ==
  \A k \in Jobs :
    k < i \/ (k = i /\ mainPc \notin {"fetch", "wait", "acquire"}) => job[k] # "idle"

\* NoneLeftOut is preserved.
LEMMA NoneLeftOutStep == SlotInv /\ NoneLeftOut /\ [Next]_vars => NoneLeftOut'
<1> SUFFICES ASSUME SlotInv, NoneLeftOut, [Next]_vars PROVE NoneLeftOut'
  OBVIOUS
<1>0. job \in [Jobs -> Stages] /\ i \in Jobs /\ Jobs \subseteq Int
  BY DEF SlotInv, TypeOK, Jobs
<1>1. CASE Main
  <2>1. CASE Acquire
    BY <1>0, <2>1 DEF NoneLeftOut, Acquire
  <2>2. CASE Check
    <3>1. mainPc = "check" /\ UNCHANGED job /\ i' \in {i, i + 1}
          /\ (i' = i \/ mainPc' = "fetch")
      BY <2>2 DEF Check
    <3> QED
      BY <1>0, <3>1 DEF NoneLeftOut
  <2>3. CASE ~Acquire /\ ~Check
    <3>1. UNCHANGED <<i, job>>
          /\ (mainPc \in {"fetch", "wait", "acquire"} => mainPc' \in {"fetch", "wait", "acquire"})
      BY <1>1, <2>3 DEF Main, Fetch, Wait, DrainTest, Fill, ReportCount,
         ReportErrors, ReportOutcome, ReportStats
    <3> QED
      BY <3>1 DEF NoneLeftOut
  <2> QED
    BY <2>1, <2>2, <2>3
<1>2. ASSUME NEW j \in Jobs, Job(j)
      PROVE  NoneLeftOut'
  <2>1. UNCHANGED <<i, mainPc>>
        /\ \E to \in Stages \ {"idle"} : job' = [job EXCEPT ![j] = to]
    BY <1>2 DEF Job, Fail, CountError, Succeed, AddHist, AddPrecise,
       AddRolling, Release, Stage, Stages, notJob, mainVars
  <2> QED
    BY <1>0, <2>1 DEF NoneLeftOut
<1>3. CASE ~Main /\ \A j \in Jobs : ~Job(j)
  BY <1>3, OthersFrame DEF NoneLeftOut, mainVars
<1> QED
  BY <1>1, <1>2, <1>3

\* NoneLeftOut always holds.
LEMMA NoneLeftOutInvariant == Spec => []NoneLeftOut
<1>1. Init => NoneLeftOut
  BY DEF Init, NoneLeftOut, Jobs
<1> QED
  BY <1>1, NoneLeftOutStep, SlotsInvariant, PTL DEF Spec

\* The launched jobs are the numbers below i, with i itself once it is launched.
LEMMA LaunchedNumbers ==
  ASSUME SlotInv, NoneLeftOut
  PROVE  /\ mainPc \in {"fetch", "wait", "acquire"} => Cardinality(Launched) = i
         /\ mainPc \notin {"fetch", "wait", "acquire"} => Cardinality(Launched) = i + 1
<1>0. i \in Jobs /\ Jobs = 0 .. (n - 1) /\ n \in Nat
  BY Constants DEF SlotInv, TypeOK, Jobs
<1>1. CASE mainPc \in {"fetch", "wait", "acquire"}
  <2>1. Launched = 0 .. (i - 1)
    BY <1>0, <1>1 DEF Launched, SlotInv, NextJobIdle, NoneLeftOut
  <2>2. i - 1 \in Int
    BY <1>0
  <2>3. Cardinality(0 .. (i - 1)) = IF 0 > i - 1 THEN 0 ELSE (i - 1) - 0 + 1
    BY <2>2, FS_Interval
  <2> QED
    BY <1>0, <1>1, <2>1, <2>3
<1>2. CASE mainPc \notin {"fetch", "wait", "acquire"}
  <2>1. Launched = 0 .. i
    BY <1>0, <1>2 DEF Launched, SlotInv, NextJobIdle, NoneLeftOut
  <2> QED
    BY <1>0, <1>2, <2>1, FS_Interval
<1> QED
  BY <1>1, <1>2

-----------------------------------------------------------------------------
(* What report printed.                                                    *)

\* report reads the counters one after the other; without the key Left no job is
\* left to change them in between.
Printed ==
  /\ mainPc \in {"reportErrors", "reportOutcome", "reportStats"} \cup Ended
       => reported.succeeded = roundTripHist
  /\ mainPc \in {"reportOutcome", "reportStats"} \cup Ended
       => reported.failed = errCnt
  /\ mainPc \in {"reportStats", "returned"} => roundTripHist > 0
  /\ mainPc = "returned" => /\ reported.samples = roundTripPrecise
                            /\ reported.slow = slow
  /\ mainPc = "failed" => roundTripHist = 0 /\ reported.cause = lastErr

\* Printed is preserved.
LEMMA PrintedStep == TypeOK /\ Drained /\ Printed /\ [Next]_vars => Printed'
<1> SUFFICES ASSUME TypeOK, Drained, Printed, [Next]_vars PROVE Printed'
  OBVIOUS
<1> USE DEF Ended
<1>0. reported \in Reports /\ roundTripHist \in Nat
  BY DEF TypeOK
<1>1. CASE Main
  <2>1. UNCHANGED <<errCnt, slow, roundTripHist, roundTripPrecise>>
    BY <1>1 DEF Main, Fetch, Wait, Acquire, Check, DrainTest, Fill, ReportCount,
       ReportErrors, ReportOutcome, ReportStats, notMain, statVars
  <2>2. CASE ReportCount
    BY <1>0, <2>1, <2>2 DEF Printed, ReportCount, Reports
  <2>3. CASE ReportErrors
    BY <1>0, <2>1, <2>3 DEF Printed, ReportErrors, Reports
  <2>4. CASE ReportOutcome
    BY <1>0, <2>1, <2>4 DEF Printed, ReportOutcome, Reports
  <2>5. CASE ReportStats
    BY <1>0, <2>1, <2>5 DEF Printed, ReportStats, Reports
  <2>6. CASE Fetch \/ Wait \/ Acquire \/ Check \/ DrainTest \/ Fill
    BY <2>6 DEF Printed, Fetch, Wait, Acquire, Check, DrainTest, Fill
  <2> QED
    BY <1>1, <2>2, <2>3, <2>4, <2>5, <2>6 DEF Main
<1>2. ASSUME NEW j \in Jobs, Job(j)
      PROVE  Printed'
  <2>1. UNCHANGED mainPc /\ j \in InFlight
    BY <1>2 DEF Job, Fail, CountError, Succeed, AddHist, AddPrecise,
       AddRolling, Release, Stage, notJob, mainVars, InFlight
  <2> QED
    BY <2>1 DEF Printed, Drained, ReportAfterJobs, Reporting
<1>3. CASE ~Main /\ \A j \in Jobs : ~Job(j)
  BY <1>3, OthersFrame DEF Printed, mainVars, errVars
<1> QED
  BY <1>1, <1>2, <1>3

\* Without the key Left, Printed always holds.
LEMMA PrintedInvariant ==
  ASSUME ~LiveUI \/ "<Left>" \notin Keys
  PROVE  Spec => []Printed
<1>1. Init => Printed
  BY DEF Init, Printed, Ended
<1>2. Spec => []Drained
  BY DrainedInvariant
<1> QED
  BY <1>1, <1>2, PrintedStep, TypeCorrect, PTL DEF Spec

\* When no job is in flight, the outcomes counted are those of the jobs launched.
LEMMA CountedAtTheEnd ==
  ASSUME TypeOK, Counts, InFlight = {}
  PROVE  /\ errCnt + roundTripHist = Cardinality(Launched)
         /\ roundTripHist = roundTripPrecise
         /\ slow <= roundTripHist
<1>1. /\ At(job, Uncounted) = {} /\ At(job, {"precise"}) = {} /\ At(job, {"hist"}) = {}
  BY DEF At, Uncounted, InFlight
<1>2. Launched = At(job, Begun)
  BY LaunchedIsBegun
<1> QED
  BY <1>1, <1>2, FS_EmptySet, LaunchedStep DEF Counts, TypeOK

\* If no key lowers the limit, every launched job is in the report once, as a
\* success or as a failure, and every success is behind the percentiles, however
\* the jobs overlapped.
THEOREM Outcomes_Accounted ==
  ASSUME ~LiveUI \/ "<Left>" \notin Keys
  PROVE  Spec => []OutcomesAccounted
<1>1. TypeOK /\ Counts /\ Drained /\ Printed => OutcomesAccounted
  <2> SUFFICES ASSUME TypeOK, Counts, Drained, Printed, mainPc \in Ended
               PROVE  OutcomesAccounted
    BY DEF OutcomesAccounted, Ended
  <2>1. InFlight = {}
    BY DEF Drained, ReportAfterJobs
  <2>2. /\ errCnt + roundTripHist = Cardinality(Launched)
        /\ roundTripHist = roundTripPrecise
        /\ slow <= roundTripHist
    BY <2>1, CountedAtTheEnd
  <2> QED
    BY <2>2 DEF Printed, OutcomesAccounted, Ended, TypeOK
<1>2. Spec => []Drained /\ []Printed
  BY DrainedInvariant, PrintedInvariant
<1> QED
  BY <1>1, <1>2, TypeCorrect, CountsInvariant, PTL

\* If no key lowers the limit, the error "all requests failed" wraps the error of a
\* request: a run that fails has stored one before it reads it.
THEOREM Failure_Has_Cause ==
  ASSUME ~LiveUI \/ "<Left>" \notin Keys
  PROVE  Spec => []FailureHasCause
<1>1. SlotInv /\ Counts /\ NoneLeftOut /\ ErrorStored /\ Drained /\ Printed
        => FailureHasCause
  <2> SUFFICES ASSUME SlotInv, Counts, NoneLeftOut, ErrorStored, Drained, Printed,
                      mainPc = "failed"
               PROVE  reported.cause # "nil"
    BY DEF FailureHasCause
  <2>1. roundTripHist = 0 /\ reported.cause = lastErr
    BY DEF Printed
  <2>2. InFlight = {}
    BY DEF Drained, ReportAfterJobs, Ended
  <2>3. errCnt + roundTripHist = Cardinality(Launched)
    BY <2>2, CountedAtTheEnd DEF SlotInv
  <2>4. Cardinality(Launched) = i + 1 /\ i \in Nat
    BY LaunchedNumbers DEF SlotInv, TypeOK, Jobs
  <2>5. errCnt > 0
    BY <2>1, <2>3, <2>4 DEF SlotInv, TypeOK
  <2> QED
    BY <2>1, <2>5 DEF ErrorStored
<1>2. Spec => []Drained /\ []Printed
  BY DrainedInvariant, PrintedInvariant
<1> QED
  BY <1>1, <1>2, SlotsInvariant, CountsInvariant, NoneLeftOutInvariant,
     ErrorInvariant, PTL

-----------------------------------------------------------------------------
(* What a run reports when the key Left was pressed during its final wait. *)

\* The largest limit a run can have, and the slots one key can move then.
LargestLimit == IF InitialLimit < MaxConcurrency THEN MaxConcurrency ELSE InitialLimit
LargestStep == Delta(LargestLimit)

\* A larger limit is moved by at least as many slots.
LEMMA DeltaGrows ==
  ASSUME NEW a \in Nat, NEW b \in Nat, a <= b
  PROVE  Delta(a) <= Delta(b)
<1>1. a \div StepDivisor \in Nat /\ b \div StepDivisor \in Nat
  BY Constants
<1>2. a \div StepDivisor <= b \div StepDivisor
  BY Constants
<1> QED
  BY <1>1, <1>2 DEF Delta

\* No key leads above the capacity, and a decrease moves the limit by one step.
LimitInRange ==
  /\ concurrencyLimit <= LargestLimit
  /\ pollPc = "push" => owed <= LargestStep

\* LimitInRange is preserved.
LEMMA LimitInRangeStep == TypeOK /\ LimitInRange /\ [Next]_vars => LimitInRange'
<1> SUFFICES ASSUME TypeOK, LimitInRange, [Next]_vars PROVE LimitInRange'
  OBVIOUS
<1>0. /\ LargestLimit \in Nat /\ MaxConcurrency <= LargestLimit
      /\ LargestStep \in Int
      /\ concurrencyLimit \in Nat /\ owed \in Nat
  BY Constants, DeltaType DEF LargestLimit, LargestStep, TypeOK
<1>1. ASSUME UNCHANGED <<concurrencyLimit, owed>>,
             pollPc' = "push" => pollPc = "push"
      PROVE  LimitInRange'
  BY <1>1 DEF LimitInRange, LargestLimit, LargestStep, Delta
<1>2. CASE Main
  BY <1>1, <1>2 DEF Main, Fetch, Wait, Acquire, Check, DrainTest, Fill,
     ReportCount, ReportErrors, ReportOutcome, ReportStats, notMain, pollVars
<1>3. ASSUME NEW j \in Jobs, Job(j)
      PROVE  LimitInRange'
  BY <1>1, <1>3 DEF Job, Fail, CountError, Succeed, AddHist, AddPrecise,
     AddRolling, Release, notJob, pollVars
<1>4. ASSUME NEW key \in Keys, Key(key)
      PROVE  LimitInRange'
  <2>1. /\ Delta(concurrencyLimit) \in Nat \ {0}
        /\ Delta(concurrencyLimit) <= LargestStep
    BY <1>0, DeltaType, DeltaGrows DEF LimitInRange, LargestStep
  <2>2. CASE IncreaseConcurrency(key)
    <3>1. CASE UNCHANGED <<concurrencyLimit, owed, pollPc>>
      BY <1>1, <3>1
    <3>2. CASE ~UNCHANGED <<concurrencyLimit, owed, pollPc>>
      <4>1. concurrencyLimit' <= MaxConcurrency /\ pollPc' = "pop"
        BY <2>2, <3>2 DEF IncreaseConcurrency, pollVars
      <4>2. concurrencyLimit' \in Nat
        BY <1>0, <2>1, <2>2, <3>2 DEF IncreaseConcurrency, pollVars
      <4> QED
        BY <1>0, <4>1, <4>2, Constants DEF LimitInRange
    <3> QED
      BY <3>1, <3>2
  <2>3. CASE DecreaseConcurrency(key)
    BY <1>0, <1>1, <2>1, <2>3, Constants
    DEF LimitInRange, DecreaseConcurrency, LargestLimit, LargestStep, pollVars
  <2>4. CASE Custom(key) \/ Quit(key) \/ IncreaseRateLimit(key)
             \/ DecreaseRateLimit(key)
    BY <1>1, <2>4 DEF Custom, Quit, IncreaseRateLimit, DecreaseRateLimit,
       ChangeRate, BuiltIn, Press, pollVars
  <2> QED
    BY <1>4, <2>2, <2>3, <2>4 DEF Key
<1>5. CASE Poller
  BY <1>0, <1>1, <1>5 DEF LimitInRange, Poller, SendExit, Pop, Push, Settle,
     RefreshRateLimiter
<1>6. CASE UI \/ Stop \/ Expire \/ Signal \/ Over \/ UNCHANGED vars
  BY <1>1, <1>6 DEF UI, Tick, TakeExit, Frame, ResetRolling, Stop, Expire,
     Signal, Over, notUI, pollVars, vars
<1> QED
  BY <1>2, <1>3, <1>4, <1>5, <1>6 DEF Next

\* The report leaves out at most the jobs that were in flight when it started.
NearlyPrinted ==
  /\ mainPc \in Reporting \cup Ended => Cardinality(InFlight) <= LargestStep
  /\ mainPc \in {"reportErrors", "reportOutcome", "reportStats"} \cup Ended
       => /\ reported.succeeded <= roundTripHist
          /\ Cardinality(Launched) <= reported.succeeded + errCnt + LargestStep
  /\ mainPc \in {"reportOutcome", "reportStats"} \cup Ended
       => /\ reported.failed <= errCnt
          /\ Cardinality(Launched)
               <= reported.succeeded + reported.failed + LargestStep

\* A step of main keeps NearlyPrinted: the bound starts with the final wait, and
\* each number is printed from its counter.
LEMMA MainNearly ==
  ASSUME SlotInv, LimitInRange, Counts, NearlyPrinted, Main
  PROVE  NearlyPrinted'
<1>0. /\ reported \in Reports /\ roundTripHist \in Nat /\ errCnt \in Nat
      /\ reported.succeeded \in Nat /\ reported.failed \in Nat
      /\ LargestStep \in Int
      /\ Cardinality(Launched) \in Nat /\ Cardinality(InFlight) \in Nat
  BY Constants, DeltaType, LaunchedStep, InFlightFinite
  DEF SlotInv, TypeOK, Reports, LargestStep, LargestLimit
<1>1. UNCHANGED <<errCnt, roundTripHist>> /\ LargestStep' = LargestStep
  BY DEF Main, Fetch, Wait, Acquire, Check, DrainTest, Fill, ReportCount,
     ReportErrors, ReportOutcome, ReportStats, notMain, statVars
<1>2. CASE Fetch \/ Wait \/ Acquire \/ Check \/ Fill
  BY <1>2 DEF NearlyPrinted, Fetch, Wait, Acquire, Check, Fill, Reporting, Ended
<1>3. CASE DrainTest
  <2>1. CASE mainPc' # "report"
    BY <1>3, <2>1 DEF NearlyPrinted, DrainTest, Reporting, Ended
  <2>2. CASE mainPc' = "report"
    <3>1. filled >= concurrencyLimit /\ UNCHANGED job
      BY <1>3, <2>2 DEF DrainTest, SlotInv, TypeOK
    <3>2. /\ Usable \in Int
          /\ Usable <= concurrencyLimit + (IF pollPc = "push" THEN owed ELSE 0)
      BY Constants DEF Usable, Pending, SlotInv, TypeOK
    <3>3. Cardinality(InFlight) <= (IF pollPc = "push" THEN owed ELSE 0)
      BY <3>1, <3>2, InFlightFinite, Constants DEF SlotInv, TypeOK, SlotAccounting
    <3>4. LargestStep >= 0
      BY Constants, DeltaType DEF LargestStep, LargestLimit
    <3>5. Cardinality(InFlight) <= LargestStep
      BY <1>0, <3>3, <3>4 DEF LimitInRange, SlotInv, TypeOK
    <3>6. Cardinality(InFlight') = Cardinality(InFlight)
      BY <3>1 DEF InFlight
    <3> QED
      BY <1>1, <2>2, <3>5, <3>6 DEF NearlyPrinted, Ended
  <2> QED
    BY <2>1, <2>2
<1>4. CASE ReportCount \/ ReportErrors \/ ReportOutcome \/ ReportStats
  <2>1. UNCHANGED <<InFlight, Launched>>
    BY <1>4 DEF ReportCount, ReportErrors, ReportOutcome, ReportStats, InFlight,
       Launched
  <2>2. Cardinality(InFlight) <= LargestStep
    BY <1>4 DEF NearlyPrinted, ReportCount, ReportErrors, ReportOutcome,
       ReportStats, Reporting
  <2>3. CASE ReportCount
    <3>1. At(job, Uncounted) \subseteq InFlight
      BY DEF At, Uncounted, InFlight
    <3>2. /\ Cardinality(At(job, Uncounted)) <= Cardinality(InFlight)
          /\ Cardinality(At(job, Uncounted)) \in Nat
      BY <3>1, InFlightFinite, FS_Subset, AtFinite
    <3>3. errCnt + roundTripHist + Cardinality(At(job, Uncounted)) = Cardinality(Launched)
      BY LaunchedIsBegun DEF Counts, SlotInv
    <3>4. Cardinality(Launched) <= roundTripHist + errCnt + LargestStep
      BY <1>0, <2>2, <3>2, <3>3
    <3>5. mainPc' = "reportErrors" /\ reported'.succeeded = roundTripHist
      BY <1>0, <2>3 DEF ReportCount, Reports
    <3> QED
      BY <1>0, <1>1, <2>1, <2>2, <3>4, <3>5 DEF NearlyPrinted, Ended
  <2>4. CASE ReportErrors
    <3>1. /\ mainPc = "reportErrors" /\ reported'.succeeded = reported.succeeded
          /\ \/ mainPc' = "panic"
             \/ mainPc' = "reportOutcome" /\ reported'.failed = errCnt
      BY <1>0, <2>4 DEF ReportErrors, Reports
    <3> QED
      BY <1>0, <1>1, <2>1, <2>2, <3>1 DEF NearlyPrinted, Reporting, Ended
  <2>5. CASE ReportOutcome \/ ReportStats
    <3>1. /\ mainPc \in {"reportOutcome", "reportStats"}
          /\ reported'.succeeded = reported.succeeded
          /\ reported'.failed = reported.failed
      BY <1>0, <2>5 DEF ReportOutcome, ReportStats, Reports
    <3> QED
      BY <1>0, <1>1, <2>1, <2>2, <3>1 DEF NearlyPrinted
  <2> QED
    BY <1>4, <2>3, <2>4, <2>5
<1> QED
  BY <1>2, <1>3, <1>4 DEF Main

\* NearlyPrinted is preserved: once the loop is over jobs only end, and what they
\* count goes up.
LEMMA NearlyStep ==
  SlotInv /\ LimitInRange /\ Counts /\ NearlyPrinted /\ [Next]_vars => NearlyPrinted'
<1> SUFFICES ASSUME SlotInv, LimitInRange, Counts, NearlyPrinted, [Next]_vars
             PROVE  NearlyPrinted'
  OBVIOUS
<1>1. CASE Main
  BY <1>1, MainNearly
<1>2. ASSUME NEW j \in Jobs, Job(j)
      PROVE  NearlyPrinted'
  <2>1. /\ UNCHANGED <<mainPc, reported>> /\ LargestStep' = LargestStep
        /\ roundTripHist' \in {roundTripHist, roundTripHist + 1}
        /\ errCnt' \in {errCnt, errCnt + 1}
        /\ \E to \in Stages \ {"idle"} : job' = [job EXCEPT ![j] = to]
        /\ job[j] \notin {"idle", "done"}
    BY <1>2 DEF Job, Fail, CountError, Succeed, AddHist, AddPrecise,
       AddRolling, Release, Stage, Stages, notJob, mainVars, errVars, statVars
  <2>2. Launched' = Launched
    BY <2>1 DEF Launched, SlotInv, TypeOK
  <2>3. InFlight' \subseteq InFlight
    BY <2>1 DEF InFlight, SlotInv, TypeOK
  <2>4. Cardinality(InFlight') <= Cardinality(InFlight) /\ Cardinality(InFlight') \in Nat
    BY <2>3, InFlightFinite, FS_Subset, FS_CardinalityType
  <2>5. /\ reported.succeeded \in Nat /\ reported.failed \in Nat
        /\ roundTripHist \in Nat /\ errCnt \in Nat /\ LargestStep \in Int
        /\ Cardinality(Launched) \in Nat /\ Cardinality(InFlight) \in Nat
    BY Constants, DeltaType, LaunchedStep, InFlightFinite
    DEF SlotInv, TypeOK, Reports, LargestStep, LargestLimit
  <2> QED
    BY <2>1, <2>2, <2>4, <2>5 DEF NearlyPrinted
<1>3. CASE ~Main /\ \A j \in Jobs : ~Job(j)
  <2>1. LargestStep' = LargestStep
    OBVIOUS
  <2> QED
    BY <1>3, <2>1, OthersFrame
    DEF NearlyPrinted, InFlight, Launched, mainVars, errVars
<1> QED
  BY <1>1, <1>2, <1>3

\* With any keys, the report of a run counts no job that was not launched and
\* leaves out at most one step of the limit, also when the key Left lets the final
\* wait end early: 5% of the largest concurrency.
THEOREM Nearly_Accounted ==
  Spec => [](mainPc \in Ended =>
               /\ reported.succeeded + reported.failed <= Cardinality(Launched)
               /\ Cardinality(Launched)
                    <= reported.succeeded + reported.failed + LargestStep)
<1>1. TypeOK /\ Counts /\ NearlyPrinted
        => (mainPc \in Ended =>
              /\ reported.succeeded + reported.failed <= Cardinality(Launched)
              /\ Cardinality(Launched)
                   <= reported.succeeded + reported.failed + LargestStep)
  <2> SUFFICES ASSUME TypeOK, Counts, NearlyPrinted, mainPc \in Ended
               PROVE  reported.succeeded + reported.failed <= Cardinality(Launched)
    BY DEF NearlyPrinted
  <2>1. errCnt + roundTripHist + Cardinality(At(job, Uncounted)) = Cardinality(Launched)
    BY LaunchedIsBegun DEF Counts
  <2>2. /\ Cardinality(At(job, Uncounted)) \in Nat
        /\ reported.succeeded \in Nat /\ reported.failed \in Nat
        /\ roundTripHist \in Nat /\ errCnt \in Nat
    BY AtFinite DEF TypeOK, Reports
  <2> QED
    BY <2>1, <2>2 DEF NearlyPrinted
<1>2. Init => LimitInRange /\ NearlyPrinted
  BY Constants DEF Init, LimitInRange, LargestLimit, NearlyPrinted, Reporting, Ended
<1>3. Spec => []LimitInRange
  BY <1>2, LimitInRangeStep, TypeCorrect, PTL DEF Spec
<1>4. Spec => []NearlyPrinted
  BY <1>2, <1>3, NearlyStep, SlotsInvariant, CountsInvariant, PTL DEF Spec
<1> QED
  BY <1>1, <1>4, TypeCorrect, CountsInvariant, PTL

-----------------------------------------------------------------------------
(* Run implements LoadRun.                                                 *)

\* No key can move the concurrency limit.
LimitKept == ~LiveUI \/ {"<Left>", "<Right>"} \cap Keys = {}

\* Jobs that may run at once.
Limit == IF InitialLimit < MaxConcurrency THEN InitialLimit ELSE MaxConcurrency

\* The limit is the one the run started with.
LimitFixed ==
  concurrencyLimit = InitialLimit /\ pollPc \notin {"pop", "push"}

\* LimitFixed is preserved.
LEMMA LimitFixedStep ==
  ASSUME LimitKept
  PROVE  LimitFixed /\ [Next]_vars => LimitFixed'
<1> SUFFICES ASSUME LimitFixed, [Next]_vars PROVE LimitFixed'
  OBVIOUS
<1>1. CASE Main
  BY <1>1 DEF LimitFixed, Main, Fetch, Wait, Acquire, Check, DrainTest, Fill,
     ReportCount, ReportErrors, ReportOutcome, ReportStats, notMain, pollVars
<1>2. ASSUME NEW j \in Jobs, Job(j)
      PROVE  LimitFixed'
  BY <1>2 DEF LimitFixed, Job, Fail, CountError, Succeed, AddHist, AddPrecise,
     AddRolling, Release, notJob, pollVars
<1>3. ASSUME NEW key \in Keys, Key(key)
      PROVE  LimitFixed'
  BY <1>3 DEF LimitKept, LimitFixed, Key, Custom, Quit, IncreaseConcurrency,
     DecreaseConcurrency, IncreaseRateLimit, DecreaseRateLimit, ChangeRate,
     BuiltIn, Press, pollVars
<1>4. CASE Poller
  BY <1>4 DEF LimitFixed, Poller, SendExit, Pop, Push, RefreshRateLimiter
<1>5. CASE UI \/ Stop \/ Expire \/ Signal \/ Over \/ UNCHANGED vars
  BY <1>5 DEF LimitFixed, UI, Tick, TakeExit, Frame, ResetRolling, Stop, Expire,
     Signal, Over, notUI, pollVars, vars
<1> QED
  BY <1>1, <1>2, <1>3, <1>4, <1>5 DEF Next

\* LimitFixed always holds if no key can move the limit.
LEMMA LimitFixedInvariant == ASSUME LimitKept PROVE Spec => []LimitFixed
<1>1. Init => LimitFixed
  BY DEF Init, LimitFixed
<1>2. LimitFixed /\ [Next]_vars => LimitFixed'
  BY LimitFixedStep
<1> QED
  BY <1>1, <1>2, PTL DEF Spec

\* A run with more concurrency than the semaphore has capacity never reaches its
\* report, unless a key lowers the limit: the final wait asks for more slots than
\* the channel can ever give it.
THEOREM Over_Capacity ==
  ASSUME LimitKept, InitialLimit > MaxConcurrency
  PROVE  Spec => [](mainPc \notin Reporting \cup Ended)
<1>1. Init => mainPc \notin Reporting \cup Ended
  BY DEF Init, Reporting, Ended
<1>2. SlotInv /\ LimitFixed /\ mainPc \notin Reporting \cup Ended /\ [Next]_vars
        => (mainPc \notin Reporting \cup Ended)'
  <2> SUFFICES ASSUME SlotInv, LimitFixed, mainPc \notin Reporting \cup Ended,
                      [Next]_vars
               PROVE  mainPc' \notin Reporting \cup Ended
    OBVIOUS
  <2>1. CASE Main
    <3>1. Usable = MaxConcurrency
      BY Constants DEF LimitFixed, Usable, Pending, Excess, Prefilled
    <3>2. filled <= MaxConcurrency
      BY <3>1, InFlightFinite, Constants DEF SlotInv, TypeOK, SlotAccounting
    <3>3. filled < concurrencyLimit
      BY <3>2, Constants DEF LimitFixed, SlotInv, TypeOK
    <3> QED
      BY <2>1, <3>3 DEF Main, Fetch, Wait, Acquire, Check, DrainTest, Fill,
         ReportCount, ReportErrors, ReportOutcome, ReportStats, Reporting, Ended
  <2>2. ASSUME NEW j \in Jobs, Job(j)
        PROVE  mainPc' = mainPc
    BY <2>2 DEF Job, Fail, CountError, Succeed, AddHist, AddPrecise, AddRolling,
       Release, notJob, mainVars
  <2>3. CASE ~Main /\ \A j \in Jobs : ~Job(j)
    BY <2>3, OthersFrame DEF mainVars
  <2> QED
    BY <2>1, <2>2, <2>3
<1>3. Spec => []LimitFixed
  BY LimitFixedInvariant
<1> QED
  BY <1>1, <1>2, <1>3, SlotsInvariant, PTL DEF Spec

\* What the steps of Run are shown to refine from.
RefineInv == SlotInv /\ NoneLeftOut /\ LimitFixed /\ Drained /\ Printed /\ ErrorStored

\* A free slot of the channel is a job fewer than the limit.
LEMMA BelowLimit ==
  ASSUME SlotInv, LimitFixed, semaphore < MaxConcurrency
  PROVE  Cardinality(At(job, Uncounted)) < Limit
<1>1. Usable = Limit
  BY Constants DEF LimitFixed, Usable, Pending, Excess, Limit, Prefilled
<1>2. Cardinality(InFlight) < Limit
  BY <1>1, InFlightFinite, Constants
  DEF SlotInv, TypeOK, SlotAccounting, Limit
<1>3. At(job, Uncounted) \subseteq InFlight
  BY DEF At, Uncounted, InFlight
<1>4. Cardinality(At(job, Uncounted)) <= Cardinality(InFlight)
  BY <1>3, InFlightFinite, FS_Subset
<1> QED
  BY <1>2, <1>4, InFlightFinite, AtFinite, Constants DEF Limit

\* What LoadRun sees of a state.
Running == At(job, Uncounted)
Status ==
  IF mainPc \in Ended THEN mainPc ELSE IF exited THEN "aborted" ELSE "running"

\* FiniteSets as LoadRun extends it.
LEMMA SameCardinality == ASSUME NEW S PROVE LoadRun!Cardinality(S) = Cardinality(S)
BY DEF LoadRun!Cardinality, Cardinality, LoadRun!IsFiniteSet, IsFiniteSet

\* A job that is launched is started.
LEMMA AcquireStarts ==
  ASSUME RefineInv, Alive, Acquire
  PROVE  LoadRun!Start
<1>1. mainPc = "acquire" /\ mainPc' = "check" /\ ~exited /\ exited' = exited
  BY DEF Acquire, Alive, notMain, stopVars
<1>2. UNCHANGED <<roundTripHist, errCnt>>
  BY DEF Acquire, notMain, statVars
<1>3. /\ i \in Jobs /\ i \in Nat /\ i < n /\ Cardinality(Launched) = i
      /\ Cardinality(Launched') = i + 1
  <2>1. SlotInv /\ NoneLeftOut
    BY DEF RefineInv
  <2>2. i \in Jobs /\ i \in Nat /\ i < n
    BY <2>1, Constants DEF SlotInv, TypeOK, Jobs
  <2>3. Cardinality(Launched) = i
    BY <1>1, <2>1, LaunchedNumbers
  <2>4. Cardinality(Launched') = i + 1
    BY <2>1, <2>3, LaunchedStep
  <2> QED
    BY <2>2, <2>3, <2>4
<1>4. Cardinality(Running) < Limit
  BY BelowLimit DEF RefineInv, Running, Acquire
<1>5. Running' = Running \cup {i}
  BY <1>3 DEF Running, At, Uncounted, Acquire, RefineInv, SlotInv, TypeOK
<1>6. LoadRun!Cardinality(Running) < Limit
  BY <1>4, SameCardinality
<1> QED
  BY <1>1, <1>2, <1>3, <1>5, <1>6
  DEF LoadRun!Start, Running, At, Uncounted, Limit, Status, Ended

\* A job that is counted ends; its other steps are its own affair.
LEMMA JobEnds ==
  ASSUME RefineInv, NEW j \in Jobs, Job(j)
  PROVE  LoadRun!End(j) \/ UNCHANGED LoadRun!vars
<1>0. job \in [Jobs -> Stages]
  BY DEF RefineInv, SlotInv, TypeOK
<1>1. UNCHANGED <<mainPc, exited>> /\ Launched' = Launched
  <2>1. UNCHANGED <<mainPc, exited>>
    BY DEF Job, Fail, CountError, Succeed, AddHist, AddPrecise, AddRolling,
       Release, notJob, mainVars, stopVars
  <2>2. job[j] # "idle" /\ \E to \in Stages \ {"idle"} : job' = [job EXCEPT ![j] = to]
    BY DEF Job, Fail, CountError, Succeed, AddHist, AddPrecise, AddRolling,
       Release, Stage, Stages
  <2> QED
    BY <1>0, <2>1, <2>2 DEF Launched
<1>2. Status = "running" /\ Status' = "running"
  <2>1. j \in InFlight
    BY DEF Job, Fail, CountError, Succeed, AddHist, AddPrecise, AddRolling,
       Release, Stage, InFlight
  <2>2. mainPc \notin Ended
    BY <2>1 DEF RefineInv, Drained, ReportAfterJobs
  <2> QED
    BY <1>1, <2>2 DEF Job, Alive, Status
<1>3. CASE CountError(j)
  <2>1. j \in Running /\ Running' = Running \ {j}
    BY <1>0, <1>3 DEF Running, At, Uncounted, CountError, Stage
  <2>2. errCnt' = errCnt + 1 /\ UNCHANGED roundTripHist
    BY <1>3 DEF CountError, statVars
  <2> QED
    BY <1>1, <1>2, <2>1, <2>2
    DEF LoadRun!End, LoadRun!Fail, Running, At, Uncounted, Status, Ended
<1>4. CASE AddHist(j)
  <2>1. j \in Running /\ Running' = Running \ {j}
    BY <1>0, <1>4 DEF Running, At, Uncounted, AddHist, Stage
  <2>2. roundTripHist' = roundTripHist + 1 /\ UNCHANGED errCnt
    BY <1>4 DEF AddHist, errVars
  <2> QED
    BY <1>1, <1>2, <2>1, <2>2
    DEF LoadRun!End, LoadRun!Succeed, Running, At, Uncounted, Status, Ended
<1>5. CASE ~CountError(j) /\ ~AddHist(j)
  <2>1. UNCHANGED <<errCnt, roundTripHist>>
    BY <1>5 DEF Job, Fail, Succeed, AddPrecise, AddRolling, Release, errVars, statVars
  <2>2. Running' = Running
    BY <1>0, <1>5 DEF Job, Fail, Succeed, AddPrecise, AddRolling, Release, Stage,
       Running, At, Uncounted
  <2> QED
    BY <1>1, <1>2, <2>1, <2>2
    DEF LoadRun!vars, Running, At, Uncounted, Status, Ended
<1> QED
  BY <1>3, <1>4, <1>5

\* The run returns when the last statement of report is reached.
LEMMA ReportReturns ==
  ASSUME RefineInv, Alive, ReportOutcome \/ ReportStats
  PROVE  LoadRun!Return \/ UNCHANGED LoadRun!vars
<1>1. UNCHANGED <<job, roundTripHist, errCnt, exited>> /\ ~exited
  BY DEF Alive, ReportOutcome, ReportStats, notMain, statVars, stopVars
<1>2. Running = {} /\ Running' = {}
  BY <1>1 DEF RefineInv, Drained, ReportAfterJobs, Reporting, Running, At,
     Uncounted, InFlight, ReportOutcome, ReportStats
<1>3. Launched' = Launched
  BY <1>1 DEF Launched
<1>4. Cardinality(Launched) > 0
  <2>1. SlotInv /\ NoneLeftOut
    BY DEF RefineInv
  <2>2. mainPc \notin {"fetch", "wait", "acquire"}
    BY DEF ReportOutcome, ReportStats
  <2>3. Cardinality(Launched) = i + 1 /\ i \in Nat
    BY <2>1, <2>2, LaunchedNumbers DEF SlotInv, TypeOK, Jobs
  <2> QED
    BY <2>3
<1>5. CASE mainPc' \in Ended
  <2>1. /\ mainPc \notin Ended
        /\ mainPc' = IF roundTripHist = 0 THEN "failed" ELSE "returned"
    BY <1>5 DEF ReportOutcome, ReportStats, RefineInv, Printed, Ended
  <2> QED
    BY <1>1, <1>2, <1>3, <1>4, <2>1
    DEF LoadRun!Return, Running, At, Uncounted, Status, Ended
<1>6. CASE mainPc' \notin Ended
  <2>1. mainPc \notin Ended
    BY DEF ReportOutcome, ReportStats, Ended
  <2> QED
    BY <1>1, <1>2, <1>3, <1>6, <2>1
    DEF LoadRun!vars, Running, At, Uncounted, Status, Ended
<1> QED
  BY <1>5, <1>6

\* Every step of Run is a step of LoadRun or changes nothing that LoadRun sees.
LEMMA StepsRefine ==
  RefineInv /\ [Next]_vars => [LoadRun!Next]_LoadRun!vars
<1> SUFFICES ASSUME RefineInv, [Next]_vars
             PROVE  LoadRun!Next \/ UNCHANGED LoadRun!vars
  OBVIOUS
<1>1. CASE Main
  <2>1. CASE Acquire
    BY <1>1, <2>1, AcquireStarts DEF Main, LoadRun!Next
  <2>2. CASE ReportOutcome \/ ReportStats
    BY <1>1, <2>2, ReportReturns DEF Main, LoadRun!Next
  <2>3. CASE Fetch \/ Wait \/ Check \/ DrainTest \/ Fill \/ ReportCount \/ ReportErrors
    <3>1. UNCHANGED <<job, roundTripHist, errCnt, exited>>
      BY <2>3 DEF Fetch, Wait, Check, DrainTest, Fill, ReportCount, ReportErrors,
         notMain, statVars, stopVars
    <3>2. mainPc \notin Ended /\ mainPc' \notin Ended
      BY <2>3 DEF Ended, Fetch, Wait, Check, DrainTest, Fill, ReportCount, ReportErrors
    <3> QED
      BY <3>1, <3>2 DEF LoadRun!vars, Launched
  <2> QED
    BY <1>1, <2>1, <2>2, <2>3 DEF Main
<1>2. ASSUME NEW j \in Jobs, Job(j)
      PROVE  LoadRun!Next \/ UNCHANGED LoadRun!vars
  BY <1>2, JobEnds DEF LoadRun!Next, Jobs
<1>3. CASE ~Main /\ \A j \in Jobs : ~Job(j)
  <2>1. UNCHANGED <<mainPc, job, roundTripHist, errCnt>>
    BY <1>3, OthersFrame DEF mainVars, errVars
  <2>2. CASE exited' = exited
    BY <2>1, <2>2 DEF LoadRun!vars, Launched
  <2>3. CASE exited' # exited
    <3>1. ~exited /\ exited' = TRUE
      <4>1. Stop
        BY <1>3, <2>3 DEF Next, Key, Custom, Quit, IncreaseConcurrency,
           DecreaseConcurrency, IncreaseRateLimit, DecreaseRateLimit, ChangeRate,
           BuiltIn, Press, Poller, SendExit, Pop, Push, Settle,
           RefreshRateLimiter, UI, Tick, TakeExit, Frame, ResetRolling, Expire,
           Signal, Over, notPoller, notUI, stopVars, vars
      <4> QED
        BY <2>3, <4>1 DEF Stop, Alive
    <3>2. CASE mainPc \in Ended
      BY <2>1, <3>2 DEF LoadRun!vars, Launched
    <3>3. CASE mainPc \notin Ended
      BY <2>1, <3>1, <3>3 DEF LoadRun!Next, LoadRun!Abort, Launched
    <3> QED
      BY <3>2, <3>3
  <2> QED
    BY <2>2, <2>3
<1> QED
  BY <1>1, <1>2, <1>3

\* If no key moves the concurrency limit, every behaviour of Run is one of
\* LoadRun: jobs get consecutive numbers, at most Limit run at once, each is
\* counted once, and the run returns when none is left, failed if none
\* succeeded.
THEOREM Implements_LoadRun ==
  ASSUME LimitKept
  PROVE  Spec => LoadRun!SafeSpec
<1>1. Init => LoadRun!Init
  <2> SUFFICES ASSUME Init PROVE LoadRun!Init
    OBVIOUS
  <2>1. Launched = {}
    BY DEF Init, Launched
  <2>2. Cardinality(Launched) = 0
    BY <2>1, FS_EmptySet
  <2> QED
    BY <2>2 DEF Init, LoadRun!Init, Ended
<1>3. Spec => []LimitFixed
  BY LimitFixedInvariant
<1>4. ~LiveUI \/ "<Left>" \notin Keys
  BY DEF LimitKept
<1>5. Spec => []Drained /\ []Printed
  BY <1>4, DrainedInvariant, PrintedInvariant
<1>6. SlotInv /\ NoneLeftOut /\ LimitFixed /\ Drained /\ Printed /\ ErrorStored
        => RefineInv
  BY DEF RefineInv
<1> QED
  BY <1>1, <1>3, <1>5, <1>6, StepsRefine, SlotsInvariant,
     NoneLeftOutInvariant, ErrorInvariant, PTL DEF Spec, LoadRun!SafeSpec
=============================================================================
