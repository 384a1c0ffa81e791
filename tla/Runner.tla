------------------------------- MODULE Runner -------------------------------
(***************************************************************************)
(* loadgen.Run: the main loop that launches jobs, the semaphore channel    *)
(* that bounds them, the goroutine of every job, the goroutine that stops  *)
(* the run on an interrupt, and in live-UI mode the keyboard poller and    *)
(* the drawing loop.  An action is one operation on shared state: a load   *)
(* or a store, a channel send or receive, or a section under r.mu.         *)
(***************************************************************************)
EXTENDS Integers, FiniteSets

CONSTANTS
  \* Flags of the run (loadgen.Flags) and the constants they are combined with.
  Number, Concurrency, RateLimit, LiveUI,
  MaxConcurrency,       \* capacity of the semaphore: 1000 in the code
  DefaultConcurrency,   \* limit of a run without a positive one: 50
  MaxInt32,             \* loops of a run without a positive Number: 2^31 - 1
  StepDivisor,          \* a key changes a limit by 1/StepDivisor: 20, for 5%
  KeyPressed,           \* keys for which the caller installed its own handler
  LimiterFails,         \* may rate.Limiter.Wait return an error
  SlowResponses,        \* may a job take longer than --slow
  \* The environment, with its bounds.
  Keys,                 \* keys the user presses
  MaxKeys,              \* key presses in a run
  MaxInterrupts,        \* interrupts after which no more signals are sent
  MaxRate               \* largest request rate a frame of the UI computes

AllKeys == {"q", "<Right>", "<Left>", "<Up>", "<Down>"}

ASSUME RunnerAssumption ==
  /\ {Number, Concurrency, RateLimit} \subseteq Int
  /\ {LiveUI, LimiterFails, SlowResponses} \subseteq BOOLEAN
  /\ {MaxConcurrency, DefaultConcurrency, MaxInt32, StepDivisor}
       \subseteq Nat \ {0}
  /\ {MaxKeys, MaxInterrupts, MaxRate} \subseteq Nat
  /\ Keys \subseteq AllKeys
  /\ KeyPressed \subseteq AllKeys

n == IF Number <= 0 THEN MaxInt32 ELSE Number
Jobs == 0 .. (n - 1)

InitialLimit == IF Concurrency <= 0 THEN DefaultConcurrency ELSE Concurrency

\* Faulty variant of Prefilled: the loop is one iteration short.
PrefilledShort ==
  IF InitialLimit + 1 < MaxConcurrency THEN MaxConcurrency - InitialLimit - 1
                                       ELSE 0

\* Slots newRunner takes before the run, so that InitialLimit of them are left.
Prefilled ==
  IF InitialLimit < MaxConcurrency THEN MaxConcurrency - InitialLimit ELSE 0

VARIABLES
  \* main goroutine
  mainPc,             \* the statement it is at
  i,                  \* loop variable
  waitOn,             \* limit of the limiter it fetched, 0 for nil
  filled,             \* slots it took to wait for the jobs
  \* the runner
  semaphore,          \* number of elements in the channel
  concurrencyLimit, rateLimit, currentReqRate,
  rl,                 \* limit of the installed limiter, 0 for nil
  errCnt, lastErr, slow,
  roundTripHist, roundTripPrecise, roundTripRolling,  \* samples held
  done,
  exit,               \* number of elements in the channel of capacity 1
  exited,             \* os.Exit was called
  \* job goroutines
  job,                \* stage of the goroutine of every loop iteration
  \* live UI: keyboard poller and drawing loop
  pollPc, owed,       \* owed: channel operations a limit change still needs
  uiPc, doReturn, reqPrev,
  \* environment
  expired, presses, interrupts,
  \* what report printed
  reported

mainVars == <<mainPc, i, waitOn, filled>>
rateVars == <<rateLimit, currentReqRate, rl>>
errVars == <<errCnt, lastErr>>
statVars == <<slow, roundTripHist, roundTripPrecise, roundTripRolling>>
stopVars == <<done, exit, exited>>
pollVars == <<pollPc, owed>>
uiVars == <<uiPc, doReturn, reqPrev>>
envVars == <<expired, presses, interrupts>>
vars == <<mainVars, semaphore, concurrencyLimit, rateVars, errVars, statVars,
          stopVars, job, pollVars, uiVars, envVars, reported>>

\* What each kind of goroutine never changes.
notMain == <<concurrencyLimit, rateVars, errCnt, statVars, stopVars, pollVars,
             uiVars, envVars>>
notJob == <<mainVars, concurrencyLimit, rateVars, stopVars, pollVars, uiVars,
            envVars, reported>>
notPoller == <<mainVars, currentReqRate, errVars, statVars, done, exited, job,
               uiVars, expired, reported>>
notUI == <<mainVars, semaphore, concurrencyLimit, rateLimit, rl, errVars, slow,
           roundTripHist, roundTripPrecise, done, exited, job, pollVars,
           envVars, reported>>

Stages == {"idle", "running", "count", "hist", "precise", "rolling",
           "release", "done"}

\* Goroutines that hold a slot of the semaphore.
InFlight == {j \in Jobs : job[j] \notin {"idle", "done"}}
Launched == {j \in Jobs : job[j] # "idle"}

\* Nothing runs once the process is gone.
Alive == ~exited /\ mainPc # "panic"

Init ==
  /\ mainPc = "fetch" /\ i = 0 /\ waitOn = 0 /\ filled = 0
  /\ semaphore = Prefilled
  /\ concurrencyLimit = InitialLimit
  /\ rateLimit = (IF RateLimit > 0 THEN RateLimit ELSE 0)
  /\ rl = rateLimit
  /\ currentReqRate = 0
  /\ errCnt = 0 /\ lastErr = "nil"
  /\ slow = 0
  /\ roundTripHist = 0 /\ roundTripPrecise = 0 /\ roundTripRolling = 0
  /\ done = FALSE /\ exit = 0 /\ exited = FALSE
  /\ job = [j \in Jobs |-> "idle"]
  /\ pollPc = (IF LiveUI THEN "poll" ELSE "off") /\ owed = 0
  /\ uiPc = (IF LiveUI THEN "select" ELSE "off")
  /\ doReturn = FALSE /\ reqPrev = 0
  /\ expired = FALSE /\ presses = 0 /\ interrupts = 0
  /\ reported = [succeeded |-> 0, failed |-> 0, cause |-> "nil",
                 samples |-> 0, slow |-> 0]

-----------------------------------------------------------------------------
(* The main goroutine: Run, then report.                                   *)

\* The limiter is read under r.mu and used after the unlock.
Fetch ==
  /\ mainPc = "fetch"
  /\ waitOn' = rl
  /\ mainPc' = (IF rl = 0 THEN "acquire" ELSE "wait")
  /\ UNCHANGED <<notMain, i, filled, semaphore, lastErr, job, reported>>

\* A limiter whose limit is not positive never lets its caller through.
Wait ==
  /\ mainPc = "wait"
  /\ \/ waitOn > 0 /\ UNCHANGED lastErr
     \/ LimiterFails /\ lastErr' = "limiter"
  /\ mainPc' = "acquire"
  /\ UNCHANGED <<notMain, i, waitOn, filled, semaphore, job, reported>>

\* Faulty variant of Acquire: a send that does not wait for room.
AcquireAtOnce ==
  /\ mainPc = "acquire"
  /\ semaphore' = semaphore + 1
  /\ job' = [job EXCEPT ![i] = "running"]
  /\ mainPc' = "check"
  /\ UNCHANGED <<notMain, i, waitOn, filled, lastErr, reported>>

\* The send on the semaphore and the go statement.
Acquire ==
  /\ mainPc = "acquire"
  /\ semaphore < MaxConcurrency
  /\ semaphore' = semaphore + 1
  /\ job' = [job EXCEPT ![i] = "running"]
  /\ mainPc' = "check"
  /\ UNCHANGED <<notMain, i, waitOn, filled, lastErr, reported>>

\* Faulty variant of Check: the break only looks at the clock.
CheckClock ==
  /\ mainPc = "check"
  /\ IF expired \/ i + 1 = n
       THEN mainPc' = "drain" /\ UNCHANGED i
       ELSE mainPc' = "fetch" /\ i' = i + 1
  /\ UNCHANGED <<notMain, waitOn, filled, semaphore, lastErr, job, reported>>

\* The break condition, then the loop condition.
Check ==
  /\ mainPc = "check"
  /\ IF expired \/ done \/ i + 1 = n
       THEN mainPc' = "drain" /\ UNCHANGED i
       ELSE mainPc' = "fetch" /\ i' = i + 1
  /\ UNCHANGED <<notMain, waitOn, filled, semaphore, lastErr, job, reported>>

\* Faulty variant of DrainTest: the loop is one iteration short.
DrainTestShort ==
  /\ mainPc = "drain"
  /\ mainPc' = (IF filled + 1 < concurrencyLimit THEN "fill" ELSE "report")
  /\ UNCHANGED <<notMain, i, waitOn, filled, semaphore, lastErr, job,
                 reported>>

\* The test of the loop that waits for the jobs by filling the channel ...
DrainTest ==
  /\ mainPc = "drain"
  /\ mainPc' = (IF filled < concurrencyLimit THEN "fill" ELSE "report")
  /\ UNCHANGED <<notMain, i, waitOn, filled, semaphore, lastErr, job,
                 reported>>

\* ... and its body.
Fill ==
  /\ mainPc = "fill"
  /\ semaphore < MaxConcurrency
  /\ semaphore' = semaphore + 1
  /\ filled' = filled + 1
  /\ mainPc' = "drain"
  /\ UNCHANGED <<notMain, i, waitOn, lastErr, job, reported>>

ReportCount ==
  /\ mainPc = "report"
  /\ reported' = [reported EXCEPT !.succeeded = roundTripHist]
  /\ mainPc' = "reportErrors"
  /\ UNCHANGED <<notMain, i, waitOn, filled, semaphore, lastErr, job>>

\* lastErr.Error() panics on a nil error.
ReportErrors ==
  /\ mainPc = "reportErrors"
  /\ IF errCnt > 0 /\ lastErr = "nil"
       THEN mainPc' = "panic" /\ UNCHANGED reported
       ELSE /\ mainPc' = "reportOutcome"
            /\ reported' = [reported EXCEPT !.failed = errCnt]
  /\ UNCHANGED <<notMain, i, waitOn, filled, semaphore, lastErr, job>>

\* Without a sample Run returns the error "all requests failed: lastErr".
ReportOutcome ==
  /\ mainPc = "reportOutcome"
  /\ IF roundTripHist = 0
       THEN /\ mainPc' = "failed"
            /\ reported' = [reported EXCEPT !.cause = lastErr]
       ELSE mainPc' = "reportStats" /\ UNCHANGED reported
  /\ UNCHANGED <<notMain, i, waitOn, filled, semaphore, lastErr, job>>

ReportStats ==
  /\ mainPc = "reportStats"
  /\ reported' = [reported EXCEPT !.samples = roundTripPrecise, !.slow = slow]
  /\ mainPc' = "returned"
  /\ UNCHANGED <<notMain, i, waitOn, filled, semaphore, lastErr, job>>

Main ==
  /\ Alive
  /\ \/ Fetch \/ Wait \/ Acquire \/ Check \/ DrainTest \/ Fill
     \/ ReportCount \/ ReportErrors \/ ReportOutcome \/ ReportStats

-----------------------------------------------------------------------------
(* The goroutine of job j.                                                 *)

Stage(j, from, to) ==
  /\ job[j] = from
  /\ job' = [job EXCEPT ![j] = to]

\* Faulty variant of Fail: the error is counted before it is stored.
FailCounted(j) ==
  /\ Stage(j, "running", "count")
  /\ errCnt' = errCnt + 1
  /\ UNCHANGED <<notJob, semaphore, lastErr, statVars>>

\* jobProducer.Job returns an error, which is stored under r.mu.
Fail(j) ==
  /\ Stage(j, "running", "count")
  /\ lastErr' = "job"
  /\ UNCHANGED <<notJob, semaphore, errCnt, statVars>>

\* Faulty variant of CountError: a failed job keeps its slot.
CountErrorOnly(j) ==
  /\ Stage(j, "count", "done")
  /\ errCnt' = errCnt + 1
  /\ UNCHANGED <<notJob, semaphore, lastErr, statVars>>

CountError(j) ==
  /\ Stage(j, "count", "release")
  /\ errCnt' = errCnt + 1
  /\ UNCHANGED <<notJob, semaphore, lastErr, statVars>>

\* jobProducer.Job returns a duration, which may exceed --slow.
Succeed(j) ==
  /\ Stage(j, "running", "hist")
  /\ \/ UNCHANGED slow
     \/ SlowResponses /\ slow' = slow + 1
  /\ UNCHANGED <<notJob, semaphore, errVars, roundTripHist, roundTripPrecise,
                 roundTripRolling>>

\* Faulty variant of AddHist: the sample goes to one collector only.
AddHistOnly(j) ==
  /\ Stage(j, "hist", "rolling")
  /\ roundTripHist' = roundTripHist + 1
  /\ UNCHANGED <<notJob, semaphore, errVars, slow, roundTripPrecise,
                 roundTripRolling>>

\* The three collectors, each behind its own lock, receive the sample in turn.
AddHist(j) ==
  /\ Stage(j, "hist", "precise")
  /\ roundTripHist' = roundTripHist + 1
  /\ UNCHANGED <<notJob, semaphore, errVars, slow, roundTripPrecise,
                 roundTripRolling>>

AddPrecise(j) ==
  /\ Stage(j, "precise", "rolling")
  /\ roundTripPrecise' = roundTripPrecise + 1
  /\ UNCHANGED <<notJob, semaphore, errVars, slow, roundTripHist,
                 roundTripRolling>>

AddRolling(j) ==
  /\ Stage(j, "rolling", "release")
  /\ roundTripRolling' = roundTripRolling + 1
  /\ UNCHANGED <<notJob, semaphore, errVars, slow, roundTripHist,
                 roundTripPrecise>>

\* The deferred receive that frees the slot.
Release(j) ==
  /\ Stage(j, "release", "done")
  /\ semaphore > 0
  /\ semaphore' = semaphore - 1
  /\ UNCHANGED <<notJob, errVars, statVars>>

Job(j) ==
  /\ Alive
  /\ \/ Fail(j) \/ CountError(j) \/ Succeed(j) \/ AddHist(j)
     \/ AddPrecise(j) \/ AddRolling(j) \/ Release(j)

-----------------------------------------------------------------------------
(* The goroutine of newRunner that consumes interrupts.  It is the only    *)
(* writer of done, so one step reads and sets it.                          *)

\* Faulty variant of Stop: the flag is set before it is tested.
StopAtOnce ==
  /\ Alive
  /\ exit > 0
  /\ exit' = 0
  /\ done' = TRUE /\ exited' = TRUE
  /\ UNCHANGED <<mainVars, semaphore, concurrencyLimit, rateVars, errVars,
                 statVars, job, pollVars, uiVars, envVars, reported>>

Stop ==
  /\ Alive
  /\ exit > 0
  /\ exit' = 0
  /\ IF done THEN exited' = TRUE /\ UNCHANGED done
             ELSE done' = TRUE /\ UNCHANGED exited
  /\ UNCHANGED <<mainVars, semaphore, concurrencyLimit, rateVars, errVars,
                 statVars, job, pollVars, uiVars, envVars, reported>>

-----------------------------------------------------------------------------
(* The keyboard poller.                                                    *)

\* 5% of a limit, truncated towards zero and never zero.
Delta(lim) ==
  LET part == IF lim < 0 THEN -((-lim) \div StepDivisor)
                         ELSE lim \div StepDivisor
  IN  IF part = 0 THEN 1 ELSE part

Press(key) ==
  /\ LiveUI /\ Alive
  /\ pollPc = "poll"
  /\ presses < MaxKeys
  /\ presses' = presses + 1

BuiltIn(key, id) == Press(key) /\ key = id /\ key \notin KeyPressed

\* The caller's own handler runs instead of the built-in one.
Custom(key) ==
  /\ Press(key)
  /\ key \in KeyPressed
  /\ UNCHANGED <<notPoller, semaphore, concurrencyLimit, rateLimit, rl, exit,
                 pollVars, interrupts>>

Quit(key) ==
  /\ BuiltIn(key, "q")
  /\ interrupts' = interrupts + 1
  /\ pollPc' = "send"
  /\ UNCHANGED <<notPoller, semaphore, concurrencyLimit, rateLimit, rl, exit,
                 owed>>

\* Faulty variant of SendExit: a second press waits for the first to stop the
\* run.
SendExitOnce ==
  /\ Alive
  /\ pollPc = "send" /\ exit = 0 /\ ~done
  /\ exit' = 1
  /\ pollPc' = "poll"
  /\ UNCHANGED <<notPoller, semaphore, concurrencyLimit, rateLimit, rl, owed,
                 presses, interrupts>>

SendExit ==
  /\ Alive
  /\ pollPc = "send" /\ exit = 0
  /\ exit' = 1
  /\ pollPc' = "poll"
  /\ UNCHANGED <<notPoller, semaphore, concurrencyLimit, rateLimit, rl, owed,
                 presses, interrupts>>

\* Faulty variant of IncreaseConcurrency: the capacity is not checked.
IncreaseConcurrencyFreely(key) ==
  LET delta == Delta(concurrencyLimit) IN
  /\ BuiltIn(key, "<Right>")
  /\ concurrencyLimit' = concurrencyLimit + delta
  /\ owed' = delta
  /\ pollPc' = "pop"
  /\ UNCHANGED <<notPoller, semaphore, rateLimit, rl, exit, interrupts>>

IncreaseConcurrency(key) ==
  LET delta == Delta(concurrencyLimit) IN
  /\ BuiltIn(key, "<Right>")
  /\ IF concurrencyLimit + delta <= MaxConcurrency
       THEN /\ concurrencyLimit' = concurrencyLimit + delta
            /\ owed' = delta
            /\ pollPc' = "pop"
       ELSE UNCHANGED <<concurrencyLimit, pollVars>>
  /\ UNCHANGED <<notPoller, semaphore, rateLimit, rl, exit, interrupts>>

DecreaseConcurrency(key) ==
  LET delta == Delta(concurrencyLimit) IN
  /\ BuiltIn(key, "<Left>")
  /\ IF concurrencyLimit - delta > 0
       THEN /\ concurrencyLimit' = concurrencyLimit - delta
            /\ owed' = delta
            /\ pollPc' = "push"
       ELSE UNCHANGED <<concurrencyLimit, pollVars>>
  /\ UNCHANGED <<notPoller, semaphore, rateLimit, rl, exit, interrupts>>

\* One iteration of the loops that follow the change of the limit.
Settle ==
  /\ owed' = owed - 1
  /\ pollPc' = (IF owed = 1 THEN "poll" ELSE pollPc)
  /\ UNCHANGED <<notPoller, concurrencyLimit, rateLimit, rl, exit, presses,
                 interrupts>>

Pop ==
  /\ Alive
  /\ pollPc = "pop" /\ semaphore > 0
  /\ semaphore' = semaphore - 1
  /\ Settle

Push ==
  /\ Alive
  /\ pollPc = "push" /\ semaphore < MaxConcurrency
  /\ semaphore' = semaphore + 1
  /\ Settle

\* getRateLimit: without a limit the keys start from the observed rate.
BaseRate == IF rateLimit = 0 THEN currentReqRate ELSE rateLimit

ChangeRate(lim) ==
  /\ rateLimit' = lim
  /\ pollPc' = "refresh"
  /\ UNCHANGED <<notPoller, semaphore, concurrencyLimit, rl, exit, owed,
                 interrupts>>

\* Faulty variant of IncreaseRateLimit: the limiter is not renewed.
IncreaseRateLimitOnly(key) ==
  /\ BuiltIn(key, "<Up>")
  /\ rateLimit' = BaseRate + Delta(BaseRate)
  /\ UNCHANGED <<notPoller, semaphore, concurrencyLimit, rl, exit, pollVars,
                 interrupts>>

IncreaseRateLimit(key) ==
  /\ BuiltIn(key, "<Up>")
  /\ ChangeRate(BaseRate + Delta(BaseRate))

DecreaseRateLimit(key) ==
  /\ BuiltIn(key, "<Down>")
  /\ ChangeRate(BaseRate - Delta(BaseRate))

RefreshRateLimiter ==
  /\ Alive
  /\ pollPc = "refresh"
  /\ rl' = (IF rateLimit = 0 THEN rl ELSE rateLimit)
  /\ pollPc' = "poll"
  /\ UNCHANGED <<notPoller, semaphore, concurrencyLimit, rateLimit, exit,
                 owed, presses, interrupts>>

Key(key) ==
  \/ Custom(key) \/ Quit(key)
  \/ IncreaseConcurrency(key) \/ DecreaseConcurrency(key)
  \/ IncreaseRateLimit(key) \/ DecreaseRateLimit(key)

Poller == SendExit \/ Pop \/ Push \/ RefreshRateLimiter

-----------------------------------------------------------------------------
(* The drawing loop: it waits for the ticker or for an interrupt, draws a  *)
(* frame, and returns after the frame of an interrupt.                     *)

Tick ==
  /\ Alive
  /\ uiPc = "select"
  /\ uiPc' = "frame"
  /\ UNCHANGED <<notUI, currentReqRate, roundTripRolling, exit, doReturn,
                 reqPrev>>

TakeExit ==
  /\ Alive
  /\ uiPc = "select" /\ exit > 0
  /\ exit' = 0
  /\ uiPc' = "frame"
  /\ doReturn' = TRUE
  /\ UNCHANGED <<notUI, currentReqRate, roundTripRolling, reqPrev>>

\* No rate without new samples; a short frame makes a large one.
Frame ==
  /\ Alive
  /\ uiPc = "frame"
  /\ currentReqRate' \in (IF roundTripHist = reqPrev THEN {0} ELSE 0 .. MaxRate)
  /\ reqPrev' = roundTripHist
  /\ uiPc' = "reset"
  /\ UNCHANGED <<notUI, roundTripRolling, exit, doReturn>>

\* Faulty variant of ResetRolling: the loop goes on after its last frame.
ResetRollingStays ==
  /\ Alive
  /\ uiPc = "reset"
  /\ roundTripRolling' = 0
  /\ uiPc' = "select"
  /\ UNCHANGED <<notUI, currentReqRate, exit, doReturn, reqPrev>>

ResetRolling ==
  /\ Alive
  /\ uiPc = "reset"
  /\ roundTripRolling' = 0
  /\ uiPc' = (IF doReturn THEN "gone" ELSE "select")
  /\ UNCHANGED <<notUI, currentReqRate, exit, doReturn, reqPrev>>

UI == Tick \/ TakeExit \/ Frame \/ ResetRolling

-----------------------------------------------------------------------------
(* The environment.                                                        *)

\* time.Since(start) exceeds --duration from some moment on.
Expire ==
  /\ Alive
  /\ ~expired
  /\ expired' = TRUE
  /\ UNCHANGED <<mainVars, semaphore, concurrencyLimit, rateVars, errVars,
                 statVars, stopVars, job, pollVars, uiVars, presses,
                 interrupts, reported>>

\* signal.Notify never blocks: a signal that finds the channel full is lost.
Signal ==
  /\ Alive
  /\ interrupts < MaxInterrupts
  /\ interrupts' = interrupts + 1
  /\ exit' = 1
  /\ UNCHANGED <<mainVars, semaphore, concurrencyLimit, rateVars, errVars,
                 statVars, done, exited, job, pollVars, uiVars, expired,
                 presses, reported>>

\* The run is over; goroutines that are left may stay blocked.
Over ==
  /\ exited \/ mainPc \in {"returned", "failed", "panic"}
  /\ UNCHANGED vars

Next ==
  \/ Main
  \/ \E j \in Jobs : Job(j)
  \/ Stop
  \/ \E key \in Keys : Key(key)
  \/ Poller
  \/ UI
  \/ Expire
  \/ Signal
  \/ Over

Spec == Init /\ [][Next]_vars

\* Goroutines are scheduled and requests are answered.  Nothing obliges the
\* user to press keys or send signals, nor the clock to end the run.
Fairness ==
  /\ WF_vars(Main)
  /\ \A j \in Jobs : WF_vars(Job(j))
  /\ WF_vars(Stop)
  /\ WF_vars(Poller)
  /\ WF_vars(UI)

FairSpec == Spec /\ Fairness
-----------------------------------------------------------------------------
(* Properties.                                                             *)

Looping == {"fetch", "wait", "acquire", "check"}
Reporting == {"report", "reportErrors", "reportOutcome", "reportStats"}
Ended == {"returned", "failed"}

Reports == [succeeded : Nat, failed : Nat, samples : Nat, slow : Nat,
            cause : {"nil", "job", "limiter"}]

TypeOK ==
  /\ mainPc \in Looping \cup Reporting \cup Ended \cup {"drain", "fill", "panic"}
  /\ i \in Jobs
  /\ waitOn \in Int /\ rl \in Int /\ rateLimit \in Int
  /\ semaphore \in 0 .. MaxConcurrency
  /\ concurrencyLimit \in Nat \ {0}
  /\ filled \in Nat /\ owed \in Nat /\ currentReqRate \in Nat
  /\ reqPrev \in Nat /\ presses \in Nat /\ interrupts \in Nat
  /\ errCnt \in Nat /\ slow \in Nat /\ roundTripHist \in Nat
  /\ roundTripPrecise \in Nat /\ roundTripRolling \in Nat
  /\ lastErr \in {"nil", "job", "limiter"}
  /\ done \in BOOLEAN /\ exited \in BOOLEAN
  /\ doReturn \in BOOLEAN /\ expired \in BOOLEAN
  /\ exit \in 0 .. 1
  /\ job \in [Jobs -> Stages]
  /\ pollPc \in {"off", "poll", "send", "pop", "push", "refresh"}
  /\ uiPc \in {"off", "select", "frame", "reset", "gone"}
  /\ reported \in Reports

\* Slots a change of the limit has still to take (positive) or give back.
Pending == IF pollPc = "push" THEN owed ELSE IF pollPc = "pop" THEN -owed ELSE 0

\* Slots the configured limit asks for beyond the capacity of the channel.
Excess == InitialLimit - (MaxConcurrency - Prefilled)

\* Slots left to jobs and to the final wait.
Usable == concurrencyLimit + Pending - Excess

\* Every element of the channel is accounted for: it stands for a slot that is
\* out of use, for a job, or for a slot taken by the final wait.
SlotAccounting ==
  semaphore = MaxConcurrency - Usable + Cardinality(InFlight) + filled

\* The loop variable is the number of the next job to launch, or of the last one
\* launched.
NextJobIdle ==
  \A k \in Jobs :
    k > i \/ (k = i /\ mainPc \in {"fetch", "wait", "acquire"}) => job[k] = "idle"

\* The poller moves slots only for a limit that the channel can serve.
PollerInLimits ==
  /\ pollPc \in {"pop", "push"} => owed > 0
  /\ pollPc = "pop" => concurrencyLimit <= MaxConcurrency
  /\ Usable <= MaxConcurrency

\* The inductive invariant behind the bounds on the slots.
SlotInv == TypeOK /\ NextJobIdle /\ PollerInLimits /\ SlotAccounting

\* However the limit is moved while jobs start and finish, no more jobs are in
\* flight than the limit allows, counting slots a decrease still waits for.
ConcurrencyBound ==
  Cardinality(InFlight) <=
    concurrencyLimit + (IF pollPc = "push" THEN owed ELSE 0)

\* A receive that frees a slot or raises the limit finds an element: a job never
\* hangs in its deferred release, nor the poller in increaseConcurrency.
ReleaseNeverBlocks ==
  (pollPc = "pop" \/ \E j \in Jobs : job[j] = "release") => semaphore > 0

\* Main and the poller send to the same channel.  When it is full and one of them
\* waits for room, somebody will make it: a job that is in flight, or the poller
\* with the receives of a raised limit.  Two cases are left out: a limit lowered
\* below what the final wait has taken, and a concurrency above the capacity.
SlotComesBack ==
  /\ semaphore = MaxConcurrency
  /\ \/ mainPc = "acquire"
     \/ mainPc = "fill" /\ filled < concurrencyLimit
     \/ pollPc = "push" /\ filled <= concurrencyLimit
  => pollPc = "pop" \/ InFlight # {}

\* When the final wait ends, a job can be left in flight only for a slot that
\* decreaseConcurrency has still to take.
ReportMissesFew ==
  [][mainPc = "drain" /\ mainPc' = "report"
       => Cardinality(InFlight) <= (IF pollPc = "push" THEN owed ELSE 0)]_vars

\* The report starts when every launched job has finished, as the comment of
\* the final wait says.
ReportAfterJobs == mainPc \in Reporting \cup Ended => InFlight = {}

\* Every launched job is in the report once, as a success or as a failure, and
\* every success is behind the percentiles.
OutcomesAccounted ==
  /\ mainPc = "returned" =>
       /\ reported.succeeded + reported.failed = Cardinality(Launched)
       /\ reported.samples = reported.succeeded
       /\ reported.slow <= reported.succeeded
  /\ mainPc = "failed" => reported.failed = Cardinality(Launched)

\* The error of a run without a success wraps the error of some request.
FailureHasCause == mainPc = "failed" => reported.cause # "nil"

\* report never calls Error on a nil lastErr, even if jobs are still running.
NeverPanics == mainPc # "panic"

\* The process is forced to exit by the second interrupt, never by the first.
ForcedExit == exited => done /\ interrupts >= 2

\* After a stop or the end of --duration at most one more job is launched.
StopBound ==
  \A k \in 0 .. n :
    []((done \/ expired) /\ Cardinality(Launched) = k
         => [](Cardinality(Launched) <= k + 1))

\* Once a key has been handled, main finds the limiter that the limit asks for,
\* also when the keys started from an observed rate.  A limit lowered to zero leaves
\* the limiter of before: refreshRateLimiter returns early.
LimiterInstalled == pollPc # "refresh" /\ rateLimit # 0 => rl = rateLimit

\* The run ends: with a report, with an error, or forced by the user.
Termination == <>(exited \/ mainPc \in Ended)

\* A run that was told to stop ends.
StopIsHonoured == done ~> exited \/ mainPc \in Ended

\* Two goroutines receive interrupts, and only one of them stops the run.  The
\* drawing loop, when it has taken an interrupt, takes no other: one that comes
\* after it, by a signal or by the key q, always stops the run.
InterruptStops == doReturn /\ exit > 0 ~> done

\* The poller comes back for the next key after the key q, though the channel of
\* interrupts may be full, and after a change of the rate.
PollerReturns == pollPc \in {"send", "refresh"} ~> pollPc = "poll" \/ exited
-----------------------------------------------------------------------------
(* The run as its caller sees it.                                          *)

\* A job runs until it is counted.  An exit forced after the run has returned
\* is not part of the run.
LoadRun == INSTANCE LoadRun WITH
  Number <- n,
  Limit <- IF InitialLimit < MaxConcurrency THEN InitialLimit ELSE MaxConcurrency,
  started <- Cardinality(Launched),
  running <- {j \in Jobs : job[j] \in {"running", "count", "hist"}},
  ok <- roundTripHist,
  failed <- errCnt,
  status <- IF mainPc \in Ended THEN mainPc
            ELSE IF exited THEN "aborted" ELSE "running"

\* Without keys that move the limits, Run implements LoadRun.
ImplementsLoadRun == LoadRun!Spec
=============================================================================
