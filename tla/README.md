# Verification of plt

TLA+ models of [plt](../src/README.md), a pocket load tester: TLC checks them on
small instances, and TLAPS proves, for every value of the constants, all of the
safety properties that hold but one, that the load loop implements its abstract
specification step by step, and that the program made of the load loop and the
net/http producer does so too and keeps what both promise.  File references are to
`src/`.

## 1. The system

`plt curl ...` and `plt s3 ...` parse flags, build a *job producer* and hand it
to `loadgen.Run`, which starts one goroutine per request, as many at once as the
concurrency limit allows, and prints a report.

| component | state | operations | module |
|---|---|---|---|
| load loop (`loadgen/run.go`: `Run`, `newRunner`, `report`) | the semaphore channel, `concurrencyLimit`, `rl`, `errCnt`, `lastErr`, `slow`, three latency collectors, `done`, the channel `exit` | launch a job, count its outcome, free its slot, stop, wait for the jobs, report | `Runner`, `LoadRun`, `RunnerProofs`, `Plt`, `PltProofs` |
| live UI (`startLiveUIPoller`, `runLiveUI`) | `rateLimit`, `currentReqRate`, the rolling window, `doReturn`, `reqPrev` | raise or lower the concurrency or the rate, quit, draw a frame | `Runner`, `RunnerProofs`, `Plt`, `PltProofs` |
| net/http producer (`nethttp/job.go`) | counts and samples by status code, a mutex, collectors, the transport's idle connections | `Job`, `RequestCounts`, `String` | `NetHTTPJob`, `NetHTTPProofs`, `Plt`, `PltProofs` |
| fasthttp producer (`fasthttp/job.go`) | the pools of requests and responses, counts and samples by status code | `Job` | `FastHTTPJob`, `FastHTTPProofs`, `Program`, `ProgramProofs` |
| S3 producer (`s3/`) | byte and download totals, the file that is saved | `Job`, `String` | `S3Job`, `S3Proofs`, `Program`, `ProgramProofs` |
| report helpers (`report/print.go`) | none | `PeekBody`, `ByteSize` | `Report`, `Peek` of `FastHTTPJob`, `ProgramProofs`, `FoldProofs` |
| flags (`loadgen/app.go`, `loadgen/flags.go`) | the flags | `Register`, `Prepare` | `Program`, `ProgramProofs` |
| curl command (`curl/`) | captured options | translate curl's options to flags | `CurlCommand`, `Program`, `ProgramProofs`, `FoldProofs` |
| program entry (`plt.go`) | none | register commands, run one | `Program` |
| circuit breaker playground (`_examples/`) | state and counts of the breaker, `preOpenStart`, `maxResp` | `ReadyToTrip`, the round tripper, the keys | `Breaker`, `BreakerProofs` |
| HTTP/3 transport, the other examples | none | choose a library transport; set a query string | not modelled |

### How the parts interact

- The main goroutine *sends* to the semaphore channel before it starts a job;
  the job *receives* from it in a deferred call.  The channel has the fixed
  capacity `maxConcurrency` and is partly filled in advance, so what is free is
  the concurrency limit.  The keyboard poller changes the limit by receiving or
  sending elements of its own, and the final wait of `Run` fills the channel up.
- `exit` has room for one signal.  `signal.Notify` and the key `q` send to it;
  the goroutine that sets `done` receives from it, and so does the drawing loop.
- `rl` is read by main and replaced by the poller, under `r.mu`.
- Jobs update the counters; `report` and the drawing loop read them.
- The drawing loop calls `RequestCounts` of the producer for every frame, and
  the report calls `String`: both take the mutex that `Job` takes for a sample.
- A command line becomes flags (`curl/cmd.go`, `Flags.Prepare`), the flags
  choose the producer, and a producer may wrap its transport for its caller: the
  circuit breaker of the example stands between `Job` and the network.

### What is hard

Races of the final wait with the keys; a channel that serves as a counter, at
both of its ends; state read before and used after an unlock (the limiter); two
receivers on one channel; errors stored and counted by different steps; a mutex
held across a network read and across an early return; pooled memory that
outlives its owner; options that write the same header or method; a timer that
outlives the counts it was started for; calls that return to a breaker that has
moved on.  Nothing is persisted, so there is no crash recovery to
model, and the program sends no message twice.  `PROJECT.json` lists each hazard
at its line.

### What makes each component correct

- *load loop*: never more jobs than the limit; every job ends once, in the
  report; the report comes after the jobs; the run ends, and ends when it is
  told to; only the second interrupt kills the process.
- *live UI*: moving the limit keeps the slots balanced and blocks nobody; main
  sees the limiter of the last key; the poller comes back.
- *net/http producer*: one sample per status code, of the first response,
  stored under the mutex; counts, samples and totals agree in the end; jobs and
  readers return.
- *fasthttp producer*: a pooled response belongs to one job and always goes
  back; counts and samples agree; a sample stays what it was.
- *S3 producer*: bytes and count agree to the downloads under way, so that the
  average at the end is the size of the entry; the saved file is whole
  if the job that saves it succeeded, and stays so.
- *command line and flags*: no option is lost on the way to the producer; what the user gives wins over
  what is derived; a run has the limits that were given.
- *report helpers*: a size is right to half of its last digit; a sample is the
  head of the body and made of whole characters.
- *circuit breaker*: it opens only on a delay of the same generation, is never
  stuck half-open, closes only when all calls it let through then succeeded, and
  does so once the server is healthy.

## 2. Modules

### Runner

The load loop and the live UI, as goroutines with a program counter each.  An
action is one operation on shared state: an atomic load or store, a send, a
receive, or a section under `r.mu`.

| goroutine | in the model | code |
|---|---|---|
| main | `mainPc`, `i`, `waitOn`, `filled`; `Fetch Wait Acquire Check DrainTest Fill Report...` | run.go:58-118, 193-230 |
| one per job | `job[j]`; `Fail CountError`, `Succeed AddHist AddPrecise AddRolling`, `Release` | run.go:80-105 |
| interrupts | `Stop` | run.go:174-188 |
| keyboard poller | `pollPc`, `owed`; `Custom Quit SendExit IncreaseConcurrency DecreaseConcurrency Pop Push IncreaseRateLimit DecreaseRateLimit RefreshRateLimiter` | run.go:261-364 |
| drawing loop | `uiPc`, `doReturn`, `reqPrev`; `Tick TakeExit Frame ResetRolling` | run.go:366-518 |
| environment | `Expire`, `Signal`; which key is pressed, which job fails | |

Data is abstracted to what the properties tell apart.  The semaphore channel is
its number of elements; a collector is the number of its samples; an error is
the place it comes from; the limiter is its limit, with 0 for a nil limiter.  A
limiter with a positive limit lets its caller through after some time.  One
with a limit that is not positive never does: the first event takes the burst
of one and `Wait` without a deadline then sleeps for the longest duration there
is (golang.org/x/time v0.8.0); the model blocks from the first event on.
`Delta` is the code's 5%, truncated towards zero, at least one; its divisor is
a constant because five percent of a small limit would always be one.

`owed` is what is left of the loops that follow a change of the limit, so that
a job or main may act between two of their iterations, as they do in the code.

`Over` lets a run that has ended stutter; goroutines that are left behind in a
library caller's process are not followed further.

### LoadRun

The abstract specification: jobs are numbered, at most `Limit` run at once, each
ends once as a success or a failure, and the run returns when none is running,
with an error if none succeeded.  There are no channels, locks or stages.
`Runner` implements it (`ImplementsLoadRun`) under the refinement mapping at its
end: a job is running until its outcome is counted, and `Limit` is the smaller
of the limit and the channel's capacity.

### NetHTTPJob

`Job` of the net/http producer from the preparation of the request to the last
counter, for several jobs at once, with every call that may fail as an
alternative; `RequestCounts` and `String` as readers that lock, read the
counts of the sampled codes one by one and unlock; the idle connections of the
HTTP/1 transport, within `MaxIdleConns` and `MaxIdleConnsPerHost`, which time out.
A job that takes the sample holds `mu` from `Lock` to `Sample`; `SampleFails` is the return that leaves it locked.  The
counter is atomic and outside the mutex, so it is a step of its own.  A status
code of `CodeLimit` or more indexes past the array and crashes the program.

### FastHTTPJob

`Job` of the fasthttp producer over the pool of response objects.  A body that
is kept as it is, is a slice of the buffer of its response (`PeekBody` returns
its argument); an encoded or binary one is replaced by a text of its own.  The
counts and samples are maps under a mutex held for memory operations only, so
`Count` is one step.

### Plt

`plt --live-ui curl`: `Runner` and `NetHTTPJob` composed.  They share no state.
A job that is `running` for the runner is a call of the producer's `Job`, and the
runner's `Succeed` or `Fail` follows from how it ended; `Frame` calls
`RequestCounts` and `ResetRolling` waits for its return; `report` returns with
`String` (`ReportStats`).  The job numbers are the same, and only the semaphore
limits the producer (`AtOnce <- MaxConcurrency`).  In `Runner` alone, that jobs
and frames end is assumed; here it is what the producer has to provide, and
`ImplementsRunner` says that it does, fairness included.

### CurlCommand, S3Job, Report, Program

`CurlCommand` is `curl.AddCommand` as operators on a line, a sequence of options:
`Target` is the registration of the options (help.go lists them; the sets hold
those that are bound to something and two that are not; the argument of the command
is one more option), `Refused` ... `URL` are the steps of the action, `Flags` their
result, and `Used` is what the producer that `run` chooses (`Transport`) reads of
it.  An option has a name, a value and, if there is a colon in it, a key, which is
what precedes the colon of a header, of a user or of a URL's scheme.  A header with
an empty name is a header, as in the code.  Any header counts as sent when it is in
the map; that net/http sets `Host` and `Content-Length` by other means is left out.
`S3Job` is the S3 producer, one action per step of a job on the shared
totals and the file.  `Report` is `ByteSize` and `PeekBody`; a body is a sequence
of characters given by their number of bytes.  `Program` makes commands of these:
a line or limits are taken, the command fails or runs jobs of the producer it has
chosen, or prints.  `MCProgram` is its instance for TLC.

### Breaker

The circuit breaker playground: the calls that a `gobreaker.TwoStepCircuitBreaker`
let through in this generation, by whether the server answers in time (`quick`) or
not (`slow`), those of earlier generations (`outdated`), its counts, and the delay
of `ReadyToTrip` (`preOpenStart`).  `setIn` is not in the code: it remembers
whether the delay was set before the present generation.  The library is external;
it notices the end of an interval or of the open state at the next call, which
nobody can tell from noticing it at once.

### Faulty variants

Some definitions are preceded by a `Faulty variant of ...`: the same operation
with a plausible mistake (a dropped guard, an off-by-one, a swapped order).  They
are not part of the specification.  Replacing the definition by its variant
makes the property it is listed with in `PROJECT.json` fail, which shows that
the property is sensitive to the code.

## 3. What TLC checks

| run | instance | shows |
|---|---|---|
| `batch` | no live UI; 3 jobs, 2 slots of 3, a limiter that may fail, slow responses, 2 interrupts, expiry at any time | `ReportAfterJobs`, `OutcomesAccounted`, `FailureHasCause`, `StopBound`; under fairness `Termination`, `ImplementsLoadRun` |
| `live_keys` | 3 jobs, limit 4 of 6, Left and Right pressed twice, steps of one and two slots | `SlotInv`, `ConcurrencyBound`, `ReleaseNeverBlocks`, `SlotComesBack`, `NeverPanics`, `ReportMissesFew` |
| `live_rate` | 2 jobs, rate limit 1, one of Up, Down, `q` and a key with a handler of the caller, 1 signal | `LimiterInstalled`, `ForcedExit`; under fairness `StopIsHonoured`, `InterruptStops`, `PollerReturns` |
| `live_report` | Left during the final wait | `ReportAfterJobs` fails |
| `over_capacity` | `--concurrency` above the capacity | `Termination` fails |
| `rate_negative` | Down without a rate | `StopIsHonoured` fails |
| `http_jobs` | 3 jobs, 2 at once, all failures, Envoy, two codes and one out of range, a reader | `TypeOK`, `OneInside`, `LockHolder`, `SamplesStay`, `ReportComplete` |
| `plt` | 2 jobs at once with the live UI, a failing round trip, one code | `ReportsAgree`; under fairness `ImplementsRunner` |
| `http_lock_kept` | the read of a sample fails | `CountsReturn` fails |
| `program` | every line of up to 3 of 29 options; limits 0, 1, 5; sizes around six powers of the unit; bodies up to 5 characters; 3 jobs, 2 at once, of the fasthttp and S3 producers, all failures | `OptionsUsed`, `HeadersAsGiven`, `BodyAsGiven`, `LoadAsGiven`, `SizesClose`, `SamplesAreHeads`, `AverageIsSize`, `SavedByFirst`, `SavedStays`, `PoolBalanced`, `SampleIntactAtFirst`, `ReportComplete` |
| `breaker` | 3 calls at once, threshold 3 and error ratio 3, 2 calls in the half-open state | `HalfOpenDecides`, `ClosesWhenAllSucceeded`, `OpensAfterOwnDelay`; under fairness `Recovers` |
| `fast_sample` | 2 jobs one after the other | `SampleIntact` fails |

The type invariant of `Runner` is the first conjunct of `SlotInv`.  Those of the
fasthttp and S3 producers and of the breaker, and that fasthttp does not replace a
sample, which is one guard of `Count`, are left to their proofs.  In `plt` only the
round trip fails: the mutex that a failed read of a sample keeps (`http_lock_kept`)
would hold up frames and report, which is not what the run asks.

`NothingLost` names the options that are without effect by design: an empty value,
a header without a colon, `--2.0`, the `--output` of responses that are read anyway,
`--request` beside `--head`, `--user` and `--compressed` beside a header of theirs, a
header or a URL that is given again, `--http2`, `--http3` and `--no-keepalive`
beside `--fast`, and `--http3` beside `--http2`.  The last two are what the code
does without a word (section 5).  `SamplesAreHeads` says nothing of a text that is
cut within a character: it is announced as binary.

### Bounds

- *Jobs*: three jobs on two slots make one wait for another, leave one job
  running while the wait for the others goes on, and let a job start after a
  stop.  A stop allows one more job, so two would hide a second one.
- *Capacity*: `MaxConcurrency` (1000 in the code) is just above the limit, so
  that both its ends are reached: full by the final wait, and no room for an
  increase.  In `live_keys` the limit moves 4, 2, 3 or 4, 6.
- *Keys*: two presses give up and down, down and up, and twice the same; one is
  enough for each defect found.
- *Interrupts*: two are the smallest number that can force the exit.  In
  `live_rate` they are a signal and the key `q`, in either order, for two receivers.
- *Rate*: from one, Down leads to zero, which has a meaning of its own, and Up to
  two; what more presses do is covered by the proof of `LimiterInstalled`.
- `MaxRate` bounds the observed rate of a frame, which counts only for a key
  pressed without a rate limit (`rate_negative`).
- `MaxInt32` bounds runs without a number; no instance needs it.
- *Codes*: two, so that a second first response can wait for the mutex; one in
  `plt`, where two jobs at once already make a job, a frame and the report wait.
- *Options*: three on a line are an option, one that overrides it and one that
  comes between or after; the 29 options are at least one for each variable, two
  for each header that something else derives, and two that nothing is bound to.
- `KILOBYTE` is 24 in place of 1024, so that the seventh unit fits in TLC's
  integers, and more than 20, so that the last size of a unit is rounded to the
  next power as 1023.97 KB is.
- `MaxCount` bounds the calls of one generation of the breaker to 8, more than
  twice the threshold: the delay is set, elapses and trips within.
  `ErrorRatio = requestsThreshold` is the relation of 100 and 1% in the code.

### Fairness

Every goroutine is scheduled again while it can run (`WF` per goroutine), and
requests are answered: a job's own network calls have no deadline in plt, and a
server that never answers keeps its job for ever in the code too.  Weak fairness
is enough for the semaphore since it never stays full for a waiter that nobody
overtakes: only one goroutine launches jobs.  In `NetHTTPJob` many goroutines
compete for one mutex; the strong fairness of `Lock` and `ReaderLock` is what
the starvation mode of `sync.Mutex` gives.  Keys, signals, the clock, idle
timeouts and calls of the reader happen or not: no fairness is assumed.
In `Breaker`, calls go on and return, since each has a timeout, and the timers of
the breaker fire; the user and the delay of `ReadyToTrip` are not forced.

Deadlock is checked in `batch`, `live_rate`, `plt`, `program` and `breaker`.  It is
not checked in `live_keys` and `http_jobs`, where the program really may stop:
a press of Left during the final wait, or a kept mutex, blocks it.

## 4. What is proved

For all values of the constants: any number of jobs, any concurrency and rate
(also above the capacity, and not positive), any keys, any number of
interrupts, codes, observers and failures.  `NoLeft` below is "if no key lowers the
limit": `~LiveUI \/ "<Left>" \notin Keys`.  The run `live_report` shows that it
cannot be dropped.

| theorem | statement | module |
|---|---|---|
| `SlotsInvariant`, `TypeCorrect` | `Spec => []SlotInv`, `[]TypeOK` | `RunnerProofs` |
| `Concurrency_Bound`, `Release_Never_Blocks` | `Spec => []ConcurrencyBound`, `[]ReleaseNeverBlocks` | |
| `Slot_Comes_Back` | `Spec => []SlotComesBack`, if the concurrency is within the capacity | |
| `Over_Capacity` | if it is not, and no key moves the limit, no run reaches its report | |
| `Report_Misses_Few` | `Spec => ReportMissesFew` | |
| `Nearly_Accounted` | the report counts each job once at most, and misses no more than one step of the limit | |
| `Wait_Returns` | without the key `<Down>`, main never waits on a limiter that lets nobody through | |
| `Report_After_Jobs` | `Spec => []ReportAfterJobs`, under `NoLeft` | |
| `Never_Panics`, `Forced_Exit` | `Spec => []NeverPanics`, `[]ForcedExit` | |
| `Limiter_Installed` | `Spec => []LimiterInstalled` | |
| `Stop_Bound` | `Spec => StopBound` | |
| `Outcomes_Accounted`, `Failure_Has_Cause` | `Spec => []OutcomesAccounted`, `[]FailureHasCause`, under `NoLeft` | |
| `Implements_LoadRun` | `Spec => LoadRun!SafeSpec`, if no key moves the limit | |
| `HTTP_TypeCorrect`, `One_Inside`, `Lock_Holder`, `Samples_Stay`, `Report_Complete` | `Spec` of `NetHTTPJob` implies `[]TypeOK`, `[]OneInside`, `[]LockHolder`, `SamplesStay`, `[]ReportComplete` | `NetHTTPProofs` |
| `Fast_TypeCorrect`, `Pool_Balanced`, `Fast_Samples_Stay`, `Fast_Report_Complete` | `Spec` of `FastHTTPJob` implies `[]TypeOK`, `[]PoolBalanced`, `SamplesStay`, `[]ReportComplete` | `FastHTTPProofs` |
| `Sample_Intact_At_First` | and `[]SampleIntactAtFirst` | |
| `Plt_Runs_Runner` | `PltSpec => Spec` of `Runner` | `PltProofs` |
| `Plt_Implements_LoadRun` | `PltSpec => LoadRun!SafeSpec`, if no key moves the limit | |
| `Call_Admitted` | `PltSpec => []CallAdmitted`: the producer's own bound holds up no launched job | |
| `Plt_Keeps_Promises` | `PltSpec` implies what the theorems above say of `Runner` and of `NetHTTPJob` | |
| `Reports_Agree` | `PltSpec => []ReportsAgree`, under `NoLeft` | |
| `S3_TypeCorrect`, `Average_Is_Size`, `Saved_By_First`, `Saved_Stays` | `S3Spec` implies `[]S3TypeOK`, `[]AverageIsSize`, `[]SavedByFirst`, `SavedStays` | `S3Proofs` |
| `Program_TypeCorrect`, `Program_Fast`, `Program_AverageIsSize`, `Program_SavedByFirst`, `Program_SavedStays` | the same of `ProgramSpec`, for both producers | `ProgramProofs` |
| `Load_As_Given`, `Sizes_Close`, `Samples_Are_Heads` | `ProgramSpec => []LoadAsGiven`, `[]SizesClose`, `[]SamplesAreHeads` | |
| `Headers_As_Given`, `Body_As_Given` | `ProgramSpec => []HeadersAsGiven`, `[]BodyAsGiven` | |
| `BreakerTypeCorrect`, `Half_Open_Decides`, `Closes_When_All_Succeeded`, `Opens_After_Own_Delay` | `Spec` of `Breaker` implies `[]TypeOK`, `[]HalfOpenDecides`, `ClosesWhenAllSucceeded`, `OpensAfterOwnDelay` | `BreakerProofs` |

### Assumptions

Each module names what it assumes of its constants, and TLC evaluates it in
every run.  `RunnerAssumption`, `NetHTTPJobAssumption`, `FastHTTPJobAssumption`
and `BreakerAssumption` give types; the last one adds
`ErrorRatio <= requestsThreshold` (100 and 100 in the code).  `PltAssumption`
adds that the two goroutines that read the counts differ.  `ProgramAssumption`
says that a line is a sequence of options and a body one of characters, of any
length, and includes
`S3JobAssumption`, the types of the constants of `S3Job`.  `ReportAssumption` is
`KILOBYTE > 1`.

### Arguments

*The slots.*  `ConcurrencyBound` is not inductive: nothing in it says how many
elements the channel holds.  `SlotAccounting` does:

    semaphore = MaxConcurrency - Usable + |InFlight| + filled

where `Usable` is the limit plus the slots a decrease still has to take, minus
those an increase still has to give back, minus `Excess`, the part of a
configured limit that the channel cannot hold.  It needs `PollerInLimits` (the
poller owes something only while it moves slots, and gives back only slots that
are in the channel) and `NextJobIdle` (a launch adds a job that was not counted
before).  `TypeOK` is part of the induction because the step from
`semaphore <= MaxConcurrency` to the bound is where the capacity of the channel
comes in.  One lemma per goroutine shows that its steps preserve the sum
(`MainSlots`, `JobSlots`, ...); `InFlightStep` is the arithmetic of the
cardinality they share.  From `SlotInv`: a receive finds an element since a job
in flight, or a slot to give back, is one of the terms.

*The report comes last.*  With the invariant, `filled = concurrencyLimit` leaves
no room for a job in flight, unless the poller still owes slots.  `Drained`
carries this to the end of the run under `NoLeft`.

*Room on a full channel.*  Main and the poller both send to the semaphore, so each
may wait for the other.  `SlotComesBack` says who makes room: from `SlotAccounting`,
if nobody is in flight and the poller takes nothing, the channel is full of what
main has put there, which is the limit or more (`WaitIsLast`: it puts nothing there
before its final wait, and then launches nothing).  It names its exceptions.  A limit
lowered below what the final wait has taken leaves the poller waiting, which blocks
nobody else, and main if it had passed its test before (section 5).  A concurrency
above the capacity is the other, and there `Over_Capacity` proves the defect for all
values: `filled` cannot exceed the capacity, and `LimitFixed` keeps the limit above it.

*What the report may miss.*  The theorems so far need `NoLeft`, but a run with that
key is not lawless.  With `filled = concurrencyLimit`, `SlotAccounting` makes the jobs
in flight at most the slots that the poller has yet to take: `ReportMissesFew`.  It
takes at most one step of the limit, and `LimitInRange` with `DeltaGrows` bounds the
step by that of the largest limit.  `NearlyPrinted` carries this to the end:
what `report` reads, while jobs go on, lies between what was counted when it
started and what was launched.  So a report misses at most one step of the largest
limit that a run can have: this is `Nearly_Accounted`, 50 jobs at the code's capacity.

*The wait for the rate.*  `RatesPositive`: no limit that is stored, installed or
fetched is negative unless `<Down>` made it, and main waits only for a positive one.

*The error.*  `ErrorStored`: a job whose error is about to be counted, and every
error counted, has stored one before.  It does not depend on the final wait, so
`NeverPanics` holds even when the report overtakes running jobs.

*The exit.*  `InterruptsOnce`: an interrupt in the channel, one the poller holds
and those consumed are together at most those that were made.

*The limiter.*  `LimiterInstalled` is inductive as it stands: only a key with a
handler changes the limit, and until `RefreshRateLimiter` the poller is at
`refresh`.  Zero is exempt, since there the code does not do what its help says (section 5).

*A stop.*  `StopBound` compares the number of launches with an earlier one, so it
is proved for each value `k` of that: `Stopping(k)` says that the launches, plus
one if main is already past its look at `done` (`Committed`), are at most
`k + 1`, and every step after the stop preserves it.

*The outcomes.*  `Counts`:

    errCnt + roundTripHist + |jobs not counted yet| = |jobs launched|
    roundTripHist = roundTripPrecise + |jobs between the two collectors|

so with `Drained` the counters are final when the report starts.  `report` reads
them one by one; `Printed` says that what it has read is still true.  Both are
needed: `Counts` alone holds also of a report that is wrong.

*The refinement.*  `RefineInv` is what the mapping needs: `NoneLeftOut` with
`NextJobIdle` makes the launched jobs the numbers `0 .. i`, so `Acquire` starts
the job that `LoadRun` calls `started`; `LimitFixed` and `SlotInv` make a free
slot of the channel a job fewer than the limit (`BelowLimit`); `Drained` and
`Printed` make the last statement of `report` the return of `LoadRun` with the
right status.  All other steps leave what `LoadRun` sees unchanged
(`StepsRefine`).  Counting a job is its end, and what follows is its own affair.

*The samples.*  `OneInside` is not inductive: it does not say why a second job
of a code stays out.  `SampledOnce` does: a job that waits for the mutex or holds
it has counted its code, which has no sample yet, so a job that counts the code
after it does not see 1.  `Held` ties the mutex to who is inside.  The proof uses
no lock for uniqueness, only the atomic counter, as the code does.
`LockHolder` is inductive with `Held`: `SampleFails` is the only step that leaves
`mu` with a job that is over, so only there can `CountsReturn` fail.

*The counts of the producers.*  `Accounted`: each counter holds the number of jobs
that are past it, until a panic.  `SampleOwed`: a code that was counted has a
sample, a job that will store one, or a job that failed to and kept the mutex.
`ReportComplete` is what remains when all jobs are over.  In fasthttp count and
sample change together and nothing is owed.

*The pool.*  `PoolBalanced` is inductive with the types: `Acquire` moves one
buffer and one job, `Release` moves them back, on every return.

*The buffer.*  A sample may be overwritten later (`fast_sample`), but by whom?
`OwnContent`: the buffer of a job that has its response holds what that job
received, since `PoolBalanced` gives it to nobody else.  So a sample is intact until
its job releases the response.  A `client.Do` that fails may have written to a
buffer as well, but to that of its own job.

*The composition.*  Every step of `Plt` is a step of the runner or one it does not
see, and likewise for the producer, which gives `Plt_Runs_Runner` and
`Plt_Keeps_Promises`.  `ReportsAgree` relates the two.  `StagesAgree`: where the
goroutine of a job is in the runner says how its call of the producer ended.
`OutcomesAgree`: the runner's counters are the calls that ended so, minus those it
has not counted yet.  `StringReads`: what `String` has read of a code is still its
count.  Under `NoLeft` no call is open when `String` reads, so all of them are final.
`CallAdmitted` is why it is right to check the producer with a bound of its own
(`AtOnce`): from `SlotInv` and `StagesAgree` the runner's semaphore implies it.

*The S3 totals.*  `Totals`: the bytes of a download are counted one step before the
download is, so `totBytes` is ahead by the jobs between the two, which are some of
those that work; none is when no job does.  `FileOfSaver`: the file is whole from the end of the saver's transfer
on, for which `Paths` says that only a saver or an upload opens a file.

*The sizes.*  `UnitFits`: the number of bytes is at least the chosen unit, if that is
not the first, and less than the next one, if there is one; `UnitSizes` makes the
next one `KILOBYTE` times as large.  `TenthsClose`: rounding a quotient to tenths
moves it by at most half of one, also when ten tenths make the next whole
(`TenDigits`).  So `1024.0 KB` is possible and a larger number before it is not.

*Folds.*  What `FoldLeft` computes for every sequence takes an induction, and the
induction theorems of the library take an operator, which the provers cannot
instantiate.  `FoldProofs` states induction with a set instead (`Induction`,
`SeqInduction`: a set of sequences that has the empty one and is closed under
`Append` has all), from the finite sets of the library, and from it the two
equations of a fold (`FoldEmpty`, `FoldAppend`).  With them the set of bodies, or of
lines, of which a statement holds is shown to have all of them.

*The samples' text.*  A body is built of characters, and `Sampled` is the statement
about the bytes of all of its heads: `BytesAppend`, `EncodeIs` and `ValidMore` say
how one more character changes the bytes and where they may be cut.  `SampleIs`
then reads `PeekBody`: a cut within a character is not valid, so such a sample is
announced as binary and not printed, and any other ends with a whole character.

*The headers.*  `Kept`: after the headers of a line have been put into a map, it
has for each of their names the value of the last one, and has lost no name that it
had.  `Default` does not change an entry (`DefaultKeeps`), so neither
`--compressed` nor the name of the program replaces what the user gave.

*Closing.*  `Counted`: the calls that a half-open breaker let through are those that
succeeded and those under way, at most `MaxRequests`, and no late return changes
either number.  So when the last success makes it close, there is nothing else.

*The delay.*  `Counted`: while the delay is an old one the generation has no
failure.  `FirstFailureDrops`: one failure is not enough for `ReadyToTrip`, as
more than `requestsThreshold` requests make its rate less than `1 / ErrorRatio`;
so the first failure drops an old delay before any other could trip on it.  This
uses `ErrorRatio <= requestsThreshold` and the strict comparison: with `>=` both
the proof and the run fail (`EnoughAt`).

### Only model-checked

- Liveness (`Termination`, `InterruptStops`, `StopIsHonoured`, `PollerReturns`,
  `CountsReturn`, `Recovers`), and with it the fairness of `LoadRun!Spec` in
  `ImplementsLoadRun` and of `FairSpec` in `ImplementsRunner`: their safety parts
  are `Implements_LoadRun` and `Plt_Runs_Runner`, but fairness under a mapping is
  about `ENABLED`, which the prover does not handle.
- `OptionsUsed`, for all lines of up to three of the 29 options.  It compares
  values that are strings put together, which the provers do not know to differ, and
  it cannot hold for every line: of a body and a `Content-Type` that is the one a
  body has anyway, either can say what the other one does.
- The properties that fail, those of the violation runs, are not theorems for the
  constants of these runs.  Under the condition that excludes the defect they are:
  `ReportAfterJobs` under `NoLeft`, and of `SampleIntact` what holds while the job
  is in flight.  For the three that are about liveness, the safety that is left is `Slot_Comes_Back`
  and `Over_Capacity`, `Wait_Returns`, and `Lock_Holder`.

## 5. Findings

1. `live_report`, run.go:113.  The final wait compares with a limit that Left
   has lowered before the slots are taken back, so `Run` may report and return
   while a job runs: its outcome is missing, and if it was the only one the
   run fails with "all requests failed" around a nil error.  The jobs it misses
   are at most 50, one step of the largest limit (`Nearly_Accounted`).
2. `over_capacity`, run.go:113.  Nothing caps `--concurrency` at 1000; above
   it, the final wait sends more elements than the channel holds and hangs, in every
   run (`Over_Capacity`).
3. `rate_negative`, run.go:338.  Down without a rate limit, when no request
   finished during the last frame, stores -1 and installs a limiter that never
   lets main through; `done` is not looked at any more.  It takes this key
   (`Wait_Returns`).
4. `http_lock_kept`, nethttp/job.go:394.  A read error while the sample is taken
   returns with the mutex locked: `RequestCounts`, `String` and the first
   response of every other code hang, and the run with them.  No other return keeps
   it (`Lock_Holder`).
5. `fast_sample`, fasthttp/job.go:199.  The sample of a printable body shares
   the pooled buffer, which a later response overwrites; it is intact until then
   (`Sample_Intact_At_First`).  Encoded and binary bodies are replaced by a text.

Seen while modelling, without a run in the project:

- run.go:389.  The drawing loop and the goroutine that stops the run receive from
  the same channel; if the drawing loop gets the interrupt, the UI stops and the
  run goes on, until another one: `InterruptStops` is what is left of "Press Q or
  Ctrl+C to quit" (run.go:484).
  Go serves waiting receivers in order, so this needs the drawing loop to have
  waited longer: possible until its first tick, half a second after the start.
- Left during the final wait can also make it hang, since the poller takes the
  slot that line 114 waits for.
- Down from a rate limit of one stores zero, which "disables limit" (app.go:18),
  but `refreshRateLimiter` returns early (run.go:307) and the limiter of one
  request per second stays.  `LimiterInstalled` exempts zero for that reason.
- A status of 600 or more indexes past the counters (nethttp/job.go:384);
  `ReportComplete` exempts crashed runs.
- Without keep-alive each job's transport keeps its connection for up to 90
  seconds (nethttp/job.go:365), and each has its own circuit breaker in the
  example, which then has nothing to count.
- `--number 0 --duration 0` gives 1000 requests and a minute (flags.go:36) although
  the help and the README say of each that 0 is infinite (app.go:14, 20;
  README.md:43, 46).  `LoadAsGiven` says nothing of such a run.
- The help labels `--data` and its variants "(flag ignored)" (cmd.go:85), but
  they are used; it offers `--user USER[:PASSWORD]`, but a user without a colon is
  an error (cmd.go:152); `--output` only matters with `--no-keepalive`
  (cmd.go:186); `--fast` silently ignores `--http2`, `--http3` and
  `--no-keepalive` (cmd.go:207), and `--http2` ignores `--http3`
  (nethttp/job.go:101).
- In the example, `cbFailed` is displayed and never incremented (main.go:70), and
  the context of a request is cancelled before plt reads the body (main.go:91).

## 6. Not modelled

- The early return of `newRunner` when the terminal cannot be initialised, and
  jobs that go on after `Run` has returned to a library caller.
- Time: `time.Since` is a nondeterministic event, latencies have no values,
  byte and duration sums, the latency collectors of the net/http producer and the
  trace callbacks that feed them are left out.
- What a frame draws, and reads of `Count` of a collector without its lock: the
  model reads the current value.
- HTTP/2 and HTTP/3, redirects, TLS; the resolution of hosts at the start.
- The option parsing of kingpin and of the text of the curl help.
- `_examples/cplt`, a formula for a query string, and `simpleSettings`, which is
  not called.  Durations of the circuit breaker: a timer fires at any moment.

## 7. Plan

Done: all modules of section 2, their runs, and the proofs of section 4.  Next, in
this order:

1. `Plt` with keys: how far the defects of the final wait reach into `String`,
   whose list by status code could then miss what `Nearly_Accounted` allows.
2. Proofs: the drawing loop alone, where `reqPrev` never exceeds what was counted.
3. `LiveUI`: the plots and the rolling window, samples that arrive between the
   plot and the reset (run.go:490, 507), and the tails of 48 points.
4. `OptionsUsed` for every line, once it names the values that other options derive.
