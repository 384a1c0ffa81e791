----------------------------- MODULE PltProofs ------------------------------
(***************************************************************************)
(* Theorems about Plt, for every value of the constants: what was proved   *)
(* of the runner and of the producer holds of the two together, and their  *)
(* reports agree.                                                          *)
(***************************************************************************)
EXTENDS Plt, RunnerProofs

\* The theorems about the producer.
HP == INSTANCE NetHTTPProofs WITH
  Observers <- {DrawingLoop, MainLoop},
  AtOnce <- MaxConcurrency

-----------------------------------------------------------------------------
(* The runner.                                                             *)

\* A step of the program is one of the runner, or the runner does not see it.
LEMMA RunnerStep == [PltNext]_allVars => [Next]_vars
<1> SUFFICES ASSUME PltNext, ~UNCHANGED vars PROVE Next
  BY DEF allVars
<1>1. CASE RunMain
  <2>1. CASE OfRunner(Main)
    BY <2>1 DEF OfRunner, Next
  <2>2. CASE Up /\ ReportStats
    BY <2>2 DEF Up, Main, Next
  <2> QED
    BY <1>1, <2>1, <2>2 DEF RunMain, OfHttp
<1>2. ASSUME NEW j \in Jobs, RunJob(j)
      PROVE  Next
  <2>1. Job(j)
    BY <1>2 DEF RunJob, OfHttp, OfRunner, Up, Job
  <2> QED
    BY <2>1 DEF Next
<1>3. CASE RunUI
  BY <1>3 DEF RunUI, OfHttp, OfRunner, Up, UI, Next
<1>4. CASE OfRunner(Stop \/ (\E key \in Keys : Key(key)) \/ Poller \/ Expire \/ Signal)
  BY <1>4 DEF OfRunner, Next
<1>5. CASE OfHttp(Http!IdleTimeout) \/ (RunOver /\ UNCHANGED allVars)
  BY <1>5 DEF OfHttp, allVars
<1> QED
  BY <1>1, <1>2, <1>3, <1>4, <1>5 DEF PltNext

\* Whatever the producer does, the runner behaves as it does alone: every safety
\* property shown of it holds of the program.
THEOREM Plt_Runs_Runner == PltSpec => Spec
<1>1. PltInit => Init
  BY DEF PltInit
<1> QED
  BY <1>1, RunnerStep, PTL DEF PltSpec, Spec

-----------------------------------------------------------------------------
(* The producer.                                                           *)

\* The assumptions of the producer are those of Plt.
LEMMA HttpConstants ==
  /\ HP!NetHTTPJobAssumption
  /\ DrawingLoop # MainLoop /\ {DrawingLoop, MainLoop} \cap Jobs = {}
  /\ NoJob \notin Jobs \cup {DrawingLoop, MainLoop} /\ Codes \subseteq Nat
  /\ IsFiniteSet(Jobs)
<1>1. HP!NetHTTPJobAssumption
  BY PltAssumption DEF Http!Calls, HP!Calls, Http!IsFiniteSet, HP!IsFiniteSet,
     Http!NetHTTPJobAssumption, HP!NetHTTPJobAssumption
<1>2. /\ {DrawingLoop, MainLoop} \cap Jobs = {}
      /\ NoJob \notin Jobs \cup {DrawingLoop, MainLoop} /\ Codes \subseteq Nat
  BY <1>1 DEF HP!NetHTTPJobAssumption
<1>3. IsFiniteSet(Jobs)
  BY Constants, FS_Interval DEF Jobs
<1> QED
  BY <1>1, <1>2, <1>3, PltAssumption

\* The definitions that the theorems about the producer were proved from.
LEMMA SameJob == ASSUME NEW j \in Jobs PROVE Http!Job(j) => HP!Job(j)
<1> USE DEF Http!shared, HP!shared, Http!jobVars, HP!jobVars,
    Http!respVars, HP!respVars, Http!statVars, HP!statVars, Http!readVars, HP!readVars
<1>1. Http!Prepare(j) => HP!Prepare(j)
  BY DEF Http!Prepare, HP!Prepare, Http!Goto, HP!Goto, Http!InFlight, HP!InFlight,
     Http!Over, HP!Over, Http!Cardinality, HP!Cardinality, Http!May, HP!May,
     Http!IsFiniteSet, HP!IsFiniteSet
<1>2. Http!Connect(j) => HP!Connect(j)
  BY DEF Http!Connect, HP!Connect, Http!Goto, HP!Goto, Http!May, HP!May,
     Http!WithoutOne, HP!WithoutOne
<1>3. /\ Http!TripFails(j) => HP!TripFails(j)
      /\ Http!Respond(j) => HP!Respond(j)
  BY DEF Http!TripFails, HP!TripFails, Http!Respond, HP!Respond, Http!Goto, HP!Goto,
     Http!May, HP!May
<1>4. /\ Http!Upstream(j) => HP!Upstream(j)
      /\ Http!UpstreamPrecise(j) => HP!UpstreamPrecise(j)
  BY DEF Http!Upstream, HP!Upstream, Http!UpstreamPrecise, HP!UpstreamPrecise,
     Http!Goto, HP!Goto
<1>5. Http!Count(j) => HP!Count(j)
  BY DEF Http!Count, HP!Count, Http!Goto, HP!Goto, Http!IsFirst, HP!IsFirst
<1>6. /\ Http!Lock(j) => HP!Lock(j)
      /\ Http!Sample(j) => HP!Sample(j)
      /\ Http!SampleFails(j) => HP!SampleFails(j)
  BY DEF Http!Lock, HP!Lock, Http!LockBy, HP!LockBy, Http!Sample, HP!Sample,
     Http!Unlock, HP!Unlock, Http!SampleFails, HP!SampleFails, Http!Goto, HP!Goto,
     Http!May, HP!May
<1>7. /\ Http!ReadBody(j) => HP!ReadBody(j)
      /\ Http!AddTotal(j) => HP!AddTotal(j)
  BY DEF Http!ReadBody, HP!ReadBody, Http!AddTotal, HP!AddTotal, Http!Goto, HP!Goto,
     Http!May, HP!May
<1>8. Http!CloseBody(j) => HP!CloseBody(j)
  BY DEF Http!CloseBody, HP!CloseBody, Http!Goto, HP!Goto, Http!May, HP!May,
     Http!IdleLimit, HP!IdleLimit, Http!MaxIdleConnsPerHost, HP!MaxIdleConnsPerHost
<1> QED
  BY <1>1, <1>2, <1>3, <1>4, <1>5, <1>6, <1>7, <1>8 DEF Http!Job, HP!Job

LEMMA SameReader ==
  ASSUME NEW o \in {DrawingLoop, MainLoop}
  PROVE  /\ Http!CallReader(o) => HP!CallReader(o)
         /\ Http!Reader(o) => HP!Reader(o)
<1> USE DEF Http!shared, HP!shared, Http!jobVars, HP!jobVars,
    Http!respVars, HP!respVars, Http!statVars, HP!statVars
<1>1. Http!CallReader(o) => HP!CallReader(o)
  BY DEF Http!CallReader, HP!CallReader
<1>2. Http!Reader(o) => HP!Reader(o)
  BY DEF Http!Reader, HP!Reader, Http!ReaderLock, HP!ReaderLock, Http!LockBy, HP!LockBy,
     Http!ReadCode, HP!ReadCode, Http!Sampled, HP!Sampled, Http!ReaderUnlock,
     HP!ReaderUnlock, Http!Unlock, HP!Unlock
<1> QED
  BY <1>1, <1>2

LEMMA SameIdleTimeout == Http!IdleTimeout => HP!IdleTimeout
BY DEF Http!IdleTimeout, HP!IdleTimeout, Http!shared, HP!shared, Http!jobVars,
   HP!jobVars, Http!respVars, HP!respVars, Http!statVars, HP!statVars, Http!readVars,
   HP!readVars

\* A step of the program is one of the producer, or the producer does not see it.
LEMMA HttpStep == [PltNext]_allVars => [HP!Next]_HP!vars
<1> SUFFICES ASSUME PltNext, ~UNCHANGED httpVars PROVE HP!Next
  BY DEF allVars, httpVars, HP!vars, HP!jobVars, HP!respVars, HP!statVars, HP!readVars
<1>1. CASE RunMain
  <2>1. Http!CallReader(MainLoop) \/ Http!Reader(MainLoop)
    BY <1>1 DEF RunMain, OfHttp, OfRunner
  <2>2. HP!CallReader(MainLoop) \/ HP!Reader(MainLoop)
    BY <2>1, SameReader
  <2> QED
    BY <2>2 DEF HP!Next
<1>2. ASSUME NEW j \in Jobs, RunJob(j)
      PROVE  HP!Next
  <2>1. Http!Job(j)
    BY <1>2 DEF RunJob, OfHttp, OfRunner
  <2>2. HP!Job(j)
    BY <2>1, SameJob
  <2> QED
    BY <2>2 DEF HP!Next
<1>3. CASE RunUI
  <2>1. Http!CallReader(DrawingLoop) \/ Http!Reader(DrawingLoop)
    BY <1>3 DEF RunUI, OfHttp, OfRunner
  <2>2. HP!CallReader(DrawingLoop) \/ HP!Reader(DrawingLoop)
    BY <2>1, SameReader
  <2> QED
    BY <2>2 DEF HP!Next
<1>4. CASE OfHttp(Http!IdleTimeout)
  BY <1>4, SameIdleTimeout DEF OfHttp, HP!Next
<1>5. CASE OfRunner(Stop \/ (\E key \in Keys : Key(key)) \/ Poller \/ Expire \/ Signal)
           \/ (RunOver /\ UNCHANGED allVars)
  BY <1>5 DEF OfRunner, allVars
<1> QED
  BY <1>1, <1>2, <1>3, <1>4, <1>5 DEF PltNext

\* Whatever the runner does, the producer behaves as it does under any caller.
LEMMA ProducerRuns == PltSpec => HP!Spec
<1>1. PltInit => HP!Init
  BY DEF PltInit, Http!Init, HP!Init, Http!NoCode, HP!NoCode
<1> QED
  BY <1>1, HttpStep, PTL DEF PltSpec, HP!Spec

\* The invariants of the producer hold of the program.
LEMMA ProducerInvariant ==
  PltSpec => [](HP!IInv /\ HP!NoCodeYet /\ HP!Accounted /\ HP!SampleOwed)
<1>1. HP!Spec => []HP!IInv
  BY HttpConstants, HP!Invariant
<1>2. HP!Spec => [](HP!NoCodeYet /\ HP!Accounted /\ HP!SampleOwed)
  BY HttpConstants, HP!ReportInvariant
<1> QED
  BY <1>1, <1>2, ProducerRuns, PTL

-----------------------------------------------------------------------------
(* The steps of the program, by what they change.                          *)

\* The variables of the runner that its report depends on.
runVars == <<mainVars, job, errVars, slow, roundTripHist, roundTripPrecise, reported>>

\* The steps of the runner in the goroutine of a job.
RunnerJob(j) ==
  /\ \/ stage[j] = "done" /\ Succeed(j)
     \/ stage[j] = "failed" /\ Fail(j)
     \/ job[j] # "running" /\ Job(j)
  /\ UNCHANGED <<httpVars, printed>>

\* Main returns from String and from report.
StringReturns ==
  /\ Up /\ HP!Reader(MainLoop) /\ readPc'[MainLoop] = "out"
  /\ ReportStats /\ printed' = result[MainLoop]

\* What no other goroutine does with the state that the reports depend on.
Elsewhere ==
  /\ UNCHANGED <<runVars, printed>>
  /\ \/ HP!CallReader(DrawingLoop) \/ HP!Reader(DrawingLoop) \/ HP!IdleTimeout
     \/ UNCHANGED httpVars

LEMMA StepKinds ==
  ASSUME [PltNext]_allVars
  PROVE  \/ \E j \in Jobs : job[j] = "running" /\ HP!Job(j) /\ UNCHANGED <<vars, printed>>
         \/ \E j \in Jobs : RunnerJob(j)
         \/ mainPc # "reportStats" /\ Up /\ Main /\ UNCHANGED <<httpVars, printed>>
         \/ mainPc = "reportStats" /\ HP!CallReader(MainLoop) /\ UNCHANGED <<vars, printed>>
         \/ HP!Reader(MainLoop) /\ readPc'[MainLoop] # "out" /\ UNCHANGED <<vars, printed>>
         \/ StringReturns
         \/ Elsewhere
<1> SUFFICES ASSUME PltNext
             PROVE  \/ \E j \in Jobs : job[j] = "running" /\ HP!Job(j)
                                          /\ UNCHANGED <<vars, printed>>
                    \/ \E j \in Jobs : RunnerJob(j)
                    \/ mainPc # "reportStats" /\ Up /\ Main /\ UNCHANGED <<httpVars, printed>>
                    \/ mainPc = "reportStats" /\ HP!CallReader(MainLoop)
                         /\ UNCHANGED <<vars, printed>>
                    \/ HP!Reader(MainLoop) /\ readPc'[MainLoop] # "out"
                         /\ UNCHANGED <<vars, printed>>
                    \/ StringReturns
                    \/ Elsewhere
  BY DEF allVars, Elsewhere, runVars, vars, statVars
<1>1. CASE RunMain
  BY <1>1, SameReader DEF RunMain, OfRunner, OfHttp, StringReturns, Back
<1>2. ASSUME NEW j \in Jobs, RunJob(j)
      PROVE  \/ job[j] = "running" /\ HP!Job(j) /\ UNCHANGED <<vars, printed>>
             \/ RunnerJob(j)
  BY <1>2, SameJob DEF RunJob, OfRunner, OfHttp, RunnerJob
<1>3. CASE RunUI
  <2>1. CASE OfHttp(Http!Reader(DrawingLoop))
    BY <2>1, SameReader DEF OfHttp, Elsewhere, runVars, vars, statVars
  <2>2. CASE Frame /\ Http!CallReader(DrawingLoop) /\ UNCHANGED printed
    BY <2>2, SameReader DEF Frame, notUI, Elsewhere, runVars
  <2>3. CASE OfRunner(Tick \/ TakeExit) \/ OfRunner(ResetRolling)
    BY <2>3 DEF OfRunner, Tick, TakeExit, ResetRolling, notUI, Elsewhere, runVars
  <2> QED
    BY <1>3, <2>1, <2>2, <2>3 DEF RunUI
<1>4. CASE OfRunner(Stop \/ (\E key \in Keys : Key(key)) \/ Poller \/ Expire \/ Signal)
  <2>1. UNCHANGED runVars
    BY <1>4 DEF OfRunner, runVars, Stop, Expire, Signal, Key, Custom, Quit,
       IncreaseConcurrency, DecreaseConcurrency, IncreaseRateLimit,
       DecreaseRateLimit, ChangeRate, BuiltIn, Press, Poller, SendExit, Pop, Push,
       Settle, RefreshRateLimiter, notPoller, statVars
  <2> QED
    BY <1>4, <2>1 DEF OfRunner, Elsewhere
<1>5. CASE OfHttp(Http!IdleTimeout)
  BY <1>5, SameIdleTimeout DEF OfHttp, Elsewhere, runVars, vars, statVars
<1>6. CASE RunOver /\ UNCHANGED allVars
  BY <1>6 DEF allVars, Elsewhere, runVars, vars, statVars
<1> QED
  BY <1>1, <1>2, <1>3, <1>4, <1>5, <1>6 DEF PltNext

\* A job of the producer changes its own stage and code only, unless it is over.
LEMMA HttpJobStep ==
  ASSUME HP!TypeOK, NEW j \in Jobs, HP!Job(j)
  PROVE  /\ stage[j] \notin {"done", "failed"}
         /\ \A k \in Jobs \ {j} : stage'[k] = stage[k]
         /\ UNCHANGED <<readPc, result>>
<1> USE DEF HP!TypeOK, HP!Goto, HP!shared, HP!readVars
<1>1. CASE HP!Prepare(j) \/ HP!Connect(j) \/ HP!TripFails(j) \/ HP!Respond(j)
  BY <1>1 DEF HP!Prepare, HP!Connect, HP!TripFails, HP!Respond
<1>2. CASE HP!Upstream(j) \/ HP!UpstreamPrecise(j) \/ HP!Count(j)
  BY <1>2 DEF HP!Upstream, HP!UpstreamPrecise, HP!Count
<1>3. CASE HP!Lock(j) \/ HP!Sample(j) \/ HP!SampleFails(j)
  BY <1>3 DEF HP!Lock, HP!Sample, HP!SampleFails
<1>4. CASE HP!ReadBody(j) \/ HP!CloseBody(j) \/ HP!AddTotal(j)
  BY <1>4 DEF HP!ReadBody, HP!CloseBody, HP!AddTotal
<1> QED
  BY <1>1, <1>2, <1>3, <1>4 DEF HP!Job

\* Readers change no job and no counter.
LEMMA HttpReaderStep ==
  ASSUME HP!TypeOK, NEW o \in {DrawingLoop, MainLoop}, HP!CallReader(o) \/ HP!Reader(o)
  PROVE  /\ UNCHANGED <<stage, code, respCode, sample, total, crashed>>
         /\ \A p \in {DrawingLoop, MainLoop} \ {o} :
              readPc'[p] = readPc[p] /\ result'[p] = result[p]
BY DEF HP!TypeOK, HP!CallReader, HP!Reader, HP!ReaderLock, HP!ReadCode,
   HP!ReaderUnlock, HP!jobVars, HP!respVars, HP!statVars

-----------------------------------------------------------------------------
(* The two reports.                                                        *)

\* A job is in the producer while the runner takes it for running, and how it
\* ended there is what the runner counts.
StagesAgree ==
  \A j \in Jobs :
    /\ job[j] = "idle" => stage[j] = "idle"
    /\ job[j] \in {"hist", "precise", "rolling"} => stage[j] = "done"
    /\ job[j] = "count" => stage[j] = "failed"
    /\ job[j] \in {"release", "done"} => stage[j] \in {"done", "failed"}

\* StagesAgree is preserved.
LEMMA StagesStep ==
  TypeOK /\ HP!TypeOK /\ StagesAgree /\ [PltNext]_allVars => StagesAgree'
<1> SUFFICES ASSUME TypeOK, HP!TypeOK, StagesAgree, [PltNext]_allVars
             PROVE  StagesAgree'
  OBVIOUS
<1>0. job \in [Jobs -> Stages] /\ i \in Jobs
  BY DEF TypeOK
<1>1. ASSUME NEW j \in Jobs, job[j] = "running", HP!Job(j), UNCHANGED vars
      PROVE  StagesAgree'
  BY <1>1, HttpJobStep DEF StagesAgree, vars
<1>2. ASSUME NEW j \in Jobs, RunnerJob(j)
      PROVE  StagesAgree'
  <2>1. UNCHANGED stage
    BY <1>2 DEF RunnerJob, httpVars
  <2>2. CASE stage[j] = "done" /\ Succeed(j)
    BY <1>0, <2>1, <2>2 DEF StagesAgree, Succeed, Stage
  <2>3. CASE stage[j] = "failed" /\ Fail(j)
    BY <1>0, <2>1, <2>3 DEF StagesAgree, Fail, Stage
  <2>4. CASE job[j] # "running" /\ Job(j)
    <3>1. CASE CountError(j) \/ Release(j)
      BY <1>0, <2>1, <3>1 DEF StagesAgree, CountError, Release, Stage
    <3>2. CASE AddHist(j) \/ AddPrecise(j) \/ AddRolling(j)
      BY <1>0, <2>1, <3>2 DEF StagesAgree, AddHist, AddPrecise, AddRolling, Stage
    <3> QED
      BY <2>4, <3>1, <3>2 DEF Job, Fail, Succeed, Stage
  <2> QED
    BY <1>2, <2>2, <2>3, <2>4 DEF RunnerJob
<1>3. CASE Main /\ UNCHANGED httpVars
  <2>1. UNCHANGED stage
    BY <1>3 DEF httpVars
  <2>2. UNCHANGED job \/ job' = [job EXCEPT ![i] = "running"]
    BY <1>3 DEF Main, Fetch, Wait, Acquire, Check, DrainTest, Fill, ReportCount,
       ReportErrors, ReportOutcome, ReportStats
  <2> QED
    BY <1>0, <2>1, <2>2 DEF StagesAgree
<1>4. CASE UNCHANGED <<job, stage>>
  BY <1>4 DEF StagesAgree
<1>5. ASSUME HP!CallReader(MainLoop) \/ HP!Reader(MainLoop), UNCHANGED job
      PROVE  StagesAgree'
  BY <1>4, <1>5, HttpReaderStep
<1>6. CASE StringReturns
  BY <1>5, <1>6 DEF StringReturns, ReportStats
<1>7. CASE Elsewhere
  <2>1. UNCHANGED job
    BY <1>7 DEF Elsewhere, runVars
  <2>2. UNCHANGED stage
    BY <1>7, HttpReaderStep
    DEF Elsewhere, HP!IdleTimeout, HP!jobVars, httpVars
  <2> QED
    BY <1>4, <2>1, <2>2
<1> QED
  BY <1>1, <1>2, <1>3, <1>5, <1>6, <1>7, StepKinds DEF vars

\* Jobs that the runner has counted.
CountedOk == {j \in Jobs : stage[j] = "done" /\ job[j] \notin {"running", "hist"}}
CountedFailed == {j \in Jobs : stage[j] = "failed" /\ job[j] \notin {"running", "count"}}

OutcomesAgree ==
  roundTripHist = Cardinality(CountedOk) /\ errCnt = Cardinality(CountedFailed)

\* OutcomesAgree is preserved.
LEMMA OutcomesStep ==
  SlotInv /\ HP!TypeOK /\ StagesAgree /\ OutcomesAgree /\ [PltNext]_allVars
    => OutcomesAgree'
<1> SUFFICES ASSUME SlotInv, HP!TypeOK, StagesAgree, OutcomesAgree, [PltNext]_allVars
             PROVE  OutcomesAgree'
  OBVIOUS
<1>0. job \in [Jobs -> Stages] /\ i \in Jobs
  BY DEF SlotInv, TypeOK
<1>a. ASSUME UNCHANGED <<roundTripHist, errCnt>>, CountedOk' = CountedOk,
             CountedFailed' = CountedFailed
      PROVE  OutcomesAgree'
  BY <1>a DEF OutcomesAgree
<1>b. IsFiniteSet(CountedOk) /\ IsFiniteSet(CountedFailed)
  BY HttpConstants, FS_Subset DEF CountedOk, CountedFailed
<1>1. ASSUME NEW j \in Jobs, job[j] = "running", HP!Job(j), UNCHANGED vars
      PROVE  OutcomesAgree'
  <2>1. CountedOk' = CountedOk /\ CountedFailed' = CountedFailed
    BY <1>1, HttpJobStep DEF CountedOk, CountedFailed, vars
  <2> QED
    BY <1>a, <1>1, <2>1 DEF vars, errVars, statVars
<1>2. ASSUME NEW j \in Jobs, RunnerJob(j)
      PROVE  OutcomesAgree'
  <2>1. UNCHANGED stage
    BY <1>2 DEF RunnerJob, httpVars
  <2>2. CASE stage[j] = "done" /\ Succeed(j)
    <3>1. CountedOk' = CountedOk /\ CountedFailed' = CountedFailed
      BY <1>0, <2>1, <2>2 DEF CountedOk, CountedFailed, Succeed, Stage
    <3> QED
      BY <1>a, <2>2, <3>1 DEF Succeed, errVars
  <2>3. CASE stage[j] = "failed" /\ Fail(j)
    <3>1. CountedOk' = CountedOk /\ CountedFailed' = CountedFailed
      BY <1>0, <2>1, <2>3 DEF CountedOk, CountedFailed, Fail, Stage
    <3> QED
      BY <1>a, <2>3, <3>1 DEF Fail, statVars
  <2>4. CASE CountError(j)
    <3>1. stage[j] = "failed"
      BY <2>4 DEF CountError, Stage, StagesAgree
    <3>2. CountedOk' = CountedOk
      BY <1>0, <2>1, <2>4, <3>1 DEF CountedOk, CountError, Stage
    <3>3. CountedFailed' = CountedFailed \cup {j} /\ j \notin CountedFailed
      BY <1>0, <2>1, <2>4, <3>1 DEF CountedFailed, CountError, Stage
    <3>4. Cardinality(CountedFailed') = Cardinality(CountedFailed) + 1
      BY <1>b, <3>3, FS_AddElement
    <3> QED
      BY <2>4, <3>2, <3>4 DEF OutcomesAgree, CountError, statVars
  <2>5. CASE AddHist(j)
    <3>1. stage[j] = "done"
      BY <2>5 DEF AddHist, Stage, StagesAgree
    <3>2. CountedFailed' = CountedFailed
      BY <1>0, <2>1, <2>5, <3>1 DEF CountedFailed, AddHist, Stage
    <3>3. CountedOk' = CountedOk \cup {j} /\ j \notin CountedOk
      BY <1>0, <2>1, <2>5, <3>1 DEF CountedOk, AddHist, Stage
    <3>4. Cardinality(CountedOk') = Cardinality(CountedOk) + 1
      BY <1>b, <3>3, FS_AddElement
    <3> QED
      BY <2>5, <3>2, <3>4 DEF OutcomesAgree, AddHist, errVars
  <2>6. CASE AddPrecise(j) \/ AddRolling(j) \/ Release(j)
    <3>1. CountedOk' = CountedOk /\ CountedFailed' = CountedFailed
      BY <1>0, <2>1, <2>6 DEF CountedOk, CountedFailed, AddPrecise, AddRolling,
         Release, Stage
    <3> QED
      BY <1>a, <2>6, <3>1 DEF AddPrecise, AddRolling, Release, errVars, statVars
  <2> QED
    BY <1>2, <2>2, <2>3, <2>4, <2>5, <2>6 DEF RunnerJob, Job, Succeed, Fail, Stage
<1>3. CASE Main /\ UNCHANGED httpVars
  <2>1. UNCHANGED <<stage, roundTripHist, errCnt>>
    BY <1>3 DEF httpVars, Main, Fetch, Wait, Acquire, Check, DrainTest, Fill,
       ReportCount, ReportErrors, ReportOutcome, ReportStats, notMain, statVars
  <2>2. CASE UNCHANGED job
    BY <1>a, <2>1, <2>2 DEF CountedOk, CountedFailed
  <2>3. CASE Acquire
    <3>1. job[i] = "idle" /\ job' = [job EXCEPT ![i] = "running"]
      BY <1>0, <2>3 DEF Acquire, SlotInv, NextJobIdle
    <3>2. stage[i] = "idle"
      BY <1>0, <3>1 DEF StagesAgree
    <3>3. CountedOk' = CountedOk /\ CountedFailed' = CountedFailed
      BY <1>0, <2>1, <3>1, <3>2 DEF CountedOk, CountedFailed
    <3> QED
      BY <1>a, <2>1, <3>3
  <2> QED
    BY <1>3, <2>2, <2>3 DEF Main, Fetch, Wait, Check, DrainTest, Fill, ReportCount,
       ReportErrors, ReportOutcome, ReportStats
<1>4. CASE UNCHANGED <<job, stage, roundTripHist, errCnt>>
  BY <1>4, <1>a DEF CountedOk, CountedFailed
<1>5. CASE (HP!CallReader(MainLoop) \/ HP!Reader(MainLoop)) /\ UNCHANGED vars
  BY <1>4, <1>5, HttpReaderStep DEF vars, errVars, statVars
<1>6. CASE StringReturns
  BY <1>4, <1>6, HttpReaderStep
  DEF StringReturns, ReportStats, notMain, statVars
<1>7. CASE Elsewhere
  <2>1. UNCHANGED <<job, roundTripHist, errCnt>>
    BY <1>7 DEF Elsewhere, runVars, errVars
  <2>2. UNCHANGED stage
    BY <1>7, HttpReaderStep
    DEF Elsewhere, HP!IdleTimeout, HP!jobVars, httpVars
  <2> QED
    BY <1>4, <2>1, <2>2
<1> QED
  BY <1>1, <1>2, <1>3, <1>5, <1>6, <1>7, StepKinds DEF vars

\* StagesAgree and OutcomesAgree always hold.
LEMMA AgreeInvariant == PltSpec => [](StagesAgree /\ OutcomesAgree)
<1>1. PltInit => StagesAgree /\ OutcomesAgree
  <2> SUFFICES ASSUME PltInit PROVE StagesAgree /\ OutcomesAgree
    OBVIOUS
  <2>1. \A j \in Jobs : job[j] = "idle" /\ stage[j] = "idle"
    BY DEF PltInit, Init, Http!Init
  <2>2. CountedOk = {} /\ CountedFailed = {}
    BY <2>1 DEF CountedOk, CountedFailed
  <2> QED
    BY <2>1, <2>2, FS_EmptySet DEF PltInit, Init, StagesAgree, OutcomesAgree
<1>2. SlotInv /\ HP!IInv /\ StagesAgree /\ OutcomesAgree /\ [PltNext]_allVars
        => (StagesAgree /\ OutcomesAgree)'
  BY StagesStep, OutcomesStep DEF SlotInv, HP!IInv
<1>3. Spec => []SlotInv
  BY SlotsInvariant
<1> QED
  BY <1>1, <1>2, <1>3, Plt_Runs_Runner, ProducerInvariant, PTL DEF PltSpec

-----------------------------------------------------------------------------
(* What String reads.                                                      *)

\* String is called when nothing is left that could change what it reads, and
\* reads the count of each code that has a sample.
StringReads ==
  /\ mainPc \in Reporting \cup Ended => ~crashed
  /\ readPc[MainLoop] # "out" => mainPc = "reportStats"
  /\ readPc[MainLoop] # "read" => result[MainLoop] = [c \in Codes |-> 0]
  /\ \A c \in Codes :
       result[MainLoop][c] # 0 => result[MainLoop][c] = respCode[c] /\ sample[c] # NoJob
  /\ mainPc = "returned" => \A c \in Codes : printed[c] = respCode[c]

\* Main steps into String, and out of it with the counts of all codes.
LEMMA StringStep ==
  ASSUME HP!IInv, HP!SampleOwed, StagesAgree, TypeOK, ReportAfterJobs, StringReads,
         \/ mainPc = "reportStats" /\ HP!CallReader(MainLoop) /\ UNCHANGED <<vars, printed>>
         \/ HP!Reader(MainLoop) /\ readPc'[MainLoop] # "out" /\ UNCHANGED <<vars, printed>>
         \/ StringReturns
  PROVE  StringReads'
<1>0. /\ readPc \in [{DrawingLoop, MainLoop} -> {"out", "lock", "read"}]
      /\ result \in [{DrawingLoop, MainLoop} -> [Codes -> Nat]]
      /\ respCode \in [Codes -> Nat]
  BY DEF HP!IInv, HP!TypeOK
<1>1. UNCHANGED <<respCode, sample, crashed>>
  BY HttpReaderStep DEF StringReturns, HP!IInv
<1>2. CASE mainPc = "reportStats" /\ HP!CallReader(MainLoop) /\ UNCHANGED <<vars, printed>>
  BY <1>0, <1>1, <1>2 DEF StringReads, HP!CallReader, vars, mainVars
<1>3. CASE HP!Reader(MainLoop) /\ readPc'[MainLoop] # "out" /\ UNCHANGED <<vars, printed>>
  <2>1. UNCHANGED <<mainPc, printed>>
    BY <1>3 DEF vars, mainVars
  <2>2. CASE HP!ReaderLock(MainLoop)
    BY <1>0, <1>1, <2>1, <2>2 DEF StringReads, HP!ReaderLock
  <2>3. CASE HP!ReadCode(MainLoop)
    <3>1. /\ readPc[MainLoop] = "read" /\ UNCHANGED readPc
          /\ \E c \in HP!Sampled : result' = [result EXCEPT ![MainLoop][c] = respCode[c]]
      BY <2>3 DEF HP!ReadCode
    <3> QED
      BY <1>0, <1>1, <2>1, <3>1 DEF StringReads, HP!Sampled
  <2> QED
    BY <1>0, <1>3, <2>2, <2>3 DEF HP!Reader, HP!ReaderUnlock
<1>4. CASE StringReturns
  <2>1. HP!ReaderUnlock(MainLoop)
    BY <1>0, <1>4 DEF StringReturns, HP!Reader, HP!ReaderLock, HP!ReadCode
  <2>2. /\ mainPc = "reportStats" /\ mainPc' = "returned"
        /\ printed' = result[MainLoop]
    BY <1>4 DEF StringReturns, ReportStats
  <2>3. ASSUME NEW c \in Codes
        PROVE  result[MainLoop][c] = respCode[c]
    <3>1. CASE sample[c] # NoJob
      BY <2>1, <3>1 DEF HP!ReaderUnlock, HP!Sampled, StringReads
    <3>2. CASE sample[c] = NoJob
      <4>1. mu = MainLoop /\ MainLoop \notin Jobs
        BY <2>1, HttpConstants DEF HP!ReaderUnlock, HP!IInv, HP!Held
      <4>2. \A j \in Jobs : stage[j] \notin {"lock", "sample"}
        <5>1. \A j \in Jobs : job[j] \in {"idle", "done"}
          BY <2>2 DEF ReportAfterJobs, Reporting, InFlight
        <5> QED
          BY <5>1 DEF StagesAgree
      <4>3. ~crashed
        BY <2>2 DEF StringReads, Reporting
      <4>4. ~(respCode[c] > 0)
        BY <3>2, <4>1, <4>2, <4>3 DEF HP!SampleOwed
      <4>5. result[MainLoop][c] = 0
        BY <3>2 DEF StringReads
      <4> QED
        BY <1>0, <4>4, <4>5
    <3> QED
      BY <3>1, <3>2
  <2>4. readPc'[MainLoop] = "out" /\ result'[MainLoop] = [c \in Codes |-> 0]
    BY <1>0, <2>1 DEF HP!ReaderUnlock
  <2> QED
    BY <1>1, <2>2, <2>3, <2>4 DEF StringReads, Reporting, Ended
<1> QED
  BY <1>2, <1>3, <1>4

\* StringReads is preserved: the other goroutines leave alone what String reads.
LEMMA StringReadsStep ==
  /\ HP!IInv /\ HP!SampleOwed /\ StagesAgree /\ TypeOK /\ ReportAfterJobs
  /\ StringReads /\ [PltNext]_allVars
  => StringReads'
<1> SUFFICES ASSUME HP!IInv, HP!SampleOwed, StagesAgree, TypeOK, ReportAfterJobs,
                    StringReads, [PltNext]_allVars
             PROVE  StringReads'
  OBVIOUS
<1>0. HP!TypeOK
  BY DEF HP!IInv
<1>1. ASSUME NEW j \in Jobs, job[j] = "running", HP!Job(j), UNCHANGED <<vars, printed>>
      PROVE  StringReads'
  <2>1. mainPc \notin Reporting \cup Ended /\ mainPc' = mainPc
    BY <1>1 DEF ReportAfterJobs, InFlight, vars, mainVars
  <2>2. UNCHANGED <<readPc, result>>
    BY <1>0, <1>1, HttpJobStep
  <2>3. readPc[MainLoop] = "out" /\ result[MainLoop] = [c \in Codes |-> 0]
    BY <2>1 DEF StringReads, Reporting
  <2> QED
    BY <2>1, <2>2, <2>3 DEF StringReads, Reporting, Ended
<1>2. CASE UNCHANGED <<mainPc, readPc, result, respCode, sample, crashed, printed>>
  BY <1>2 DEF StringReads
<1>3. ASSUME NEW j \in Jobs, RunnerJob(j)
      PROVE  StringReads'
  <2>1. UNCHANGED mainPc
    BY <1>3 DEF RunnerJob, Job, Fail, CountError, Succeed, AddHist, AddPrecise,
       AddRolling, Release, notJob, mainVars
  <2> QED
    BY <1>2, <1>3, <2>1 DEF RunnerJob, httpVars
<1>4. CASE mainPc # "reportStats" /\ Up /\ Main /\ UNCHANGED <<httpVars, printed>>
  <2>1. UNCHANGED <<readPc, result, respCode, sample, crashed, printed>> /\ ~crashed
    BY <1>4 DEF httpVars, Up
  <2>2. readPc[MainLoop] = "out"
    BY <1>4 DEF StringReads
  <2>3. mainPc' # "returned"
    BY <1>4 DEF Main, Fetch, Wait, Acquire, Check, DrainTest, Fill, ReportCount,
       ReportErrors, ReportOutcome, ReportStats
  <2> QED
    BY <2>1, <2>2, <2>3 DEF StringReads
<1>5. CASE Elsewhere
  <2>1. UNCHANGED <<mainPc, printed>>
    BY <1>5 DEF Elsewhere, runVars, mainVars
  <2>2. UNCHANGED <<respCode, sample, crashed>>
    BY <1>0, <1>5, HttpReaderStep
    DEF Elsewhere, HP!IdleTimeout, HP!shared, HP!respVars, httpVars
  <2>3. readPc'[MainLoop] = readPc[MainLoop] /\ result'[MainLoop] = result[MainLoop]
    BY <1>0, <1>5, HttpReaderStep, HttpConstants
    DEF Elsewhere, HP!IdleTimeout, HP!shared, HP!readVars, httpVars
  <2> QED
    BY <2>1, <2>2, <2>3 DEF StringReads
<1> QED
  BY <1>1, <1>3, <1>4, <1>5, StepKinds, StringStep

\* Without the key Left, StringReads always holds.
LEMMA StringReadsInvariant ==
  ASSUME ~LiveUI \/ "<Left>" \notin Keys
  PROVE  PltSpec => []StringReads
<1>1. PltInit => StringReads
  BY DEF PltInit, Init, Http!Init, StringReads, Reporting, Ended
<1>2. Spec => []ReportAfterJobs
  BY Report_After_Jobs
<1>3. HP!IInv /\ HP!SampleOwed /\ StagesAgree /\ TypeOK /\ ReportAfterJobs
        /\ StringReads /\ [PltNext]_allVars => StringReads'
  BY StringReadsStep
<1>4. Spec => []TypeOK
  BY TypeCorrect
<1> QED
  BY <1>1, <1>2, <1>3, <1>4, Plt_Runs_Runner, ProducerInvariant, AgreeInvariant, PTL
  DEF PltSpec

-----------------------------------------------------------------------------
(* The theorem.                                                            *)

\* FiniteSets as the theorems about the producer extend it.
LEMMA HttpCardinality == ASSUME NEW S PROVE HP!Cardinality(S) = Cardinality(S)
BY DEF HP!Cardinality, Cardinality, HP!IsFiniteSet, IsFiniteSet

\* If no key lowers the limit, what String lists by status code and what the
\* runner counted are the same jobs, whatever calls failed on the way: every
\* launched job with a response is listed once, under its code, and the successes
\* are the jobs whose response was read to the end.
THEOREM Reports_Agree ==
  ASSUME ~LiveUI \/ "<Left>" \notin Keys
  PROVE  PltSpec => []ReportsAgree
<1>1. TypeOK /\ Drained /\ Printed /\ HP!IInv /\ HP!NoCodeYet /\ HP!Accounted
        /\ StagesAgree /\ OutcomesAgree /\ StringReads => ReportsAgree
  <2> SUFFICES ASSUME TypeOK, Drained, Printed, HP!IInv, HP!NoCodeYet, HP!Accounted,
                      StagesAgree, OutcomesAgree, StringReads, mainPc = "returned"
               PROVE  /\ \A c \in Codes :
                           printed[c] = Cardinality({j \in Launched : code[j] = c})
                      /\ reported.succeeded = total
                      /\ reported.failed = Cardinality({j \in Launched : stage[j] = "failed"})
    BY DEF ReportsAgree
  <2>1. \A j \in Jobs :
          \/ job[j] = "idle" /\ stage[j] = "idle"
          \/ job[j] = "done" /\ stage[j] \in {"done", "failed"}
    <3>1. \A j \in Jobs : job[j] \in {"idle", "done"}
      BY DEF Drained, ReportAfterJobs, Ended, InFlight
    <3> QED
      BY <3>1 DEF StagesAgree
  <2>2. ~crashed
    BY DEF StringReads, Ended
  <2>3. ASSUME NEW c \in Codes
        PROVE  printed[c] = Cardinality({j \in Launched : code[j] = c})
    <3>1. \A j \in Jobs : stage[j] = "idle" => code[j] # c
      BY HttpConstants DEF HP!NoCodeYet, HP!NoCode
    <3>2. HP!Counted(c) = {j \in Launched : code[j] = c}
      BY <2>1, <3>1 DEF HP!Counted, Launched
    <3>3. printed[c] = respCode[c]
      BY DEF StringReads
    <3>4. respCode[c] = HP!Cardinality(HP!Counted(c))
      BY <2>2 DEF HP!Accounted
    <3> QED
      BY <3>2, <3>3, <3>4, HttpCardinality
  <2>4. reported.succeeded = total
    <3>1. CountedOk = HP!Succeeded
      BY <2>1 DEF CountedOk, HP!Succeeded
    <3>2. total = HP!Cardinality(HP!Succeeded)
      BY <2>2 DEF HP!Accounted
    <3>3. reported.succeeded = roundTripHist
      BY DEF Printed, Ended
    <3> QED
      BY <3>1, <3>2, <3>3, HttpCardinality DEF OutcomesAgree
  <2>5. reported.failed = Cardinality({j \in Launched : stage[j] = "failed"})
    <3>1. CountedFailed = {j \in Launched : stage[j] = "failed"}
      BY <2>1 DEF CountedFailed, Launched
    <3>2. reported.failed = errCnt
      BY DEF Printed, Ended
    <3> QED
      BY <3>1, <3>2 DEF OutcomesAgree
  <2> QED
    BY <2>3, <2>4, <2>5
<1>2. Spec => []Drained /\ []Printed
  BY DrainedInvariant, PrintedInvariant
<1>3. PltSpec => []StringReads
  BY StringReadsInvariant
<1>4. Spec => []TypeOK
  BY TypeCorrect
<1> QED
  BY <1>1, <1>2, <1>3, <1>4, Plt_Runs_Runner, ProducerInvariant, AgreeInvariant, PTL

-----------------------------------------------------------------------------
(* What each of the two takes for granted of the other one.                *)

\* The bound under which the producer was checked alone.
CallAdmitted ==
  \A j \in Jobs :
    job[j] = "running" /\ stage[j] = "idle" => Http!Cardinality(Http!InFlight) < MaxConcurrency

\* The semaphore gives the producer the bound that it is modelled under: a job that
\* the runner has launched never waits to be admitted.
THEOREM Call_Admitted == PltSpec => []CallAdmitted
<1>1. SlotInv /\ StagesAgree => CallAdmitted
  <2> SUFFICES ASSUME SlotInv, StagesAgree,
                      NEW j \in Jobs, job[j] = "running", stage[j] = "idle"
               PROVE  Http!Cardinality(Http!InFlight) < MaxConcurrency
    BY DEF CallAdmitted
  <2>1. j \in InFlight /\ Http!InFlight \subseteq InFlight \ {j}
    BY DEF StagesAgree, InFlight, Http!InFlight, Http!Over
  <2>2. Cardinality(InFlight \ {j}) = Cardinality(InFlight) - 1
    BY <2>1, InFlightFinite, FS_RemoveElement
  <2>3. IsFiniteSet(InFlight \ {j})
    BY InFlightFinite, FS_Subset
  <2>4. /\ Cardinality(Http!InFlight) <= Cardinality(InFlight \ {j})
        /\ Cardinality(Http!InFlight) \in Nat
    BY <2>1, <2>3, FS_Subset, FS_CardinalityType
  <2>5. Cardinality(InFlight) <= MaxConcurrency
    BY InFlightFinite, Constants
    DEF SlotInv, TypeOK, PollerInLimits, SlotAccounting, Usable, Pending
  <2>6. Http!Cardinality(Http!InFlight) = Cardinality(Http!InFlight)
    BY DEF Http!Cardinality, Cardinality, Http!IsFiniteSet, IsFiniteSet
  <2> QED
    BY <2>2, <2>4, <2>5, <2>6, InFlightFinite, Constants
<1>2. Spec => []SlotInv
  BY SlotsInvariant
<1> QED
  BY <1>1, <1>2, Plt_Runs_Runner, AgreeInvariant, PTL

\* Without keys that move the limits, the program is a load run as its caller sees
\* it, whatever the server, the connections and the producer do.
THEOREM Plt_Implements_LoadRun == ASSUME LimitKept PROVE PltSpec => LoadRun!SafeSpec
BY Plt_Runs_Runner, Implements_LoadRun

\* What the runner and the producer promise alone they keep together.
THEOREM Plt_Keeps_Promises ==
  PltSpec => /\ [](ConcurrencyBound /\ ReleaseNeverBlocks /\ NeverPanics /\ ForcedExit)
             /\ []LimiterInstalled
             /\ StopBound /\ ReportMissesFew
             /\ [](Http!OneInside /\ Http!LockHolder /\ Http!ReportComplete)
             /\ Http!SamplesStay
<1>1. (HP!OneInside => Http!OneInside) /\ (HP!LockHolder => Http!LockHolder)
  BY DEF HP!OneInside, Http!OneInside, HP!LockHolder, Http!LockHolder, HP!May, Http!May
<1>2. HP!ReportComplete => Http!ReportComplete
  BY DEF HP!ReportComplete, Http!ReportComplete, HP!AllOver, Http!AllOver, HP!Over,
     Http!Over, HP!Sampled, Http!Sampled, HP!Cardinality, Http!Cardinality,
     HP!IsFiniteSet, Http!IsFiniteSet
<1>3. [\A c \in Codes : sample[c] # NoJob => sample'[c] = sample[c]]_HP!vars
        => [\A c \in Codes : sample[c] # NoJob => sample'[c] = sample[c]]_Http!vars
  BY DEF HP!vars, Http!vars, HP!jobVars, Http!jobVars, HP!respVars, Http!respVars,
     HP!statVars, Http!statVars, HP!readVars, Http!readVars
<1>4. HP!Spec => []HP!OneInside /\ []HP!LockHolder
  BY HttpConstants, HP!One_Inside, HP!Lock_Holder
<1>5. HP!Spec => []HP!ReportComplete
  BY HttpConstants, HP!Report_Complete
<1>6. HP!Spec => HP!SamplesStay
  BY HttpConstants, HP!Samples_Stay
<1>7. PltSpec => Http!SamplesStay
  BY <1>3, <1>6, ProducerRuns, PTL DEF HP!SamplesStay, Http!SamplesStay
<1>8. Spec => [](ConcurrencyBound /\ ReleaseNeverBlocks /\ NeverPanics /\ ForcedExit)
  BY Concurrency_Bound, Release_Never_Blocks, Never_Panics, Forced_Exit, PTL
<1>9. PltSpec => StopBound /\ ReportMissesFew
  BY Plt_Runs_Runner, Stop_Bound, Report_Misses_Few
<1> QED
  BY <1>1, <1>2, <1>4, <1>5, <1>7, <1>8, <1>9, Plt_Runs_Runner, Limiter_Installed,
     ProducerRuns, PTL
=============================================================================
