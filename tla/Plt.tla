-------------------------------- MODULE Plt ---------------------------------
(***************************************************************************)
(* plt --live-ui curl: loadgen.Run drives the net/http producer.  A job    *)
(* that the runner has launched is a call of JobProducer.Job, each frame   *)
(* of the UI makes a call of RequestCounts, and the report ends with one   *)
(* of String.  The two share no state but these calls: what is at stake is *)
(* that each keeps what the other one takes for granted.                   *)
(***************************************************************************)
EXTENDS Runner

CONSTANTS
  MaxIdleConns, Codes, CodeLimit, IgnoreResponseBody, NoKeepalive, Envoy,
  Failures, NoJob,        \* as in NetHTTPJob
  DrawingLoop, MainLoop   \* the goroutines that call RequestCounts and String

VARIABLES
  stage, code, unread, mu, respCode, sample, total, upstreamHist,
  upstreamHistPrecise, crashed, idle, readPc, result,
  printed   \* responses by status code that the report printed

\* Only the semaphore of the runner bounds the jobs of the producer.
Http == INSTANCE NetHTTPJob WITH
  Observers <- {DrawingLoop, MainLoop},
  AtOnce <- MaxConcurrency

httpVars == <<stage, code, unread, mu, respCode, sample, total,
              upstreamHist, upstreamHistPrecise, crashed, idle, readPc, result>>
allVars == <<vars, httpVars, printed>>

ASSUME PltAssumption ==
  Http!NetHTTPJobAssumption /\ DrawingLoop # MainLoop

PltInit == Init /\ Http!Init /\ printed = [c \in Codes |-> 0]

Back(o) == readPc[o] = "out"

\* The process is there.
Up == Alive /\ ~crashed

\* A step of the runner, or of the producer, alone.
OfRunner(step) == Up /\ step /\ UNCHANGED <<httpVars, printed>>
OfHttp(step) == Up /\ step /\ UNCHANGED <<vars, printed>>

\* The goroutine of job j is in jobProducer.Job until the producer returns.
RunJob(j) ==
  \/ job[j] = "running" /\ OfHttp(Http!Job(j))
  \/ stage[j] = "done" /\ OfRunner(Succeed(j))
  \/ stage[j] = "failed" /\ OfRunner(Fail(j))
  \/ job[j] # "running" /\ OfRunner(Job(j))

\* report calls String last, and what it has printed before is what it would find
\* in the end: it returns with String.
RunMain ==
  \/ mainPc # "reportStats" /\ OfRunner(Main)
  \/ mainPc = "reportStats" /\ OfHttp(Http!CallReader(MainLoop))
  \/ Up /\ Http!Reader(MainLoop) /\
     IF Back(MainLoop)' THEN ReportStats /\ printed' = result[MainLoop]
                        ELSE UNCHANGED <<vars, printed>>

\* A frame calls RequestCounts and waits for it before it resets the window.
RunUI ==
  \/ OfRunner(Tick \/ TakeExit)
  \/ Up /\ Frame /\ Http!CallReader(DrawingLoop) /\ UNCHANGED printed
  \/ OfHttp(Http!Reader(DrawingLoop))
  \/ Back(DrawingLoop) /\ OfRunner(ResetRolling)

RunOver == mainPc \in {"failed", "returned"} \/ ~Up

PltNext ==
  \/ RunMain
  \/ \E j \in Jobs : RunJob(j)
  \/ RunUI
  \/ OfRunner(Stop \/ (\E key \in Keys : Key(key)) \/ Poller \/ Expire \/ Signal)
  \/ OfHttp(Http!IdleTimeout)
  \/ RunOver /\ UNCHANGED allVars

PltSpec == PltInit /\ [][PltNext]_allVars

\* As in the two components: goroutines are scheduled, the server answers and
\* the mutex goes to everyone who keeps waiting for it.
PltFairness ==
  /\ WF_allVars(RunMain) /\ WF_allVars(RunUI)
  /\ \A j \in Jobs : WF_allVars(RunJob(j)) /\ SF_allVars(OfHttp(Http!Lock(j)))
  /\ WF_allVars(OfRunner(Stop)) /\ WF_allVars(OfRunner(Poller))
  /\ \A o \in {DrawingLoop, MainLoop} : SF_allVars(OfHttp(Http!ReaderLock(o)))

PltFairSpec == PltSpec /\ PltFairness
-----------------------------------------------------------------------------
(* Properties.                                                             *)

\* What String lists by status code and what the runner counted are the same
\* jobs: every launched job that got a response is listed once, under its code,
\* and the successes are the jobs whose response was read to the end.
ReportsAgree ==
  mainPc = "returned" =>
    /\ \A c \in Codes : printed[c] = Cardinality({j \in Launched : code[j] = c})
    /\ reported.succeeded = total
    /\ reported.failed = Cardinality({j \in Launched : stage[j] = "failed"})

\* The producer gives the runner what it relies on, fairness included: jobs
\* return, and so do the calls in a frame and in the report, so that whatever is
\* shown of the runner alone holds of the program, its termination for one.
ImplementsRunner == FairSpec
=============================================================================
