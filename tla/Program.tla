------------------------------ MODULE Program -------------------------------
(***************************************************************************)
(* The commands of plt: a line becomes flags, the flags choose a producer, *)
(* its jobs run, and the report prints sizes and a sample of a body.  The  *)
(* jobs here are those of the fasthttp and S3 producers; Plt has those of  *)
(* net/http.  Once it is translated the line is dropped from the state.    *)
(***************************************************************************)
EXTENDS FastHTTPJob, CurlCommand, Report

CONSTANTS
  Lines,        \* lines of the command curl
  Counts,       \* values of --number and --duration
  Second,       \* --duration is in seconds here
  MaxInt32, MaxDuration,   \* loops and duration of a run without a limit
  ByteCounts, Bodies, SampleLimit,   \* what there is to print
  Size, S3Failures         \* as in S3Job

VARIABLES
  phase,    \* of the program
  line, lf, \* the command line: options of the command, limits of the load
  bytes, body,   \* what the report prints
  f, step, totBytes, tot, saved   \* of S3Job

S3 == INSTANCE S3Job WITH S3Jobs <- Jobs, AtOnce <- Concurrency

ASSUME ProgramAssumption ==
  /\ S3!S3JobAssumption
  /\ Lines \subseteq Seq(Options) /\ Bodies \subseteq Seq(Nat) /\ SampleLimit \in Nat
  /\ ByteCounts \subseteq Nat /\ Counts \subseteq Nat /\ Second \in Nat \ {0}
  /\ MaxInt32 \in Nat /\ MaxDuration \in Nat

inputVars == <<line, lf>>
printVars == <<bytes, body>>
s3Vars == <<f, step, totBytes, tot, saved>>
allVars == <<vars, phase, inputVars, printVars, s3Vars>>

Loads == [Number : Counts, Duration : Counts]
NoLimits == [Number |-> 0, Duration |-> 0]

\* Faulty variant of Prepared: a default for each limit.
PreparedEach(l) ==
  [Number |-> IF l.Number = 0 THEN 1000 ELSE l.Number,
   Duration |-> IF l.Duration = 0 THEN 60 * Second ELSE l.Duration]

\* Flags.Prepare.
Prepared(l) ==
  IF l = NoLimits THEN [Number |-> 1000, Duration |-> 60 * Second] ELSE l

\* What newRunner makes of the flags.
Limits(l) ==
  [n |-> IF l.Number <= 0 THEN MaxInt32 ELSE l.Number,
   dur |-> IF l.Duration = 0 THEN MaxDuration ELSE l.Duration]

ProgramInit ==
  /\ Init /\ S3!S3Init
  /\ \/ phase = "curl" /\ line \in Lines /\ lf = NoLimits
     \/ phase \in {"curl", "s3"} /\ line = <<>> /\ lf \in Loads
  /\ phase = "curl" => f = [Save |-> FALSE, Upload |-> FALSE]
  /\ bytes = 0 /\ body = <<>>

\* The action of a command: the jobs run, or there is an error: for the line, or
\* from the constructor of the producer.
RunCommand(command, jobs) ==
  /\ phase = command
  /\ phase' \in {jobs, "error"}
  /\ line' = <<>> /\ lf' = NoLimits
  /\ UNCHANGED <<vars, printVars, s3Vars>>

RunCurl ==
  IF Refused(line) THEN RunCommand("curl", "error")
  ELSE RunCommand("curl", IF Given(line, "fast") THEN "fasthttp" ELSE "nethttp")

RunS3 == RunCommand("s3", "transfers")

FastJob(j) ==
  /\ phase = "fasthttp"
  /\ Job(j)
  /\ UNCHANGED <<phase, inputVars, printVars, s3Vars>>

Transfer(j) ==
  /\ phase = "transfers"
  /\ S3!RunJob(j)
  /\ UNCHANGED <<phase, inputVars, printVars, vars>>

\* String, with whatever the transport has counted and the server has sent.
PrintSize ==
  /\ phase = "nethttp"
  /\ bytes' \in ByteCounts
  /\ phase' = "printed"
  /\ UNCHANGED <<vars, inputVars, s3Vars, body>>

PrintSample ==
  /\ phase = "nethttp"
  /\ body' \in Bodies
  /\ phase' = "printed"
  /\ UNCHANGED <<vars, inputVars, s3Vars, bytes>>

\* The process exits.
End ==
  /\ \/ phase \in {"error", "printed"}
     \/ phase = "fasthttp" /\ \A j \in Jobs : stage[j] \in Over
     \/ phase = "transfers" /\ \A j \in Jobs : step[j] \in S3!Returned
  /\ UNCHANGED allVars

ProgramNext ==
  \/ RunCurl \/ RunS3
  \/ \E j \in Jobs : FastJob(j) \/ Transfer(j)
  \/ PrintSize \/ PrintSample
  \/ End

ProgramSpec == ProgramInit /\ [][ProgramNext]_allVars
-----------------------------------------------------------------------------
(* Properties; those of the jobs are in FastHTTPJob and S3Job.             *)

ProgramTypeOK == TypeOK /\ S3!S3TypeOK

\* No option of a curl line is lost on the way to the producer that run chooses,
\* but for those that NothingLost names.
OptionsUsed == NothingLost(line)

\* The header that the user gives is sent, whatever other options derive.
HeadersAsGiven == UserHeadersWin(line)

\* A body goes out with a method and a type, the method being the user's if given.
BodyAsGiven == BodyIsSent(line)

\* A limit that the user gives is the limit of the run, and adds no default for the
\* other one.  Nothing is said of a run without both: it gets the defaults, though
\* the help says of each that zero is infinite.
LoadAsGiven ==
  LET limits == Limits(Prepared(lf)) IN
  /\ lf.Number > 0 => limits.n = lf.Number
  /\ lf.Duration > 0 => limits.dur = lf.Duration
  /\ lf.Number > 0 /\ lf.Duration = 0 => limits.dur = MaxDuration
  /\ lf.Number = 0 /\ lf.Duration > 0 => limits.n = MaxInt32

\* The totals of an S3 run agree to the downloads under way, and its average at the
\* end is the size of the entry.
AverageIsSize == S3!AverageIsSize

\* The file of --save is whole if and only if the first job succeeded ...
SavedByFirst == S3!SavedByFirst

\* ... and is not touched again once it is.
SavedStays == S3!SavedStays

\* A printed size is the number of bytes, to half of its last digit.
SizesClose == SizeIsClose(bytes)

\* A printed sample is the head of the body, and all of a short one.
SamplesAreHeads ==
  SampleIsHead(body, SampleLimit) /\ ShortIsPrinted(body, SampleLimit)
=============================================================================
