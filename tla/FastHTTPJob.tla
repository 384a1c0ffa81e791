---------------------------- MODULE FastHTTPJob -----------------------------
(***************************************************************************)
(* fasthttp.JobProducer: jobs take their response objects, and with them   *)
(* the buffers of the bodies, from a pool of the fasthttp package and put  *)
(* them back when they return; counters and samples are maps under a mutex *)
(* that is held for one step of memory operations.                         *)
(***************************************************************************)
EXTENDS Integers, FiniteSets

CONSTANTS
  Jobs,          \* numbers of the jobs
  NoJob,         \* stands for the absence of a job
  Concurrency,   \* jobs the caller runs at once
  Codes,         \* status codes of the server
  Forms,         \* forms of the bodies the server sends
  Failures       \* the calls that may return an error

\* A body is kept as it is, or a text stands for it in the sample.
AllForms == {"plain", "encoded", "binary"}

ASSUME FastHTTPJobAssumption ==
  /\ IsFiniteSet(Jobs) /\ NoJob \notin Jobs
  /\ Concurrency \in Nat \ {0} /\ Codes \subseteq Nat
  /\ Forms \subseteq AllForms /\ Forms # {}
  /\ Failures \subseteq {"prepare", "do"}

\* As many buffers as jobs that run at once: the pool makes one when it is empty.
Buffers == 1 .. Concurrency

VARIABLES
  stage,      \* of every job
  buffer,     \* its response object, 0 when it has none
  pool,       \* buffers of released responses
  content,    \* the job whose response was written to a buffer last
  code,       \* status code of the response of a job, NoCode before it
  form,       \* form of the body of the response of a job
  respCode,   \* responses by status code
  sample      \* what respBody holds for a code, see Samples

vars == <<stage, buffer, pool, content, code, form, respCode, sample>>

\* No sample, the text that stands for the body of a job, or a slice of a buffer.
NoSample == [kind |-> "none", job |-> NoJob, buffer |-> 0]
Samples == {NoSample} \cup [kind : {"text"}, job : Jobs, buffer : {0}]
                      \cup [kind : {"slice"}, job : Jobs, buffer : Buffers]

Over == {"done", "failed"}
NoCode == -1
InFlight == {j \in Jobs : stage[j] \notin Over \cup {"idle"}}

Init ==
  /\ stage = [j \in Jobs |-> "idle"]
  /\ buffer = [j \in Jobs |-> 0]
  /\ pool = Buffers
  /\ content = [b \in Buffers |-> NoJob]
  /\ code = [j \in Jobs |-> NoCode]
  /\ form = [j \in Jobs |-> "plain"]
  /\ respCode = [c \in Codes |-> 0]
  /\ sample = [c \in Codes |-> NoSample]

Goto(j, from, to) ==
  /\ stage[j] = from
  /\ stage' = [stage EXCEPT ![j] = to]

\* AcquireRequest and AcquireResponse, the headers and PrepareRequest.
Acquire(j) ==
  /\ Cardinality(InFlight) < Concurrency
  /\ \/ Goto(j, "idle", "do")
     \/ "prepare" \in Failures /\ Goto(j, "idle", "fail")
  /\ \E b \in pool : buffer' = [buffer EXCEPT ![j] = b] /\ pool' = pool \ {b}
  /\ UNCHANGED <<content, code, form, respCode, sample>>

\* Faulty variant of Do: the response is put back as soon as it has arrived.
DoReleased(j) ==
  /\ Goto(j, "do", "count")
  /\ content' = [content EXCEPT ![buffer[j]] = j]
  /\ \E c \in Codes : code' = [code EXCEPT ![j] = c]
  /\ \E f \in Forms : form' = [form EXCEPT ![j] = f]
  /\ pool' = pool \cup {buffer[j]}
  /\ UNCHANGED <<buffer, respCode, sample>>

\* client.Do fills the response of the job.
Do(j) ==
  /\ Goto(j, "do", "count")
  /\ content' = [content EXCEPT ![buffer[j]] = j]
  /\ \E c \in Codes : code' = [code EXCEPT ![j] = c]
  /\ \E f \in Forms : form' = [form EXCEPT ![j] = f]
  /\ UNCHANGED <<buffer, pool, respCode, sample>>

\* It may fail when a part of the response is in the buffer.
DoFails(j) ==
  /\ "do" \in Failures
  /\ Goto(j, "do", "fail")
  /\ content' \in {content, [content EXCEPT ![buffer[j]] = j]}
  /\ UNCHANGED <<buffer, pool, code, form, respCode, sample>>

\* PeekBody returns its argument, or extends it in place, unless it is binary.
Peek(j) ==
  IF form[j] = "plain"
    THEN [kind |-> "slice", job |-> j, buffer |-> buffer[j]]
    ELSE [kind |-> "text", job |-> j, buffer |-> 0]

\* Faulty variant of Count: the test sees the value before the increment.
CountBefore(j) ==
  LET c == code[j] IN
  /\ Goto(j, "count", "release")
  /\ respCode' = [respCode EXCEPT ![c] = @ + 1]
  /\ sample' = (IF respCode[c] = 1 THEN [sample EXCEPT ![c] = Peek(j)] ELSE sample)
  /\ UNCHANGED <<buffer, pool, content, code, form>>

\* The section under the mutex.
Count(j) ==
  LET c == code[j] IN
  /\ Goto(j, "count", "release")
  /\ respCode' = [respCode EXCEPT ![c] = @ + 1]
  /\ sample' = (IF respCode'[c] = 1 THEN [sample EXCEPT ![c] = Peek(j)] ELSE sample)
  /\ UNCHANGED <<buffer, pool, content, code, form>>

\* Faulty variant of Release: a failed job keeps its response.
ReleaseSuccess(j) ==
  /\ \/ Goto(j, "release", "done") /\ pool' = pool \cup {buffer[j]}
     \/ Goto(j, "fail", "failed") /\ UNCHANGED pool
  /\ buffer' = [buffer EXCEPT ![j] = 0]
  /\ UNCHANGED <<content, code, form, respCode, sample>>

\* The deferred ReleaseRequest and ReleaseResponse: the buffer goes back to the
\* pool with its bytes, for the next response to overwrite.
Release(j) ==
  /\ Goto(j, "release", "done") \/ Goto(j, "fail", "failed")
  /\ pool' = pool \cup {buffer[j]}
  /\ buffer' = [buffer EXCEPT ![j] = 0]
  /\ UNCHANGED <<content, code, form, respCode, sample>>

Job(j) == Acquire(j) \/ Do(j) \/ DoFails(j) \/ Count(j) \/ Release(j)

\* All jobs have returned.
Finished ==
  /\ \A j \in Jobs : stage[j] \in Over
  /\ UNCHANGED vars

Next == (\E j \in Jobs : Job(j)) \/ Finished

Spec == Init /\ [][Next]_vars

-----------------------------------------------------------------------------
(* Properties.                                                             *)

TypeOK ==
  /\ stage \in [Jobs -> {"idle", "do", "count", "release", "fail"} \cup Over]
  /\ buffer \in [Jobs -> Buffers \cup {0}]
  /\ pool \subseteq Buffers
  /\ content \in [Buffers -> Jobs \cup {NoJob}]
  /\ code \in [Jobs -> Codes \cup {NoCode}]
  /\ form \in [Jobs -> AllForms]
  /\ respCode \in [Codes -> Nat]
  /\ sample \in [Codes -> Samples]

\* A response object belongs to one job or to the pool, never to two jobs and
\* never to nobody, also when a job fails.
PoolBalanced ==
  /\ \A j \in InFlight : buffer[j] \notin pool \cup {0}
  /\ \A j, k \in InFlight : buffer[j] = buffer[k] => j = k
  /\ Cardinality(pool) + Cardinality(InFlight) = Concurrency

\* At the end every counted code has a sample and every response its count.
ReportComplete ==
  (\A j \in Jobs : stage[j] \in Over) =>
    \A c \in Codes :
      /\ respCode[c] = Cardinality({j \in Jobs : code[j] = c})
      /\ respCode[c] > 0 <=> sample[c] # NoSample

\* The first response of a code stays its sample.
SamplesStay ==
  [][\A c \in Codes : sample[c] # NoSample => sample'[c] = sample[c]]_vars

\* As long as a job has its response, what was kept of it is what the job received,
\* whatever the jobs beside it do.
SampleIntactAtFirst ==
  \A c \in Codes :
    sample[c].kind = "slice" /\ sample[c].job \in InFlight
      => content[sample[c].buffer] = sample[c].job

\* What String prints for a code is the response that was sampled.
SampleIntact ==
  \A c \in Codes :
    sample[c].kind = "slice" => content[sample[c].buffer] = sample[c].job
=============================================================================
