----------------------------- MODULE NetHTTPJob -----------------------------
(***************************************************************************)
(* nethttp.JobProducer: the jobs that run concurrently against one         *)
(* producer, the counters and samples by status code that they share, and  *)
(* the readers of these (RequestCounts for every frame of the live UI,     *)
(* String for the report), which take the same mutex.                      *)
(***************************************************************************)
EXTENDS Integers, FiniteSets

CONSTANTS
  Jobs,                \* numbers of the jobs
  NoJob,               \* stands for the absence of a job
  Observers,           \* the goroutines that read the results
  AtOnce,              \* jobs the caller runs at once
  Concurrency,         \* loadgen.Flags
  DefaultConcurrency,  \* idle connections without a positive one: 50
  MaxIdleConns,        \* idle connections of a transport in all: 100
  Codes,               \* status codes of the server
  CodeLimit,           \* length of the array of counters: 600
  IgnoreResponseBody, NoKeepalive,
  Envoy,               \* may responses have the header of an Envoy proxy
  Failures             \* the calls that may return an error

Calls == {"prepare", "connect", "trip", "sample", "body", "close"}

ASSUME NetHTTPJobAssumption ==
  /\ IsFiniteSet(Jobs) /\ NoJob \notin Jobs \cup Observers
  /\ Jobs \cap Observers = {}
  /\ Concurrency \in Int /\ {AtOnce, DefaultConcurrency, MaxIdleConns} \subseteq Nat \ {0}
  /\ Codes \subseteq Nat /\ CodeLimit \in Nat
  /\ {IgnoreResponseBody, NoKeepalive, Envoy} \subseteq BOOLEAN
  /\ Failures \subseteq Calls

VARIABLES
  stage,       \* of every job
  code,        \* status code of its response, NoCode before it
  unread,      \* jobs that have left some of the body of their response unread
  mu,          \* holder of the mutex: a job, an observer or NoJob
  respCode,    \* responses by status code
  sample,      \* the job whose body, headers and protocol are kept, by code
  total, upstreamHist, upstreamHistPrecise,
  crashed,     \* a job has panicked
  idle,        \* connections waiting in the transport of the producer
  readPc,      \* of every observer, in RequestCounts or String
  result       \* what it has read so far in this call

jobVars == <<stage, code, unread>>
respVars == <<respCode, sample>>
statVars == <<total, upstreamHist, upstreamHistPrecise>>
readVars == <<readPc, result>>
vars == <<jobVars, mu, respVars, statVars, crashed, idle, readVars>>

\* What a step that only sends or receives leaves alone.
shared == <<mu, respVars, statVars, crashed, readVars>>

Stages == {"idle", "connect", "sent", "header", "precise", "count", "lock",
           "sample", "body", "close", "total", "done", "failed"}
Over == {"done", "failed"}
NoCode == -1
InFlight == {j \in Jobs : stage[j] \notin Over \cup {"idle"}}

\* Connections the transport keeps for its only host.
MaxIdleConnsPerHost == IF Concurrency <= 0 THEN DefaultConcurrency ELSE Concurrency
IdleLimit == IF MaxIdleConns < MaxIdleConnsPerHost THEN MaxIdleConns
                                                   ELSE MaxIdleConnsPerHost

\* Codes with a sample: the keys of respBody, respHeader and respProto.
Sampled == {c \in Codes : sample[c] # NoJob}

Init ==
  /\ stage = [j \in Jobs |-> "idle"]
  /\ code = [j \in Jobs |-> NoCode]
  /\ unread = {}
  /\ mu = NoJob
  /\ respCode = [c \in Codes |-> 0]
  /\ sample = [c \in Codes |-> NoJob]
  /\ total = 0 /\ upstreamHist = 0 /\ upstreamHistPrecise = 0
  /\ crashed = FALSE
  /\ idle = 0
  /\ readPc = [o \in Observers |-> "out"]
  /\ result = [o \in Observers |-> [c \in Codes |-> 0]]

-----------------------------------------------------------------------------
(* Job                                                                     *)

Goto(j, from, to) ==
  /\ stage[j] = from
  /\ stage' = [stage EXCEPT ![j] = to]

\* A call may return an error, and the job with it.
May(call) == call \in Failures

\* NewRequest, the headers and PrepareRequest.
Prepare(j) ==
  /\ Cardinality(InFlight) < AtOnce
  /\ \/ Goto(j, "idle", "connect")
     \/ May("prepare") /\ Goto(j, "idle", "failed")
  /\ UNCHANGED <<shared, code, unread, idle>>

\* Faulty variant of WithoutOne: a connection is taken from an empty pool.
WithoutAny == idle - 1

\* Connections that wait once one has been taken, if there was one.
WithoutOne == IF NoKeepalive \/ idle = 0 THEN idle ELSE idle - 1

\* The transport of the producer reuses a connection that waits; a transport
\* made for the job has none.
Connect(j) ==
  /\ \/ Goto(j, "connect", "sent")
     \/ May("connect") /\ (NoKeepalive \/ idle = 0) /\ Goto(j, "connect", "failed")
  /\ idle' = WithoutOne
  /\ UNCHANGED <<shared, code, unread>>

TripFails(j) ==
  /\ May("trip")
  /\ Goto(j, "sent", "failed")
  /\ UNCHANGED <<shared, code, unread, idle>>

\* RoundTrip returns after GotFirstResponseByte.
Respond(j) ==
  /\ Goto(j, "sent", "header")
  /\ \E c \in Codes : code' = [code EXCEPT ![j] = c]
  /\ unread' = unread \cup {j}
  /\ UNCHANGED <<mu, respVars, total, upstreamHist, upstreamHistPrecise,
                 crashed, idle, readVars>>

\* The header of the proxy holds a number, or is absent or malformed.
Upstream(j) ==
  /\ \/ Envoy /\ Goto(j, "header", "precise") /\ upstreamHist' = upstreamHist + 1
     \/ Goto(j, "header", "count") /\ UNCHANGED upstreamHist
  /\ UNCHANGED <<code, unread, mu, respVars, total,
                 upstreamHistPrecise, crashed, idle, readVars>>

UpstreamPrecise(j) ==
  /\ Goto(j, "precise", "count")
  /\ upstreamHistPrecise' = upstreamHistPrecise + 1
  /\ UNCHANGED <<code, unread, mu, respVars, total, upstreamHist,
                 crashed, idle, readVars>>

\* Faulty variant of IsFirst: the test sees the value before the increment.
IsSecond(cnt) == cnt = 2

\* Faulty variant of IsFirst: every response is sampled.
IsAny(cnt) == TRUE

IsFirst(cnt) == cnt = 1

\* The first response of a code is sampled.  A code out of the range of the
\* array panics.
Count(j) ==
  /\ stage[j] = "count"
  /\ IF code[j] >= CodeLimit
       THEN Goto(j, "count", "failed") /\ crashed' = TRUE /\ UNCHANGED respCode
       ELSE /\ respCode' = [respCode EXCEPT ![code[j]] = @ + 1]
            /\ Goto(j, "count", IF IsFirst(respCode'[code[j]]) THEN "lock" ELSE "body")
            /\ UNCHANGED crashed
  /\ UNCHANGED <<code, unread, mu, sample, statVars, idle, readVars>>

\* Faulty variant of LockBy: the mutex is not waited for.
LockAtOnce(g) == mu' = g

LockBy(g) == mu = NoJob /\ mu' = g

\* Faulty variant of Unlock: the mutex is not released.
KeepLock == UNCHANGED mu

Unlock == mu' = NoJob

Lock(j) ==
  /\ Goto(j, "lock", "sample")
  /\ LockBy(j)
  /\ UNCHANGED <<code, unread, respVars, statVars, crashed, idle, readVars>>

\* The sample is read from the network with the mutex held; a short body ends
\* within it.
Sample(j) ==
  /\ Goto(j, "sample", "body")
  /\ sample' = [sample EXCEPT ![code[j]] = j]
  /\ unread' \in {unread, unread \ {j}}
  /\ Unlock
  /\ UNCHANGED <<code, respCode, statVars, crashed, idle, readVars>>

\* The return on a read error leaves the mutex locked.
SampleFails(j) ==
  /\ May("sample")
  /\ Goto(j, "sample", "failed")
  /\ UNCHANGED <<shared, code, unread, idle>>

ReadBody(j) ==
  /\ IF IgnoreResponseBody
       THEN Goto(j, "body", "close") /\ UNCHANGED unread
       ELSE \/ Goto(j, "body", "close") /\ unread' = unread \ {j}
            \/ May("body") /\ Goto(j, "body", "failed") /\ UNCHANGED unread
  /\ UNCHANGED <<shared, code, idle>>

\* A connection can be reused once the response has been read to its end, but
\* nobody looks into the transport of another job.
CloseBody(j) ==
  /\ \/ Goto(j, "close", "total")
     \/ May("close") /\ Goto(j, "close", "failed")
  /\ idle' = (IF j \in unread \/ NoKeepalive \/ idle >= IdleLimit
                THEN idle ELSE idle + 1)
  /\ UNCHANGED <<shared, code, unread>>

\* readTime and total.
AddTotal(j) ==
  /\ Goto(j, "total", "done")
  /\ total' = total + 1
  /\ UNCHANGED <<code, unread, mu, respVars, upstreamHist,
                 upstreamHistPrecise, crashed, idle, readVars>>

Job(j) ==
  /\ ~crashed
  /\ \/ Prepare(j) \/ Connect(j) \/ TripFails(j) \/ Respond(j)
     \/ Upstream(j) \/ UpstreamPrecise(j) \/ Count(j)
     \/ Lock(j) \/ Sample(j) \/ SampleFails(j)
     \/ ReadBody(j) \/ CloseBody(j) \/ AddTotal(j)

\* The transport closes connections that have waited for long.
IdleTimeout ==
  /\ ~crashed
  /\ idle > 0
  /\ idle' = idle - 1
  /\ UNCHANGED <<shared, jobVars>>

-----------------------------------------------------------------------------
(* RequestCounts and String: lock, read the count of every code that has a *)
(* sample, unlock.                                                         *)

CallReader(o) ==
  /\ ~crashed
  /\ readPc[o] = "out"
  /\ readPc' = [readPc EXCEPT ![o] = "lock"]
  /\ UNCHANGED <<jobVars, mu, respVars, statVars, crashed, idle, result>>

ReaderLock(o) ==
  /\ readPc[o] = "lock"
  /\ LockBy(o)
  /\ readPc' = [readPc EXCEPT ![o] = "read"]
  /\ UNCHANGED <<jobVars, respVars, statVars, crashed, idle, result>>

ReadCode(o) ==
  /\ readPc[o] = "read"
  /\ \E c \in Sampled :
       result[o][c] = 0 /\ result' = [result EXCEPT ![o][c] = respCode[c]]
  /\ UNCHANGED <<jobVars, mu, respVars, statVars, crashed, idle, readPc>>

\* From here on the result is the caller's.
ReaderUnlock(o) ==
  /\ readPc[o] = "read"
  /\ \A c \in Sampled : result[o][c] # 0
  /\ Unlock
  /\ readPc' = [readPc EXCEPT ![o] = "out"]
  /\ result' = [result EXCEPT ![o] = [c \in Codes |-> 0]]
  /\ UNCHANGED <<jobVars, respVars, statVars, crashed, idle>>

Reader(o) == ~crashed /\ (ReaderLock(o) \/ ReadCode(o) \/ ReaderUnlock(o))

\* All jobs have returned, or the process is gone.
Finished ==
  /\ crashed \/ \A j \in Jobs : stage[j] \in Over
  /\ UNCHANGED vars

Next ==
  \/ \E j \in Jobs : Job(j)
  \/ IdleTimeout
  \/ \E o \in Observers : CallReader(o) \/ Reader(o)
  \/ Finished

Spec == Init /\ [][Next]_vars

\* The server answers, and a mutex is granted to everyone who keeps waiting for
\* it: sync.Mutex hands over to a waiter of more than a millisecond.
Fairness ==
  /\ \A j \in Jobs : WF_vars(Job(j)) /\ SF_vars(~crashed /\ Lock(j))
  /\ \A o \in Observers : WF_vars(Reader(o)) /\ SF_vars(~crashed /\ ReaderLock(o))

FairSpec == Spec /\ Fairness

-----------------------------------------------------------------------------
(* Properties.                                                             *)

TypeOK ==
  /\ stage \in [Jobs -> Stages]
  /\ code \in [Jobs -> Codes \cup {NoCode}]
  /\ unread \subseteq Jobs
  /\ mu \in Jobs \cup Observers \cup {NoJob}
  /\ respCode \in [Codes -> Nat]
  /\ sample \in [Codes -> Jobs \cup {NoJob}]
  /\ total \in Nat
  /\ upstreamHist \in Nat /\ upstreamHistPrecise \in Nat
  /\ crashed \in BOOLEAN
  /\ idle \in 0 .. IdleLimit
  /\ readPc \in [Observers -> {"out", "lock", "read"}]
  /\ result \in [Observers -> [Codes -> Nat]]

AllOver == \A j \in Jobs : stage[j] \in Over

\* Only the first response of a code is sampled, and no reader looks at the maps
\* while a sample is being stored.
OneInside ==
  /\ \A j, k \in Jobs :
       {stage[j], stage[k]} \subseteq {"lock", "sample"} /\ code[j] = code[k] => j = k
  /\ \A o \in Observers :
       readPc[o] = "read" => \A j \in Jobs : stage[j] # "sample"

\* Whoever has the mutex is about to release it, except a job that could not read
\* its sample: only the return on that error loses the mutex.
LockHolder ==
  /\ mu \in Jobs =>
       \/ stage[mu] = "sample"
       \/ stage[mu] = "failed" /\ May("sample")
  /\ mu \in Observers => readPc[mu] = "read"

\* The sample of a code is that of its first response: once stored it stays.
SamplesStay ==
  [][\A c \in Codes : sample[c] # NoJob => sample'[c] = sample[c]]_vars

\* When all jobs are over and String can take the mutex, the report lists exactly
\* the codes that were seen.  Every response is under its code, the two
\* collectors of a proxy agree, and the average is over the jobs that succeeded.
ReportComplete ==
  AllOver /\ ~crashed =>
    /\ mu = NoJob => Sampled = {c \in Codes : respCode[c] > 0}
    /\ \A c \in Codes : respCode[c] = Cardinality({j \in Jobs : code[j] = c})
    /\ upstreamHist = upstreamHistPrecise
    /\ total = Cardinality({j \in Jobs : stage[j] = "done"})

\* RequestCounts and String return.
CountsReturn ==
  \A o \in Observers : readPc[o] = "lock" ~> readPc[o] = "out" \/ crashed
=============================================================================
