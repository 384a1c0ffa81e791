--------------------------- MODULE NetHTTPProofs ----------------------------
(***************************************************************************)
(* Theorems about NetHTTPJob, for every number of jobs, observers, codes   *)
(* and connections: the count that decides who samples and the mutex that  *)
(* guards the samples, together, give one sample to each code.             *)
(***************************************************************************)
EXTENDS NetHTTPJob, FiniteSetTheorems, TLAPS

Samplers == {j \in Jobs : stage[j] \in {"lock", "sample"}}

\* The code of a response is known until it has been counted and sampled.
CodeKnown ==
  \A j \in Jobs :
    stage[j] \in {"header", "precise", "count", "lock", "sample"} => code[j] \in Codes

\* The mutex is held by who is inside.
Held ==
  /\ \A j \in Jobs : stage[j] = "sample" => mu = j
  /\ \A o \in Observers : readPc[o] = "read" => mu = o

\* A code is sampled by one job, which counted it first, and not twice.
SampledOnce ==
  /\ \A j \in Samplers : respCode[code[j]] > 0 /\ sample[code[j]] = NoJob
  /\ \A j, k \in Samplers : code[j] = code[k] => j = k
  /\ \A c \in Codes : sample[c] # NoJob => respCode[c] > 0

IInv == TypeOK /\ CodeKnown /\ Held /\ SampledOnce

LEMMA InitIInv == Init => IInv
<1> SUFFICES ASSUME Init PROVE IInv
  OBVIOUS
<1>1. IdleLimit \in Nat
  BY NetHTTPJobAssumption DEF IdleLimit, MaxIdleConnsPerHost
<1>2. crashed \in BOOLEAN /\ result \in [Observers -> [Codes -> Nat]]
  <2>1. crashed \in BOOLEAN
    BY Zenon DEF Init
  <2>2. [c \in Codes |-> 0] \in [Codes -> Nat]
    OBVIOUS
  <2>3. result \in [Observers -> [Codes -> Nat]]
    BY <2>2 DEF Init
  <2> QED BY <2>1, <2>3
<1>3. TypeOK
  BY <1>1, <1>2 DEF Init, TypeOK, Stages, Over
<1>4. CodeKnown /\ Held /\ SampledOnce
  BY DEF Init, CodeKnown, Held, SampledOnce, Samplers
<1> QED BY <1>3, <1>4 DEF IInv

\* Every step keeps the types.
LEMMA TypeStep == TypeOK /\ CodeKnown /\ [Next]_vars => TypeOK'
<1> SUFFICES ASSUME TypeOK, CodeKnown, [Next]_vars PROVE TypeOK'
  OBVIOUS
<1> USE DEF TypeOK, Stages, Over, Goto, shared, vars, jobVars, respVars, statVars, readVars
<1>0. IdleLimit \in Nat
  BY NetHTTPJobAssumption DEF IdleLimit, MaxIdleConnsPerHost
<1>1. ASSUME NEW j \in Jobs, Prepare(j) PROVE TypeOK'
  BY <1>1 DEF Prepare
<1>2. ASSUME NEW j \in Jobs, Connect(j) PROVE TypeOK'
  BY <1>0, <1>2 DEF Connect, WithoutOne
<1>3. ASSUME NEW j \in Jobs, TripFails(j) PROVE TypeOK'
  BY <1>3 DEF TripFails
<1>4. ASSUME NEW j \in Jobs, Respond(j) PROVE TypeOK'
  BY <1>4 DEF Respond
<1>5. ASSUME NEW j \in Jobs, Upstream(j) PROVE TypeOK'
  BY <1>5 DEF Upstream
<1>6. ASSUME NEW j \in Jobs, UpstreamPrecise(j) PROVE TypeOK'
  BY <1>6 DEF UpstreamPrecise
<1>7. ASSUME NEW j \in Jobs, Count(j) PROVE TypeOK'
  <2>1. CASE code[j] >= CodeLimit
    BY <1>7, <2>1 DEF Count
  <2>2. CASE ~(code[j] >= CodeLimit)
    <3>1. respCode' \in [Codes -> Nat]
      <4>1. respCode' = [respCode EXCEPT ![code[j]] = @ + 1]
        BY <1>7, <2>2 DEF Count
      <4>2. code[j] \in Codes
        BY <1>7 DEF Count, CodeKnown
      <4>3. respCode \in [Codes -> Nat] /\ respCode[code[j]] + 1 \in Nat
        BY <4>2
      <4> QED BY <4>1, <4>2, <4>3
    <3>2. stage' \in [Jobs -> Stages]
      <4>1. PICK s \in {"lock", "body"} : stage' = [stage EXCEPT ![j] = s]
        BY <1>7, <2>2 DEF Count
      <4> QED BY <4>1
    <3>3. UNCHANGED <<crashed, code, unread, mu, sample, statVars, idle, readVars>>
      BY <1>7, <2>2 DEF Count
    <3> QED BY <3>1, <3>2, <3>3
  <2> QED BY <2>1, <2>2
<1>8. ASSUME NEW j \in Jobs, Lock(j) PROVE TypeOK'
  BY <1>8 DEF Lock, LockBy
<1>9. ASSUME NEW j \in Jobs, Sample(j) PROVE TypeOK'
  BY <1>9 DEF Sample, Unlock
<1>10. ASSUME NEW j \in Jobs, SampleFails(j) PROVE TypeOK'
  BY <1>10 DEF SampleFails
<1>11. ASSUME NEW j \in Jobs, ReadBody(j) PROVE TypeOK'
  BY <1>11 DEF ReadBody
<1>12. ASSUME NEW j \in Jobs, CloseBody(j) PROVE TypeOK'
  BY <1>0, <1>12 DEF CloseBody
<1>13. ASSUME NEW j \in Jobs, AddTotal(j) PROVE TypeOK'
  BY <1>13 DEF AddTotal
<1>14. CASE IdleTimeout
  BY <1>0, <1>14 DEF IdleTimeout
<1>15. ASSUME NEW o \in Observers, CallReader(o) PROVE TypeOK'
  BY <1>15 DEF CallReader
<1>16. ASSUME NEW o \in Observers, ReaderLock(o) PROVE TypeOK'
  BY <1>16 DEF ReaderLock, LockBy
<1>17. ASSUME NEW o \in Observers, ReadCode(o) PROVE TypeOK'
  BY <1>17 DEF ReadCode, Sampled
<1>18. ASSUME NEW o \in Observers, ReaderUnlock(o) PROVE TypeOK'
  BY <1>18 DEF ReaderUnlock, Unlock
<1>19. CASE UNCHANGED vars
  BY <1>19
<1> QED
  BY <1>1, <1>2, <1>3, <1>4, <1>5, <1>6, <1>7, <1>8, <1>9, <1>10, <1>11, <1>12,
     <1>13, <1>14, <1>15, <1>16, <1>17, <1>18, <1>19
  DEF Next, Job, Reader, Finished

\* Only Respond gives a job a code, and no step takes it away.
LEMMA CodeStep == TypeOK /\ CodeKnown /\ [Next]_vars => CodeKnown'
<1> SUFFICES ASSUME TypeOK, CodeKnown, [Next]_vars PROVE CodeKnown'
  OBVIOUS
<1> USE DEF TypeOK, CodeKnown, Goto, shared, vars, jobVars
<1>1. ASSUME NEW j \in Jobs, Prepare(j) \/ Connect(j) \/ TripFails(j) PROVE CodeKnown'
  BY <1>1 DEF Prepare, Connect, TripFails
<1>2. ASSUME NEW j \in Jobs, Respond(j) PROVE CodeKnown'
  BY <1>2 DEF Respond
<1>3. ASSUME NEW j \in Jobs, Upstream(j) \/ UpstreamPrecise(j) PROVE CodeKnown'
  BY <1>3 DEF Upstream, UpstreamPrecise
<1>4. ASSUME NEW j \in Jobs, Count(j) PROVE CodeKnown'
  <2>1. stage[j] = "count" /\ UNCHANGED code
    BY <1>4 DEF Count
  <2>2. stage' = [stage EXCEPT ![j] = stage'[j]]
    BY <1>4 DEF Count
  <2> QED BY <2>1, <2>2
<1>5. ASSUME NEW j \in Jobs, Lock(j) \/ Sample(j) \/ SampleFails(j) PROVE CodeKnown'
  BY <1>5 DEF Lock, Sample, SampleFails
<1>6. ASSUME NEW j \in Jobs, ReadBody(j) \/ CloseBody(j) \/ AddTotal(j) PROVE CodeKnown'
  BY <1>6 DEF ReadBody, CloseBody, AddTotal
<1>7. CASE UNCHANGED <<stage, code>>
  BY <1>7
<1>8. UNCHANGED <<stage, code>> \/ \E j \in Jobs : Job(j)
  BY DEF Next, IdleTimeout, CallReader, Reader, ReaderLock, ReadCode, ReaderUnlock,
         Finished
<1> QED
  BY <1>1, <1>2, <1>3, <1>4, <1>5, <1>6, <1>7, <1>8 DEF Job

\* The mutex is taken when nobody has it, and released by who has it.
LEMMA HeldStep == TypeOK /\ Held /\ [Next]_vars => Held'
<1> SUFFICES ASSUME TypeOK, Held, [Next]_vars PROVE Held'
  OBVIOUS
<1> USE NetHTTPJobAssumption
        DEF NetHTTPJobAssumption, TypeOK, Held, Goto, shared, vars, jobVars, readVars
<1>1. ASSUME NEW j \in Jobs, Lock(j) PROVE Held'
  BY <1>1 DEF Lock, LockBy
<1>2. ASSUME NEW j \in Jobs, Sample(j) PROVE Held'
  BY <1>2 DEF Sample, Unlock
<1>3. ASSUME NEW o \in Observers, ReaderLock(o) PROVE Held'
  BY <1>3 DEF ReaderLock, LockBy
<1>4. ASSUME NEW o \in Observers, ReaderUnlock(o) PROVE Held'
  BY <1>4 DEF ReaderUnlock, Unlock
<1>5. ASSUME NEW o \in Observers, CallReader(o) \/ ReadCode(o) PROVE Held'
  BY <1>5 DEF CallReader, ReadCode
<1>6. ASSUME NEW j \in Jobs, Job(j), ~Lock(j), ~Sample(j) PROVE Held'
  <2>1. /\ UNCHANGED <<mu, readVars>>
        /\ \A k \in Jobs : stage'[k] = "sample" => stage[k] = "sample"
    <3>1. CASE Prepare(j) \/ Connect(j) \/ TripFails(j) \/ Respond(j)
      BY <3>1 DEF Prepare, Connect, TripFails, Respond
    <3>2. CASE Upstream(j) \/ UpstreamPrecise(j)
      BY <3>2 DEF Upstream, UpstreamPrecise
    <3>3. CASE Count(j)
      BY <3>3 DEF Count
    <3>4. CASE SampleFails(j) \/ ReadBody(j) \/ CloseBody(j) \/ AddTotal(j)
      BY <3>4 DEF SampleFails, ReadBody, CloseBody, AddTotal
    <3> QED BY <1>6, <3>1, <3>2, <3>3, <3>4 DEF Job
  <2> QED BY <2>1
<1>7. CASE IdleTimeout \/ UNCHANGED vars
  BY <1>7 DEF IdleTimeout
<1> QED
  BY <1>1, <1>2, <1>3, <1>4, <1>5, <1>6, <1>7 DEF Next, Reader, Finished

\* A job becomes a sampler when it is the first to count its code; then nobody has
\* sampled the code yet, and nobody else will.
LEMMA SampledStep ==
  TypeOK /\ CodeKnown /\ SampledOnce /\ [Next]_vars => SampledOnce'
<1> SUFFICES ASSUME TypeOK, CodeKnown, SampledOnce, [Next]_vars PROVE SampledOnce'
  OBVIOUS
<1> USE DEF TypeOK, CodeKnown, SampledOnce, Samplers, Goto, shared, vars, jobVars,
            respVars
<1>1. ASSUME NEW j \in Jobs, Count(j) PROVE SampledOnce'
  <2>1. stage[j] = "count" /\ code[j] \in Codes /\ UNCHANGED <<code, sample>>
    BY <1>1 DEF Count
  <2>2. CASE code[j] >= CodeLimit
    BY <1>1, <2>1, <2>2 DEF Count
  <2>3. CASE ~(code[j] >= CodeLimit)
    <3>1. /\ respCode' = [respCode EXCEPT ![code[j]] = @ + 1]
          /\ stage' = [stage EXCEPT ![j] =
                         IF respCode'[code[j]] = 1 THEN "lock" ELSE "body"]
      BY <1>1, <2>3 DEF Count, IsFirst
    <3>2. respCode'[code[j]] = respCode[code[j]] + 1
      BY <2>1, <3>1
    <3>3. CASE respCode[code[j]] = 0
      BY <2>1, <3>1, <3>2, <3>3
    <3>4. CASE respCode[code[j]] # 0
      BY <2>1, <3>1, <3>2, <3>4
    <3> QED BY <3>3, <3>4
  <2> QED BY <2>2, <2>3
<1>2. ASSUME NEW j \in Jobs, Lock(j) PROVE SampledOnce'
  BY <1>2 DEF Lock
<1>3. ASSUME NEW j \in Jobs, Sample(j) PROVE SampledOnce'
  BY <1>3 DEF Sample
<1>4. ASSUME NEW j \in Jobs, Job(j), ~Count(j), ~Lock(j), ~Sample(j)
      PROVE  SampledOnce'
  <2>1. /\ UNCHANGED respVars
        /\ \A k \in Jobs : stage'[k] \in {"lock", "sample"}
             => stage[k] \in {"lock", "sample"} /\ code'[k] = code[k]
    <3>1. CASE Prepare(j) \/ Connect(j) \/ TripFails(j) \/ Respond(j)
      BY <3>1 DEF Prepare, Connect, TripFails, Respond
    <3>2. CASE Upstream(j) \/ UpstreamPrecise(j)
      BY <3>2 DEF Upstream, UpstreamPrecise
    <3>3. CASE SampleFails(j) \/ ReadBody(j) \/ CloseBody(j) \/ AddTotal(j)
      BY <3>3 DEF SampleFails, ReadBody, CloseBody, AddTotal
    <3> QED BY <1>4, <3>1, <3>2, <3>3 DEF Job
  <2> QED BY <2>1
<1>5. CASE UNCHANGED <<stage, code, respVars>>
  BY <1>5
<1>6. UNCHANGED <<stage, code, respVars>> \/ \E j \in Jobs : Job(j)
  BY DEF Next, IdleTimeout, CallReader, Reader, ReaderLock, ReadCode, ReaderUnlock,
         Finished
<1> QED BY <1>1, <1>2, <1>3, <1>4, <1>5, <1>6

\* The invariant that the theorems below rest on.
LEMMA Invariant == Spec => []IInv
<1>1. IInv /\ [Next]_vars => IInv'
  BY TypeStep, CodeStep, HeldStep, SampledStep DEF IInv
<1> QED BY InitIInv, <1>1, PTL DEF Spec

\* The variables keep their types: above all the pool of idle connections keeps to
\* its limits, and the holder of the mutex is someone who takes it.
THEOREM HTTP_TypeCorrect == Spec => []TypeOK
<1>1. IInv => TypeOK
  BY DEF IInv
<1> QED BY <1>1, Invariant, PTL

\* No two jobs sample the same code, and nobody reads the samples meanwhile.
THEOREM One_Inside == Spec => []OneInside
<1>1. IInv => OneInside
  <2> SUFFICES ASSUME IInv PROVE OneInside
    OBVIOUS
  <2>1. ASSUME NEW j \in Jobs, NEW k \in Jobs,
               {stage[j], stage[k]} \subseteq {"lock", "sample"}, code[j] = code[k]
        PROVE  j = k
    BY <2>1 DEF IInv, SampledOnce, Samplers
  <2>2. ASSUME NEW o \in Observers, readPc[o] = "read", NEW j \in Jobs
        PROVE  stage[j] # "sample"
    BY <2>2, NetHTTPJobAssumption DEF IInv, Held
  <2> QED BY <2>1, <2>2 DEF OneInside
<1> QED BY <1>1, Invariant, PTL

\* LockHolder is preserved.
LEMMA LockHolderStep == TypeOK /\ Held /\ LockHolder /\ [Next]_vars => LockHolder'
<1> SUFFICES ASSUME TypeOK, Held, LockHolder, [Next]_vars PROVE LockHolder'
  OBVIOUS
<1> USE NetHTTPJobAssumption
        DEF NetHTTPJobAssumption, TypeOK, Held, LockHolder, May, Goto, shared, vars,
            jobVars, readVars
<1>1. ASSUME NEW j \in Jobs, Lock(j) PROVE LockHolder'
  BY <1>1 DEF Lock, LockBy, Stages
<1>2. ASSUME NEW j \in Jobs, Sample(j) PROVE LockHolder'
  BY <1>2 DEF Sample, Unlock
<1>3. ASSUME NEW j \in Jobs, SampleFails(j) PROVE LockHolder'
  BY <1>3 DEF SampleFails, Stages
<1>4. ASSUME NEW o \in Observers, ReaderLock(o) PROVE LockHolder'
  BY <1>4 DEF ReaderLock, LockBy
<1>5. ASSUME NEW o \in Observers, ReaderUnlock(o) PROVE LockHolder'
  BY <1>5 DEF ReaderUnlock, Unlock
<1>6. ASSUME NEW o \in Observers, CallReader(o) \/ ReadCode(o) PROVE LockHolder'
  BY <1>6 DEF CallReader, ReadCode
<1>7. ASSUME NEW j \in Jobs, Job(j), ~Lock(j), ~Sample(j), ~SampleFails(j)
      PROVE  LockHolder'
  <2>1. /\ UNCHANGED <<mu, readVars>>
        /\ \A k \in Jobs : stage[k] \in {"sample", "failed"} => stage'[k] = stage[k]
    <3>1. CASE Prepare(j) \/ Connect(j) \/ TripFails(j) \/ Respond(j)
      BY <3>1 DEF Prepare, Connect, TripFails, Respond
    <3>2. CASE Upstream(j) \/ UpstreamPrecise(j)
      BY <3>2 DEF Upstream, UpstreamPrecise
    <3>3. CASE Count(j)
      BY <3>3 DEF Count
    <3>4. CASE ReadBody(j) \/ CloseBody(j) \/ AddTotal(j)
      BY <3>4 DEF ReadBody, CloseBody, AddTotal
    <3> QED BY <1>7, <3>1, <3>2, <3>3, <3>4 DEF Job
  <2> QED BY <2>1
<1>8. CASE IdleTimeout \/ UNCHANGED vars
  BY <1>8 DEF IdleTimeout
<1> QED
  BY <1>1, <1>2, <1>3, <1>4, <1>5, <1>6, <1>7, <1>8 DEF Next, Reader, Finished

\* The mutex is held by a goroutine that is about to release it, or was lost to the
\* read error of a sample.  If samples can always be read, nobody waits for it in
\* vain.
THEOREM Lock_Holder == Spec => []LockHolder
<1>1. Init => LockHolder
  BY NetHTTPJobAssumption DEF Init, LockHolder, NetHTTPJobAssumption
<1>2. IInv => TypeOK /\ Held
  BY DEF IInv
<1> QED BY <1>1, <1>2, LockHolderStep, Invariant, PTL DEF Spec

\* A stored sample is never replaced.
THEOREM Samples_Stay == Spec => SamplesStay
<1>1. IInv /\ [Next]_vars
        => [\A c \in Codes : sample[c] # NoJob => sample'[c] = sample[c]]_vars
  <2> SUFFICES ASSUME IInv, Next, NEW c \in Codes, sample[c] # NoJob
               PROVE  sample'[c] = sample[c]
    OBVIOUS
  <2>1. UNCHANGED sample \/ \E j \in Jobs : Sample(j)
    BY DEF Next, Job, Prepare, Connect, TripFails, Respond, Upstream, UpstreamPrecise,
           Count, Lock, SampleFails, ReadBody, CloseBody, AddTotal, IdleTimeout,
           CallReader, Reader, ReaderLock, ReadCode, ReaderUnlock, Finished, shared,
           vars, respVars
  <2>2. ASSUME NEW j \in Jobs, Sample(j) PROVE code[j] # c
    BY <2>2 DEF Sample, Goto, IInv, SampledOnce, Samplers
  <2> QED BY <2>1, <2>2 DEF Sample, IInv, TypeOK
<1> QED BY <1>1, Invariant, PTL DEF Spec, SamplesStay

-----------------------------------------------------------------------------
(* What the report counts.                                                 *)

\* Responses that have been counted under code c.
Counted(c) ==
  {j \in Jobs : code[j] = c /\ stage[j] \notin {"header", "precise", "count"}}
BetweenCollectors == {j \in Jobs : stage[j] = "precise"}
Succeeded == {j \in Jobs : stage[j] = "done"}

\* A job without a response has no code.
NoCodeYet == \A j \in Jobs : stage[j] \in {"idle", "connect", "sent"} => code[j] = NoCode

\* Until a panic every counter holds the number of jobs that are past it.
Accounted ==
  ~crashed =>
    /\ \A c \in Codes : respCode[c] = Cardinality(Counted(c))
    /\ upstreamHist = upstreamHistPrecise + Cardinality(BetweenCollectors)
    /\ total = Cardinality(Succeeded)

\* A code that was counted has a sample, or a job that will store one, or a job
\* that failed to and left the mutex locked.
SampleOwed ==
  ~crashed =>
    \A c \in Codes :
      respCode[c] > 0 /\ sample[c] = NoJob =>
        \E j \in Jobs :
          /\ code[j] = c
          /\ stage[j] \in {"lock", "sample"} \/ (stage[j] = "failed" /\ mu = j)

\* Any set of jobs is finite, and one more job makes one more.
LEMMA JobSets ==
  ASSUME NEW S \in SUBSET Jobs
  PROVE  /\ IsFiniteSet(S) /\ Cardinality(S) \in Nat
         /\ \A j \in Jobs \ S : Cardinality(S \cup {j}) = Cardinality(S) + 1
         /\ \A j \in S : Cardinality(S \ {j}) = Cardinality(S) - 1
<1>1. IsFiniteSet(S)
  BY NetHTTPJobAssumption, FS_Subset DEF NetHTTPJobAssumption
<1> QED
  BY <1>1, FS_CardinalityType, FS_AddElement, FS_RemoveElement

\* NoCodeYet is preserved.
LEMMA NoCodeStep == TypeOK /\ NoCodeYet /\ [Next]_vars => NoCodeYet'
<1> SUFFICES ASSUME TypeOK, NoCodeYet, [Next]_vars PROVE NoCodeYet'
  OBVIOUS
<1> USE DEF TypeOK, NoCodeYet, Goto, shared, vars, jobVars
<1>1. ASSUME NEW j \in Jobs, Prepare(j) \/ Connect(j) \/ TripFails(j) PROVE NoCodeYet'
  BY <1>1 DEF Prepare, Connect, TripFails
<1>2. ASSUME NEW j \in Jobs, Respond(j) PROVE NoCodeYet'
  BY <1>2 DEF Respond
<1>3. ASSUME NEW j \in Jobs, Upstream(j) \/ UpstreamPrecise(j) PROVE NoCodeYet'
  BY <1>3 DEF Upstream, UpstreamPrecise
<1>4. ASSUME NEW j \in Jobs, Count(j) PROVE NoCodeYet'
  BY <1>4 DEF Count
<1>5. ASSUME NEW j \in Jobs, Lock(j) \/ Sample(j) \/ SampleFails(j) PROVE NoCodeYet'
  BY <1>5 DEF Lock, Sample, SampleFails
<1>6. ASSUME NEW j \in Jobs, ReadBody(j) \/ CloseBody(j) \/ AddTotal(j) PROVE NoCodeYet'
  BY <1>6 DEF ReadBody, CloseBody, AddTotal
<1>7. UNCHANGED <<stage, code>> \/ \E j \in Jobs : Job(j)
  BY DEF Next, IdleTimeout, CallReader, Reader, ReaderLock, ReadCode, ReaderUnlock,
         Finished
<1> QED
  BY <1>1, <1>2, <1>3, <1>4, <1>5, <1>6, <1>7 DEF Job

\* Steps that move no job into or out of the sets of Accounted.
LEMMA AccountedFrame ==
  ASSUME Accounted, UNCHANGED <<respCode, upstreamHist, upstreamHistPrecise, total, crashed>>,
         \A c \in Codes : Counted(c)' = Counted(c),
         BetweenCollectors' = BetweenCollectors, Succeeded' = Succeeded
  PROVE  Accounted'
BY DEF Accounted

\* Every step that counts moves one job past the counter.
LEMMA AccountedStep ==
  IInv /\ NoCodeYet /\ Accounted /\ [Next]_vars => Accounted'
<1> SUFFICES ASSUME IInv, NoCodeYet, Accounted, [Next]_vars PROVE Accounted'
  OBVIOUS
<1>0. /\ stage \in [Jobs -> Stages] /\ code \in [Jobs -> Codes \cup {NoCode}]
      /\ respCode \in [Codes -> Nat]
      /\ {total, upstreamHist, upstreamHistPrecise} \subseteq Nat
      /\ NoCode \notin Codes
  BY NetHTTPJobAssumption DEF IInv, TypeOK, NetHTTPJobAssumption, NoCode
<1> USE <1>0 DEF Goto, Counted, BetweenCollectors, Succeeded, shared, respVars, statVars
<1>1. ASSUME NEW j \in Jobs, Prepare(j) \/ Connect(j) \/ TripFails(j) PROVE Accounted'
  BY <1>1, AccountedFrame DEF Prepare, Connect, TripFails
<1>2. ASSUME NEW j \in Jobs, Respond(j) PROVE Accounted'
  <2>1. code[j] = NoCode
    BY <1>2 DEF Respond, NoCodeYet
  <2> QED
    BY <1>2, <2>1, AccountedFrame DEF Respond
<1>3. ASSUME NEW j \in Jobs, Upstream(j) PROVE Accounted'
  <2>1. CASE stage'[j] = "count"
    BY <1>3, <2>1, AccountedFrame DEF Upstream
  <2>2. CASE stage'[j] # "count"
    <3>1. /\ stage[j] = "header" /\ stage' = [stage EXCEPT ![j] = "precise"]
          /\ upstreamHist' = upstreamHist + 1
          /\ UNCHANGED <<respCode, code, upstreamHistPrecise, total, crashed>>
      BY <1>3, <2>2 DEF Upstream
    <3>2. BetweenCollectors' = BetweenCollectors \cup {j} /\ j \notin BetweenCollectors
      BY <3>1
    <3>3. Succeeded' = Succeeded /\ \A c \in Codes : Counted(c)' = Counted(c)
      BY <3>1
    <3>4. Cardinality(BetweenCollectors') = Cardinality(BetweenCollectors) + 1
          /\ Cardinality(BetweenCollectors) \in Nat
      BY <3>2, JobSets
    <3> HIDE DEF BetweenCollectors, Succeeded, Counted
    <3> QED
      BY <3>1, <3>3, <3>4 DEF Accounted
  <2> QED
    BY <2>1, <2>2
<1>4. ASSUME NEW j \in Jobs, UpstreamPrecise(j) PROVE Accounted'
  <2>1. /\ stage[j] = "precise" /\ stage' = [stage EXCEPT ![j] = "count"]
        /\ upstreamHistPrecise' = upstreamHistPrecise + 1
        /\ UNCHANGED <<respCode, code, upstreamHist, total, crashed>>
    BY <1>4 DEF UpstreamPrecise
  <2>2. BetweenCollectors' = BetweenCollectors \ {j} /\ j \in BetweenCollectors
    BY <2>1
  <2>3. Succeeded' = Succeeded /\ \A c \in Codes : Counted(c)' = Counted(c)
    BY <2>1
  <2>4. Cardinality(BetweenCollectors') = Cardinality(BetweenCollectors) - 1
        /\ Cardinality(BetweenCollectors) \in Nat
    BY <2>2, JobSets
  <2> HIDE DEF BetweenCollectors, Succeeded, Counted
  <2> QED
    BY <2>1, <2>3, <2>4 DEF Accounted
<1>5. ASSUME NEW j \in Jobs, Count(j) PROVE Accounted'
  <2>1. CASE code[j] >= CodeLimit
    BY <1>5, <2>1 DEF Count, Accounted
  <2>2. CASE ~(code[j] >= CodeLimit)
    <3>1. /\ stage[j] = "count" /\ code[j] \in Codes
          /\ stage'[j] \in {"lock", "body"} /\ stage' = [stage EXCEPT ![j] = stage'[j]]
          /\ respCode' = [respCode EXCEPT ![code[j]] = @ + 1]
          /\ UNCHANGED <<code, upstreamHist, upstreamHistPrecise, total, crashed>>
      BY <1>5, <2>2 DEF Count, IInv, CodeKnown
    <3>2. ASSUME NEW c \in Codes
          PROVE  ~crashed => respCode'[c] = Cardinality(Counted(c)')
      <4>1. CASE c = code[j]
        <5>1. Counted(c)' = Counted(c) \cup {j} /\ j \in Jobs \ Counted(c)
          BY <3>1, <4>1
        <5>2. Cardinality(Counted(c)') = Cardinality(Counted(c)) + 1
          BY <5>1, JobSets
        <5>3. ~crashed => respCode[c] = Cardinality(Counted(c))
          BY DEF Accounted
        <5>4. respCode'[c] = respCode[c] + 1
          BY <3>1, <4>1
        <5> QED
          BY <5>2, <5>3, <5>4
      <4>2. CASE c # code[j]
        <5>1. Counted(c)' = Counted(c) /\ respCode'[c] = respCode[c]
          BY <3>1, <4>2
        <5> QED
          BY <5>1 DEF Accounted
      <4> QED
        BY <4>1, <4>2
    <3>3. BetweenCollectors' = BetweenCollectors /\ Succeeded' = Succeeded
      BY <3>1
    <3> HIDE DEF BetweenCollectors, Succeeded, Counted
    <3> QED
      BY <3>1, <3>2, <3>3 DEF Accounted
  <2> QED
    BY <2>1, <2>2
<1>6. ASSUME NEW j \in Jobs, Lock(j) \/ Sample(j) \/ SampleFails(j) PROVE Accounted'
  BY <1>6, AccountedFrame DEF Lock, Sample, SampleFails
<1>7. ASSUME NEW j \in Jobs, ReadBody(j) \/ CloseBody(j) PROVE Accounted'
  BY <1>7, AccountedFrame DEF ReadBody, CloseBody
<1>8. ASSUME NEW j \in Jobs, AddTotal(j) PROVE Accounted'
  <2>1. /\ stage[j] = "total" /\ stage' = [stage EXCEPT ![j] = "done"]
        /\ total' = total + 1
        /\ UNCHANGED <<respCode, code, upstreamHist, upstreamHistPrecise, crashed>>
    BY <1>8 DEF AddTotal
  <2>2. Succeeded' = Succeeded \cup {j} /\ j \notin Succeeded
    BY <2>1
  <2>3. BetweenCollectors' = BetweenCollectors /\ \A c \in Codes : Counted(c)' = Counted(c)
    BY <2>1
  <2>4. Cardinality(Succeeded') = Cardinality(Succeeded) + 1
    BY <2>2, JobSets
  <2> HIDE DEF BetweenCollectors, Succeeded, Counted
  <2> QED
    BY <2>1, <2>3, <2>4 DEF Accounted
<1>9. CASE UNCHANGED <<stage, code, respCode, statVars, crashed>>
  BY <1>9, AccountedFrame
<1>10. UNCHANGED <<stage, code, respCode, statVars, crashed>> \/ \E j \in Jobs : Job(j)
  BY DEF Next, IdleTimeout, CallReader, Reader, ReaderLock, ReadCode, ReaderUnlock,
         Finished, jobVars, vars
<1> QED
  BY <1>1, <1>2, <1>3, <1>4, <1>5, <1>6, <1>7, <1>8, <1>9, <1>10 DEF Job

\* A sample that is owed is stored, or its job fails with the mutex in its hands
\* and nobody else releases it.
LEMMA SampleOwedStep ==
  IInv /\ NoCodeYet /\ SampleOwed /\ [Next]_vars => SampleOwed'
<1> SUFFICES ASSUME IInv, NoCodeYet, SampleOwed, [Next]_vars PROVE SampleOwed'
  OBVIOUS
<1>0. /\ stage \in [Jobs -> Stages] /\ code \in [Jobs -> Codes \cup {NoCode}]
      /\ respCode \in [Codes -> Nat]
      /\ NoJob \notin Jobs /\ NoCode \notin Codes /\ Jobs \cap Observers = {}
  BY NetHTTPJobAssumption DEF IInv, TypeOK, NetHTTPJobAssumption, NoCode
<1> USE <1>0 DEF Goto, shared, respVars
<1>1. ASSUME NEW j \in Jobs, Prepare(j) \/ Connect(j) \/ TripFails(j) \/ Respond(j)
      PROVE  SampleOwed'
  <2>1. code[j] = NoCode /\ stage[j] \in {"idle", "connect", "sent"}
    BY <1>1 DEF Prepare, Connect, TripFails, Respond, NoCodeYet
  <2>2. UNCHANGED <<respVars, mu, crashed>>
        /\ \A k \in Jobs \ {j} : stage'[k] = stage[k] /\ code'[k] = code[k]
    BY <1>1 DEF Prepare, Connect, TripFails, Respond
  <2> QED
    BY <2>1, <2>2 DEF SampleOwed
<1>2. ASSUME NEW j \in Jobs, Count(j) PROVE SampleOwed'
  <2>1. CASE code[j] >= CodeLimit
    BY <1>2, <2>1 DEF Count, SampleOwed
  <2>2. CASE ~(code[j] >= CodeLimit)
    <3>1. /\ stage[j] = "count" /\ code[j] \in Codes
          /\ respCode' = [respCode EXCEPT ![code[j]] = @ + 1]
          /\ stage' = [stage EXCEPT ![j] =
                         IF respCode'[code[j]] = 1 THEN "lock" ELSE "body"]
          /\ UNCHANGED <<code, sample, mu, crashed>>
      BY <1>2, <2>2 DEF Count, IsFirst, IInv, CodeKnown
    <3>2. ASSUME NEW c \in Codes, ~crashed, respCode'[c] > 0, sample[c] = NoJob
          PROVE  \E k \in Jobs :
                   /\ code[k] = c
                   /\ stage'[k] \in {"lock", "sample"} \/ (stage'[k] = "failed" /\ mu = k)
      <4>1. CASE respCode[c] = 0
        <5>1. c = code[j] /\ respCode'[c] = 1
          BY <3>1, <3>2, <4>1
        <5> QED
          BY <3>1, <5>1
      <4>2. CASE respCode[c] # 0
        <5>1. respCode[c] > 0
          BY <4>2
        <5>2. PICK k \in Jobs :
                /\ code[k] = c
                /\ stage[k] \in {"lock", "sample"} \/ (stage[k] = "failed" /\ mu = k)
          BY <3>2, <5>1 DEF SampleOwed
        <5> QED
          BY <3>1, <5>2
      <4> QED
        BY <4>1, <4>2
    <3> QED
      BY <3>1, <3>2 DEF SampleOwed
  <2> QED
    BY <2>1, <2>2
<1>3. ASSUME NEW j \in Jobs, Lock(j) PROVE SampleOwed'
  <2>1. /\ stage[j] = "lock" /\ stage' = [stage EXCEPT ![j] = "sample"]
        /\ mu = NoJob /\ UNCHANGED <<code, respVars, crashed>>
    BY <1>3 DEF Lock, LockBy
  <2> QED
    BY <2>1 DEF SampleOwed
<1>4. ASSUME NEW j \in Jobs, Sample(j) PROVE SampleOwed'
  <2>1. /\ stage[j] = "sample" /\ stage' = [stage EXCEPT ![j] = "body"] /\ mu = j
        /\ sample' = [sample EXCEPT ![code[j]] = j] /\ code[j] \in Codes
        /\ UNCHANGED <<code, respCode, crashed>>
    BY <1>4 DEF Sample, IInv, Held, CodeKnown
  <2>2. sample \in [Codes -> Jobs \cup {NoJob}]
    BY DEF IInv, TypeOK
  <2> QED
    BY <2>1, <2>2 DEF SampleOwed
<1>5. ASSUME NEW j \in Jobs, SampleFails(j) PROVE SampleOwed'
  <2>1. /\ stage[j] = "sample" /\ stage' = [stage EXCEPT ![j] = "failed"] /\ mu = j
        /\ UNCHANGED <<code, mu, respVars, crashed>>
    BY <1>5 DEF SampleFails, IInv, Held
  <2> QED
    BY <2>1 DEF SampleOwed
<1>6. ASSUME NEW j \in Jobs,
             Upstream(j) \/ UpstreamPrecise(j) \/ ReadBody(j) \/ CloseBody(j) \/ AddTotal(j)
      PROVE  SampleOwed'
  <2>1. UNCHANGED <<code, mu, respVars, crashed>>
        /\ stage[j] \notin {"lock", "sample", "failed"}
        /\ \A k \in Jobs \ {j} : stage'[k] = stage[k]
    BY <1>6 DEF Upstream, UpstreamPrecise, ReadBody, CloseBody, AddTotal
  <2> QED
    BY <2>1 DEF SampleOwed
<1>7. ASSUME NEW o \in Observers, ReaderLock(o) \/ ReaderUnlock(o)
      PROVE  SampleOwed'
  <2>1. mu \notin Jobs /\ UNCHANGED <<stage, code, respVars, crashed>>
    BY <1>7 DEF ReaderLock, ReaderUnlock, LockBy, IInv, Held, jobVars
  <2> QED
    BY <2>1 DEF SampleOwed
<1>8. CASE UNCHANGED <<stage, code, mu, respVars, crashed>>
  BY <1>8 DEF SampleOwed
<1>9. \/ UNCHANGED <<stage, code, mu, respVars, crashed>>
      \/ \E j \in Jobs : Job(j)
      \/ \E o \in Observers : ReaderLock(o) \/ ReaderUnlock(o)
  BY DEF Next, IdleTimeout, CallReader, Reader, ReadCode, Finished, jobVars, vars
<1> QED
  BY <1>1, <1>2, <1>3, <1>4, <1>5, <1>6, <1>7, <1>8, <1>9 DEF Job

\* The invariants of the report.
LEMMA ReportInvariant == Spec => [](NoCodeYet /\ Accounted /\ SampleOwed)
<1>1. Init => NoCodeYet /\ Accounted /\ SampleOwed
  <2> SUFFICES ASSUME Init PROVE NoCodeYet /\ Accounted /\ SampleOwed
    OBVIOUS
  <2>1. NoCode \notin Codes
    BY NetHTTPJobAssumption DEF NetHTTPJobAssumption, NoCode
  <2>2. BetweenCollectors = {} /\ Succeeded = {} /\ \A c \in Codes : Counted(c) = {}
    BY <2>1 DEF Init, BetweenCollectors, Succeeded, Counted
  <2> QED
    BY <2>2, FS_EmptySet DEF Init, NoCodeYet, Accounted, SampleOwed
<1>2. IInv /\ NoCodeYet /\ Accounted /\ SampleOwed /\ [Next]_vars
        => (NoCodeYet /\ Accounted /\ SampleOwed)'
  BY NoCodeStep, AccountedStep, SampleOwedStep DEF IInv
<1> QED
  BY <1>1, <1>2, Invariant, PTL DEF Spec

\* When all jobs are over, whatever calls failed, the report lists the codes that
\* were seen with the number of their responses, the collectors of the proxy agree
\* and the average is over the jobs that succeeded.
THEOREM Report_Complete == Spec => []ReportComplete
<1>1. IInv /\ Accounted /\ SampleOwed => ReportComplete
  <2> SUFFICES ASSUME IInv, Accounted, SampleOwed, AllOver, ~crashed
               PROVE  /\ mu = NoJob => Sampled = {c \in Codes : respCode[c] > 0}
                      /\ \A c \in Codes : respCode[c] = Cardinality({j \in Jobs : code[j] = c})
                      /\ upstreamHist = upstreamHistPrecise
                      /\ total = Cardinality({j \in Jobs : stage[j] = "done"})
    BY DEF ReportComplete
  <2>1. \A j \in Jobs : stage[j] \in {"done", "failed"}
    BY DEF AllOver, Over
  <2>2. mu = NoJob => Sampled = {c \in Codes : respCode[c] > 0}
    <3>1. ASSUME NEW c \in Codes, sample[c] # NoJob PROVE respCode[c] > 0
      BY <3>1 DEF IInv, SampledOnce
    <3>2. ASSUME mu = NoJob, NEW c \in Codes, respCode[c] > 0 PROVE sample[c] # NoJob
      <4>1. mu \notin Jobs
        BY <3>2, NetHTTPJobAssumption DEF NetHTTPJobAssumption
      <4> QED
        BY <2>1, <3>2, <4>1 DEF SampleOwed
    <3> QED
      BY <3>1, <3>2 DEF Sampled
  <2>3. ASSUME NEW c \in Codes
        PROVE  respCode[c] = Cardinality({j \in Jobs : code[j] = c})
    <3>1. Counted(c) = {j \in Jobs : code[j] = c}
      BY <2>1 DEF Counted
    <3> QED
      BY <3>1 DEF Accounted
  <2>4. BetweenCollectors = {}
    BY <2>1 DEF BetweenCollectors
  <2>5. upstreamHist = upstreamHistPrecise
    BY <2>4, FS_EmptySet DEF Accounted, IInv, TypeOK
  <2> QED
    BY <2>2, <2>3, <2>5 DEF Accounted, Succeeded
<1> QED
  BY <1>1, Invariant, ReportInvariant, PTL
=============================================================================
