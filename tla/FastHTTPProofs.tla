--------------------------- MODULE FastHTTPProofs ---------------------------
(***************************************************************************)
(* Theorems about FastHTTPJob, for every number of jobs and of jobs at     *)
(* once: response objects are neither shared nor lost, and the first       *)
(* response of a code stays its sample.                                    *)
(***************************************************************************)
EXTENDS FastHTTPJob, FiniteSetTheorems, TLAPS

\* What the types say of the pool and the jobs, the counters aside.
Types ==
  /\ stage \in [Jobs -> {"idle", "do", "count", "release", "fail"} \cup Over]
  /\ buffer \in [Jobs -> Buffers \cup {0}]
  /\ pool \subseteq Buffers

CodeKnown == \A j \in Jobs : stage[j] = "count" => code[j] \in Codes

\* A sample belongs to a code that was counted.
SampleCounted ==
  /\ code \in [Jobs -> Codes \cup {NoCode}]
  /\ respCode \in [Codes -> Nat] /\ sample = [c \in Codes |-> sample[c]]
  /\ \A c \in Codes : sample[c] # NoSample => respCode[c] > 0

LEMMA Finite ==
  ASSUME Types PROVE IsFiniteSet(pool) /\ IsFiniteSet(InFlight)
<1>1. IsFiniteSet(Buffers)
  BY FastHTTPJobAssumption, FS_Interval DEF Buffers
<1> QED
  BY <1>1, FastHTTPJobAssumption, FS_Subset DEF Types, InFlight

LEMMA InitPool == Init => Types /\ PoolBalanced
<1> SUFFICES ASSUME Init PROVE Types /\ PoolBalanced
  OBVIOUS
<1>1. Types
  BY DEF Init, Types
<1>2. InFlight = {}
  BY DEF Init, InFlight
<1>3. Cardinality(Buffers) = Concurrency
  BY FastHTTPJobAssumption, FS_Interval DEF Buffers
<1>4. Cardinality(InFlight) = 0
  BY <1>2, FS_EmptySet
<1>5. PoolBalanced
  BY <1>2, <1>3, <1>4, FastHTTPJobAssumption DEF Init, PoolBalanced
<1> QED BY <1>1, <1>5

\* A job that starts takes a buffer out of the pool ...
LEMMA AcquireBalances ==
  ASSUME Types, PoolBalanced, NEW j \in Jobs, Acquire(j)
  PROVE  Types' /\ PoolBalanced'
<1>1. PICK b \in pool : buffer' = [buffer EXCEPT ![j] = b] /\ pool' = pool \ {b}
  BY DEF Acquire
<1>2. PICK s \in {"do", "fail"} : stage[j] = "idle" /\ stage' = [stage EXCEPT ![j] = s]
  BY DEF Acquire, Goto
<1>3. Types'
  BY <1>1, <1>2 DEF Types, Over
<1>4. InFlight' = InFlight \cup {j} /\ j \notin InFlight
  BY <1>2 DEF InFlight, Types, Over
<1>5. b # 0 /\ b \in Buffers
  BY FastHTTPJobAssumption DEF Types, Buffers
<1>6. \A k \in InFlight' : buffer'[k] \notin pool' \cup {0}
  BY <1>1, <1>4, <1>5 DEF PoolBalanced, Types, InFlight
<1>7. \A k, l \in InFlight' : buffer'[k] = buffer'[l] => k = l
  BY <1>1, <1>4 DEF PoolBalanced, Types, InFlight
<1>8. Cardinality(pool') = Cardinality(pool) - 1
  BY <1>1, Finite, FS_RemoveElement
<1>9. Cardinality(InFlight') = Cardinality(InFlight) + 1
  BY <1>4, Finite, FS_AddElement
<1>10. Cardinality(pool) \in Nat /\ Cardinality(InFlight) \in Nat
  BY Finite, FS_CardinalityType
<1>11. Cardinality(pool') + Cardinality(InFlight') = Concurrency
  BY <1>8, <1>9, <1>10 DEF PoolBalanced
<1> QED BY <1>3, <1>6, <1>7, <1>11 DEF PoolBalanced

\* ... and a job that returns puts it back.
LEMMA ReleaseBalances ==
  ASSUME Types, PoolBalanced, NEW j \in Jobs, Release(j)
  PROVE  Types' /\ PoolBalanced'
<1>1. pool' = pool \cup {buffer[j]} /\ buffer' = [buffer EXCEPT ![j] = 0]
  BY DEF Release
<1>2. PICK s \in Over : stage[j] \in {"release", "fail"} /\ stage' = [stage EXCEPT ![j] = s]
  BY DEF Release, Goto, Over
<1>3. j \in InFlight /\ InFlight' = InFlight \ {j}
  BY <1>2 DEF InFlight, Types, Over
<1>4. buffer[j] \in Buffers /\ buffer[j] \notin pool
  BY <1>3 DEF PoolBalanced, Types
<1>5. Types'
  BY <1>1, <1>2, <1>4 DEF Types
<1>6. \A k \in InFlight' : buffer'[k] \notin pool' \cup {0}
  BY <1>1, <1>3 DEF PoolBalanced, Types, InFlight
<1>7. \A k, l \in InFlight' : buffer'[k] = buffer'[l] => k = l
  BY <1>1, <1>3 DEF PoolBalanced, Types, InFlight
<1>8. Cardinality(pool') = Cardinality(pool) + 1
  BY <1>1, <1>4, Finite, FS_AddElement
<1>9. Cardinality(InFlight') = Cardinality(InFlight) - 1
  BY <1>3, Finite, FS_RemoveElement
<1>10. Cardinality(pool) \in Nat /\ Cardinality(InFlight) \in Nat
  BY Finite, FS_CardinalityType
<1>11. Cardinality(pool') + Cardinality(InFlight') = Concurrency
  BY <1>8, <1>9, <1>10 DEF PoolBalanced
<1> QED BY <1>5, <1>6, <1>7, <1>11 DEF PoolBalanced

LEMMA PoolStep == Types /\ PoolBalanced /\ [Next]_vars => Types' /\ PoolBalanced'
<1> SUFFICES ASSUME Types, PoolBalanced, [Next]_vars PROVE Types' /\ PoolBalanced'
  OBVIOUS
<1>1. ASSUME NEW j \in Jobs, Do(j) \/ DoFails(j) \/ Count(j)
      PROVE  Types' /\ PoolBalanced'
  <2>1. PICK s \in {"count", "release", "fail"} :
          stage[j] \in {"do", "count"} /\ stage' = [stage EXCEPT ![j] = s]
    BY <1>1 DEF Do, DoFails, Count, Goto
  <2>2. UNCHANGED <<buffer, pool>>
    BY <1>1 DEF Do, DoFails, Count
  <2>3. InFlight' = InFlight
    BY <2>1 DEF InFlight, Types, Over
  <2> QED BY <2>1, <2>2, <2>3 DEF Types, PoolBalanced
<1>2. CASE UNCHANGED vars
  BY <1>2 DEF vars, Types, PoolBalanced, InFlight
<1> QED
  BY <1>1, <1>2, AcquireBalances, ReleaseBalances DEF Next, Job, Finished

\* No response object is shared by two jobs or lost.
THEOREM Pool_Balanced == Spec => []PoolBalanced
  BY InitPool, PoolStep, PTL DEF Spec

\* Counting keeps a sample with every count, and the sample of a code only changes
\* with the first count.
LEMMA CountStep ==
  ASSUME SampleCounted, CodeKnown, NEW j \in Jobs, Count(j)
  PROVE  /\ SampleCounted' /\ CodeKnown'
         /\ \A c \in Codes : sample[c] # NoSample => sample'[c] = sample[c]
<1>1. code[j] \in Codes /\ UNCHANGED code
  BY DEF Count, Goto, CodeKnown
<1>2. respCode' = [respCode EXCEPT ![code[j]] = @ + 1]
  BY DEF Count
<1>3. respCode'[code[j]] = respCode[code[j]] + 1 /\ respCode' \in [Codes -> Nat]
  BY <1>1, <1>2 DEF SampleCounted
<1>4. CodeKnown'
  BY <1>1 DEF Count, Goto, CodeKnown
<1>5. CASE respCode[code[j]] = 0
  BY <1>1, <1>2, <1>3, <1>4, <1>5 DEF Count, SampleCounted
<1>6. CASE respCode[code[j]] # 0
  <2>1. UNCHANGED sample
    BY <1>1, <1>3, <1>6 DEF Count, SampleCounted
  <2> QED BY <1>1, <1>2, <1>3, <1>4, <2>1 DEF SampleCounted
<1> QED BY <1>5, <1>6

\* Other steps leave counts and samples alone.
LEMMA OtherStep ==
  ASSUME Types, SampleCounted, CodeKnown, [Next]_vars, ~(\E j \in Jobs : Count(j))
  PROVE  /\ SampleCounted' /\ CodeKnown'
         /\ \A c \in Codes : sample[c] # NoSample => sample'[c] = sample[c]
<1>1. UNCHANGED <<respCode, sample>>
  BY DEF Next, Job, Acquire, Do, DoFails, Release, Finished, vars
<1>2. ASSUME NEW j \in Jobs, Do(j) PROVE code' \in [Jobs -> Codes \cup {NoCode}] /\ CodeKnown'
  BY <1>2 DEF Do, Goto, Types, SampleCounted, CodeKnown
<1>3. ASSUME NEW j \in Jobs, Acquire(j) \/ DoFails(j) \/ Release(j)
      PROVE  code' \in [Jobs -> Codes \cup {NoCode}] /\ CodeKnown'
  <2>1. PICK s \in {"do", "fail"} \cup Over : stage' = [stage EXCEPT ![j] = s]
    BY <1>3 DEF Acquire, DoFails, Release, Goto, Over
  <2>2. UNCHANGED code
    BY <1>3 DEF Acquire, DoFails, Release
  <2>3. s # "count"
    BY DEF Over
  <2>4. \A k \in Jobs : stage'[k] = "count" => stage[k] = "count"
    BY <2>1, <2>3 DEF Types
  <2>5. code' \in [Jobs -> Codes \cup {NoCode}]
    BY <2>2 DEF SampleCounted
  <2> QED BY <2>2, <2>4, <2>5 DEF CodeKnown
<1>4. code' \in [Jobs -> Codes \cup {NoCode}] /\ CodeKnown'
  <2>1. CASE UNCHANGED vars
    BY <2>1 DEF vars, SampleCounted, CodeKnown
  <2>2. CASE \E j \in Jobs : Job(j)
    <3>1. PICK j \in Jobs : Job(j)
      BY <2>2
    <3>2. CASE Do(j)
      BY <3>2, <1>2
    <3>3. CASE Acquire(j) \/ DoFails(j) \/ Release(j)
      BY <3>3, <1>3
    <3> QED BY <3>1, <3>2, <3>3 DEF Job
  <2> QED BY <2>1, <2>2 DEF Next, Finished
<1> QED BY <1>1, <1>4 DEF SampleCounted

-----------------------------------------------------------------------------
(* The rest of the types, and what the report counts.                      *)

\* The invariant of the pool and of the samples.
PoolInv == Types /\ PoolBalanced /\ SampleCounted /\ CodeKnown

LEMMA PoolInvariant == Spec => []PoolInv
<1>1. Init => PoolInv
  BY InitPool DEF Init, PoolInv, SampleCounted, CodeKnown
<1>2. PoolInv /\ [Next]_vars => PoolInv'
  BY PoolStep, CountStep, OtherStep DEF PoolInv
<1> QED BY <1>1, <1>2, PTL DEF Spec

\* The first response of a code stays its sample.
THEOREM Fast_Samples_Stay == Spec => SamplesStay
<1>1. PoolInv /\ [Next]_vars
        => [\A c \in Codes : sample[c] # NoSample => sample'[c] = sample[c]]_vars
  BY CountStep, OtherStep DEF PoolInv
<1> QED BY <1>1, PoolInvariant, PTL DEF Spec, SamplesStay

\* What respBody can hold after a response that was counted.
LEMMA PeekType ==
  ASSUME NEW j \in Jobs, Types, PoolBalanced, stage[j] = "count"
  PROVE  Peek(j) \in Samples /\ Peek(j) # NoSample
<1>1. buffer[j] \in Buffers
  BY DEF Types, PoolBalanced, InFlight, Over
<1> QED
  BY <1>1 DEF Peek, Samples, NoSample

\* Every step keeps the types.
LEMMA TypeStep == TypeOK /\ PoolInv /\ [Next]_vars => TypeOK'
<1> SUFFICES ASSUME TypeOK, PoolInv, [Next]_vars PROVE TypeOK'
  OBVIOUS
<1>0. Types' /\ SampleCounted'
  BY PoolStep, CountStep, OtherStep DEF PoolInv
<1> USE DEF TypeOK
<1>1. ASSUME NEW j \in Jobs, Count(j) PROVE TypeOK'
  <2>1. Peek(j) \in Samples /\ code[j] \in Codes
    BY <1>1, PeekType DEF Count, Goto, PoolInv, CodeKnown
  <2>2. sample' \in [Codes -> Samples]
    BY <1>1, <2>1 DEF Count
  <2> QED
    BY <1>0, <1>1, <2>2 DEF Count, Types, SampleCounted
<1>2. ASSUME NEW j \in Jobs, Do(j) PROVE TypeOK'
  <2>1. content' \in [Buffers -> Jobs \cup {NoJob}] /\ form' \in [Jobs -> AllForms]
    BY <1>2, FastHTTPJobAssumption DEF Do, FastHTTPJobAssumption
  <2> QED
    BY <1>0, <1>2, <2>1 DEF Do, Types, SampleCounted
<1>3. ASSUME NEW j \in Jobs, Acquire(j) \/ DoFails(j) \/ Release(j) PROVE TypeOK'
  <2>1. content' \in [Buffers -> Jobs \cup {NoJob}]
    BY <1>3 DEF Acquire, DoFails, Release
  <2>2. UNCHANGED <<code, form, respCode, sample>>
    BY <1>3 DEF Acquire, DoFails, Release
  <2> QED BY <1>0, <2>1, <2>2 DEF Types
<1>4. CASE UNCHANGED vars
  BY <1>4 DEF vars
<1> QED BY <1>1, <1>2, <1>3, <1>4 DEF Next, Job, Finished

\* Responses that have been counted under code c.
Counted(c) == {j \in Jobs : code[j] = c /\ stage[j] # "count"}

\* A job without a response has no code.
NoCodeYet == \A j \in Jobs : stage[j] \in {"idle", "do"} => code[j] = NoCode

\* A response is counted and, if it is the first of its code, kept as the sample in
\* the same section under the mutex.
Accounted ==
  \A c \in Codes :
    /\ respCode[c] = Cardinality(Counted(c))
    /\ respCode[c] > 0 => sample[c] # NoSample

\* Accounted is preserved.
LEMMA AccountedStep ==
  TypeOK /\ PoolInv /\ NoCodeYet /\ Accounted /\ [Next]_vars
    => NoCodeYet' /\ Accounted'
<1> SUFFICES ASSUME TypeOK, PoolInv, NoCodeYet, Accounted, [Next]_vars
             PROVE  NoCodeYet' /\ Accounted'
  OBVIOUS
<1>0. /\ stage \in [Jobs -> {"idle", "do", "count", "release", "fail"} \cup Over]
      /\ code \in [Jobs -> Codes \cup {NoCode}]
      /\ respCode \in [Codes -> Nat] /\ sample \in [Codes -> Samples]
      /\ NoCode \notin Codes
  BY FastHTTPJobAssumption DEF TypeOK, FastHTTPJobAssumption, NoCode
<1> USE <1>0 DEF Goto, NoCodeYet
<1>1. ASSUME NEW j \in Jobs, Count(j) PROVE NoCodeYet' /\ Accounted'
  <2>1. /\ stage[j] = "count" /\ stage' = [stage EXCEPT ![j] = "release"]
        /\ code[j] \in Codes /\ UNCHANGED code
        /\ respCode' = [respCode EXCEPT ![code[j]] = @ + 1]
    BY <1>1 DEF Count, PoolInv, CodeKnown
  <2>2. Peek(j) # NoSample
    BY <2>1, PeekType DEF PoolInv
  <2>3. ASSUME NEW c \in Codes, c = code[j]
        PROVE  /\ respCode'[c] = Cardinality(Counted(c)')
               /\ sample'[c] # NoSample
    <3>1. Counted(c)' = Counted(c) \cup {j} /\ j \notin Counted(c)
      BY <2>1, <2>3 DEF Counted
    <3>2. IsFiniteSet(Counted(c))
      BY FastHTTPJobAssumption, FS_Subset DEF FastHTTPJobAssumption, Counted
    <3>3. Cardinality(Counted(c)') = Cardinality(Counted(c)) + 1
      BY <3>1, <3>2, FS_AddElement
    <3>4. respCode'[c] = respCode[c] + 1
      BY <2>1, <2>3
    <3>5. sample'[c] # NoSample
      <4>1. CASE respCode[c] = 0
        BY <1>1, <2>2, <2>3, <3>4, <4>1 DEF Count
      <4>2. CASE respCode[c] # 0
        BY <1>1, <2>3, <3>4, <4>2 DEF Count, Accounted
      <4> QED BY <4>1, <4>2
    <3> QED BY <3>3, <3>4, <3>5 DEF Accounted
  <2>4. ASSUME NEW c \in Codes, c # code[j]
        PROVE  /\ respCode'[c] = Cardinality(Counted(c)')
               /\ respCode'[c] > 0 => sample'[c] # NoSample
    <3>1. Counted(c)' = Counted(c) /\ respCode'[c] = respCode[c] /\ sample'[c] = sample[c]
      BY <1>1, <2>1, <2>4 DEF Counted, Count
    <3> QED BY <3>1 DEF Accounted
  <2>5. NoCodeYet'
    BY <2>1
  <2> QED BY <2>3, <2>4, <2>5 DEF Accounted
<1>2. ASSUME \A c \in Codes : Counted(c)' = Counted(c), UNCHANGED <<respCode, sample>>
      PROVE  Accounted'
  BY <1>2 DEF Accounted
<1>3. ASSUME NEW j \in Jobs, Do(j) PROVE NoCodeYet' /\ Accounted'
  <2>1. code[j] = NoCode
    BY <1>3 DEF Do
  <2>2. NoCodeYet'
    BY <1>3 DEF Do
  <2>3. \A c \in Codes : Counted(c)' = Counted(c)
    BY <1>3, <2>1 DEF Do, Counted
  <2> QED BY <1>2, <1>3, <2>2, <2>3 DEF Do
<1>4. ASSUME NEW j \in Jobs, Acquire(j) \/ DoFails(j) \/ Release(j)
      PROVE  NoCodeYet' /\ Accounted'
  <2>1. UNCHANGED <<code, respCode, sample>>
    BY <1>4 DEF Acquire, DoFails, Release
  <2>2. PICK s \in {"do", "fail"} \cup Over :
          /\ stage[j] # "count" /\ (s = "do" => stage[j] = "idle")
          /\ stage' = [stage EXCEPT ![j] = s]
    BY <1>4 DEF Acquire, DoFails, Release, Over
  <2>3. NoCodeYet'
    BY <2>1, <2>2 DEF Over
  <2>4. \A c \in Codes : Counted(c)' = Counted(c)
    BY <2>1, <2>2 DEF Counted, Over
  <2> QED BY <1>2, <2>1, <2>3, <2>4
<1>5. CASE UNCHANGED vars
  BY <1>2, <1>5 DEF vars, Counted
<1> QED BY <1>1, <1>3, <1>4, <1>5 DEF Next, Job, Finished

\* The invariant of the theorems below.
LEMMA ReportInvariant == Spec => [](TypeOK /\ PoolInv /\ Accounted)
<1> DEFINE I == TypeOK /\ NoCodeYet /\ Accounted
<1>1. Init => I
  <2> SUFFICES ASSUME Init PROVE I
    OBVIOUS
  <2>1. NoCode \notin Codes
    BY FastHTTPJobAssumption DEF FastHTTPJobAssumption, NoCode
  <2>2. \A c \in Codes : Counted(c) = {}
    BY <2>1 DEF Init, Counted
  <2>3. TypeOK
    BY DEF Init, TypeOK, Samples, AllForms
  <2> QED BY <2>2, <2>3, FS_EmptySet DEF Init, NoCodeYet, Accounted
<1>2. PoolInv /\ I /\ [Next]_vars => I'
  BY TypeStep, AccountedStep
<1> QED BY <1>1, <1>2, PoolInvariant, PTL DEF Spec

\* The variables keep their types: a sample is a text, or a slice of a buffer that
\* the pool made.
THEOREM Fast_TypeCorrect == Spec => []TypeOK
  BY ReportInvariant, PTL

\* When all jobs have returned, every response is counted under its code, and the
\* codes with a count are those with a sample.
THEOREM Fast_Report_Complete == Spec => []ReportComplete
<1>1. PoolInv /\ Accounted => ReportComplete
  <2> SUFFICES ASSUME PoolInv, Accounted, \A j \in Jobs : stage[j] \in Over,
                      NEW c \in Codes
               PROVE  /\ respCode[c] = Cardinality({j \in Jobs : code[j] = c})
                      /\ respCode[c] > 0 <=> sample[c] # NoSample
    BY DEF ReportComplete
  <2>1. Counted(c) = {j \in Jobs : code[j] = c}
    BY DEF Counted, Over
  <2> QED BY <2>1 DEF Accounted, PoolInv, SampleCounted
<1> QED BY <1>1, ReportInvariant, PTL

-----------------------------------------------------------------------------
(* How long a sample stays what the job received.                          *)

\* A buffer that a job has filled is its own until it is released, and a sample
\* that is kept as a slice is one of the buffer of its job.
OwnContent ==
  /\ \A j \in Jobs : stage[j] \in {"count", "release"} => content[buffer[j]] = j
  /\ \A c \in Codes : sample[c].kind = "slice" =>
       /\ sample[c].job \in Jobs
       /\ stage[sample[c].job] \in {"release", "done"}
       /\ stage[sample[c].job] = "release"
            => sample[c].buffer = buffer[sample[c].job]

\* OwnContent is preserved: two jobs in flight have different buffers.
LEMMA OwnContentStep ==
  TypeOK /\ PoolInv /\ OwnContent /\ [Next]_vars => OwnContent'
<1> SUFFICES ASSUME TypeOK, PoolInv, OwnContent, [Next]_vars PROVE OwnContent'
  OBVIOUS
<1>0. /\ stage \in [Jobs -> {"idle", "do", "count", "release", "fail"} \cup Over]
      /\ buffer \in [Jobs -> Buffers \cup {0}]
      /\ content \in [Buffers -> Jobs \cup {NoJob}]
      /\ sample \in [Codes -> Samples]
      /\ \A j \in InFlight : buffer[j] \in Buffers
      /\ \A j, k \in InFlight : buffer[j] = buffer[k] => j = k
  BY DEF TypeOK, PoolInv, PoolBalanced, InFlight
<1> USE <1>0 DEF Goto, Over
<1>1. ASSUME NEW j \in Jobs, Acquire(j) PROVE OwnContent'
  <2>1. /\ stage[j] = "idle" /\ UNCHANGED <<content, sample>>
        /\ \E s \in {"do", "fail"} : stage' = [stage EXCEPT ![j] = s]
        /\ \E b \in pool : buffer' = [buffer EXCEPT ![j] = b]
    BY <1>1 DEF Acquire
  <2> QED BY <2>1 DEF OwnContent
<1>2. ASSUME NEW j \in Jobs, Do(j) \/ DoFails(j) PROVE OwnContent'
  <2>1. PICK s \in {"count", "fail"} :
          /\ stage[j] = "do" /\ stage' = [stage EXCEPT ![j] = s]
          /\ \/ s = "fail" /\ UNCHANGED content
             \/ content' = [content EXCEPT ![buffer[j]] = j]
    BY <1>2 DEF Do, DoFails
  <2>2. UNCHANGED <<buffer, sample>>
    BY <1>2 DEF Do, DoFails
  <2>3. j \in InFlight /\ buffer[j] \in Buffers
    BY <2>1 DEF InFlight
  <2>4. ASSUME NEW k \in Jobs, stage'[k] \in {"count", "release"}
        PROVE  content'[buffer'[k]] = k
    <3>1. CASE k = j
      BY <2>1, <2>2, <2>3, <2>4, <3>1
    <3>2. CASE k # j
      <4>1. k \in InFlight /\ stage[k] \in {"count", "release"}
        BY <2>1, <2>4, <3>2 DEF InFlight
      <4>2. buffer[k] # buffer[j]
        BY <2>3, <3>2, <4>1
      <4> QED BY <2>1, <2>2, <4>1, <4>2 DEF OwnContent
    <3> QED BY <3>1, <3>2
  <2> QED BY <2>1, <2>2, <2>4 DEF OwnContent
<1>3. ASSUME NEW j \in Jobs, Count(j) PROVE OwnContent'
  <2>1. /\ stage[j] = "count" /\ stage' = [stage EXCEPT ![j] = "release"]
        /\ UNCHANGED <<buffer, content>>
        /\ \A c \in Codes : sample'[c] \in {sample[c], Peek(j)}
    BY <1>3 DEF Count
  <2>2. Peek(j).kind = "slice" => Peek(j).job = j /\ Peek(j).buffer = buffer[j]
    BY DEF Peek
  <2>3. ASSUME NEW c \in Codes, sample'[c].kind = "slice"
        PROVE  /\ sample'[c].job \in Jobs
               /\ stage'[sample'[c].job] \in {"release", "done"}
               /\ stage'[sample'[c].job] = "release"
                    => sample'[c].buffer = buffer'[sample'[c].job]
    <3>1. CASE sample'[c] = Peek(j)
      BY <2>1, <2>2, <2>3, <3>1
    <3>2. CASE sample'[c] = sample[c]
      BY <2>1, <2>3, <3>2 DEF OwnContent
    <3> QED BY <2>1, <3>1, <3>2
  <2> QED BY <2>1, <2>3 DEF OwnContent
<1>4. ASSUME NEW j \in Jobs, Release(j) PROVE OwnContent'
  <2>1. /\ \/ stage[j] = "release" /\ stage' = [stage EXCEPT ![j] = "done"]
           \/ stage[j] = "fail" /\ stage' = [stage EXCEPT ![j] = "failed"]
        /\ buffer' = [buffer EXCEPT ![j] = 0]
        /\ UNCHANGED <<content, sample>>
    BY <1>4 DEF Release
  <2> QED BY <2>1 DEF OwnContent
<1>5. CASE UNCHANGED vars
  BY <1>5 DEF vars, OwnContent
<1> QED BY <1>1, <1>2, <1>3, <1>4, <1>5 DEF Next, Job, Finished

LEMMA OwnContentInvariant == Spec => []OwnContent
<1>1. Init => OwnContent
  BY DEF Init, OwnContent, NoSample
<1> QED
  BY <1>1, OwnContentStep, PoolInvariant, Fast_TypeCorrect, PTL DEF Spec

\* Until its job returns, a sample is what the job received: it can only be
\* overwritten through a response that was released.
THEOREM Sample_Intact_At_First == Spec => []SampleIntactAtFirst
<1>1. OwnContent => SampleIntactAtFirst
  BY DEF OwnContent, SampleIntactAtFirst, InFlight, Over
<1> QED BY <1>1, OwnContentInvariant, PTL
=============================================================================
