------------------------------ MODULE S3Proofs ------------------------------
(***************************************************************************)
(* Theorems about S3Job, for every number of jobs and every size of the    *)
(* entry: the totals stay in step with the jobs, and the saved file with   *)
(* the job that saves it.                                                  *)
(***************************************************************************)
EXTENDS S3Job, FiniteSetTheorems, TLAPS

\* Jobs at one of their steps.
AtStep(s) == {j \in S3Jobs : step[j] = s}

\* An upload reads no bytes, and only an upload or the saver opens a file.
Paths ==
  \A j \in S3Jobs :
    /\ step[j] = "bytes" => ~f.Upload
    /\ step[j] = "open" => f.Upload \/ Saver(j)

\* The bytes of a download are counted one step before the download is.
Totals ==
  /\ tot = Cardinality(AtStep("done"))
  /\ totBytes = (IF f.Upload THEN 0 ELSE Size * (tot + Cardinality(AtStep("tot"))))

\* The file is whole from the end of the saver's download on.
FileOfSaver ==
  saved = "complete" <=>
    \E j \in S3Jobs : Saver(j) /\ step[j] \in {"bytes", "tot", "done"}

S3Inv == S3TypeOK /\ Paths /\ Totals /\ FileOfSaver

-----------------------------------------------------------------------------
\* What a step of one job does to the sets of Totals.
LEMMA AtStepStep ==
  ASSUME S3JobAssumption, S3TypeOK, NEW j \in S3Jobs, NEW from, NEW to, To(j, from, to),
         from # to, NEW s
  PROVE  /\ Cardinality(AtStep(s)) \in Nat
         /\ s = to => Cardinality(AtStep(s)') = Cardinality(AtStep(s)) + 1
         /\ s = from => Cardinality(AtStep(s)') = Cardinality(AtStep(s)) - 1
         /\ s \notin {from, to} => AtStep(s)' = AtStep(s)
<1>1. IsFiniteSet(AtStep(s)) /\ Cardinality(AtStep(s)) \in Nat
  BY FS_Subset, FS_CardinalityType DEF S3JobAssumption, AtStep
<1>2. s = to => AtStep(s)' = AtStep(s) \cup {j} /\ j \notin AtStep(s)
  BY DEF AtStep, To, S3TypeOK
<1>3. s = from => AtStep(s)' = AtStep(s) \ {j} /\ j \in AtStep(s)
  BY DEF AtStep, To, S3TypeOK
<1>4. s \notin {from, to} => AtStep(s)' = AtStep(s)
  BY DEF AtStep, To, S3TypeOK
<1>5. s = to => Cardinality(AtStep(s)') = Cardinality(AtStep(s)) + 1
  BY <1>1, <1>2, FS_AddElement
<1>6. s = from => Cardinality(AtStep(s)') = Cardinality(AtStep(s)) - 1
  BY <1>1, <1>3, FS_RemoveElement
<1> QED BY <1>1, <1>4, <1>5, <1>6

\* S3TypeOK and Paths are preserved.
LEMMA S3TypeStep ==
  ASSUME S3JobAssumption, S3TypeOK, Paths, NEW j \in S3Jobs, RunJob(j)
  PROVE  S3TypeOK' /\ Paths'
<1> USE DEF S3TypeOK, Paths, To, Returned, Saver
<1>1. CASE CallJob(j)
  BY <1>1 DEF CallJob
<1>2. CASE OpenFile(j)
  BY <1>2 DEF OpenFile
<1>3. CASE Transfer(j)
  BY <1>3 DEF Transfer
<1>4. CASE TransferFails(j)
  BY <1>4 DEF TransferFails
<1>5. CASE AddBytes(j)
  BY <1>5 DEF AddBytes, S3JobAssumption
<1>6. CASE AddTot(j)
  BY <1>6 DEF AddTot
<1> QED BY <1>1, <1>2, <1>3, <1>4, <1>5, <1>6 DEF RunJob

\* Totals is preserved: AddBytes and AddTot move one job from one sum to the other.
LEMMA TotalsStep ==
  ASSUME S3JobAssumption, S3TypeOK, Paths, Totals, NEW j \in S3Jobs, RunJob(j)
  PROVE  Totals'
<1>1. /\ Size \in Nat /\ tot \in Nat /\ totBytes \in Nat
      /\ Cardinality(AtStep("tot")) \in Nat /\ Cardinality(AtStep("done")) \in Nat
  BY FS_Subset, FS_CardinalityType DEF S3JobAssumption, S3TypeOK, AtStep
<1>2. CASE AddBytes(j)
  <2>1. /\ Cardinality(AtStep("tot")') = Cardinality(AtStep("tot")) + 1
        /\ AtStep("done")' = AtStep("done")
    BY <1>2, AtStepStep DEF AddBytes
  <2>2. ~f.Upload /\ totBytes' = totBytes + Size /\ UNCHANGED <<f, tot>>
    BY <1>2 DEF AddBytes, To, Paths
  <2>3. \A k \in Nat : Size * (tot + (k + 1)) = Size * (tot + k) + Size
    BY <1>1
  <2> QED BY <1>1, <2>1, <2>2, <2>3 DEF Totals
<1>3. CASE AddTot(j)
  <2>1. /\ Cardinality(AtStep("tot")') = Cardinality(AtStep("tot")) - 1
        /\ Cardinality(AtStep("done")') = Cardinality(AtStep("done")) + 1
    BY <1>3, AtStepStep DEF AddTot
  <2>2. tot' = tot + 1 /\ UNCHANGED <<f, totBytes>>
    BY <1>3 DEF AddTot
  <2>3. tot' + Cardinality(AtStep("tot")') = tot + Cardinality(AtStep("tot"))
    BY <1>1, <2>1, <2>2
  <2> QED BY <1>1, <2>1, <2>2, <2>3 DEF Totals
<1>4. CASE Transfer(j) /\ f.Upload
  <2>1. AtStep("done")' = AtStep("done")
    BY <1>4, AtStepStep DEF Transfer
  <2> QED BY <1>4, <2>1 DEF Totals, Transfer
<1>5. CASE CallJob(j) \/ OpenFile(j) \/ TransferFails(j) \/ (Transfer(j) /\ ~f.Upload)
  <2>1. UNCHANGED <<f, totBytes, tot>>
    BY <1>5 DEF CallJob, OpenFile, TransferFails, Transfer
  <2>2. PICK from \in {"idle", "open", "transfer"}, to \in {"open", "transfer", "failed", "bytes"} :
          To(j, from, to) /\ from # to
    BY <1>5 DEF CallJob, OpenFile, TransferFails, Transfer, To
  <2>3. AtStep("tot")' = AtStep("tot") /\ AtStep("done")' = AtStep("done")
    BY <2>2, AtStepStep
  <2> QED BY <2>1, <2>3 DEF Totals
<1> QED BY <1>2, <1>3, <1>4, <1>5 DEF RunJob

\* FileOfSaver is preserved, and the saver opens the file before it is whole.
LEMMA FileStep ==
  ASSUME S3TypeOK, Paths, FileOfSaver, NEW j \in S3Jobs, RunJob(j)
  PROVE  FileOfSaver' /\ (saved = "complete" => saved' = "complete")
<1> USE DEF S3TypeOK, FileOfSaver, To, Saver
<1>1. CASE CallJob(j)
  BY <1>1 DEF CallJob
<1>2. CASE OpenFile(j)
  BY <1>2 DEF OpenFile, Paths
<1>3. CASE Transfer(j)
  BY <1>3 DEF Transfer
<1>4. CASE TransferFails(j)
  BY <1>4 DEF TransferFails
<1>5. CASE AddBytes(j) \/ AddTot(j)
  BY <1>5 DEF AddBytes, AddTot
<1> QED BY <1>1, <1>2, <1>3, <1>4, <1>5 DEF RunJob

-----------------------------------------------------------------------------
\* The invariant of the theorems below.
LEMMA S3Invariant == ASSUME S3JobAssumption PROVE S3Spec => []S3Inv
<1>1. S3Init => S3Inv
  <2> SUFFICES ASSUME S3Init PROVE S3Inv
    OBVIOUS
  <2>1. AtStep("done") = {} /\ AtStep("tot") = {}
    BY DEF S3Init, AtStep
  <2>2. Size * (0 + 0) = 0
    BY DEF S3JobAssumption
  <2>3. Totals
    BY <2>1, <2>2, FS_EmptySet DEF S3Init, Totals
  <2> QED BY <2>3 DEF S3Init, S3Inv, S3TypeOK, Paths, FileOfSaver
<1>2. S3Inv /\ [\E j \in S3Jobs : RunJob(j)]_s3Vars => S3Inv'
  <2> SUFFICES ASSUME S3Inv, [\E j \in S3Jobs : RunJob(j)]_s3Vars PROVE S3Inv'
    OBVIOUS
  <2>1. CASE \E j \in S3Jobs : RunJob(j)
    BY <2>1, S3TypeStep, TotalsStep, FileStep DEF S3Inv
  <2>2. CASE UNCHANGED s3Vars
    BY <2>2 DEF s3Vars, S3Inv, S3TypeOK, Paths, Totals, FileOfSaver, AtStep, Saver
  <2> QED BY <2>1, <2>2
<1> QED BY <1>1, <1>2, PTL DEF S3Spec

\* The variables keep their types.
THEOREM S3_TypeCorrect == ASSUME S3JobAssumption PROVE S3Spec => []S3TypeOK
<1>1. S3Inv => S3TypeOK
  BY DEF S3Inv
<1> QED BY <1>1, S3Invariant, PTL

\* At any moment the bytes that have been counted are those of the downloads that
\* were counted and of some that are under way, whichever failed.
THEOREM Average_Is_Size == ASSUME S3JobAssumption PROVE S3Spec => []AverageIsSize
<1>1. S3Inv => AverageIsSize
  <2> SUFFICES ASSUME S3Inv PROVE AverageIsSize
    OBVIOUS
  <2> DEFINE ahead == Cardinality(AtStep("tot"))
             working == Cardinality(Working)
  <2>1. AtStep("tot") \subseteq Working /\ Working \subseteq S3Jobs
    BY DEF AtStep, Working, Returned
  <2>2. ahead \in Nat /\ working \in Nat /\ ahead <= working
    BY <2>1, FS_Subset, FS_CardinalityType DEF S3JobAssumption
  <2>3. tot \in Nat /\ Size \in Nat
    BY DEF S3JobAssumption, S3Inv, S3TypeOK
  <2>4. /\ tot = Cardinality({j \in S3Jobs : step[j] = "done"})
        /\ totBytes = (IF f.Upload THEN 0 ELSE Size * (tot + ahead))
    BY DEF S3Inv, Totals, AtStep
  <2> HIDE DEF ahead, working
  <2>5. PICK more \in Nat : working = ahead + more
    <3>1. working - ahead \in Nat /\ working = ahead + (working - ahead)
      BY <2>2
    <3> QED BY <3>1
  <2>6. Size * tot <= Size * (tot + ahead)
    <3>1. Size * (tot + ahead) = Size * tot + Size * ahead /\ Size * ahead \in Nat
      BY <2>2, <2>3
    <3> QED BY <2>3, <3>1
  <2>7. Size * (tot + ahead) <= Size * (tot + working)
    <3>1. /\ Size * (tot + working) = Size * (tot + ahead) + Size * more
          /\ Size * more \in Nat /\ Size * (tot + ahead) \in Nat
      BY <2>2, <2>3, <2>5
    <3> QED BY <3>1
  <2> QED BY <2>4, <2>6, <2>7 DEF AverageIsSize, working
<1> QED BY <1>1, S3Invariant, PTL

\* Whenever no job runs the file is whole exactly if the job that saves it
\* succeeded.
THEOREM Saved_By_First == ASSUME S3JobAssumption PROVE S3Spec => []SavedByFirst
<1>1. S3Inv => SavedByFirst
  BY DEF S3Inv, S3TypeOK, FileOfSaver, SavedByFirst, Working, Returned
<1> QED BY <1>1, S3Invariant, PTL

\* A file that is whole stays so, whatever jobs follow.
THEOREM Saved_Stays == ASSUME S3JobAssumption PROVE S3Spec => SavedStays
<1>1. S3Inv /\ [\E j \in S3Jobs : RunJob(j)]_s3Vars
        => [saved = "complete" => saved' = "complete"]_s3Vars
  BY FileStep DEF S3Inv
<1> QED BY <1>1, S3Invariant, PTL DEF S3Spec, SavedStays
=============================================================================
