------------------------------- MODULE S3Job --------------------------------
(***************************************************************************)
(* s3.jobProducer: jobs that download or upload one entry, the totals they *)
(* share, and the local file that the job numbered 0 saves the entry to.   *)
(***************************************************************************)
EXTENDS Integers, FiniteSets

CONSTANTS
  S3Jobs,     \* numbers of the jobs
  AtOnce,     \* jobs the caller runs at once
  Size,       \* bytes of the entry
  S3Failures  \* the calls that may return an error

\* A module that takes the jobs from this one assumes it.
S3JobAssumption ==
  IsFiniteSet(S3Jobs) /\ Size \in Nat /\ S3Failures \subseteq {"open", "transfer"}

VARIABLES
  f,              \* Flags: Save and Upload given or not
  step,           \* of every job
  totBytes, tot,  \* as in the code
  saved           \* the file of --save

s3Vars == <<f, step, totBytes, tot, saved>>

Returned == {"done", "failed"}
Working == {j \in S3Jobs : step[j] \notin Returned \cup {"idle"}}

S3Init ==
  /\ f \in [Save : BOOLEAN, Upload : BOOLEAN]
  /\ step = [j \in S3Jobs |-> "idle"]
  /\ totBytes = 0 /\ tot = 0
  /\ saved = "absent"

To(j, from, to) == step[j] = from /\ step' = [step EXCEPT ![j] = to]

\* Faulty variant of Saver: every job saves the entry.
SaverAny(j) == f.Save /\ ~f.Upload

Saver(j) == j = 0 /\ f.Save /\ ~f.Upload

CallJob(j) ==
  /\ Cardinality(Working) < AtOnce
  /\ To(j, "idle", IF f.Upload \/ Saver(j) THEN "open" ELSE "transfer")
  /\ UNCHANGED <<f, totBytes, tot, saved>>

\* os.Open for an upload; os.Create, which truncates, for the saver.
OpenFile(j) ==
  /\ \/ To(j, "open", "transfer") /\ saved' = (IF f.Upload THEN saved ELSE "partial")
     \/ "open" \in S3Failures /\ To(j, "open", "failed") /\ UNCHANGED saved
  /\ UNCHANGED <<f, totBytes, tot>>

\* The parts of the entry arrive in any order: a transfer that fails leaves some
\* of them in the file.
Transfer(j) ==
  /\ To(j, "transfer", IF f.Upload THEN "tot" ELSE "bytes")
  /\ saved' = (IF Saver(j) THEN "complete" ELSE saved)
  /\ UNCHANGED <<f, totBytes, tot>>

\* Faulty variant of TransferFails: what had arrived is counted.
TransferFailsCounted(j) ==
  /\ "transfer" \in S3Failures
  /\ To(j, "transfer", "failed")
  /\ totBytes' = totBytes + 1
  /\ UNCHANGED <<f, tot, saved>>

TransferFails(j) ==
  /\ "transfer" \in S3Failures
  /\ To(j, "transfer", "failed")
  /\ UNCHANGED <<f, totBytes, tot, saved>>

AddBytes(j) ==
  /\ To(j, "bytes", "tot")
  /\ totBytes' = totBytes + Size
  /\ UNCHANGED <<f, tot, saved>>

AddTot(j) ==
  /\ To(j, "tot", "done")
  /\ tot' = tot + 1
  /\ UNCHANGED <<f, totBytes, saved>>

RunJob(j) ==
  \/ CallJob(j) \/ OpenFile(j) \/ Transfer(j) \/ TransferFails(j)
  \/ AddBytes(j) \/ AddTot(j)

S3Spec == S3Init /\ [][\E j \in S3Jobs : RunJob(j)]_s3Vars

-----------------------------------------------------------------------------
(* Properties.                                                             *)

S3TypeOK ==
  /\ f \in [Save : BOOLEAN, Upload : BOOLEAN]
  /\ step \in [S3Jobs -> {"idle", "open", "transfer", "bytes", "tot"} \cup Returned]
  /\ totBytes \in Nat /\ tot \in Nat
  /\ saved \in {"absent", "partial", "complete"}

\* Total and count, whose quotient String prints as the average, agree to the
\* downloads that are under way, whichever failed: the report may come before the
\* last job.  A download that is counted has its bytes in the total, and a total of
\* whole entries has no more than those of jobs at work.  When no job works, the
\* average is the size of the entry and nothing is divided by zero.
AverageIsSize ==
  LET entries(k) == IF f.Upload THEN 0 ELSE Size * k IN
  /\ entries(tot) <= totBytes
  /\ totBytes <= entries(tot + Cardinality(Working))
  /\ Working = {} => tot = Cardinality({j \in S3Jobs : step[j] = "done"})

\* The file is whole exactly if the job that saves it succeeded; other jobs do
\* not touch it.
SavedByFirst ==
  Working = {} =>
    (saved = "complete" <=> \E j \in S3Jobs : Saver(j) /\ step[j] = "done")

\* Once whole the file stays so while other jobs download the same entry.
SavedStays == [][saved = "complete" => saved' = "complete"]_s3Vars
=============================================================================
