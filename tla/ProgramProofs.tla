--------------------------- MODULE ProgramProofs ----------------------------
(***************************************************************************)
(* Theorems about Program, for every value of the constants: what was      *)
(* proved of the fasthttp and S3 producers holds of the commands that run  *)
(* their jobs, and a run has the limits that its user gave.                *)
(***************************************************************************)
EXTENDS Program, FastHTTPProofs

\* The theorems about the S3 producer.
SP == INSTANCE S3Proofs WITH S3Jobs <- Jobs, AtOnce <- Concurrency

-----------------------------------------------------------------------------
(* The producers.                                                          *)

\* The action of a command leaves the producers as they were made.
LEMMA CommandFrame ==
  ASSUME RunCurl \/ RunS3 \/ PrintSize \/ PrintSample \/ End
  PROVE  UNCHANGED vars /\ UNCHANGED s3Vars
BY DEF RunCurl, RunS3, RunCommand, PrintSize, PrintSample, End, allVars

\* A step of the program is one of the fasthttp producer, or changes nothing there.
LEMMA FastStep == [ProgramNext]_allVars => [Next]_vars
<1> SUFFICES ASSUME [ProgramNext]_allVars PROVE [Next]_vars
  OBVIOUS
<1>1. CASE RunCurl \/ RunS3 \/ PrintSize \/ PrintSample \/ End
  BY <1>1, CommandFrame
<1>2. ASSUME NEW j \in Jobs, FastJob(j) \/ Transfer(j)
      PROVE  [Next]_vars
  BY <1>2 DEF FastJob, Transfer, Next
<1>3. CASE UNCHANGED allVars
  BY <1>3 DEF allVars
<1> QED
  BY <1>1, <1>2, <1>3 DEF ProgramNext

\* The definitions that the theorems about the S3 producer were proved from.
LEMMA SameTransfer == ASSUME NEW j \in Jobs PROVE S3!RunJob(j) => SP!RunJob(j)
<1> USE DEF S3!To, SP!To, S3!Saver, SP!Saver
<1>1. S3!CallJob(j) => SP!CallJob(j)
  BY DEF S3!CallJob, SP!CallJob, S3!Working, SP!Working, S3!Returned, SP!Returned,
     S3!Cardinality, SP!Cardinality, S3!IsFiniteSet, SP!IsFiniteSet
<1>2. S3!OpenFile(j) => SP!OpenFile(j)
  BY DEF S3!OpenFile, SP!OpenFile
<1>3. /\ S3!Transfer(j) => SP!Transfer(j)
      /\ S3!TransferFails(j) => SP!TransferFails(j)
  BY DEF S3!Transfer, SP!Transfer, S3!TransferFails, SP!TransferFails
<1>4. /\ S3!AddBytes(j) => SP!AddBytes(j)
      /\ S3!AddTot(j) => SP!AddTot(j)
  BY DEF S3!AddBytes, SP!AddBytes, S3!AddTot, SP!AddTot
<1> QED
  BY <1>1, <1>2, <1>3, <1>4 DEF S3!RunJob, SP!RunJob

\* A step of the program is one of the S3 producer, or changes nothing there.
LEMMA S3Step == [ProgramNext]_allVars => [\E j \in Jobs : SP!RunJob(j)]_SP!s3Vars
<1> SUFFICES ASSUME [ProgramNext]_allVars
             PROVE  (\E j \in Jobs : SP!RunJob(j)) \/ UNCHANGED s3Vars
  BY DEF s3Vars, SP!s3Vars
<1>1. CASE RunCurl \/ RunS3 \/ PrintSize \/ PrintSample \/ End
  BY <1>1, CommandFrame
<1>2. ASSUME NEW j \in Jobs, FastJob(j) \/ Transfer(j)
      PROVE  SP!RunJob(j) \/ UNCHANGED s3Vars
  BY <1>2, SameTransfer DEF FastJob, Transfer
<1>3. CASE UNCHANGED allVars
  BY <1>3 DEF allVars
<1> QED
  BY <1>1, <1>2, <1>3 DEF ProgramNext

\* Under a command the fasthttp producer behaves as it does alone.
LEMMA RunsFast == ProgramSpec => Spec
<1>1. ProgramInit => Init
  BY DEF ProgramInit
<1> QED
  BY <1>1, FastStep, PTL DEF ProgramSpec, Spec

\* And so does the S3 producer.
LEMMA RunsS3 == ProgramSpec => SP!S3Spec
<1>1. ProgramInit => SP!S3Init
  BY DEF ProgramInit, S3!S3Init, SP!S3Init
<1> QED
  BY <1>1, S3Step, PTL DEF ProgramSpec, SP!S3Spec

LEMMA S3Constants == SP!S3JobAssumption
BY ProgramAssumption DEF S3!S3JobAssumption, SP!S3JobAssumption, S3!IsFiniteSet,
   SP!IsFiniteSet

-----------------------------------------------------------------------------
(* The theorems about the producers, of the program.                       *)

\* The variables of both producers keep their types.
THEOREM Program_TypeCorrect == ProgramSpec => []ProgramTypeOK
<1>1. SP!S3TypeOK => S3!S3TypeOK
  BY DEF SP!S3TypeOK, S3!S3TypeOK, SP!Returned, S3!Returned
<1>2. SP!S3Spec => []SP!S3TypeOK
  BY S3Constants, SP!S3_TypeCorrect
<1> QED
  BY <1>1, <1>2, RunsFast, RunsS3, Fast_TypeCorrect, PTL DEF ProgramTypeOK

\* Whatever command runs, response objects are neither shared nor lost, the report
\* is complete, samples stay, and they are intact while their jobs are in flight.
THEOREM Program_Fast ==
  ProgramSpec => /\ []PoolBalanced /\ []ReportComplete
                 /\ SamplesStay /\ []SampleIntactAtFirst
BY RunsFast, Pool_Balanced, Fast_Report_Complete, Fast_Samples_Stay,
   Sample_Intact_At_First, PTL

\* The totals that the S3 report divides agree to the downloads under way, also in a
\* run that was stopped early or some of whose jobs failed.
THEOREM Program_AverageIsSize == ProgramSpec => []AverageIsSize
<1>1. SP!AverageIsSize => AverageIsSize
  BY DEF SP!AverageIsSize, AverageIsSize, S3!AverageIsSize, SP!Working, S3!Working,
     SP!Returned, S3!Returned, SP!Cardinality, S3!Cardinality, SP!IsFiniteSet,
     S3!IsFiniteSet
<1>2. SP!S3Spec => []SP!AverageIsSize
  BY S3Constants, SP!Average_Is_Size
<1> QED
  BY <1>1, <1>2, RunsS3, PTL

\* Whenever no job runs, the file of --save is whole exactly if the first job
\* succeeded.
THEOREM Program_SavedByFirst == ProgramSpec => []SavedByFirst
<1>1. SP!SavedByFirst => SavedByFirst
  BY DEF SP!SavedByFirst, SavedByFirst, S3!SavedByFirst, SP!Working, S3!Working,
     SP!Returned, S3!Returned, SP!Saver, S3!Saver
<1>2. SP!S3Spec => []SP!SavedByFirst
  BY S3Constants, SP!Saved_By_First
<1> QED
  BY <1>1, <1>2, RunsS3, PTL

\* A saved file that is whole is not touched again.
THEOREM Program_SavedStays == ProgramSpec => SavedStays
<1>1. SP!S3Spec => SP!SavedStays
  BY S3Constants, SP!Saved_Stays
<1>2. [saved = "complete" => saved' = "complete"]_SP!s3Vars
        => [saved = "complete" => saved' = "complete"]_S3!s3Vars
  BY DEF SP!s3Vars, S3!s3Vars
<1> QED
  BY <1>1, <1>2, RunsS3, PTL DEF SavedStays, S3!SavedStays, SP!SavedStays

-----------------------------------------------------------------------------
(* The limits of a run.                                                    *)

LimitsGiven == lf \in Loads \cup {NoLimits}

\* Flags.Prepare replaces what the user gave only if that was nothing.
LEMMA PrepareKeeps == LimitsGiven => LoadAsGiven
<1> SUFFICES ASSUME LimitsGiven PROVE LoadAsGiven
  OBVIOUS
<1>1. /\ lf.Number \in Nat /\ lf.Duration \in Nat
      /\ lf = [Number |-> lf.Number, Duration |-> lf.Duration]
  <2>1. CASE lf = NoLimits
    BY <2>1 DEF NoLimits
  <2>2. CASE lf \in Loads
    BY <2>2, ProgramAssumption DEF Loads
  <2> QED
    BY <2>1, <2>2 DEF LimitsGiven
<1>2. CASE lf = NoLimits
  <2>1. ~(lf.Number > 0) /\ ~(lf.Duration > 0)
    BY <1>2 DEF NoLimits
  <2> QED
    BY <1>1, <2>1 DEF LoadAsGiven
<1>3. CASE lf # NoLimits
  BY <1>1, <1>3 DEF LoadAsGiven, Limits, Prepared, NoLimits
<1> QED
  BY <1>2, <1>3

\* A run is limited by what its user gave, and by no default beside it.
THEOREM Load_As_Given == ProgramSpec => []LoadAsGiven
<1>1. ProgramInit => LimitsGiven
  BY DEF ProgramInit, LimitsGiven
<1>2. LimitsGiven /\ [ProgramNext]_allVars => LimitsGiven'
  <2> SUFFICES ASSUME LimitsGiven, [ProgramNext]_allVars PROVE LimitsGiven'
    OBVIOUS
  <2>1. lf' \in {lf, NoLimits}
    BY DEF ProgramNext, RunCurl, RunS3, RunCommand, FastJob, Transfer, PrintSize,
       PrintSample, End, inputVars, allVars
  <2> QED
    BY <2>1 DEF LimitsGiven
<1> QED
  BY <1>1, <1>2, PrepareKeeps, PTL DEF ProgramSpec

-----------------------------------------------------------------------------
(* Printed sizes.                                                          *)

\* Each unit is KILOBYTE of the one before.
LEMMA UnitSizes ==
  /\ \A u \in 1 .. 7 : Sizes[u] \in Nat \ {0}
  /\ \A u \in 1 .. 6 : Sizes[u + 1] = KILOBYTE * Sizes[u]
  /\ Sizes[1] = 1
<1>1. KILOBYTE \in Nat \ {0}
  BY ReportAssumption
<1>2. \A m \in Nat \ {0} : KILOBYTE * m \in Nat \ {0}
  BY <1>1
<1>3. MEGABYTE \in Nat \ {0}
  BY <1>1, <1>2 DEF MEGABYTE
<1>4. GIGABYTE \in Nat \ {0}
  BY <1>2, <1>3 DEF GIGABYTE
<1>5. TERABYTE \in Nat \ {0}
  BY <1>2, <1>4 DEF TERABYTE
<1>6. PETABYTE \in Nat \ {0}
  BY <1>2, <1>5 DEF PETABYTE
<1>7. EXABYTE \in Nat \ {0}
  BY <1>2, <1>6 DEF EXABYTE
<1>8. \A u \in 1 .. 7 : Sizes[u] \in Nat \ {0}
  BY <1>1, <1>3, <1>4, <1>5, <1>6, <1>7 DEF Sizes
<1>9. \A u \in 1 .. 6 : Sizes[u + 1] = KILOBYTE * Sizes[u]
  <2>1. \A u \in 1 .. 6 : u = 1 \/ u = 2 \/ u = 3 \/ u = 4 \/ u = 5 \/ u = 6
    OBVIOUS
  <2>2. KILOBYTE = KILOBYTE * 1
    BY <1>1
  <2> QED
    BY <2>1, <2>2 DEF Sizes, MEGABYTE, GIGABYTE, TERABYTE, PETABYTE, EXABYTE
<1> QED
  BY <1>8, <1>9 DEF Sizes

\* Some unit always fits.
LEMMA UnitFits ==
  ASSUME NEW b \in Nat
  PROVE  /\ UnitOf(b) \in 1 .. 7
         /\ UnitOf(b) = 1 \/ b >= Sizes[UnitOf(b)]
         /\ UnitOf(b) = 7 \/ b < Sizes[UnitOf(b) + 1]
<1>1. DOMAIN Units = 1 .. 7 /\ Len(Units) = 7
  BY DEF Units
<1>2. \E u \in 1 .. 7 : (u = 1 \/ b >= Sizes[u]) /\ (u = 7 \/ b < Sizes[u + 1])
  <2>1. \A u \in 1 .. 7 : b >= Sizes[u] \/ b < Sizes[u]
    BY UnitSizes
  <2> QED
    BY <2>1
<1> QED
  BY <1>1, <1>2 DEF UnitOf

\* Division with a rest.
LEMMA Division ==
  ASSUME NEW a \in Nat, NEW d \in Nat \ {0}
  PROVE  /\ a \div d \in Nat /\ a % d \in Nat /\ a % d < d
         /\ a = d * (a \div d) + (a % d)
OBVIOUS

\* One more in the last digit.
LEMMA TenDigits ==
  ASSUME NEW w \in Nat, NEW d \in 0 .. 9
  PROVE  (10 * w + d) \div 10 = w /\ (10 * w + d) % 10 = d
OBVIOUS

\* The rounding of FormatFloat: ten tenths make the next unit.
LEMMA TenthsClose ==
  ASSUME NEW b \in Nat, NEW size \in Nat \ {0}
  PROVE  LET t == Tenths(b, size)
             error == 10 * (b \div size - t \div 10) * size + 10 * (b % size)
                        - (t % 10) * size
         IN  /\ t \in Nat /\ t >= 10 * (b \div size) /\ t <= 10 * (b \div size) + 10
             /\ -size <= 2 * error /\ 2 * error <= size
<1> DEFINE q == b \div size
           r == b % size
           d == (10 * r) \div size
           e == (10 * r) % size
           t == Tenths(b, size)
           error == 10 * (q - t \div 10) * size + 10 * r - (t % 10) * size
<1>1. q \in Nat /\ r \in Nat /\ r < size
  BY Division
<1>2. 10 * r \in Nat
  BY <1>1
<1>3. d \in Nat /\ e \in Nat /\ e < size /\ 10 * r = size * d + e
  BY <1>2, Division
<1>4. \/ t = 10 * q + d /\ 2 * e <= size
      \/ t = 10 * q + d + 1 /\ 2 * e >= size
  <2>1. t = IF 2 * e > size \/ (2 * e = size /\ (10 * q + d) % 2 = 1)
              THEN 10 * q + d + 1 ELSE 10 * q + d
    BY DEF Tenths
  <2> HIDE DEF t, q, d, e
  <2> QED
    BY <1>1, <1>3, <2>1
<1> HIDE DEF q, r, d, e, t
<1>5. d \in 0 .. 9
  <2>1. ASSUME d >= 10 PROVE FALSE
    <3>1. PICK m \in Nat : d = 10 + m
      <4>1. d - 10 \in Nat /\ d = 10 + (d - 10)
        BY <1>3, <2>1
      <4> QED BY <4>1
    <3>2. size * d = 10 * size + size * m /\ size * m \in Nat
      BY <3>1
    <3> QED BY <1>1, <1>3, <3>2
  <2> QED BY <1>3, <2>1
<1>6. CASE t = 10 * q + d /\ 2 * e <= size
  <2>1. t \div 10 = q /\ t % 10 = d
    BY <1>1, <1>5, <1>6, TenDigits
  <2>2. error = e
    BY <1>1, <1>3, <2>1
  <2> QED
    BY <1>1, <1>3, <1>5, <1>6, <2>2 DEF q, r, t
<1>7. CASE t = 10 * q + d + 1 /\ 2 * e >= size
  <2>1. error = e - size
    <3>1. CASE d < 9
      <4>1. d + 1 \in 0 .. 9 /\ t = 10 * q + (d + 1)
        BY <1>1, <1>5, <1>7, <3>1
      <4>2. t \div 10 = q /\ t % 10 = d + 1
        BY <1>1, <4>1, TenDigits
      <4>3. size * (d + 1) = size * d + size
        BY <1>3
      <4> QED
        BY <1>1, <1>3, <4>2, <4>3
    <3>2. CASE d = 9
      <4>1. q + 1 \in Nat /\ t = 10 * (q + 1) + 0
        BY <1>1, <1>7, <3>2
      <4>2. t \div 10 = q + 1 /\ t % 10 = 0
        BY <4>1, TenDigits
      <4> QED
        BY <1>1, <1>3, <3>2, <4>2
    <3> QED
      BY <1>5, <3>1, <3>2
  <2> QED
    BY <1>1, <1>3, <1>5, <1>7, <2>1 DEF q, r, t
<1> QED
  BY <1>4, <1>6, <1>7

\* Every number of bytes is printed to half of the last digit, in a unit that is
\* neither too small nor too large for it.
LEMMA SizeClose == ASSUME NEW b \in Nat PROVE SizeIsClose(b)
<1> DEFINE u == UnitOf(b)
           size == Sizes[u]
           t == Tenths(b, size)
           q == b \div size
<1>1. /\ u \in 1 .. 7 /\ (u = 1 \/ b >= size) /\ (u = 7 \/ b < Sizes[u + 1])
  BY UnitFits
<1> HIDE DEF u
<1>2. size \in Nat \ {0} /\ (u = 1 => size = 1)
  BY <1>1, UnitSizes
<1>3. u < 7 => Sizes[u + 1] = KILOBYTE * size
  BY <1>1, UnitSizes
<1> HIDE DEF size
<1>4. q \in Nat /\ b = size * q + (b % size) /\ b % size \in Nat /\ b % size < size
  BY <1>2, Division
<1>5. t \in Nat /\ t >= 10 * q /\ t <= 10 * q + 10
  BY <1>2, TenthsClose
<1>6. ASSUME u < 7 PROVE t <= 10 * KILOBYTE
  <2>1. size * q < size * KILOBYTE /\ KILOBYTE \in Nat
    BY <1>1, <1>2, <1>3, <1>4, <1>6, ReportAssumption
  <2>2. ASSUME q >= KILOBYTE PROVE FALSE
    <3>1. q - KILOBYTE \in Nat /\ q = KILOBYTE + (q - KILOBYTE)
      BY <1>4, <2>1, <2>2
    <3>2. size * q = size * KILOBYTE + size * (q - KILOBYTE) /\ size * (q - KILOBYTE) >= 0
      BY <1>2, <2>1, <3>1
    <3> QED BY <1>2, <1>4, <2>1, <3>2
  <2> QED BY <1>4, <1>5, <2>1, <2>2
<1>7. ASSUME b > 0 PROVE t >= 10
  <2>1. b >= size
    BY <1>1, <1>2, <1>7
  <2>2. q # 0
    BY <1>2, <1>4, <2>1
  <2> QED BY <1>4, <1>5, <2>2
<1>8. Len(Units) = 7
  BY DEF Units
<1>9. ByteSize(b) = [tenths |-> t, unit |-> u]
  BY DEF ByteSize, t, size, u
<1> DEFINE error == 10 * (q - t \div 10) * size + 10 * (b % size) - (t % 10) * size
<1>10. -size <= 2 * error /\ 2 * error <= size
  BY <1>2, TenthsClose
<1> HIDE DEF t
<1> QED
  BY <1>6, <1>7, <1>8, <1>9, <1>10 DEF SizeIsClose, size

SizeKnown == bytes \in Nat

\* A printed size is the number of bytes, to half of its last digit.
THEOREM Sizes_Close == ProgramSpec => []SizesClose
<1>1. ProgramInit => SizeKnown
  BY DEF ProgramInit, SizeKnown
<1>2. SizeKnown /\ [ProgramNext]_allVars => SizeKnown'
  BY ProgramAssumption
  DEF SizeKnown, ProgramNext, RunCurl, RunS3, RunCommand, FastJob, Transfer, PrintSize,
      PrintSample, End, printVars, allVars
<1>3. SizeKnown => SizesClose
  BY SizeClose DEF SizeKnown, SizesClose
<1> QED
  BY <1>1, <1>2, <1>3, PTL DEF ProgramSpec
-----------------------------------------------------------------------------
(* Printed samples.                                                        *)

EF == INSTANCE FoldProofs WITH Op <- Encode

\* The bytes of a body are those of its characters, one after the other.
LEMMA BytesAppend ==
  /\ Bytes(<<>>) = <<>>
  /\ \A b \in Seq(Nat), w \in Nat : Bytes(Append(b, w)) = Encode(Bytes(b), w)
<1>1. \A b : Bytes(b) = EF!Fold(<<>>, b)
  BY DEF Bytes, EF!Fold, EF!FoldLeft, FoldLeft, EF!MapThenFoldSet, MapThenFoldSet,
     EF!Max, Max
<1> QED
  BY <1>1, EF!FoldEmpty, EF!FoldAppend

\* bt is bs and the size bytes of one character more.
More(bs, bt, w, len, size) ==
  /\ bt \in Seq(Int) /\ len \in Nat /\ len = Len(bs)
  /\ size \in Nat \ {0} /\ (w # 0 => size = w) /\ (w = 0 => size = 1)
  /\ Len(bt) = len + size
  /\ \A p \in 1 .. len : bt[p] = bs[p]
  /\ bt[len + 1] = w
  /\ \A p \in len + 2 .. len + size : bt[p] = -1

LEMMA EncodeIs ==
  ASSUME NEW bs \in Seq(Int), NEW w \in Nat
  PROVE  \E len, size : More(bs, Encode(bs, w), w, len, size)
<1> DEFINE rest == [k \in 1 .. w - 1 |-> -1]
           size == IF w = 0 THEN 1 ELSE w
<1>1. rest \in Seq(Int) /\ Len(rest) = size - 1
  <2>1. CASE w = 0
    <3>1. 1 .. w - 1 = 1 .. 0
      BY <2>1
    <3>2. rest = [k \in 1 .. 0 |-> -1]
      BY <3>1
    <3> QED
      BY <2>1, <3>2
  <2>2. CASE w # 0
    BY <2>2
  <2> QED
    BY <2>1, <2>2
<1>2. \A k \in 1 .. Len(rest) : rest[k] = -1
  <2>1. DOMAIN rest = 1 .. w - 1 /\ \A k \in DOMAIN rest : rest[k] = -1
    OBVIOUS
  <2> HIDE DEF rest
  <2>2. DOMAIN rest = 1 .. Len(rest)
    BY <1>1
  <2> QED
    BY <2>1, <2>2
<1>3. size \in Nat \ {0} /\ (w # 0 => size = w) /\ (w = 0 => size = 1)
  OBVIOUS
<1>4. Encode(bs, w) = bs \o <<w>> \o rest
  BY DEF Encode
<1> HIDE DEF rest, size
<1>5. /\ Encode(bs, w) \in Seq(Int)
      /\ Len(Encode(bs, w)) = Len(bs) + size
  <2>1. /\ bs \o <<w>> \in Seq(Int) /\ Len(bs \o <<w>>) = Len(bs) + 1
        /\ Len(bs) \in Nat
    OBVIOUS
  <2>2. /\ (bs \o <<w>>) \o rest \in Seq(Int)
        /\ Len((bs \o <<w>>) \o rest) = Len(bs \o <<w>>) + Len(rest)
    BY <1>1, <2>1
  <2>3. /\ Encode(bs, w) \in Seq(Int)
        /\ Len(Encode(bs, w)) = Len(bs \o <<w>>) + Len(rest)
    BY <1>4, <2>2, Zenon
  <2>4. Len(bs) + 1 + (size - 1) = Len(bs) + size
    BY <1>3, <2>1
  <2> QED
    BY <1>1, <2>1, <2>3, <2>4, Zenon
<1>6. /\ \A p \in 1 .. Len(bs) : Encode(bs, w)[p] = bs[p]
      /\ Encode(bs, w)[Len(bs) + 1] = w
  BY <1>1, <1>4
<1>7. \A p \in Len(bs) + 2 .. Len(bs) + size : Encode(bs, w)[p] = -1
  BY <1>1, <1>2, <1>3, <1>4
<1>8. More(bs, Encode(bs, w), w, Len(bs), size)
  BY <1>3, <1>5, <1>6, <1>7 DEF More
<1> QED
  BY <1>8

\* What a whole number of characters is: the first m bytes are those of the first
\* k of b, among which there is no byte outside a character.
Whole(b, m, k) ==
  /\ SubSeq(Bytes(b), 1, m) = Bytes(SubSeq(b, 1, k))
  /\ \A p \in 1 .. k : b[p] # 0
  /\ k < Len(b) <=> m < Len(Bytes(b))

\* A prefix that is valid is one of characters.
PrefixesAreWhole(b) ==
  \A m \in 0 .. Len(Bytes(b)) :
    Valid(SubSeq(Bytes(b), 1, m)) => \E k \in 0 .. Len(b) : Whole(b, m, k)

\* The induction over a body: what its bytes are, and what their prefixes are.
Sampled(b) ==
  /\ Bytes(b) \in Seq(Int)
  /\ (\A p \in DOMAIN Bytes(b) : Bytes(b)[p] # 0) => \A p \in DOMAIN b : b[p] # 0
  /\ (\A p \in DOMAIN b : b[p] # 0) => Valid(Bytes(b))
  /\ PrefixesAreWhole(b)

\* With one character more a valid text stays one, if the character is one; and a
\* prefix that ends within it is not valid.
LEMMA ValidMore ==
  ASSUME NEW bs \in Seq(Int), NEW bt, NEW w \in Nat, NEW len, NEW size,
         More(bs, bt, w, len, size)
  PROVE  /\ (\A p \in DOMAIN bt : bt[p] # 0)
              => w # 0 /\ \A p \in DOMAIN bs : bs[p] # 0
         /\ Valid(bs) /\ w # 0 => Valid(bt)
         /\ \A m \in 0 .. len : SubSeq(bt, 1, m) = SubSeq(bs, 1, m)
         /\ \A m \in len + 1 .. len + size :
              Valid(SubSeq(bt, 1, m)) => m = len + size /\ Valid(bt)
<1> USE DEF More
<1>1. /\ DOMAIN bs = 1 .. len /\ DOMAIN bt = 1 .. len + size
      /\ \A p \in 1 .. len : bs[p] \in Int
  OBVIOUS
<1>2. (\A p \in DOMAIN bt : bt[p] # 0) => w # 0 /\ \A p \in DOMAIN bs : bs[p] # 0
  BY <1>1
<1>3. ASSUME Valid(bs), w # 0
      PROVE  Valid(bt)
  <2> SUFFICES ASSUME NEW p \in 1 .. len + size
               PROVE  bt[p] # 0 /\ (bt[p] > 1 => p + bt[p] - 1 <= len + size)
    BY <1>1 DEF Valid
  <2>1. CASE p \in 1 .. len
    <3>1. bs[p] # 0 /\ (bs[p] > 1 => p + bs[p] - 1 <= len) /\ bs[p] \in Int
      BY <1>1, <1>3, <2>1 DEF Valid
    <3>2. bt[p] = bs[p]
      BY <2>1
    <3> QED
      BY <3>1, <3>2
  <2>2. CASE p = len + 1
    BY <1>3, <2>2
  <2>3. CASE p \in len + 2 .. len + size
    <3>1. bt[p] = -1
      BY <2>3
    <3> QED
      BY <3>1
  <2> QED
    BY <2>1, <2>2, <2>3
<1>4. \A m \in 0 .. len : SubSeq(bt, 1, m) = SubSeq(bs, 1, m)
  OBVIOUS
<1>5. ASSUME NEW m \in len + 1 .. len + size, Valid(SubSeq(bt, 1, m))
      PROVE  m = len + size /\ Valid(bt)
  <2>1. PICK head : head = SubSeq(bt, 1, m)
    OBVIOUS
  <2>2. head \in Seq(Int) /\ Len(head) = m /\ \A p \in 1 .. m : head[p] = bt[p]
    BY <2>1
  <2>3. DOMAIN head = 1 .. m /\ len + 1 \in 1 .. m /\ head[len + 1] = w
    BY <2>2
  <2>4. w # 0 /\ (w > 1 => len + 1 + w - 1 <= m)
    BY <1>5, <2>1, <2>2, <2>3 DEF Valid
  <2>5. m = len + size
    <3>1. len \in Nat /\ size = w /\ w \in Nat \ {0}
      BY <2>4
    <3>2. m \in Int /\ m >= len + 1 /\ m <= len + w
      BY <3>1
    <3> HIDE DEF More
    <3> QED
      BY <2>4, <3>1, <3>2
  <2>6. SubSeq(bt, 1, len + size) = bt
    OBVIOUS
  <2> QED
    BY <1>5, <2>5, <2>6
<1> QED
  BY <1>2, <1>3, <1>4, <1>5

\* The step of the induction.
LEMMA SampledAppend ==
  ASSUME NEW b \in Seq(Nat), NEW w \in Nat, Sampled(b)
  PROVE  Sampled(Append(b, w))
<1>1. \E t \in Seq(Nat) : t = Append(b, w)
  <2>1. Append(b, w) \in Seq(Nat)
    OBVIOUS
  <2> QED
    BY <2>1
<1>2. PICK t \in Seq(Nat) : t = Append(b, w)
  BY <1>1
<1>3. /\ Len(t) = Len(b) + 1 /\ t[Len(b) + 1] = w
      /\ \A p \in 1 .. Len(b) : t[p] = b[p]
      /\ DOMAIN b = 1 .. Len(b) /\ DOMAIN t = 1 .. Len(t) /\ Len(b) \in Nat
  BY <1>2
<1>4. PICK bs \in Seq(Int) : bs = Bytes(b)
  BY DEF Sampled
<1>5. PICK bt : bt = Bytes(t)
  OBVIOUS
<1>6. PICK len, size : More(bs, bt, w, len, size)
  <2>1. bt = Encode(bs, w)
    BY <1>2, <1>4, <1>5, BytesAppend
  <2> QED
    BY <2>1, EncodeIs
<1>7. bt \in Seq(Int) /\ len \in Nat /\ len = Len(bs) /\ Len(bt) = len + size /\ size \in Nat \ {0}
  BY <1>6 DEF More
<1>8. /\ (\A p \in DOMAIN bt : bt[p] # 0)
           => w # 0 /\ \A p \in DOMAIN bs : bs[p] # 0
      /\ Valid(bs) /\ w # 0 => Valid(bt)
      /\ \A m \in 0 .. len : SubSeq(bt, 1, m) = SubSeq(bs, 1, m)
      /\ \A m \in len + 1 .. len + size :
           Valid(SubSeq(bt, 1, m)) => m = len + size /\ Valid(bt)
  BY <1>6, ValidMore
<1>9. (\A p \in DOMAIN bt : bt[p] # 0) => \A p \in 1 .. Len(t) : t[p] # 0
  <2>1. (\A p \in DOMAIN bs : bs[p] # 0) => \A p \in 1 .. Len(b) : b[p] # 0
    BY <1>3, <1>4 DEF Sampled
  <2>2. w # 0 /\ (\A p \in 1 .. Len(b) : b[p] # 0) => \A p \in 1 .. Len(t) : t[p] # 0
    <3>1. \A p \in 1 .. Len(t) : p \in 1 .. Len(b) \/ p = Len(b) + 1
      BY <1>3
    <3> QED
      BY <1>3, <3>1
  <2> QED
    BY <1>8, <2>1, <2>2
<1>10. (\A p \in 1 .. Len(t) : t[p] # 0) => Valid(bt)
  <2>1. (\A p \in 1 .. Len(t) : t[p] # 0) => w # 0 /\ \A p \in DOMAIN b : b[p] # 0
    BY <1>3
  <2>2. (\A p \in DOMAIN b : b[p] # 0) => Valid(bs)
    BY <1>4 DEF Sampled
  <2> QED
    BY <1>8, <2>1, <2>2
<1>11. ASSUME NEW m \in 0 .. len + size, Valid(SubSeq(bt, 1, m))
       PROVE  \E k \in 0 .. Len(t) : Whole(t, m, k)
  <2>1. CASE m \in 0 .. len
    <3>1. SubSeq(bt, 1, m) = SubSeq(bs, 1, m)
      BY <1>8, <2>1
    <3>2. PICK k \in 0 .. Len(b) : Whole(b, m, k)
      BY <1>4, <1>7, <1>11, <2>1, <3>1 DEF Sampled, PrefixesAreWhole
    <3>3. SubSeq(t, 1, k) = SubSeq(b, 1, k)
      BY <1>3
    <3>4. k < Len(t) /\ m < len + size /\ k \in 0 .. Len(t)
      BY <1>3, <1>7, <2>1
    <3>5. \A p \in 1 .. k : t[p] # 0
      BY <1>3, <3>2 DEF Whole
    <3>6. SubSeq(Bytes(t), 1, m) = Bytes(SubSeq(t, 1, k))
      BY <1>4, <1>5, <3>1, <3>2, <3>3 DEF Whole
    <3>7. Whole(t, m, k)
      BY <1>5, <1>7, <3>4, <3>5, <3>6 DEF Whole
    <3> QED
      BY <3>4, <3>7
  <2>2. CASE m \in len + 1 .. len + size
    <3>1. m = len + size /\ Valid(bt)
      BY <1>8, <1>11, <2>2
    <3>2. SubSeq(t, 1, Len(t)) = t /\ SubSeq(bt, 1, m) = bt
      BY <1>7, <3>1
    <3>3. \A p \in 1 .. Len(t) : t[p] # 0
      BY <1>9, <3>1 DEF Valid
    <3>4. ~(Len(t) < Len(t)) /\ ~(m < Len(bt)) /\ Len(t) \in 0 .. Len(t)
      BY <1>3, <1>7, <3>1
    <3>5. Whole(t, m, Len(t))
      BY <1>5, <3>2, <3>3, <3>4 DEF Whole
    <3> QED
      BY <3>4, <3>5
  <2> QED
    BY <1>7, <2>1, <2>2
<1>12. PrefixesAreWhole(t)
  BY <1>5, <1>7, <1>11 DEF PrefixesAreWhole
<1>13. Sampled(t)
  BY <1>3, <1>5, <1>7, <1>9, <1>10, <1>12 DEF Sampled
<1> QED
  BY <1>2, <1>13

LEMMA AllSampled == \A b \in Seq(Nat) : Sampled(b)
<1> DEFINE P == {b \in Seq(Nat) : Sampled(b)}
<1>1. <<>> \in P
  <2>1. Bytes(<<>>) = <<>> /\ <<>> \in Seq(Nat)
    BY BytesAppend
  <2>2. SubSeq(<<>>, 1, 0) = <<>> /\ Len(<<>>) = 0 /\ <<>> \in Seq(Int)
    OBVIOUS
  <2>3. Whole(<<>>, 0, 0)
    <3>1. \A p \in 1 .. 0 : <<>>[p] # 0
      OBVIOUS
    <3> QED
      BY <2>1, <2>2, <3>1 DEF Whole
  <2>4. PrefixesAreWhole(<<>>)
    BY <2>1, <2>2, <2>3 DEF PrefixesAreWhole
  <2>5. Valid(<<>>)
    BY DEF Valid
  <2> QED
    BY <2>1, <2>2, <2>4, <2>5 DEF Sampled
<1>2. \A b \in Seq(Nat), w \in Nat : b \in P => Append(b, w) \in P
  BY SampledAppend
<1>3. Seq(Nat) \subseteq P
  <2> HIDE DEF P
  <2> QED
    BY <1>1, <1>2, EF!SeqInduction
<1> QED
  BY <1>3

\* What is printed of any body is its first characters, and all of a short one.
LEMMA SampleIs ==
  ASSUME NEW b \in Seq(Nat), NEW l \in Nat
  PROVE  SampleIsHead(b, l) /\ ShortIsPrinted(b, l)
<1> DEFINE bs == Bytes(b)
           m == IF TooLong(bs, l) THEN l ELSE Len(bs)
           head == IF TooLong(bs, l) THEN SubSeq(bs, 1, l) ELSE bs
<1>1. bs \in Seq(Int) /\ Sampled(b)
  BY AllSampled DEF Sampled
<1> HIDE DEF bs
<1>2. /\ m \in 0 .. Len(bs) /\ m <= l
      /\ m < Len(bs) <=> TooLong(bs, l)
  BY <1>1 DEF TooLong
<1>3. head = SubSeq(bs, 1, m) /\ Len(head) = m
  BY <1>1 DEF TooLong
<1>4. PeekBody(b, l) = [bytes |-> IF Valid(head) THEN head ELSE <<>>,
                        binary |-> ~Valid(head),
                        dots |-> Valid(head) /\ TooLong(bs, l)]
  BY DEF PeekBody, bs
<1>5. SampleIsHead(b, l)
  <2> SUFFICES ASSUME Valid(head)
               PROVE  \E k \in 0 .. Len(b) :
                        /\ head = Bytes(SubSeq(b, 1, k))
                        /\ \A p \in 1 .. k : b[p] # 0
                        /\ Len(head) <= l
                        /\ TooLong(bs, l) <=> k < Len(b)
    <3> DEFINE peek == PeekBody(b, l)
    <3>1. peek.bytes = IF Valid(head) THEN head ELSE <<>>
      BY <1>4
    <3>2. peek.binary = ~Valid(head)
      BY <1>4
    <3>3. peek.dots = (Valid(head) /\ TooLong(bs, l))
      BY <1>4
    <3> HIDE DEF peek, head
    <3> QED
      BY <3>1, <3>2, <3>3 DEF SampleIsHead, peek
  <2>1. PICK k \in 0 .. Len(b) : Whole(b, m, k)
    BY <1>1, <1>2, <1>3 DEF Sampled, PrefixesAreWhole, bs
  <2> HIDE DEF head, m
  <2> QED
    BY <1>2, <1>3, <2>1 DEF Whole, bs
<1>6. ShortIsPrinted(b, l)
  <2> SUFFICES ASSUME \A p \in DOMAIN b : b[p] # 0, Len(bs) <= l
               PROVE  PeekBody(b, l) = [bytes |-> bs, binary |-> FALSE, dots |-> FALSE]
    BY DEF ShortIsPrinted, bs
  <2>1. ~TooLong(bs, l) /\ head = bs
    BY <1>1 DEF TooLong
  <2>2. Valid(bs)
    BY <1>1 DEF Sampled, bs
  <2> QED
    BY <1>4, <2>1, <2>2
<1> QED
  BY <1>5, <1>6

BodyKnown == body \in Seq(Nat)

\* Of a body whole characters are printed, those that fit, and all of a short one;
\* dots if and only if something is missing.
THEOREM Samples_Are_Heads == ProgramSpec => []SamplesAreHeads
<1>1. ProgramInit => BodyKnown
  BY DEF ProgramInit, BodyKnown
<1>2. BodyKnown /\ [ProgramNext]_allVars => BodyKnown'
  BY ProgramAssumption
  DEF BodyKnown, ProgramNext, RunCurl, RunS3, RunCommand, FastJob, Transfer, PrintSize,
      PrintSample, End, printVars, allVars
<1>3. BodyKnown => SamplesAreHeads
  BY SampleIs, ProgramAssumption DEF BodyKnown, SamplesAreHeads
<1> QED
  BY <1>1, <1>2, <1>3, PTL DEF ProgramSpec
-----------------------------------------------------------------------------
(* The flags of a curl line.                                               *)

PF == INSTANCE FoldProofs WITH Op <- Put

\* The map of headers after the options of a line, from the one before.
Headers(before, l) == FoldLeft(Put, before, l)

LEMMA HeadersAppend ==
  /\ \A m : Headers(m, <<>>) = m
  /\ \A m : \A l \in Seq(Options), o \in Options :
       Headers(m, Append(l, o)) = Put(Headers(m, l), o)
<1>1. \A m, l : Headers(m, l) = PF!Fold(m, l)
  BY DEF Headers, PF!Fold, PF!FoldLeft, FoldLeft, PF!MapThenFoldSet, MapThenFoldSet,
     PF!Max, Max
<1> QED
  BY <1>1, PF!FoldEmpty, PF!FoldAppend

\* The entries of a map are in the other one too.
Keeps(to, map) == DOMAIN map \subseteq DOMAIN to /\ \A k \in DOMAIN map : to[k] = map[k]

\* A default keeps the entries that are there.
LEMMA DefaultKeeps ==
  ASSUME NEW map, NEW key, NEW value
  PROVE  Keeps(Default(map, key, value), map)
<1> DEFINE to == Default(map, key, value)
<1>1. to = IF key \in DOMAIN map THEN map
           ELSE [k \in DOMAIN map \cup {key} |-> IF k = key THEN value ELSE map[k]]
  BY DEF Assign, Default
<1> HIDE DEF to
<1>2. Keeps(to, map)
  BY <1>1 DEF Keeps
<1> QED
  BY <1>2 DEF to

\* Option p of a line is a header, and the last one with its name.
LastHeader(l, p) ==
  /\ IsHeader(l[p])
  /\ \A q \in DOMAIN l :
       q > p /\ IsHeader(l[q]) => Canonical(l[q].key) # Canonical(l[p].key)

\* The last header with a name is in the map, and none has been removed.
Kept(before, l) ==
  /\ DOMAIN before \subseteq DOMAIN Headers(before, l)
  /\ \A p \in DOMAIN l : LastHeader(l, p) =>
       /\ Canonical(l[p].key) \in DOMAIN Headers(before, l)
       /\ Headers(before, l)[Canonical(l[p].key)] = l[p].value

\* One option more adds a header, replaces one with its name, or does nothing.
LEMMA KeptAppend ==
  ASSUME NEW before, NEW l \in Seq(Options), NEW o \in Options, Kept(before, l)
  PROVE  Kept(before, Append(l, o))
<1> DEFINE t == Append(l, o)
           next == Len(l) + 1
           map == Headers(before, l)
<1>1. /\ DOMAIN l = 1 .. Len(l) /\ DOMAIN t = 1 .. next /\ Len(l) \in Nat
      /\ t[next] = o /\ \A p \in 1 .. Len(l) : t[p] = l[p]
      /\ \A p \in 1 .. next : p = next \/ p \in 1 .. Len(l)
      /\ \A p \in 1 .. Len(l) : next > p /\ p \in 1 .. next
      /\ next \in 1 .. next
  OBVIOUS
<1>2. Headers(before, t) = Put(map, o)
  BY HeadersAppend
<1> HIDE DEF t, next, map
<1>3. ASSUME NEW p \in 1 .. Len(l), LastHeader(t, p)
      PROVE  /\ Canonical(l[p].key) \in DOMAIN map /\ map[Canonical(l[p].key)] = l[p].value
             /\ IsHeader(o) => Canonical(o.key) # Canonical(l[p].key)
  <2>1. t[p] = l[p] /\ IsHeader(l[p])
    BY <1>1, <1>3 DEF LastHeader
  <2>2. ASSUME NEW q \in 1 .. next, q > p, IsHeader(t[q])
        PROVE  Canonical(t[q].key) # Canonical(l[p].key)
    BY <1>1, <1>3, <2>1, <2>2 DEF LastHeader
  <2>3. LastHeader(l, p)
    BY <1>1, <2>1, <2>2 DEF LastHeader
  <2>4. IsHeader(o) => Canonical(o.key) # Canonical(l[p].key)
    BY <1>1, <2>2
  <2> QED
    BY <1>1, <2>3, <2>4 DEF Kept, map
<1>4. CASE ~IsHeader(o)
  <2>1. Headers(before, t) = map
    BY <1>2, <1>4 DEF Put
  <2>2. ~LastHeader(t, next)
    BY <1>1, <1>4 DEF LastHeader
  <2>3. DOMAIN before \subseteq DOMAIN map
    BY DEF Kept, map
  <2> QED
    BY <1>1, <1>3, <2>1, <2>2, <2>3 DEF Kept, t
<1>5. CASE IsHeader(o)
  <2>1. Headers(before, t) = Assign(map, Canonical(o.key), o.value)
    BY <1>2, <1>5 DEF Put
  <2>2. /\ DOMAIN Headers(before, t) = DOMAIN map \cup {Canonical(o.key)}
        /\ Headers(before, t)[Canonical(o.key)] = o.value
        /\ \A k \in DOMAIN map : k # Canonical(o.key) => Headers(before, t)[k] = map[k]
    BY <2>1 DEF Assign
  <2>3. DOMAIN before \subseteq DOMAIN map
    BY DEF Kept, map
  <2> QED
    <3>1. ASSUME NEW p \in 1 .. next, LastHeader(t, p)
          PROVE  /\ Canonical(t[p].key) \in DOMAIN Headers(before, t)
                 /\ Headers(before, t)[Canonical(t[p].key)] = t[p].value
      <4>1. CASE p = next
        BY <1>1, <2>2, <4>1
      <4>2. CASE p \in 1 .. Len(l)
        BY <1>1, <1>3, <1>5, <2>2, <3>1, <4>2
      <4> QED
        BY <1>1, <4>1, <4>2
    <3>2. DOMAIN before \subseteq DOMAIN Headers(before, t)
      BY <2>2, <2>3
    <3>3. Kept(before, t)
      BY <1>1, <3>1, <3>2 DEF Kept
    <3> QED
      BY <3>3 DEF t
<1> QED
  BY <1>4, <1>5

LEMMA AllKept == ASSUME NEW before PROVE \A l \in Seq(Options) : Kept(before, l)
<1> DEFINE P == {l \in Seq(Options) : Kept(before, l)}
<1>1. <<>> \in P
  <2>1. Headers(before, <<>>) = before /\ DOMAIN <<>> = {}
    BY HeadersAppend
  <2> QED
    BY <2>1 DEF Kept
<1>2. \A l \in Seq(Options), o \in Options : l \in P => Append(l, o) \in P
  BY KeptAppend
<1>3. Seq(Options) \subseteq P
  <2> HIDE DEF P
  <2> QED
    BY <1>1, <1>2, PF!SeqInduction
<1> QED
  BY <1>3

\* What is in the map after the headers of the line is sent as it is.
LEMMA SentKeeps == ASSUME NEW l PROVE Keeps(Sent(l), Headers(Derived(l), l))
<1> DEFINE map == Headers(Derived(l), l)
<1>1. \/ HeaderMap(l) = map
      \/ HeaderMap(l) = Default(map, "Accept-Encoding", "gzip, deflate")
  BY DEF HeaderMap, Headers
<1> HIDE DEF map
<1>2. Keeps(HeaderMap(l), map)
  <2>1. Keeps(map, map)
    BY DEF Keeps
  <2> QED
    BY <1>1, <2>1, DefaultKeeps, Zenon
<1>3. Keeps(Sent(l), HeaderMap(l))
  BY DefaultKeeps, Zenon DEF Sent
<1>4. Keeps(Sent(l), map)
  BY <1>2, <1>3 DEF Keeps
<1> QED
  BY <1>4 DEF map

LineKnown == line \in Seq(Options)

LEMMA LineIsKnown == ProgramSpec => []LineKnown
<1>0. <<>> \in Seq(Options)
  OBVIOUS
<1>1. ProgramInit => LineKnown
  BY <1>0, ProgramAssumption DEF ProgramInit, LineKnown
<1>2. LineKnown /\ [ProgramNext]_allVars => LineKnown'
  <2> SUFFICES ASSUME LineKnown, [ProgramNext]_allVars PROVE LineKnown'
    OBVIOUS
  <2>1. line' \in {line, <<>>}
    BY DEF ProgramNext, RunCurl, RunS3, RunCommand, FastJob, Transfer, PrintSize,
       PrintSample, End, inputVars, allVars
  <2> QED
    BY <1>0, <2>1 DEF LineKnown
<1> QED
  BY <1>1, <1>2, PTL DEF ProgramSpec

\* Of the headers with one name that the user gives the last is sent, with any
\* options before, between and after them.
THEOREM Headers_As_Given == ProgramSpec => []HeadersAsGiven
<1>1. ASSUME NEW l \in Seq(Options)
      PROVE  UserHeadersWin(l)
  <2> DEFINE map == Headers(Derived(l), l)
  <2>1. Kept(Derived(l), l)
    BY AllKept
  <2>2. /\ DOMAIN map \subseteq DOMAIN Sent(l)
        /\ \A k \in DOMAIN map : Sent(l)[k] = map[k]
    BY SentKeeps DEF Keeps
  <2>3. ASSUME NEW p \in DOMAIN l, LastHeader(l, p)
        PROVE  /\ Canonical(l[p].key) \in DOMAIN Sent(l)
               /\ Sent(l)[Canonical(l[p].key)] = l[p].value
    BY <2>1, <2>2, <2>3 DEF Kept
  <2> QED
    BY <2>3 DEF UserHeadersWin, LastHeader
<1>2. LineKnown => HeadersAsGiven
  BY <1>1 DEF LineKnown, HeadersAsGiven
<1> QED
  BY <1>2, LineIsKnown, PTL

\* A body is sent with a type, and with the method that the user asked for, if any,
\* on every line.
THEOREM Body_As_Given == ProgramSpec => []BodyAsGiven
<1>1. ASSUME NEW l \in Seq(Options)
      PROVE  BodyIsSent(l)
  <2> SUFFICES ASSUME Body(l) # "" PROVE BodyIsSent(l)
    BY DEF BodyIsSent
  <2>1. "Content-Type" \in DOMAIN Derived(l)
    BY DEF Derived, Assign
  <2>2. "Content-Type" \in DOMAIN Sent(l)
    BY <2>1, AllKept, SentKeeps DEF Kept, Keeps
  <2>3. Method(l) # ""
    BY DEF Method
  <2>4. Value(l, "request") # "" /\ ~Given(l, "head") => Method(l) = Value(l, "request")
    BY DEF Method
  <2> QED
    BY <2>2, <2>3, <2>4 DEF BodyIsSent
<1>2. LineKnown => BodyAsGiven
  BY <1>1 DEF LineKnown, BodyAsGiven
<1> QED
  BY <1>2, LineIsKnown, PTL
=============================================================================
