------------------------------- MODULE Report -------------------------------
(***************************************************************************)
(* report.ByteSize and report.PeekBody.  A body is a sequence of           *)
(* characters, each the number of its bytes in UTF-8, or 0 for a byte that *)
(* is part of no character.                                                *)
(***************************************************************************)
EXTENDS Integers, SequencesExt

CONSTANT KILOBYTE   \* 1024 in the code; every unit is that many of the one before

ASSUME ReportAssumption == KILOBYTE \in Nat \ {0, 1}

Units == <<"B", "KB", "MB", "GB", "TB", "PB", "EB">>

MEGABYTE == KILOBYTE * KILOBYTE
GIGABYTE == KILOBYTE * MEGABYTE
TERABYTE == KILOBYTE * GIGABYTE
PETABYTE == KILOBYTE * TERABYTE
EXABYTE == KILOBYTE * PETABYTE
Sizes == <<1, KILOBYTE, MEGABYTE, GIGABYTE, TERABYTE, PETABYTE, EXABYTE>>

\* The largest unit that fits.
UnitOf(bytes) ==
  CHOOSE u \in DOMAIN Units :
    /\ u = 1 \/ bytes >= Sizes[u]
    /\ u = Len(Units) \/ bytes < Sizes[u + 1]

\* Faulty variant of Tenths: the rest is cut off.
TenthsDown(bytes, size) == (10 * (bytes \div size)) + (10 * (bytes % size)) \div size

\* strconv.FormatFloat with one decimal: the nearest, of two the even one.
Tenths(bytes, size) ==
  LET down == 10 * (bytes \div size) + (10 * (bytes % size)) \div size
      rest == (10 * (bytes % size)) % size
  IN  IF 2 * rest > size \/ (2 * rest = size /\ down % 2 = 1) THEN down + 1 ELSE down

ByteSize(bytes) ==
  [tenths |-> Tenths(bytes, Sizes[UnitOf(bytes)]), unit |-> UnitOf(bytes)]

\* A character of w bytes is its first byte and the w - 1 that continue it.
Encode(bytes, w) == bytes \o <<w>> \o [k \in 1 .. w - 1 |-> -1]

Bytes(body) == FoldLeft(Encode, <<>>, body)

\* Every byte is part of a character that is there as a whole.
Valid(bs) ==
  \A p \in DOMAIN bs :
    /\ bs[p] # 0
    /\ bs[p] > 1 => p + bs[p] - 1 <= Len(bs)

\* Faulty variant of TooLong: a body of exactly l bytes is taken for a longer one.
TooLongOrEqual(bs, l) == Len(bs) >= l

TooLong(bs, l) == Len(bs) > l

\* What is printed for a body: some of its bytes, a text, and perhaps dots.
PeekBody(body, l) ==
  LET bs == Bytes(body)
      head == IF TooLong(bs, l) THEN SubSeq(bs, 1, l) ELSE bs
  IN  [bytes |-> IF Valid(head) THEN head ELSE <<>>,
       binary |-> ~Valid(head), dots |-> Valid(head) /\ TooLong(bs, l)]

-----------------------------------------------------------------------------
(* Properties of one result.                                               *)

\* A printed size is within half of its last digit of the number of bytes, has at
\* most four digits before the point, and is not printed in a unit too large for it.
SizeIsClose(bytes) ==
  LET s == ByteSize(bytes)
      size == Sizes[s.unit]
      whole == bytes \div size - s.tenths \div 10
      error == 10 * whole * size + 10 * (bytes % size) - (s.tenths % 10) * size
  IN  /\ -size <= 2 * error /\ 2 * error <= size
      /\ s.unit < Len(Units) => s.tenths <= 10 * KILOBYTE
      /\ bytes > 0 => s.tenths >= 10

\* Of a body, characters are printed and never parts of one: those that fit, if
\* they fill the l bytes or the body ends before, else nothing but a note.  Dots
\* are printed if and only if something was cut off.
SampleIsHead(body, l) ==
  LET peek == PeekBody(body, l)
      fits(k) == peek.bytes = Bytes(SubSeq(body, 1, k))
  IN  ~peek.binary => \E k \in 0 .. Len(body) :
        /\ fits(k) /\ \A p \in 1 .. k : body[p] # 0
        /\ Len(peek.bytes) <= l
        /\ peek.dots <=> k < Len(body)

\* A body of whole characters that is short enough is printed as it is.
ShortIsPrinted(body, l) ==
  (\A p \in DOMAIN body : body[p] # 0) /\ Len(Bytes(body)) <= l
    => PeekBody(body, l) = [bytes |-> Bytes(body), binary |-> FALSE, dots |-> FALSE]
=============================================================================
