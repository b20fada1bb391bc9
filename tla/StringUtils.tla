---------------------------- MODULE StringUtils ----------------------------
(***************************************************************************)
(* The string helpers of src/string_utils.cpp the parser calls: trim() and *)
(* toUnsignedInt().  A std::string is a sequence of Char.                  *)
(***************************************************************************)
EXTENDS CharUtils, Sequences, SequencesExt

CONSTANT UIntSize           \* how many values an unsigned int has (2^32)

ASSUME UIntSizeAssumption == UIntSize \in Nat \ {0}

UInt == 0 .. UIntSize - 1

String == Seq(Char)

\* Stands for the std::runtime_error thrown by toUnsignedInt().
NotANumber == -1

-----------------------------------------------------------------------------

\* std::string's operator<, and what strcasecmp() makes of two texts.
Before(a, b) ==
  \E i \in 1 .. Len(b) :
    /\ \A j \in 1 .. i - 1 : j \in 1 .. Len(a) /\ a[j] = b[j]
    /\ i = Len(a) + 1 \/ (i <= Len(a) /\ a[i] < b[i])

Blank == {SP, HT, CR, LF}

trim(str) ==
  LET kept == {i \in 1 .. Len(str) : str[i] \notin Blank}
  IN  IF kept = {} THEN << >> ELSE SubSeq(str, Min(kept), Max(kept))

\* A bug that would report the overflow of the last digit only.
MutantAccumulate(result, digit, base) ==
  LET newResult == (result * base + digit) % UIntSize
  IN  IF newResult < result THEN NotANumber ELSE newResult

\* One digit of a number in the making.  The sum wraps at UIntSize; a
\* conversion that has thrown stays thrown.
Accumulate(result, digit, base) ==
  LET newResult == (result * base + digit) % UIntSize
  IN  IF result = NotANumber \/ newResult < result THEN NotANumber ELSE newResult

\* Only a decimal number may start with a plus sign, which is skipped.
Digits(str, isHex) ==
  IF ~isHex /\ Head(str) = Plus THEN Tail(str) ELSE str

IsDigitOf(ch, isHex) == IF isHex THEN isHexDigit(ch) ELSE isDigit(ch)

\* The number that a string of digits stands for, read from the left.
NumberOf(digits, base) ==
  LET read[n \in 0 .. Len(digits)] ==
        IF n = 0 THEN 0 ELSE Accumulate(read[n - 1], hexValue(digits[n]), base)
  IN  read[Len(digits)]

toUnsignedInt(str, isHex) ==
  LET strToParse == trim(str)
      digits     == Digits(strToParse, isHex)
  IN  IF strToParse = << >> THEN 0
      ELSE IF \A i \in 1 .. Len(digits) : IsDigitOf(digits[i], isHex)
           THEN NumberOf(digits, IF isHex THEN 16 ELSE 10)
           ELSE NotANumber
=============================================================================
