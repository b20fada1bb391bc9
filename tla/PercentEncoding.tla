-------------------------- MODULE PercentEncoding --------------------------
(***************************************************************************)
(* encodePercent() and decodePercent() of string_utils.cpp.                *)
(***************************************************************************)
EXTENDS StringUtils

\* setw(2) with fill '0', in upper case.
UpperHex(n) == IF n < 10 THEN 48 + n ELSE 65 + n - 10

\* A bug that would leave a blank as it is.
MutantEncoded(ch) ==
  IF isSpace(ch) \/ isUrlSafe(ch) THEN <<ch>>
  ELSE <<Percent, UpperHex(ch \div 16), UpperHex(ch % 16)>>

Encoded(ch) ==
  IF isSpace(ch) THEN <<Plus>>
  ELSE IF isUrlSafe(ch) THEN <<ch>>
  ELSE <<Percent, UpperHex(ch \div 16), UpperHex(ch % 16)>>

encodePercent(str) == FlattenSeq([i \in DOMAIN str |-> Encoded(str[i])])

\* A bug that would miss an escape at the end.
MutantIsEscape(str, i) ==
  str[i] = Percent /\ i + 2 < Len(str) /\ isHexDigit(str[i + 1]) /\ isHexDigit(str[i + 2])

\* A percent sign without two digits behind it stands for itself.
IsEscape(str, i) ==
  str[i] = Percent /\ i + 2 <= Len(str) /\ isHexDigit(str[i + 1]) /\ isHexDigit(str[i + 2])

decodePercent(str) ==
  LET decoded[i \in 1 .. Len(str) + 1] ==
        IF i > Len(str) THEN << >>
        ELSE IF IsEscape(str, i)
             THEN <<hexValue(str[i + 1]) * 16 + hexValue(str[i + 2])>> \o decoded[i + 3]
             ELSE <<IF str[i] = Plus THEN SP ELSE str[i]>> \o decoded[i + 1]
  IN  decoded[1]
=============================================================================
