----------------------------- MODULE CharUtils -----------------------------
(***************************************************************************)
(* The character classes of src/char_utils.h.  A char is its unsigned      *)
(* value, as in every function of that header; the MC modules offer the    *)
(* parser a few representatives of each class.                             *)
(***************************************************************************)
EXTENDS Integers

Char == 0 .. 255

\* Names for the bytes the code writes as literals.
NUL   == 0
HT    == 9
LF    == 10
CR    == 13
SP    == 32
Percent == 37
Amp   == 38
Plus  == 43
Colon == 58
Equals == 61
Question == 63

isChar(ch)           == ch <= 127
isControl(ch)        == ch <= 31 \/ ch = 127
isSpace(ch)          == ch = SP
isTab(ch)            == ch = HT
isSpaceOrTab(ch)     == isSpace(ch) \/ isTab(ch)
isCarriageReturn(ch) == ch = CR
isLineFeed(ch)       == ch = LF
isDigit(ch)          == ch \in 48 .. 57
isHexDigit(ch)       == isDigit(ch) \/ ch \in (97 .. 102) \cup (65 .. 70)

isUrlSafe(ch)        == ch \in (97 .. 122) \cup (65 .. 90) \/ isDigit(ch) \/ ch = 95

\* ( ) < > @ , ; : \ " / [ ] ? = { } and white space, in the order of the code
isSeparator(ch) ==
  \/ ch \in {40, 41, 60, 62, 64, 44, 59, Colon, 92, 34, 47, 91, 93, 63, 61, 123, 125}
  \/ isSpaceOrTab(ch)

isToken(ch) == isChar(ch) /\ ~isControl(ch) /\ ~isSeparator(ch)

\* The value of a hex digit, 0 for any other character.
hexValue(ch) ==
  CASE isDigit(ch)      -> ch - 48
    [] ch \in 97 .. 102 -> ch - 97 + 10
    [] ch \in 65 .. 70  -> ch - 65 + 10
    [] OTHER            -> 0

\* tolower() of the C locale, by which strcasecmp() compares.
ToLower(ch) == IF ch \in 65 .. 90 THEN ch + 32 ELSE ch
=============================================================================
