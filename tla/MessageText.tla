---------------------------- MODULE MessageText ----------------------------
(***************************************************************************)
(* How the whole text of a message is read: a reference for the parser,    *)
(* which reads it a character at a time.  It is made of cuts at delimiters *)
(* and has no states; what it says of a text that is not a message is of   *)
(* no importance.                                                          *)
(***************************************************************************)
EXTENDS Headers

\* Positions of a text, and the part of it from one to before another.
From(text, p)    == p .. Len(text)
Part(text, p, q) == SubSeq(text, p, q - 1)

White     == {SP, HT}
Word      == Char \ White
HexDigits == {ch \in Char : isHexDigit(ch)}

\* The first place from p on of one of chars.
First(text, p, chars) == Min({i \in From(text, p) : text[i] \in chars})

-----------------------------------------------------------------------------
(* Header fields, from a position of a text on.  A line that starts with a *)
(* blank goes on with the line before it, from which it is a space away.   *)

FieldBefore(text, p, q) ==
  Max({p} \cup {i \in p + 1 .. q - 1 : text[i - 1] = LF /\ text[i] \notin White})

Joined(str) ==
  LET joined[n \in 0 .. Len(str)] ==
        IF n = 0 THEN << >>
        ELSE IF n > 1 /\ str[n - 1] = LF THEN Append(joined[n - 1], SP)
        ELSE IF str[n] \in {CR, LF} THEN joined[n - 1]
        ELSE Append(joined[n - 1], str[n])
  IN  joined[Len(str)]

\* The headers with the field added that is written as str.
AddField(headers, str) ==
  LET colon == First(str, 1, {Colon})
  IN  add(headers, Part(str, 1, colon), trim(Joined(Part(str, colon + 1, Len(str) + 1))))

\* The headers with all fields added that lie from p to before q.
Filed(headers, text, p, q) ==
  LET filed[i \in p .. q] ==
        IF i = p THEN headers
        ELSE LET start == FieldBefore(text, p, i)
             IN  AddField(filed[start], Part(text, start, i))
  IN  filed[q]

\* The empty line that ends the fields from p on: behind a line break.
EmptyLine(text, p) == Min({i \in From(text, p) : text[i] = CR /\ text[i - 1] = LF})

-----------------------------------------------------------------------------
(* Chunks, from a position on: their data, and where the last chunk is.    *)

SizeAt(text, p) == toUnsignedInt(Part(text, p, First(text, p, Char \ HexDigits)), TRUE)

LineAfter(text, p) == First(text, p, {CR}) + 2

Chunks(text, start) ==
  LET chunk[n \in 0 .. Len(text)] ==
        IF n = 0 THEN [data |-> << >>, last |-> start]
        ELSE LET c    == chunk[n - 1]
                 size == SizeAt(text, c.last)
                 from == LineAfter(text, c.last)
             IN  IF size = 0 THEN c
                 ELSE [data |-> c.data \o Part(text, from, from + size), last |-> from + size + 2]
  IN  chunk[Len(text)]

-----------------------------------------------------------------------------

ChunkedReading(text, headers, start) ==
  LET chunks == Chunks(text, start)
      line   == LineAfter(text, chunks.last)
      end    == EmptyLine(text, line)
  IN  [headers |-> Filed(headers, text, line, end),
       body |-> chunks.data, size |-> end + 1]

LengthIn(headers) ==
  IF have(headers, ContentLength) THEN toUnsignedInt(value(headers, ContentLength), FALSE) ELSE 0

IdentityReading(text, headers, start) ==
  LET end == start + LengthIn(headers)
  IN  [headers |-> headers, body |-> Part(text, start, end), size |-> end - 1]

\* The tokens, headers and body of the message that starts with text, and how
\* much of text is that message.
Reading(text) ==
  LET word1   == First(text, 1, Word)
      blank1  == First(text, word1, White)
      word2   == First(text, blank1, Word)
      blank2  == First(text, word2, White)
      word3   == First(text, blank2, Word)
      cr      == First(text, word3, {CR})
      end     == EmptyLine(text, cr + 2)
      headers == Filed(<< >>, text, cr + 2, end)
      rest    == IF haveValue(headers, TransferEncoding, Chunked)
                 THEN ChunkedReading(text, headers, end + 2)
                 ELSE IdentityReading(text, headers, end + 2)
  IN  [first   |-> Part(text, word1, blank1), second |-> Part(text, word2, blank2),
       third   |-> Part(text, word3, cr),
       headers |-> rest.headers, body |-> rest.body, size |-> rest.size]
=============================================================================
