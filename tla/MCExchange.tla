----------------------------- MODULE MCExchange -----------------------------
(***************************************************************************)
(* An instance of Exchange for TLC: a handful of messages chosen to        *)
(* confuse a parser that frames them wrongly.                              *)
(***************************************************************************)
EXTENDS Exchange

MCTransferEncoding == <<84>>     \* "T"
MCContentLength    == <<76>>     \* "L"
MCChunked          == <<99>>     \* "c"

NothingOffered == [s \in State |-> {}]

Line == << <<71>>, <<47>>, <<72, SP, 79>> >>     \* "G / H O"

Entry(name, v) == [name |-> name, value |-> v]

\* The caller's framing headers, in another case.
Misleading == <<Entry(<<108>>, <<57>>), Entry(<<116>>, <<99>>)>>

\* No body, and a value with a blank at its end that goes on in a second line.
Plain ==
  [tokens |-> Line, headers |-> <<Entry(<<97>>, <<120, CR, LF, SP, 121, SP>>)>>,
   chunked |-> FALSE, chunks |-> << >>, trailer |-> << >>]

\* A body that looks like the end of a header.
Identity ==
  [tokens |-> Line, headers |-> Misleading,
   chunked |-> FALSE, chunks |-> << <<CR, LF, CR, LF>> >>, trailer |-> << >>]

\* An empty chunk among others, one of which looks like the last; a trailer.
InChunks ==
  [tokens |-> Line, headers |-> Misleading, chunked |-> TRUE,
   chunks |-> << <<LF>>, << >>, <<CR, LF, 48, CR, LF>> >>,
   trailer |-> <<Entry(<<76>>, <<57>>)>>]

\* A chunk whose size takes a letter to write.
TenBytes ==
  [tokens |-> Line, headers |-> << >>, chunked |-> TRUE,
   chunks |-> << <<1, 2, 3, 4, 5, 6, 7, 8, 9, 10>> >>, trailer |-> << >>]

Mixed == {Plain, Identity, InChunks, TenBytes}
=============================================================================
