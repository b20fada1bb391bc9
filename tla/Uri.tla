-------------------------------- MODULE Uri --------------------------------
(***************************************************************************)
(* The class Uri: a path and a query, separated by the first question mark.*)
(***************************************************************************)
EXTENDS PercentEncoding

\* A bug that would leave the question mark in the query.
MutantQuery(str, mark) == SubSeq(str, mark, Len(str))

Query(str, mark) == SubSeq(str, mark + 1, Len(str))

\* The constructor from a string.
UriOf(str) ==
  LET mark        == SelectInSeq(str, LAMBDA ch : ch = Question)
      encodedPath == IF mark = 0 THEN str ELSE SubSeq(str, 1, mark - 1)
  IN  [encodedPath |-> encodedPath, path |-> decodePercent(encodedPath),
       query |-> IF mark = 0 THEN << >> ELSE Query(str, mark)]

composeUri(uri) ==
  uri.encodedPath \o (IF uri.query = << >> THEN << >> ELSE <<Question>> \o uri.query)

MutantUriComposedSize(uri) == Len(uri.encodedPath) + Len(uri.query)

UriComposedSize(uri) ==
  Len(uri.encodedPath) + (IF uri.query = << >> THEN 0 ELSE 1 + Len(uri.query))
=============================================================================
