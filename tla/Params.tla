------------------------------- MODULE Params -------------------------------
(***************************************************************************)
(* The class Params, a std::multimap from names to values, made from the   *)
(* query of a Uri and added to by its user.  Like Headers it is modelled by*)
(* the sequence of its entries in iteration order, but its names are told  *)
(* apart by every character.                                               *)
(***************************************************************************)
EXTENDS Uri

CONSTANTS
  Targets,                    \* the strings a Uri is made from
  Names, Values,              \* what a user adds
  MaxParams                   \* bounds the entries a user adds to

ASSUME ParamsAssumption ==
  /\ Targets \subseteq String /\ Names \subseteq String /\ Values \subseteq String
  /\ MaxParams \in Nat

VARIABLES uri, params

paramsVars == <<uri, params>>

-----------------------------------------------------------------------------

\* A bug that would put an entry before the others with its name.
MutantAdd(entries, entry) ==
  LET before == {i \in 1 .. Len(entries) : Before(entries[i].name, entry.name)}
  IN  InsertAt(entries, Cardinality(before) + 1, entry)

add(entries, entry) ==
  LET before == {i \in 1 .. Len(entries) : ~Before(entry.name, entries[i].name)}
  IN  InsertAt(entries, Cardinality(before) + 1, entry)

\* The entries that are in S, in their order.
Among(entries, S) ==
  LET kept[n \in 0 .. Len(entries)] ==
        IF n = 0 THEN << >>
        ELSE IF entries[n] \in S THEN Append(kept[n - 1], entries[n])
        ELSE kept[n - 1]
  IN  kept[Len(entries)]

equal_range(entries, name) == Among(entries, [name : {name}, value : String])

have(entries, name) == equal_range(entries, name) # << >>

value(entries, name) ==
  IF have(entries, name) THEN Head(equal_range(entries, name)).value ELSE << >>

\* Where the piece that begins at pos ends: before an ampersand, or with str.
PieceEnd(str, pos) == Min({i \in pos .. Len(str) : str[i] = Amp} \cup {Len(str) + 1})

Pieces(str) ==
  LET from[pos \in 1 .. Len(str) + 2] ==
        IF pos > Len(str) THEN << >>
        ELSE <<SubSeq(str, pos, PieceEnd(str, pos) - 1)>> \o from[PieceEnd(str, pos) + 1]
  IN  from[1]

\* A name that ends at the first equals sign, and the rest, if any.
Entry(piece) ==
  LET eq == SelectInSeq(piece, LAMBDA ch : ch = Equals)
  IN  [name  |-> decodePercent(IF eq = 0 THEN piece ELSE SubSeq(piece, 1, eq - 1)),
       value |-> decodePercent(IF eq = 0 THEN << >> ELSE SubSeq(piece, eq + 1, Len(piece)))]

parse(str) ==
  LET entries[n \in 0 .. Len(Pieces(str))] ==
        IF n = 0 THEN << >> ELSE add(entries[n - 1], Entry(Pieces(str)[n]))
  IN  entries[Len(Pieces(str))]

\* A bug that would not count the ampersands.
MutantComposeEntry(composed, entry) ==
  LET text == encodePercent(entry.name) \o <<Equals>> \o encodePercent(entry.value)
      amp  == IF composed.size > 0 THEN <<Amp>> ELSE << >>
  IN  IF entry.name = << >> THEN composed
      ELSE [text |-> composed.text \o amp \o text, size |-> composed.size + Len(text)]

\* One round of the loop in compose(), which counts as it writes.
ComposeEntry(composed, entry) ==
  LET text == encodePercent(entry.name) \o <<Equals>> \o encodePercent(entry.value)
      amp  == IF composed.size > 0 THEN <<Amp>> ELSE << >>
  IN  IF entry.name = << >> THEN composed
      ELSE [text |-> composed.text \o amp \o text, size |-> composed.size + Len(amp) + Len(text)]

compose(entries) ==
  LET composed[n \in 0 .. Len(entries)] ==
        IF n = 0 THEN [text |-> << >>, size |-> 0] ELSE ComposeEntry(composed[n - 1], entries[n])
  IN  composed[Len(entries)]

composedSize(entries) == compose(entries).size

-----------------------------------------------------------------------------

Add(name, v) ==
  /\ Len(params) < MaxParams
  /\ params' = add(params, [name |-> name, value |-> v])
  /\ UNCHANGED uri

\* Params(const Uri&), as a server reads them from the target of a request.
Init ==
  /\ uri \in {UriOf(target) : target \in Targets}
  /\ params = parse(uri.query)

Next == \E name \in Names, v \in Values : Add(name, v)

Spec == Init /\ [][Next]_paramsVars

-----------------------------------------------------------------------------
(* Properties                                                              *)

Named == Among(params, [name : String \ {<< >>}, value : String])

(* Whatever bytes its names and values hold, delimiters and escapes among  *)
(* them, a peer that parses what was composed has the same params in the   *)
(* same order, but for those without a name, which are left out.           *)
ParamsReadBack == parse(compose(params).text) = Named

(* A composed query is one token to a MessageParser, and no part of it is  *)
(* taken for the path: put behind a path it is the query of that Uri.      *)
QueryFitsATarget ==
  LET query  == compose(params).text
      target == UriOf(uri.encodedPath \o <<Question>> \o query)
  IN  /\ \A ch \in Range(query) : isChar(ch) /\ ~isControl(ch) /\ ~isSpaceOrTab(ch)
      /\ target.path = uri.path /\ target.query = query

(* A Uri reads back what it composes.                                      *)
UriReadsBack == UriOf(composeUri(uri)) = uri

(* The sizes are those of the texts, so that a caller may reserve room:    *)
(* Params counts while it writes, Uri counts on its own.                   *)
ComposedSizesExact ==
  /\ composedSize(params) = Len(compose(params).text)
  /\ UriComposedSize(uri) = Len(composeUri(uri))

\* The values of a name in a query, in the order in which they stand there.
InOrder(query, name) ==
  equal_range([k \in DOMAIN Pieces(query) |-> Entry(Pieces(query)[k])], name)

(* The values a query gives a name are found in the order in which they    *)
(* stand there, and before any its user adds: value() is the first of them,*)
(* although the multimap has all names in another order.                   *)
QueryOrderIsKept ==
  \A e \in Range(params) :
    IsPrefix(InOrder(uri.query, e.name), equal_range(params, e.name))
=============================================================================
