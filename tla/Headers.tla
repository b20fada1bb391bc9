------------------------------ MODULE Headers ------------------------------
(***************************************************************************)
(* The header container of httpxx/headers.h: a std::multimap ordered by    *)
(* the case-insensitive comparator of common.cpp.  The map is the sequence *)
(* of its entries in iteration order, so that entries with equivalent      *)
(* names stay in the order in which they were inserted.                    *)
(***************************************************************************)
EXTENDS StringUtils

CONSTANTS                     \* what the library writes and looks for:
  TransferEncoding,           \* "Transfer-Encoding"
  ContentLength,              \* "Content-Length"
  Chunked                     \* "chunked"

ASSUME HeadersAssumption == {TransferEncoding, ContentLength, Chunked} \subseteq String

Header == [name : String, value : String]

\* What c_str() shows to a C function: the string up to its first NUL.
CStr(str) ==
  IF NUL \in Range(str)
  THEN SubSeq(str, 1, SelectInSeq(str, LAMBDA ch : ch = NUL) - 1)
  ELSE str

FoldCase(str) == [i \in DOMAIN CStr(str) |-> ToLower(CStr(str)[i])]

\* CaseInsensitiveComparator: strcasecmp(lhs, rhs) < 0.
Less(lhs, rhs) == Before(FoldCase(lhs), FoldCase(rhs))

\* A container: iteration never goes back to a lesser name.
InOrder(headers) ==
  \A i, j \in 1 .. Len(headers) : i < j => ~Less(headers[j].name, headers[i].name)

\* Where the entries of equal_range(name) are, one behind the other.
equal_range(headers, name) ==
  {i \in 1 .. Len(headers) : ~Less(headers[i].name, name) /\ ~Less(name, headers[i].name)}

have(headers, name) == equal_range(headers, name) # {}

haveValue(headers, name, v) == \E i \in equal_range(headers, name) : headers[i].value = v

value(headers, name) ==
  IF have(headers, name) THEN headers[Min(equal_range(headers, name))].value ELSE << >>

\* A bug that would put a new entry before the entries with its name.
MutantAdd(headers, name, v) ==
  LET before == {i \in 1 .. Len(headers) : Less(headers[i].name, name)}
  IN  InsertAt(headers, Cardinality(before) + 1, [name |-> name, value |-> v])

\* multimap::insert() puts an entry behind every entry that is not greater.
add(headers, name, v) ==
  LET before == {i \in 1 .. Len(headers) : ~Less(name, headers[i].name)}
  IN  InsertAt(headers, Cardinality(before) + 1, [name |-> name, value |-> v])

erase(headers, name) ==
  LET kept[n \in 0 .. Len(headers)] ==
        IF n = 0 THEN << >>
        ELSE IF n \in equal_range(headers, name) THEN kept[n - 1]
        ELSE Append(kept[n - 1], headers[n])
  IN  kept[Len(headers)]

\* A bug that would count the colon and the line break only.
MutantComposedSize(headers) ==
  LET size[n \in 0 .. Len(headers)] ==
        IF n = 0 THEN 0 ELSE size[n - 1] + Len(headers[n].name) + Len(headers[n].value) + 3
  IN  size[Len(headers)]

composedSize(headers) ==
  LET size[n \in 0 .. Len(headers)] ==
        IF n = 0 THEN 0 ELSE size[n - 1] + Len(headers[n].name) + Len(headers[n].value) + 4
  IN  size[Len(headers)]
=============================================================================
