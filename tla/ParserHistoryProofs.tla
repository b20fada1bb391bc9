------------------------ MODULE ParserHistoryProofs ------------------------
(***************************************************************************)
(* Theorems about the parser and the text it has taken: what its user does *)
(* are steps of the parser, its position is the place in the text, and a   *)
(* message that is completed is its text, read as a whole.                 *)
(***************************************************************************)
EXTENDS ParserHistory, MessageParserProofs

(* Whatever the user who keeps the text does is a step of the parser, so   *)
(* that all theorems about the parser hold for it.                         *)
THEOREM HistoryImplementsParser == HistorySpec => Spec
<1>1. HistoryInit => Init
  BY DEF HistoryInit
<1>2. [HistoryNext]_historyVars => [Next]_vars
  BY DEF HistoryNext, ParseAndKeep, ResetAndForget, Next, historyVars
<1>. QED  BY <1>1, <1>2, PTL DEF HistorySpec, Spec

-----------------------------------------------------------------------------
(* A position is a number of characters, of line breaks, and of characters *)
(* behind the last line break.                                             *)

Breaks(text) == {i \in DOMAIN text : isLineFeed(text[i])}

IsPlace(text, p, l, c) ==
  /\ p = Len(text)
  /\ l = Cardinality(Breaks(text)) + 1
  /\ c = Len(text) - (IF Breaks(text) = {} THEN 0 ELSE Max(Breaks(text))) + 1

LEMMA PlaceOfNothing == IsPlace(<< >>, 0, 1, 1)
<1>1. Breaks(<< >>) = {} /\ Len(<< >>) = 0
  BY DEF Breaks
<1>. QED  BY <1>1, FS_EmptySet DEF IsPlace

LEMMA BreaksType ==
  ASSUME NEW text \in String
  PROVE  /\ Breaks(text) \subseteq 1 .. Len(text)
         /\ IsFiniteSet(Breaks(text)) /\ Cardinality(Breaks(text)) \in Nat
         /\ Breaks(text) # {} => Max(Breaks(text)) \in 1 .. Len(text)
<1>1. Breaks(text) \subseteq 1 .. Len(text) /\ Len(text) \in Nat
  BY DEF Breaks, String
<1>2. IsFiniteSet(1 .. Len(text))
  BY <1>1, FS_Interval
<1>3. IsFiniteSet(Breaks(text))
  BY <1>1, <1>2, FS_Subset
<1>4. Breaks(text) # {} => Max(Breaks(text)) \in Breaks(text)
  BY <1>1, SmallestAndLargest
<1>. QED  BY <1>1, <1>3, <1>4, FS_CardinalityType

LEMMA BreaksAppend ==
  ASSUME NEW text \in String, NEW ch \in Char
  PROVE  Breaks(Append(text, ch)) =
           Breaks(text) \cup (IF isLineFeed(ch) THEN {Len(text) + 1} ELSE {})
<1>. DEFINE n == Len(text)
<1>1. /\ n \in Nat /\ DOMAIN text = 1 .. n
      /\ DOMAIN Append(text, ch) = 1 .. n + 1
      /\ \A i \in 1 .. n : Append(text, ch)[i] = text[i]
      /\ Append(text, ch)[n + 1] = ch
  BY DEF String
<1>2. 1 .. n + 1 = (1 .. n) \cup {n + 1} /\ n + 1 \notin 1 .. n
  BY <1>1
<1>. HIDE DEF n
<1>3. Breaks(Append(text, ch))
        = {i \in (1 .. n) \cup {n + 1} : isLineFeed(Append(text, ch)[i])}
  BY <1>1, <1>2 DEF Breaks
<1>4. Breaks(text) = {i \in 1 .. n : isLineFeed(Append(text, ch)[i])}
  BY <1>1 DEF Breaks
<1>5. Breaks(Append(text, ch)) = Breaks(text) \cup (IF isLineFeed(ch) THEN {n + 1} ELSE {})
  BY <1>1, <1>2, <1>3, <1>4
<1>. QED  BY <1>5 DEF n

(* A character that is taken moves the place as the tail of parse() does.  *)
LEMMA PlaceOfNext ==
  ASSUME NEW text \in String, NEW p, NEW l, NEW c, IsPlace(text, p, l, c), NEW ch \in Char
  PROVE  IsPlace(Append(text, ch), p + 1, IF isLineFeed(ch) THEN l + 1 ELSE l,
                 IF isLineFeed(ch) THEN 1 ELSE c + 1)
<1>. DEFINE B == Breaks(text)
            D == Breaks(Append(text, ch))
            n == Len(text)
<1>1. n \in Nat /\ Len(Append(text, ch)) = n + 1
  BY DEF String
<1>2. /\ B \subseteq 1 .. n /\ IsFiniteSet(B) /\ Cardinality(B) \in Nat
      /\ B # {} => Max(B) \in 1 .. n
  BY BreaksType
<1>3. D = B \cup (IF isLineFeed(ch) THEN {n + 1} ELSE {})
  BY BreaksAppend
<1>4. /\ p = n /\ l = Cardinality(B) + 1
      /\ c = n - (IF B = {} THEN 0 ELSE Max(B)) + 1
  BY DEF IsPlace
<1>5. CASE ~isLineFeed(ch)
  <2>1. D = B
    BY <1>3, <1>5
  <2>. HIDE DEF B, D, n
  <2>2. c + 1 = (n + 1) - (IF B = {} THEN 0 ELSE Max(B)) + 1
    BY <1>1, <1>2, <1>4
  <2>3. IsPlace(Append(text, ch), p + 1, l, c + 1)
    BY <1>1, <1>4, <2>1, <2>2 DEF IsPlace, D
  <2>. QED  BY <1>5, <2>3
<1>6. CASE isLineFeed(ch)
  <2>1. D = B \cup {n + 1}
    BY <1>3, <1>6
  <2>. HIDE DEF B, D, n
  <2>2. n + 1 \notin B /\ D # {} /\ n + 1 \in D /\ D \subseteq 1 .. n + 1
    BY <1>1, <1>2, <2>1
  <2>3. Cardinality(D) = Cardinality(B) + 1
    BY <1>2, <2>1, <2>2, FS_AddElement
  <2>4. Max(D) = n + 1
    <3>1. n + 1 \in Nat
      BY <1>1
    <3>2. Max(D) \in D /\ \A y \in D : y <= Max(D)
      BY <2>2, <3>1, SmallestAndLargest, Zenon
    <3>3. Max(D) \in 1 .. n + 1 /\ n + 1 <= Max(D)
      BY <2>2, <3>2, Zenon
    <3>. QED  BY <1>1, <3>3
  <2>5. IsPlace(Append(text, ch), p + 1, l + 1, 1)
    BY <1>1, <1>2, <1>4, <2>2, <2>3, <2>4 DEF IsPlace, D
  <2>. QED  BY <1>6, <2>5
<1>. QED  BY <1>5, <1>6
(* A call of parse(char) that returns moves the position by one character, *)
(* from the first place for a new message; one that throws does not.       *)
LEMMA PositionParse ==
  ASSUME NEW ch \in Char, Parse(ch)
  PROVE  \/ /\ Took
            /\ IF isCompleted THEN AdvanceFrom(0, 1, 1, ch) ELSE AdvanceFrom(pos, line, col, ch)
         \/ ~Took /\ UNCHANGED <<state, posVars>>
<1>1. \A next : Returned(next).type = "returned"
  BY DEF Returned
<1>2. \A code : Thrown(code, ch).type # "returned"
  BY DEF Thrown
<1>. USE <1>1, <1>2 DEF Took, Accept, Raise, Throw, Expect, isCompleted
<1>3. CASE ParseStartLine(ch)
  <2>1. CASE ParseMessage(ch)
    BY <2>1 DEF ParseMessage, Begin
  <2>2. CASE ParseLeadingSP(ch) \/ ParseFirstToken(ch) \/ ParseFirstTokenSP(ch)
    BY <2>2 DEF ParseLeadingSP, ParseFirstToken, ParseFirstTokenSP
  <2>3. CASE ParseSecondToken(ch) \/ ParseSecondTokenSP(ch)
    BY <2>3 DEF ParseSecondToken, ParseSecondTokenSP
  <2>4. CASE ParseThirdToken(ch) \/ ParseFirstLineLF(ch)
    BY <2>4 DEF ParseThirdToken, ParseFirstLineLF
  <2>. QED  BY <1>3, <2>1, <2>2, <2>3, <2>4 DEF ParseStartLine
<1>4. CASE ParseHeader(ch) \/ ParseTrailerHeader(ch)
  BY <1>4 DEF ParseHeader, ParseTrailerHeader, parseHeader
<1>5. CASE ParseHeaderName(ch) \/ ParseTrailerHeaderName(ch)
  BY <1>5 DEF ParseHeaderName, ParseTrailerHeaderName, parseHeaderName
<1>6. CASE ParseHeaderValue(ch) \/ ParseTrailerHeaderValue(ch)
  BY <1>6 DEF ParseHeaderValue, ParseTrailerHeaderValue, parseHeaderValue, ExtendValue
<1>7. CASE ParseHeaderValueLF(ch) \/ ParseTrailerHeaderValueLF(ch)
  BY <1>7 DEF ParseHeaderValueLF, ParseTrailerHeaderValueLF, parseHeaderValueLF
<1>8. CASE ParseHeaderValueLWS(ch) \/ ParseTrailerHeaderValueLWS(ch)
  BY <1>8 DEF ParseHeaderValueLWS, ParseTrailerHeaderValueLWS, parseHeaderValueLWS, appendHeader,
              ExtendValue
<1>9. CASE ParseEndOfHeader(ch) \/ ParseFinalLF(ch)
  BY <1>9 DEF ParseEndOfHeader, ParseFinalLF
<1>10. CASE ParseBody(ch)
  BY <1>10 DEF ParseBody, ParseIdentityBody, ParseChunkSize, ParseChunkExtension,
               ParseChunkSizeLF, ParseChunk, ParseChunkCR, ParseChunkLF
<1>. QED
  BY <1>3, <1>4, <1>5, <1>6, <1>7, <1>8, <1>9, <1>10
  DEF Parse, ParseHeaderSection, ParseTrailer

PlaceInv == TypeOK /\ taken \in String /\ IsPlace(taken, pos, line, col)

LEMMA PlaceParse ==
  ASSUME PlaceInv, NEW ch \in Char, ParseAndKeep(ch)
  PROVE  PlaceInv'
<1>1. TypeOK' /\ Parse(ch)
  BY ParseType DEF PlaceInv, ParseAndKeep
<1>2. CASE ~Took
  BY <1>1, <1>2, PositionParse DEF PlaceInv, ParseAndKeep, posVars
<1>3. CASE Took /\ isCompleted
  <2>1. taken' = Append(<< >>, ch) /\ AdvanceFrom(0, 1, 1, ch)
    BY <1>1, <1>3, PositionParse DEF ParseAndKeep
  <2>2. << >> \in String /\ taken' \in String
    BY <2>1 DEF String
  <2>3. IsPlace(Append(<< >>, ch), 0 + 1, IF isLineFeed(ch) THEN 1 + 1 ELSE 1,
                IF isLineFeed(ch) THEN 1 ELSE 1 + 1)
    BY <2>2, PlaceOfNothing, PlaceOfNext, Zenon
  <2>. QED  BY <1>1, <2>1, <2>2, <2>3 DEF AdvanceFrom, PlaceInv
<1>4. CASE Took /\ ~isCompleted
  <2>1. taken' = Append(taken, ch) /\ AdvanceFrom(pos, line, col, ch)
    BY <1>1, <1>4, PositionParse DEF ParseAndKeep
  <2>2. taken' \in String
    BY <2>1 DEF String, PlaceInv
  <2>3. IsPlace(Append(taken, ch), pos + 1, IF isLineFeed(ch) THEN line + 1 ELSE line,
                IF isLineFeed(ch) THEN 1 ELSE col + 1)
    BY PlaceOfNext, Zenon DEF PlaceInv
  <2>. QED  BY <1>1, <2>1, <2>2, <2>3 DEF AdvanceFrom, PlaceInv
<1>. QED  BY <1>2, <1>3, <1>4

(* Position, line and column are those of the next character in the text   *)
(* the parser has taken: a refused character counts for none of them.      *)
THEOREM PlaceCorrect == HistorySpec => []PositionIsPlaceInText
<1>1. HistoryInit => PlaceInv
  BY InitType, PlaceOfNothing DEF HistoryInit, Init, PlaceInv, String
<1>2. PlaceInv /\ [HistoryNext]_historyVars => PlaceInv'
  <2>. SUFFICES ASSUME PlaceInv, [HistoryNext]_historyVars PROVE PlaceInv'
    OBVIOUS
  <2>1. ASSUME NEW ch \in Offered[state], ParseAndKeep(ch) PROVE PlaceInv'
    BY <2>1, OfferedType, PlaceParse DEF PlaceInv
  <2>2. CASE ResetAndForget
    <3>1. taken' = << >> /\ pos' = 0 /\ line' = 1 /\ col' = 1
      BY <2>2 DEF ResetAndForget, Reset
    <3>2. TypeOK'
      BY <2>2, ResetType DEF ResetAndForget, PlaceInv
    <3>. QED  BY <3>1, <3>2, PlaceOfNothing DEF PlaceInv, String
  <2>3. CASE UNCHANGED historyVars
    BY <2>3, StutterType DEF historyVars, vars, parserVars, posVars, PlaceInv
  <2>. QED  BY <2>1, <2>2, <2>3 DEF HistoryNext
<1>3. PlaceInv => PositionIsPlaceInText
  BY DEF PlaceInv, IsPlace, Breaks, PositionIsPlaceInText
<1>. QED  BY <1>1, <1>2, <1>3, PTL DEF HistorySpec

-----------------------------------------------------------------------------
(* What a call of parse(char) does to the text and to the body the user    *)
(* keeps: a call that throws leaves both, and the parser, as they were.    *)

LEMMA ReturnedOrThrown ==
  ASSUME NEW ch \in Char, Parse(ch)
  PROVE  (\E next : result' = Returned(next)) \/ (\E code : result' = Thrown(code, ch))
<1>. USE DEF Accept, Raise, Throw, Expect
<1>1. CASE ParseStartLine(ch)
  <2>1. CASE ParseMessage(ch)
    BY <2>1 DEF ParseMessage, Begin
  <2>2. CASE ParseLeadingSP(ch) \/ ParseFirstToken(ch) \/ ParseFirstTokenSP(ch)
    BY <2>2 DEF ParseLeadingSP, ParseFirstToken, ParseFirstTokenSP
  <2>3. CASE ParseSecondToken(ch) \/ ParseSecondTokenSP(ch)
    BY <2>3 DEF ParseSecondToken, ParseSecondTokenSP
  <2>4. CASE ParseThirdToken(ch) \/ ParseFirstLineLF(ch)
    BY <2>4 DEF ParseThirdToken, ParseFirstLineLF
  <2>. QED  BY <1>1, <2>1, <2>2, <2>3, <2>4 DEF ParseStartLine
<1>2. CASE ParseHeader(ch) \/ ParseTrailerHeader(ch)
  BY <1>2 DEF ParseHeader, ParseTrailerHeader, parseHeader
<1>3. CASE ParseHeaderName(ch) \/ ParseTrailerHeaderName(ch)
  BY <1>3 DEF ParseHeaderName, ParseTrailerHeaderName, parseHeaderName
<1>4. CASE ParseHeaderValue(ch) \/ ParseTrailerHeaderValue(ch)
  BY <1>4 DEF ParseHeaderValue, ParseTrailerHeaderValue, parseHeaderValue, ExtendValue
<1>5. CASE ParseHeaderValueLF(ch) \/ ParseTrailerHeaderValueLF(ch)
  BY <1>5 DEF ParseHeaderValueLF, ParseTrailerHeaderValueLF, parseHeaderValueLF
<1>6. CASE ParseHeaderValueLWS(ch) \/ ParseTrailerHeaderValueLWS(ch)
  BY <1>6 DEF ParseHeaderValueLWS, ParseTrailerHeaderValueLWS, parseHeaderValueLWS, appendHeader,
              ExtendValue
<1>7. CASE ParseEndOfHeader(ch) \/ ParseFinalLF(ch)
  BY <1>7 DEF ParseEndOfHeader, ParseFinalLF
<1>8. CASE ParseBody(ch)
  BY <1>8 DEF ParseBody, ParseIdentityBody, ParseChunkSize, ParseChunkExtension,
              ParseChunkSizeLF, ParseChunk, ParseChunkCR, ParseChunkLF
<1>. QED
  BY <1>1, <1>2, <1>3, <1>4, <1>5, <1>6, <1>7, <1>8 DEF Parse, ParseHeaderSection, ParseTrailer

LEMMA Keeps ==
  ASSUME TypeOK, FieldBuffersInUse, NEW ch \in Char, ParseAndKeep(ch)
  PROVE  \/ ~Took /\ UNCHANGED <<parserVars, taken, body>>
         \/ /\ Took
            /\ taken' = Append(IF isCompleted THEN << >> ELSE taken, ch)
            /\ body'  = IF bodyExpected THEN Append(body, ch)
                        ELSE IF isCompleted THEN << >> ELSE body
<1>1. Parse(ch)
  BY DEF ParseAndKeep
<1>2. bodyExpected => ~isCompleted
  BY DEF bodyExpected, isCompleted
<1>3. CASE \E next : result' = Returned(next)
  <2>1. Took /\ result'.isBodyChar = bodyExpected
    BY <1>3, IsBodyChar DEF Took, Returned
  <2>. QED  BY <1>2, <2>1 DEF ParseAndKeep
<1>4. CASE \E code : result' = Thrown(code, ch)
  <2>1. result'.type = "thrown" /\ ~Took
    BY <1>4 DEF Took, Thrown
  <2>2. UNCHANGED parserVars
    BY <1>1, <2>1, ThrowParse
  <2>. QED  BY <2>1, <2>2 DEF ParseAndKeep
<1>. QED  BY <1>1, <1>3, <1>4, ReturnedOrThrown

-----------------------------------------------------------------------------
(* The section lemmas, said of the parser: what a case of parse(char) that *)
(* accepts ch makes of a section of fields.                                *)

HeaderState ==
  { "ParsingHeader", "ParsingHeaderName", "ParsingHeaderValue", "ParsingHeaderValueLF",
    "ParsingHeaderValueLWS", "ParsingEndOfHeader" }

SectionPhase(s) ==
  CASE s \in {"ParsingHeader", "ParsingTrailerHeader"} -> "Start"
    [] s \in {"ParsingHeaderName", "ParsingTrailerHeaderName"} -> "Name"
    [] s \in {"ParsingHeaderValue", "ParsingTrailerHeaderValue"} -> "Value"
    [] s \in {"ParsingHeaderValueLF", "ParsingTrailerHeaderValueLF"} -> "LF"
    [] s \in {"ParsingHeaderValueLWS", "ParsingTrailerHeaderValueLWS"} -> "LWS"
    [] s \in {"ParsingEndOfHeader", "ParsingFinalLF"} -> "End"

SectionRead(p, given) ==
  InSection(SectionPhase(state), taken, p, given, headers, headerFieldName, headerFieldValue)

SectionGoesOn(ch, p, given, isTrailer) ==
  /\ InSection(SectionPhase(state'), Append(taken, ch), p, given,
               headers', headerFieldName', headerFieldValue')
  /\ state' \in IF isTrailer THEN TrailerState ELSE HeaderState
  /\ UNCHANGED tokenVars

LEMMA Phases ==
  /\ SectionPhase("ParsingHeader") = "Start" /\ SectionPhase("ParsingTrailerHeader") = "Start"
  /\ SectionPhase("ParsingHeaderName") = "Name" /\ SectionPhase("ParsingTrailerHeaderName") = "Name"
  /\ SectionPhase("ParsingHeaderValue") = "Value"
  /\ SectionPhase("ParsingTrailerHeaderValue") = "Value"
  /\ SectionPhase("ParsingHeaderValueLF") = "LF" /\ SectionPhase("ParsingTrailerHeaderValueLF") = "LF"
  /\ SectionPhase("ParsingHeaderValueLWS") = "LWS"
  /\ SectionPhase("ParsingTrailerHeaderValueLWS") = "LWS"
  /\ SectionPhase("ParsingEndOfHeader") = "End" /\ SectionPhase("ParsingFinalLF") = "End"
BY DEF SectionPhase

LEMMA ThrowNotTaken == ASSUME NEW code, NEW ch, Raise(code, ch) \/ Throw(code, ch) PROVE ~Took
BY ThrownIsNotReturned DEF Raise, Throw, Took

LEMMA parseHeaderReads ==
  ASSUME TypeOK, taken \in String, NEW ch \in Char, NEW isTrailer \in BOOLEAN,
         NEW p \in Nat, p >= 2, NEW given, SectionRead(p, given), Took,
         state = Section(isTrailer, "ParsingTrailerHeader", "ParsingHeader"), parseHeader(ch, isTrailer)
  PROVE  SectionGoesOn(ch, p, given, isTrailer)
<1>1. InSection("Start", taken, p, given, headers, headerFieldName, headerFieldValue)
  BY Phases DEF SectionRead, Section
<1>2. CASE isCarriageReturn(ch) /\ SetField(<< >>, << >>)
           /\ Accept(Section(isTrailer, "ParsingFinalLF", "ParsingEndOfHeader"), ch)
  <2>1. /\ headers' = headers /\ UNCHANGED tokenVars /\ ch = CR
        /\ state' = Section(isTrailer, "ParsingFinalLF", "ParsingEndOfHeader")
    BY <1>2 DEF SetField, Accept, isCarriageReturn
  <2>2. SectionPhase(state') = "End" /\ state' \in IF isTrailer THEN TrailerState ELSE HeaderState
    BY <2>1, Phases DEF Section, TrailerState, HeaderState
  <2>3. given = headers
    BY <1>1 DEF InSection
  <2>4. InSection("End", Append(taken, CR), p, given, headers, headerFieldName', headerFieldValue')
    BY <1>1, SectionNothing, Zenon
  <2>. QED  BY <2>1, <2>2, <2>4, Zenon DEF SectionGoesOn
<1>3. CASE isToken(ch) /\ SetField(<<ch>>, << >>)
           /\ Accept(Section(isTrailer, "ParsingTrailerHeaderName", "ParsingHeaderName"), ch)
  <2>1. /\ headers' = headers /\ UNCHANGED tokenVars
        /\ headerFieldName' = <<ch>> /\ headerFieldValue' = << >>
        /\ state' = Section(isTrailer, "ParsingTrailerHeaderName", "ParsingHeaderName")
    BY <1>3 DEF SetField, Accept
  <2>2. SectionPhase(state') = "Name" /\ state' \in IF isTrailer THEN TrailerState ELSE HeaderState
    BY <2>1, Phases DEF Section, TrailerState, HeaderState
  <2>3. InSection("Name", Append(taken, ch), p, given, headers, <<ch>>, << >>)
    BY <1>1, <1>3, SectionName, Zenon
  <2>. QED  BY <2>1, <2>2, <2>3, Zenon DEF SectionGoesOn
<1>. QED  BY <1>2, <1>3, ThrowNotTaken DEF parseHeader

LEMMA parseHeaderNameReads ==
  ASSUME TypeOK, taken \in String, NEW ch \in Char, NEW isTrailer \in BOOLEAN,
         NEW p \in Nat, p >= 2, NEW given, SectionRead(p, given), Took,
         state = Section(isTrailer, "ParsingTrailerHeaderName", "ParsingHeaderName"),
         parseHeaderName(ch, isTrailer)
  PROVE  SectionGoesOn(ch, p, given, isTrailer)
<1>1. InSection("Name", taken, p, given, headers, headerFieldName, headerFieldValue)
  BY Phases DEF SectionRead, Section
<1>2. CASE ch = Colon /\ UNCHANGED contentVars
           /\ Accept(Section(isTrailer, "ParsingTrailerHeaderValue", "ParsingHeaderValue"), ch)
  <2>1. /\ headers' = headers /\ UNCHANGED tokenVars
        /\ headerFieldName' = headerFieldName /\ headerFieldValue' = headerFieldValue
        /\ state' = Section(isTrailer, "ParsingTrailerHeaderValue", "ParsingHeaderValue")
    BY <1>2 DEF contentVars, fieldVars, Accept
  <2>2. SectionPhase(state') = "Value" /\ state' \in IF isTrailer THEN TrailerState ELSE HeaderState
    BY <2>1, Phases DEF Section, TrailerState, HeaderState
  <2>3. InSection("Value", Append(taken, Colon), p, given, headers, headerFieldName, headerFieldValue)
    BY <1>1, SectionColon, Zenon
  <2>. QED  BY <1>2, <2>1, <2>2, <2>3, Zenon DEF SectionGoesOn
<1>3. CASE isToken(ch) /\ SetField(Append(headerFieldName, ch), headerFieldValue) /\ Accept(state, ch)
  <2>1. /\ headers' = headers /\ UNCHANGED tokenVars /\ state' = state
        /\ headerFieldName' = Append(headerFieldName, ch) /\ headerFieldValue' = headerFieldValue
    BY <1>3 DEF SetField, Accept
  <2>2. SectionPhase(state') = "Name" /\ state' \in IF isTrailer THEN TrailerState ELSE HeaderState
    BY <2>1, Phases DEF Section, TrailerState, HeaderState
  <2>3. InSection("Name", Append(taken, ch), p, given, headers, Append(headerFieldName, ch),
                  headerFieldValue)
    BY <1>1, <1>3, SectionNameGoesOn, Zenon
  <2>. QED  BY <2>1, <2>2, <2>3, Zenon DEF SectionGoesOn
<1>. QED  BY <1>2, <1>3, ThrowNotTaken DEF parseHeaderName
LEMMA parseHeaderValueReads ==
  ASSUME TypeOK, taken \in String, NEW ch \in Char, NEW isTrailer \in BOOLEAN,
         NEW p \in Nat, p >= 2, NEW given, SectionRead(p, given), Took,
         state = Section(isTrailer, "ParsingTrailerHeaderValue", "ParsingHeaderValue"),
         parseHeaderValue(ch, isTrailer)
  PROVE  SectionGoesOn(ch, p, given, isTrailer)
<1>1. InSection("Value", taken, p, given, headers, headerFieldName, headerFieldValue)
  BY Phases DEF SectionRead, Section
<1>2. taken[Len(taken)] # LF /\ GoesOn(taken, ch)
  BY <1>1 DEF InSection, LineEndsWith, GoesOn
<1>3. CASE isCarriageReturn(ch) /\ UNCHANGED contentVars
           /\ Accept(Section(isTrailer, "ParsingTrailerHeaderValueLF", "ParsingHeaderValueLF"), ch)
  <2>1. /\ headers' = headers /\ UNCHANGED tokenVars /\ ch = CR /\ ch \in {CR, LF}
        /\ headerFieldName' = headerFieldName /\ headerFieldValue' = headerFieldValue
        /\ state' = Section(isTrailer, "ParsingTrailerHeaderValueLF", "ParsingHeaderValueLF")
    BY <1>3 DEF contentVars, fieldVars, Accept, isCarriageReturn
  <2>2. SectionPhase(state') = "LF" /\ state' \in IF isTrailer THEN TrailerState ELSE HeaderState
    BY <2>1, Phases DEF Section, TrailerState, HeaderState
  <2>3. LineEndsWith("LF", ch) /\ "LF" \in {"Value", "LF", "LWS"} /\ "Value" \in {"Value", "LF", "LWS"}
    BY <2>1 DEF LineEndsWith
  <2>4. InSection("LF", Append(taken, ch), p, given, headers, headerFieldName,
                  IF taken[Len(taken)] = LF THEN Append(headerFieldValue, SP)
                  ELSE IF ch \in {CR, LF} THEN headerFieldValue ELSE Append(headerFieldValue, ch))
    BY <1>1, <1>2, <2>3, SectionValue, Zenon
  <2>5. InSection("LF", Append(taken, ch), p, given, headers, headerFieldName, headerFieldValue)
    BY <1>2, <2>1, <2>4, Zenon
  <2>. QED  BY <2>1, <2>2, <2>5, Zenon DEF SectionGoesOn
<1>4. CASE ~isControl(ch) /\ SetField(headerFieldName, Append(headerFieldValue, ch))
           /\ Accept(state, ch)
  <2>1. /\ headers' = headers /\ UNCHANGED tokenVars /\ state' = state
        /\ headerFieldName' = headerFieldName /\ headerFieldValue' = Append(headerFieldValue, ch)
    BY <1>4 DEF SetField, Accept
  <2>2. SectionPhase(state') = "Value" /\ state' \in IF isTrailer THEN TrailerState ELSE HeaderState
    BY <2>1, Phases DEF Section, TrailerState, HeaderState
  <2>3. ch # CR /\ ch # LF
    BY <1>4 DEF isControl, CR, LF
  <2>4. LineEndsWith("Value", ch) /\ "Value" \in {"Value", "LF", "LWS"} /\ ch \notin {CR, LF}
    BY <2>3 DEF LineEndsWith
  <2>5. InSection("Value", Append(taken, ch), p, given, headers, headerFieldName,
                  IF taken[Len(taken)] = LF THEN Append(headerFieldValue, SP)
                  ELSE IF ch \in {CR, LF} THEN headerFieldValue ELSE Append(headerFieldValue, ch))
    BY <1>1, <1>2, <2>4, SectionValue, Zenon
  <2>6. InSection("Value", Append(taken, ch), p, given, headers, headerFieldName,
                  Append(headerFieldValue, ch))
    BY <1>2, <2>4, <2>5, Zenon
  <2>. QED  BY <2>1, <2>2, <2>6, Zenon DEF SectionGoesOn
<1>. QED  BY <1>3, <1>4, ThrowNotTaken DEF parseHeaderValue, ExtendValue

LEMMA parseHeaderValueLFReads ==
  ASSUME TypeOK, taken \in String, NEW ch \in Char, NEW isTrailer \in BOOLEAN,
         NEW p \in Nat, p >= 2, NEW given, SectionRead(p, given), Took,
         state = Section(isTrailer, "ParsingTrailerHeaderValueLF", "ParsingHeaderValueLF"),
         parseHeaderValueLF(ch, isTrailer)
  PROVE  SectionGoesOn(ch, p, given, isTrailer)
<1>1. InSection("LF", taken, p, given, headers, headerFieldName, headerFieldValue)
  BY Phases DEF SectionRead, Section
<1>2. taken[Len(taken)] # LF /\ GoesOn(taken, ch)
  BY <1>1 DEF InSection, LineEndsWith, GoesOn, CR, LF
<1>3. /\ isLineFeed(ch) /\ UNCHANGED contentVars
      /\ Accept(Section(isTrailer, "ParsingTrailerHeaderValueLWS", "ParsingHeaderValueLWS"), ch)
  BY ThrowNotTaken DEF parseHeaderValueLF, Expect
<1>4. /\ headers' = headers /\ UNCHANGED tokenVars /\ ch = LF /\ ch \in {CR, LF}
      /\ headerFieldName' = headerFieldName /\ headerFieldValue' = headerFieldValue
      /\ state' = Section(isTrailer, "ParsingTrailerHeaderValueLWS", "ParsingHeaderValueLWS")
  BY <1>3 DEF contentVars, fieldVars, Accept, isLineFeed
<1>5. SectionPhase(state') = "LWS" /\ state' \in IF isTrailer THEN TrailerState ELSE HeaderState
  BY <1>4, Phases DEF Section, TrailerState, HeaderState
<1>6. LineEndsWith("LWS", ch) /\ "LF" \in {"Value", "LF", "LWS"} /\ "LWS" \in {"Value", "LF", "LWS"}
  BY <1>4 DEF LineEndsWith
<1>7. InSection("LWS", Append(taken, ch), p, given, headers, headerFieldName,
                IF taken[Len(taken)] = LF THEN Append(headerFieldValue, SP)
                ELSE IF ch \in {CR, LF} THEN headerFieldValue ELSE Append(headerFieldValue, ch))
  BY <1>1, <1>2, <1>6, SectionValue, Zenon
<1>8. InSection("LWS", Append(taken, ch), p, given, headers, headerFieldName, headerFieldValue)
  BY <1>2, <1>4, <1>7, Zenon
<1>. QED  BY <1>4, <1>5, <1>8, Zenon DEF SectionGoesOn

LEMMA parseHeaderValueLWSReads ==
  ASSUME TypeOK, taken \in String, NEW ch \in Char, NEW isTrailer \in BOOLEAN,
         NEW p \in Nat, p >= 2, NEW given, SectionRead(p, given), Took,
         state = Section(isTrailer, "ParsingTrailerHeaderValueLWS", "ParsingHeaderValueLWS"),
         parseHeaderValueLWS(ch, isTrailer)
  PROVE  SectionGoesOn(ch, p, given, isTrailer)
<1>. DEFINE added == add(headers, trim(headerFieldName), trim(headerFieldValue))
<1>1. InSection("LWS", taken, p, given, headers, headerFieldName, headerFieldValue)
  BY Phases DEF SectionRead, Section
<1>2. taken[Len(taken)] = LF /\ headerFieldName \in String
  BY <1>1 DEF InSection, LineEndsWith, TypeOK, ContentOK
<1>3. CASE isCarriageReturn(ch) /\ FileField(<< >>)
           /\ Accept(Section(isTrailer, "ParsingFinalLF", "ParsingEndOfHeader"), ch)
  <2>1. /\ headers' = added /\ UNCHANGED tokenVars /\ ch = CR
        /\ state' = Section(isTrailer, "ParsingFinalLF", "ParsingEndOfHeader")
    BY <1>3 DEF FileField, Accept, isCarriageReturn
  <2>2. SectionPhase(state') = "End" /\ state' \in IF isTrailer THEN TrailerState ELSE HeaderState
    BY <2>1, Phases DEF Section, TrailerState, HeaderState
  <2>3. InSection("End", Append(taken, CR), p, given, added, headerFieldName', headerFieldValue')
    BY <1>1, <1>2, SectionEnds, Zenon
  <2>. QED  BY <2>1, <2>2, <2>3, Zenon DEF SectionGoesOn
<1>4. CASE isSpaceOrTab(ch) /\ SetField(headerFieldName, Append(headerFieldValue, SP))
           /\ Accept(Section(isTrailer, "ParsingTrailerHeaderValue", "ParsingHeaderValue"), ch)
  <2>1. /\ headers' = headers /\ UNCHANGED tokenVars
        /\ headerFieldName' = headerFieldName /\ headerFieldValue' = Append(headerFieldValue, SP)
        /\ state' = Section(isTrailer, "ParsingTrailerHeaderValue", "ParsingHeaderValue")
    BY <1>4 DEF SetField, Accept
  <2>2. SectionPhase(state') = "Value" /\ state' \in IF isTrailer THEN TrailerState ELSE HeaderState
    BY <2>1, Phases DEF Section, TrailerState, HeaderState
  <2>3. ch \in White /\ ch # LF
    BY <1>4 DEF isSpaceOrTab, isSpace, isTab, White, SP, HT, LF
  <2>4. /\ GoesOn(taken, ch) /\ LineEndsWith("Value", ch)
        /\ "Value" \in {"Value", "LF", "LWS"} /\ "LWS" \in {"Value", "LF", "LWS"}
    BY <2>3 DEF LineEndsWith, GoesOn
  <2>5. InSection("Value", Append(taken, ch), p, given, headers, headerFieldName,
                  IF taken[Len(taken)] = LF THEN Append(headerFieldValue, SP)
                  ELSE IF ch \in {CR, LF} THEN headerFieldValue ELSE Append(headerFieldValue, ch))
    BY <1>1, <2>4, SectionValue, Zenon
  <2>6. InSection("Value", Append(taken, ch), p, given, headers, headerFieldName,
                  Append(headerFieldValue, SP))
    BY <1>2, <2>5, Zenon
  <2>. QED  BY <2>1, <2>2, <2>6, Zenon DEF SectionGoesOn
<1>5. CASE isToken(ch) /\ FileField(<<ch>>)
           /\ Accept(Section(isTrailer, "ParsingTrailerHeaderName", "ParsingHeaderName"), ch)
  <2>1. /\ headers' = added /\ UNCHANGED tokenVars
        /\ headerFieldName' = <<ch>> /\ headerFieldValue' = << >>
        /\ state' = Section(isTrailer, "ParsingTrailerHeaderName", "ParsingHeaderName")
    BY <1>5 DEF FileField, Accept
  <2>2. SectionPhase(state') = "Name" /\ state' \in IF isTrailer THEN TrailerState ELSE HeaderState
    BY <2>1, Phases DEF Section, TrailerState, HeaderState
  <2>3. InSection("Name", Append(taken, ch), p, given, added, <<ch>>, << >>)
    BY <1>1, <1>2, <1>5, SectionNext, Zenon
  <2>. QED  BY <2>1, <2>2, <2>3, Zenon DEF SectionGoesOn
<1>. QED  BY <1>3, <1>4, <1>5, ThrowNotTaken DEF parseHeaderValueLWS, appendHeader, ExtendValue
-----------------------------------------------------------------------------
(* The invariant: what the parser has read so far of the text it has taken *)
(* is what the text says, as far as it goes.                               *)

LinePhase(s) ==
  CASE s = "ParsingLeadingSP"     -> 0
    [] s = "ParsingFirstToken"    -> 1
    [] s = "ParsingFirstTokenSP"  -> 2
    [] s = "ParsingSecondToken"   -> 3
    [] s = "ParsingSecondTokenSP" -> 4
    [] s = "ParsingThirdToken"    -> 5
    [] s = "ParsingFirstLineLF"   -> 6

InStartLine ==
  /\ headers = << >> /\ body = << >>
  /\ \E P : /\ StartLineRead(taken, LinePhase(state), P, firstToken, secondToken, thirdToken)
            /\ state = "ParsingFirstLineLF" => P[6] = Len(taken)

InHeader ==
  /\ body = << >>
  /\ \E p : LineDone(taken, p, firstToken, secondToken, thirdToken) /\ SectionRead(p, << >>)

InIdentityBody ==
  /\ ~IsChunked /\ HasLength /\ contentLength = DeclaredLength
  /\ \E b : /\ HeaderDone(taken, b, headers, firstToken, secondToken, thirdToken)
            /\ Len(taken) + 1 = b + identityBodyBytesParsed
            /\ body = SubSeq(taken, b, Len(taken))

InChunks ==
  /\ IsChunked
  /\ state \in {"ParsingChunk", "ParsingChunkCR", "ParsingChunkLF"} => chunkSize > 0
  /\ \E b, m, f : /\ HeaderDone(taken, b, headers, firstToken, secondToken, thirdToken)
                  /\ ChunksRead(taken, b, m, f)
                  /\ InChunk(state, taken, f[m], chunkSizeStr, chunkSize, chunkBytesParsed, body)

\* All chunks from b on have been read, and the trailer starts at p.
ChunksDone(text, b, p, data) ==
  \E m, f, x, y : /\ ChunksRead(text, b, m, f) /\ SizeLine(text, f[m].last, x, y, 0)
                  /\ p = y + 2 /\ data = f[m].data

InTrailer ==
  \E b, hs, p : /\ HeaderDone(taken, b, hs, firstToken, secondToken, thirdToken)
                /\ haveValue(hs, TransferEncoding, Chunked)
                /\ ChunksDone(taken, b, p, body) /\ SectionRead(p, hs)

ReadSoFar ==
  /\ state \in StartLineState => InStartLine
  /\ state \in HeaderState => InHeader
  /\ state = "ParsingIdentityBody" => InIdentityBody
  /\ state \in ChunkState => InChunks
  /\ state \in TrailerState => InTrailer
  /\ CompletedMessageIsItsText

TextInv ==
  TypeOK /\ FieldBuffersInUse /\ BodyCountersExact /\ taken \in String /\ ReadSoFar

-----------------------------------------------------------------------------
(* The start line.                                                         *)

LineStep(k, next, ch) ==
  /\ k \in 0 .. 5 /\ next \in 0 .. 6
  /\ \/ next = k /\ ch \notin Turn[k + 1]
     \/ next = k + 1 /\ ch \in Turn[k + 1] /\ (k < 5 => ch \notin Turn[k + 2])
  /\ firstToken'  = IF next = 1 THEN Append(firstToken, ch)  ELSE firstToken
  /\ secondToken' = IF next = 3 THEN Append(secondToken, ch) ELSE secondToken
  /\ thirdToken'  = IF next = 5 THEN Append(thirdToken, ch)  ELSE thirdToken

LEMMA LineStepReads ==
  ASSUME taken \in String, NEW ch \in Char, NEW k, NEW next, LineStep(k, next, ch), NEW P,
         StartLineRead(taken, k, P, firstToken, secondToken, thirdToken)
  PROVE  \E Q : /\ StartLineRead(Append(taken, ch), next, Q, firstToken', secondToken', thirdToken')
                /\ next = 6 => Q[6] = Len(Append(taken, ch))
<1>1. CASE next = k /\ ch \notin Turn[k + 1]
  <2>1. k \in 0 .. 6 /\ next # 6
    BY <1>1 DEF LineStep
  <2>2. StartLineRead(Append(taken, ch), k, P,
                    IF k = 1 THEN Append(firstToken, ch)  ELSE firstToken,
                    IF k = 3 THEN Append(secondToken, ch) ELSE secondToken,
                    IF k = 5 THEN Append(thirdToken, ch)  ELSE thirdToken)
    BY <1>1, <2>1, TokensStay
  <2>. QED  BY <1>1, <2>1, <2>2, Zenon DEF LineStep
<1>2. CASE next = k + 1 /\ ch \in Turn[k + 1] /\ (k < 5 => ch \notin Turn[k + 2])
  <2>1. k \in 0 .. 5
    BY DEF LineStep
  <2>2. StartLineRead(Append(taken, ch), k + 1, CutHere(taken, k, P),
                    IF k + 1 = 1 THEN Append(firstToken, ch)  ELSE firstToken,
                    IF k + 1 = 3 THEN Append(secondToken, ch) ELSE secondToken,
                    IF k + 1 = 5 THEN Append(thirdToken, ch)  ELSE thirdToken)
    BY <1>2, <2>1, TokensGoOn
  <2>3. CutHere(taken, k, P)[k + 1] = Len(taken) + 1
    <3>1. P \in Places
      BY DEF StartLineRead, LineRead
    <3>. QED  BY <2>1, <3>1, CutAt
  <2>. QED  BY <1>2, <2>2, <2>3, Appended, Zenon DEF LineStep
<1>. QED  BY <1>1, <1>2 DEF LineStep

LEMMA TurnIs ==
  ASSUME NEW ch \in Char
  PROVE  /\ isSpaceOrTab(ch) => ch \in White /\ ch \notin Word
         /\ isWord(ch) => ch \in Word /\ ch \notin White /\ ch # CR
         /\ isText(ch) => ch # CR
BY DEF isWord, isText, isChar, isControl, isSpaceOrTab, isSpace, isTab, Word, White, SP, HT, CR, Char

LEMMA StartLineSteps ==
  ASSUME TypeOK, NEW ch \in Char, state \in StartLineState, state # "ParsingFirstLineLF",
         ParseStartLine(ch), Took
  PROVE  /\ state' \in StartLineState /\ LineStep(LinePhase(state), LinePhase(state'), ch)
         /\ headers' = headers
         /\ state' = "ParsingFirstLineLF" => LinePhase(state') = 6
<1>. USE ThrowNotTaken DEF Accept, contentVars, tokenVars, restVars, StartLineState, LinePhase, LineStep
<1>1. /\ Turn[1] = Word /\ Turn[2] = White /\ Turn[3] = Word /\ Turn[4] = White
      /\ Turn[5] = Word /\ Turn[6] = {CR}
  BY DEF Turn
<1>2. CASE ParseLeadingSP(ch)
  BY <1>1, <1>2, TurnIs DEF ParseLeadingSP
<1>3. CASE ParseFirstToken(ch)
  BY <1>1, <1>3, TurnIs DEF ParseFirstToken
<1>4. CASE ParseFirstTokenSP(ch)
  BY <1>1, <1>4, TurnIs DEF ParseFirstTokenSP
<1>5. CASE ParseSecondToken(ch)
  BY <1>1, <1>5, TurnIs DEF ParseSecondToken
<1>6. CASE ParseSecondTokenSP(ch)
  BY <1>1, <1>6, TurnIs DEF ParseSecondTokenSP
<1>7. CASE ParseThirdToken(ch)
  BY <1>1, <1>7, TurnIs DEF ParseThirdToken, isCarriageReturn
<1>8. ~ParseMessage(ch) /\ ~ParseFirstLineLF(ch)
  BY DEF ParseMessage, ParseFirstLineLF
<1>. QED  BY <1>2, <1>3, <1>4, <1>5, <1>6, <1>7, <1>8, Zenon DEF ParseStartLine
\* Only one part of the invariant speaks of a state.
LEMMA ReadInStartLine == ASSUME state' \in StartLineState, InStartLine' PROVE ReadSoFar'
BY DEF ReadSoFar, StartLineState, HeaderState, ChunkState, TrailerState, CompletedMessageIsItsText, isCompleted

LEMMA ReadInHeader == ASSUME state' \in HeaderState, InHeader' PROVE ReadSoFar'
BY DEF ReadSoFar, StartLineState, HeaderState, ChunkState, TrailerState, CompletedMessageIsItsText, isCompleted

LEMMA ReadInIdentityBody == ASSUME state' = "ParsingIdentityBody", InIdentityBody' PROVE ReadSoFar'
BY DEF ReadSoFar, StartLineState, HeaderState, ChunkState, TrailerState, CompletedMessageIsItsText, isCompleted

LEMMA ReadInChunks == ASSUME state' \in ChunkState, InChunks' PROVE ReadSoFar'
BY DEF ReadSoFar, StartLineState, HeaderState, ChunkState, TrailerState, CompletedMessageIsItsText, isCompleted

LEMMA ReadInTrailer == ASSUME state' \in TrailerState, InTrailer' PROVE ReadSoFar'
BY DEF ReadSoFar, StartLineState, HeaderState, ChunkState, TrailerState, CompletedMessageIsItsText, isCompleted

LEMMA ReadWhenCompleted ==
  ASSUME state' = "ParsingMessage",
         Reading(taken') = [first |-> firstToken', second |-> secondToken', third |-> thirdToken',
                            headers |-> headers', body |-> body', size |-> Len(taken')]
  PROVE  ReadSoFar'
BY DEF ReadSoFar, StartLineState, HeaderState, ChunkState, TrailerState, CompletedMessageIsItsText

\* A character that has been taken, and what the user has kept of it.
Kept(ch) ==
  /\ Took
  /\ taken' = Append(IF isCompleted THEN << >> ELSE taken, ch)
  /\ body'  = IF bodyExpected THEN Append(body, ch) ELSE IF isCompleted THEN << >> ELSE body

LEMMA NothingRead ==
  StartLineRead(<< >>, 0, [j \in 0 .. 6 |-> 1], << >>, << >>, << >>)
<1>. DEFINE P == [j \in 0 .. 6 |-> 1]
<1>1. P \in Places /\ P[0] = 1 /\ 1 .. 0 = {} /\ 1 .. Len(<< >>) = {}
  BY DEF Places
<1>. HIDE DEF P
<1>2. LineRead(<< >>, 0, P)
  BY <1>1 DEF LineRead, NotYet, From
<1>3. 0 < 1 /\ 0 < 3 /\ 0 < 5
  OBVIOUS
<1>. QED  BY <1>2, <1>3, TokenBefore, Zenon DEF StartLineRead, P

LEMMA BeginReads ==
  ASSUME TypeOK, NEW ch \in Char, ParseMessage(ch), Kept(ch)
  PROVE  ReadSoFar'
<1>. DEFINE P == [j \in 0 .. 6 |-> 1]
<1>1. /\ state = "ParsingMessage" /\ taken' = Append(<< >>, ch) /\ body' = << >> /\ Took
      /\ << >> \in String
  BY DEF ParseMessage, Kept, isCompleted, bodyExpected, String
<1>2. Append(<< >>, ch) = <<ch>>
  OBVIOUS
<1>3. Turn[1] = Word /\ Turn[2] = White /\ 0 \in 0 .. 6 /\ 0 \in 0 .. 5
  BY DEF Turn
<1>4. StartLineRead(<< >>, 0, P, << >>, << >>, << >>)
  BY NothingRead
<1>. HIDE DEF P
<1>5. CASE isSpaceOrTab(ch) /\ Begin(<< >>, "ParsingLeadingSP", ch)
  <2>1. /\ firstToken' = << >> /\ secondToken' = << >> /\ thirdToken' = << >>
        /\ state' = "ParsingLeadingSP" /\ headers' = << >>
    BY <1>5 DEF Begin, ClearContent
  <2>2. ch \notin Turn[0 + 1] /\ 0 # 1 /\ 0 # 3 /\ 0 # 5
    BY <1>3, <1>5, TurnIs
  <2>3. StartLineRead(Append(<< >>, ch), 0, P, IF 0 = 1 THEN Append(<< >>, ch)  ELSE << >>,
                    IF 0 = 3 THEN Append(<< >>, ch) ELSE << >>,
                    IF 0 = 5 THEN Append(<< >>, ch)  ELSE << >>)
    BY <1>1, <1>3, <1>4, <2>2, TokensStay
  <2>4. StartLineRead(taken', 0, P, firstToken', secondToken', thirdToken')
    BY <1>1, <2>1, <2>2, <2>3, Zenon
  <2>5. InStartLine' /\ state' \in StartLineState
    BY <1>1, <2>1, <2>4 DEF InStartLine, LinePhase, StartLineState
  <2>. QED  BY <2>5, ReadInStartLine
<1>6. CASE isWord(ch) /\ Begin(<<ch>>, "ParsingFirstToken", ch)
  <2>1. /\ firstToken' = <<ch>> /\ secondToken' = << >> /\ thirdToken' = << >>
        /\ state' = "ParsingFirstToken" /\ headers' = << >>
    BY <1>6 DEF Begin, ClearContent
  <2>2. ch \in Turn[0 + 1] /\ ch \notin Turn[0 + 2] /\ 0 + 1 = 1 /\ 1 # 3 /\ 1 # 5
    BY <1>3, <1>6, TurnIs
  <2>3. StartLineRead(Append(<< >>, ch), 0 + 1, CutHere(<< >>, 0, P),
                    IF 0 + 1 = 1 THEN Append(<< >>, ch) ELSE << >>,
                    IF 0 + 1 = 3 THEN Append(<< >>, ch) ELSE << >>,
                    IF 0 + 1 = 5 THEN Append(<< >>, ch) ELSE << >>)
    BY <1>1, <1>3, <1>4, <2>2, TokensGoOn
  <2>4. StartLineRead(taken', 1, CutHere(<< >>, 0, P), firstToken', secondToken', thirdToken')
    BY <1>1, <1>2, <2>1, <2>2, <2>3, Zenon
  <2>5. InStartLine' /\ state' \in StartLineState
    BY <1>1, <2>1, <2>4 DEF InStartLine, LinePhase, StartLineState
  <2>. QED  BY <2>5, ReadInStartLine
<1>. QED  BY <1>1, <1>5, <1>6, ThrowNotTaken DEF ParseMessage

LEMMA StartLineReads ==
  ASSUME TypeOK, taken \in String, ReadSoFar, NEW ch \in Char, Kept(ch),
         state \in StartLineState, state # "ParsingFirstLineLF", ParseStartLine(ch)
  PROVE  ReadSoFar'
<1>1. /\ taken' = Append(taken, ch) /\ body' = body /\ Took /\ InStartLine
  BY DEF Kept, isCompleted, bodyExpected, StartLineState, ReadSoFar
<1>2. PICK P : StartLineRead(taken, LinePhase(state), P, firstToken, secondToken, thirdToken)
  BY <1>1 DEF InStartLine
<1>3. /\ state' \in StartLineState /\ LineStep(LinePhase(state), LinePhase(state'), ch)
      /\ headers' = headers
      /\ state' = "ParsingFirstLineLF" => LinePhase(state') = 6
  BY <1>1, StartLineSteps
<1>4. PICK Q : /\ StartLineRead(Append(taken, ch), LinePhase(state'), Q,
                                firstToken', secondToken', thirdToken')
               /\ LinePhase(state') = 6 => Q[6] = Len(Append(taken, ch))
  BY <1>2, <1>3, LineStepReads, Zenon
<1>5. InStartLine'
  <2>1. headers' = << >> /\ body' = << >>
    BY <1>1, <1>3 DEF InStartLine
  <2>2. (state' = "ParsingFirstLineLF" => Q[6] = Len(taken'))
    BY <1>1, <1>3, <1>4, Zenon
  <2>3. StartLineRead(taken', LinePhase(state'), Q, firstToken', secondToken', thirdToken')
    BY <1>1, <1>4, Zenon
  <2>. QED  BY <2>1, <2>2, <2>3, Zenon DEF InStartLine
<1>. QED  BY <1>3, <1>5, ReadInStartLine

LEMMA FirstLineLFReads ==
  ASSUME TypeOK, taken \in String, ReadSoFar, NEW ch \in Char, Kept(ch), ParseFirstLineLF(ch)
  PROVE  ReadSoFar'
<1>1. /\ state = "ParsingFirstLineLF" /\ taken' = Append(taken, ch) /\ body' = body /\ Took
      /\ InStartLine
  BY DEF ParseFirstLineLF, Kept, isCompleted, bodyExpected, StartLineState, ReadSoFar
<1>2. /\ ch = LF /\ state' = "ParsingHeader"
      /\ headers' = headers /\ UNCHANGED tokenVars
  BY <1>1, ThrowNotTaken DEF ParseFirstLineLF, Expect, Accept, isLineFeed, contentVars
<1>3. PICK P : /\ StartLineRead(taken, 6, P, firstToken, secondToken, thirdToken)
               /\ P[6] = Len(taken)
  BY <1>1 DEF InStartLine, LinePhase
<1>4. PICK p : p = Len(taken) + 2
  OBVIOUS
<1>5. LineDone(taken', p, firstToken, secondToken, thirdToken)
  <2>1. LineDone(taken, p, firstToken, secondToken, thirdToken)
    BY <1>3, <1>4 DEF LineDone
  <2>. QED  BY <1>1, <2>1, LineDoneStays
<1>6. Len(taken') + 1 = p /\ taken'[Len(taken')] = LF
  BY <1>1, <1>2, <1>4, Appended
<1>7. SectionRead(p, << >>)'
  <2>1. InSection("Start", taken', p, << >>, << >>, headerFieldName', headerFieldValue')
    BY <1>6 DEF InSection
  <2>2. SectionPhase(state') = "Start" /\ headers' = << >>
    BY <1>1, <1>2, Phases DEF InStartLine
  <2>. QED  BY <2>1, <2>2, Zenon DEF SectionRead
<1>8. InHeader' /\ state' \in HeaderState
  <2>1. body' = << >> /\ state' \in HeaderState
    BY <1>1, <1>2 DEF InStartLine, HeaderState
  <2>2. LineDone(taken', p, firstToken', secondToken', thirdToken')
    BY <1>2, <1>5, Zenon DEF tokenVars
  <2>. QED  BY <1>7, <2>1, <2>2, Zenon DEF InHeader
<1>. QED  BY <1>8, ReadInHeader
-----------------------------------------------------------------------------
(* The header, and a message without a body or with one of a given length. *)

SectionStep(ch, isTrailer) ==
  \/ /\ state = Section(isTrailer, "ParsingTrailerHeader", "ParsingHeader")
     /\ parseHeader(ch, isTrailer)
  \/ /\ state = Section(isTrailer, "ParsingTrailerHeaderName", "ParsingHeaderName")
     /\ parseHeaderName(ch, isTrailer)
  \/ /\ state = Section(isTrailer, "ParsingTrailerHeaderValue", "ParsingHeaderValue")
     /\ parseHeaderValue(ch, isTrailer)
  \/ /\ state = Section(isTrailer, "ParsingTrailerHeaderValueLF", "ParsingHeaderValueLF")
     /\ parseHeaderValueLF(ch, isTrailer)
  \/ /\ state = Section(isTrailer, "ParsingTrailerHeaderValueLWS", "ParsingHeaderValueLWS")
     /\ parseHeaderValueLWS(ch, isTrailer)

LEMMA SectionReads ==
  ASSUME TypeOK, taken \in String, NEW ch \in Char, NEW isTrailer \in BOOLEAN,
         NEW p \in Nat, p >= 2, NEW given, SectionRead(p, given), Took, SectionStep(ch, isTrailer)
  PROVE  SectionGoesOn(ch, p, given, isTrailer)
BY parseHeaderReads, parseHeaderNameReads, parseHeaderValueReads, parseHeaderValueLFReads,
   parseHeaderValueLWSReads, Zenon DEF SectionStep

LEMMA HeaderReads ==
  ASSUME TypeOK, taken \in String, ReadSoFar, NEW ch \in Char, Kept(ch),
         state \in HeaderState, SectionStep(ch, FALSE)
  PROVE  ReadSoFar'
<1>1. taken' = Append(taken, ch) /\ body' = body /\ Took /\ InHeader
  BY DEF Kept, isCompleted, bodyExpected, HeaderState, ReadSoFar
<1>2. PICK p : LineDone(taken, p, firstToken, secondToken, thirdToken) /\ SectionRead(p, << >>)
  BY <1>1 DEF InHeader
<1>3. p \in Nat /\ p >= 2 /\ LineDone(Append(taken, ch), p, firstToken, secondToken, thirdToken)
  BY <1>2, LineDoneWithin, LineDoneStays
<1>4. SectionGoesOn(ch, p, << >>, FALSE)
  BY <1>1, <1>2, <1>3, SectionReads
<1>5. SectionRead(p, << >>)' /\ state' \in HeaderState /\ UNCHANGED tokenVars
  BY <1>1, <1>4, Zenon DEF SectionGoesOn, SectionRead
<1>6. LineDone(taken', p, firstToken', secondToken', thirdToken')
  BY <1>1, <1>3, <1>5, Zenon DEF tokenVars
<1>7. InHeader'
  BY <1>1, <1>5, <1>6, Zenon DEF InHeader
<1>. QED  BY <1>5, <1>7, ReadInHeader

LEMMA HeaderEnds ==
  ASSUME NEW text \in String, NEW p, NEW first, NEW second, NEW third,
         LineDone(text, p, first, second, third), IsEmptyLine(Len(text), text, p),
         NEW ch \in Char
  PROVE  HeaderDone(Append(text, ch), Len(text) + 2, Filed(<< >>, text, p, Len(text)),
                    first, second, third)
<1>. DEFINE e == Len(text)
<1>1. p \in Nat /\ p >= 2 /\ p \in Nat \ {0}
  BY LineDoneWithin
<1>2. LineDone(Append(text, ch), p, first, second, third) /\ IsEmptyLine(e, Append(text, ch), p)
  BY <1>1, LineDoneStays, EmptyLineStays
<1>3. e \in Nat /\ p <= e /\ e <= Len(text) + 1 /\ e + 2 <= Len(Append(text, ch)) + 1
  BY <1>1, Appended DEF IsEmptyLine, From
<1>4. Filed(<< >>, Append(text, ch), p, e) = Filed(<< >>, text, p, e)
  BY <1>1, <1>3, FiledStays
<1>. QED  BY <1>2, <1>3, <1>4, Zenon DEF HeaderDone

LEMMA IdentityReadingIs ==
  ASSUME NEW text \in String, NEW b, NEW hs, NEW first, NEW second, NEW third,
         HeaderDone(text, b, hs, first, second, third), ~haveValue(hs, TransferEncoding, Chunked),
         NEW n \in Nat, n = LengthIn(hs), Len(text) + 1 = b + n
  PROVE  Reading(text) = [first |-> first, second |-> second, third |-> third, headers |-> hs,
                          body |-> SubSeq(text, b, Len(text)), size |-> Len(text)]
<1>. DEFINE data == SubSeq(text, b, Len(text))
            rest == [headers |-> hs, body |-> data, size |-> Len(text)]
<1>1. b \in Nat /\ Len(text) \in Nat
  <2>1. b \in Nat \ {0}
    BY HeaderDoneWithin, Zenon
  <2>. QED  BY <2>1, Appended DEF String
<1>2. (b + n) - 1 = Len(text)
  BY <1>1
<1>3. IdentityReading(text, hs, b) = rest
  BY <1>2, Zenon DEF IdentityReading, Part
<1>4. RestOf(text, hs, b) = rest
  BY <1>3, Zenon DEF RestOf
<1>5. rest.headers = hs /\ rest.body = data /\ rest.size = Len(text)
  BY Zenon
<1>. HIDE DEF rest, data
<1>6. Reading(text) = [first |-> first, second |-> second, third |-> third, headers |-> hs,
                       body |-> data, size |-> Len(text)]
  BY <1>4, <1>5, ReadingIs, Zenon
<1>. QED  BY <1>6 DEF data

LEMMA EndOfHeaderReads ==
  ASSUME TypeOK, BodyCountersExact, taken \in String, ReadSoFar, NEW ch \in Char, Kept(ch),
         ParseEndOfHeader(ch)
  PROVE  ReadSoFar'
<1>1. /\ taken' = Append(taken, ch) /\ body' = << >> /\ Took /\ InHeader
      /\ state = "ParsingEndOfHeader"
  BY DEF Kept, isCompleted, bodyExpected, HeaderState, ReadSoFar, ParseEndOfHeader, InHeader
<1>2. PICK p : LineDone(taken, p, firstToken, secondToken, thirdToken) /\ SectionRead(p, << >>)
  BY <1>1 DEF InHeader
<1>3. IsEmptyLine(Len(taken), taken, p) /\ headers = Filed(<< >>, taken, p, Len(taken))
  BY <1>1, <1>2, Phases DEF SectionRead, InSection
<1>4. PICK b : b = Len(taken) + 2
  OBVIOUS
<1>5. HeaderDone(taken', b, headers, firstToken, secondToken, thirdToken)
  BY <1>1, <1>2, <1>3, <1>4, HeaderEnds, Zenon
<1>6. taken' \in String /\ Len(taken') + 1 = b /\ Len(taken') + 1 = b + 0 /\ b \in Nat \ {0}
  BY <1>1, <1>4, Appended
<1>7. UNCHANGED <<tokenVars, headers, chunkVars, identityBodyBytesParsed>>
  BY <1>1, ThrowNotTaken DEF ParseEndOfHeader, contentVars, bodyVars
<1>8. /\ firstToken' = firstToken /\ secondToken' = secondToken /\ thirdToken' = thirdToken
      /\ headers' = headers /\ chunkSizeStr' = chunkSizeStr
      /\ identityBodyBytesParsed' = identityBodyBytesParsed
  BY <1>7 DEF tokenVars, chunkVars
<1>9. identityBodyBytesParsed = 0 /\ chunkSizeStr = << >>
  BY <1>1, UIntSizeAssumption, ParserAssumption DEF BodyCountersExact, TypeOK, ContentOK, SizeT
<1>10. SubSeq(taken', b, Len(taken')) = << >>
  BY <1>6
<1>11. CASE IsChunked /\ state' = "ParsingChunkSize"
  <2>. DEFINE f == [j \in 0 .. 0 |-> NoChunk(b)]
  <2>1. ChunksRead(taken', b, 0, f)
    <3>1. b <= Len(taken') + 1
      BY <1>6
    <3>. QED  BY <1>6, <3>1, NoChunks
  <2>2. f[0] = NoChunk(b) /\ NoChunk(b).last = b /\ NoChunk(b).data = << >>
    BY DEF NoChunk
  <2>. HIDE DEF f
  <2>3. InChunk("ParsingChunkSize", taken', f[0], << >>, chunkSize', chunkBytesParsed', f[0].data)
    BY <1>6, <2>2, ChunkSizeBegins
  <2>4. InChunk(state', taken', f[0], chunkSizeStr', chunkSize', chunkBytesParsed', body')
    BY <1>1, <1>8, <1>9, <1>11, <2>2, <2>3, Zenon
  <2>5. IsChunked' /\ state' \notin {"ParsingChunk", "ParsingChunkCR", "ParsingChunkLF"}
    BY <1>8, <1>11 DEF IsChunked
  <2>6. HeaderDone(taken', b, headers', firstToken', secondToken', thirdToken')
    BY <1>5, <1>8, Zenon
  <2>7. InChunks'
    BY <2>1, <2>4, <2>5, <2>6, Zenon DEF InChunks
  <2>. QED  BY <1>11, <2>7, ReadInChunks DEF ChunkState
<1>12. CASE ~IsChunked /\ HasLength /\ DeclaredLength \in UInt /\ contentLength' = DeclaredLength
            /\ state' = "ParsingIdentityBody"
  <2>1. ~IsChunked' /\ HasLength' /\ contentLength' = DeclaredLength'
    BY <1>8, <1>12 DEF IsChunked, HasLength, DeclaredLength
  <2>2. HeaderDone(taken', b, headers', firstToken', secondToken', thirdToken')
    BY <1>5, <1>8, Zenon
  <2>3. Len(taken') + 1 = b + identityBodyBytesParsed' /\ body' = SubSeq(taken', b, Len(taken'))
    BY <1>1, <1>6, <1>8, <1>9, <1>10, Zenon
  <2>4. InIdentityBody'
    BY <2>1, <2>2, <2>3, Zenon DEF InIdentityBody
  <2>. QED  BY <1>12, <2>4, ReadInIdentityBody
<1>13. CASE ~IsChunked /\ (HasLength => DeclaredLength = 0) /\ state' = "ParsingMessage"
  <2>1. ~haveValue(headers, TransferEncoding, Chunked) /\ 0 = LengthIn(headers) /\ 0 \in Nat
    BY <1>13 DEF IsChunked, HasLength, DeclaredLength, LengthIn
  <2>2. Reading(taken') = [first |-> firstToken, second |-> secondToken, third |-> thirdToken,
                           headers |-> headers, body |-> SubSeq(taken', b, Len(taken')),
                           size |-> Len(taken')]
    BY <1>5, <1>6, <2>1, IdentityReadingIs
  <2>3. Reading(taken') = [first |-> firstToken', second |-> secondToken', third |-> thirdToken',
                           headers |-> headers', body |-> body', size |-> Len(taken')]
    BY <1>1, <1>8, <1>10, <2>2, Zenon
  <2>. QED  BY <1>13, <2>3, ReadWhenCompleted
<1>. QED  BY <1>1, <1>11, <1>12, <1>13, ThrowNotTaken DEF ParseEndOfHeader, Accept

LEMMA IdentityBodyReads ==
  ASSUME TypeOK, BodyCountersExact, taken \in String, ReadSoFar, NEW ch \in Char, Kept(ch),
         ParseIdentityBody(ch)
  PROVE  ReadSoFar'
<1>1. /\ taken' = Append(taken, ch) /\ body' = Append(body, ch) /\ InIdentityBody
      /\ state = "ParsingIdentityBody"
  BY DEF Kept, isCompleted, bodyExpected, ReadSoFar, ParseIdentityBody
<1>2. PICK b : /\ HeaderDone(taken, b, headers, firstToken, secondToken, thirdToken)
               /\ Len(taken) + 1 = b + identityBodyBytesParsed
               /\ body = SubSeq(taken, b, Len(taken))
  BY <1>1 DEF InIdentityBody
<1>3. /\ identityBodyBytesParsed \in SizeT /\ contentLength \in UInt
      /\ identityBodyBytesParsed \in Nat /\ contentLength \in Nat
      /\ identityBodyBytesParsed < contentLength
  BY <1>1, UIntSizeAssumption, ParserAssumption DEF BodyCountersExact, TypeOK, ContentOK, SizeT, UInt
<1>4. /\ identityBodyBytesParsed' = identityBodyBytesParsed + 1 /\ contentLength' = contentLength
      /\ firstToken' = firstToken /\ secondToken' = secondToken /\ thirdToken' = thirdToken
      /\ headers' = headers
  BY <1>3, IncrementBelow DEF ParseIdentityBody, tokenVars
<1>5. state' = IF identityBodyBytesParsed + 1 >= contentLength THEN "ParsingMessage" ELSE state
  BY <1>4 DEF ParseIdentityBody, Accept
<1>6. HeaderDone(taken', b, headers, firstToken, secondToken, thirdToken)
  BY <1>1, <1>2, HeaderDoneStays
<1>7. /\ b \in 1 .. Len(taken) + 1 /\ taken' \in String
      /\ Len(taken') = Len(taken) + 1 /\ Len(taken') + 1 = b + (identityBodyBytesParsed + 1)
  BY <1>1, <1>2, <1>3, HeaderDoneWithin, Appended
<1>8. SubSeq(taken', b, Len(taken')) = body'
  BY <1>1, <1>2, <1>7, PartGrows, Zenon
<1>9. ~IsChunked /\ HasLength /\ contentLength = DeclaredLength
  BY <1>1 DEF InIdentityBody
<1>10. CASE identityBodyBytesParsed + 1 >= contentLength
  <2>1. identityBodyBytesParsed + 1 = contentLength /\ state' = "ParsingMessage"
    BY <1>3, <1>5, <1>10
  <2>2. ~haveValue(headers, TransferEncoding, Chunked) /\ contentLength = LengthIn(headers)
    BY <1>9 DEF IsChunked, HasLength, DeclaredLength, LengthIn
  <2>3. Len(taken') + 1 = b + contentLength
    BY <1>7, <2>1
  <2>4. Reading(taken') = [first |-> firstToken, second |-> secondToken, third |-> thirdToken,
                           headers |-> headers, body |-> SubSeq(taken', b, Len(taken')),
                           size |-> Len(taken')]
    BY <1>3, <1>6, <1>7, <2>2, <2>3, IdentityReadingIs
  <2>5. Reading(taken') = [first |-> firstToken', second |-> secondToken', third |-> thirdToken',
                           headers |-> headers', body |-> body', size |-> Len(taken')]
    BY <1>4, <1>8, <2>4, Zenon
  <2>. QED  BY <2>1, <2>5, ReadWhenCompleted
<1>11. CASE ~(identityBodyBytesParsed + 1 >= contentLength)
  <2>1. state' = "ParsingIdentityBody"
    BY <1>1, <1>5, <1>11
  <2>2. ~IsChunked' /\ HasLength' /\ contentLength' = DeclaredLength'
    BY <1>4, <1>9 DEF IsChunked, HasLength, DeclaredLength
  <2>3. HeaderDone(taken', b, headers', firstToken', secondToken', thirdToken')
    BY <1>4, <1>6, Zenon
  <2>4. Len(taken') + 1 = b + identityBodyBytesParsed' /\ body' = SubSeq(taken', b, Len(taken'))
    BY <1>4, <1>7, <1>8, Zenon
  <2>5. InIdentityBody'
    BY <2>2, <2>3, <2>4, Zenon DEF InIdentityBody
  <2>. QED  BY <2>1, <2>5, ReadInIdentityBody
<1>. QED  BY <1>10, <1>11
-----------------------------------------------------------------------------
(* A body in chunks.                                                       *)

LEMMA ChunksFrom ==
  ASSUME NEW text, NEW start, NEW m, NEW f, ChunksRead(text, start, m, f)
  PROVE  ChunkFrom(text, f[m])
<1>1. m \in 0 .. m /\ m \in Nat
  BY DEF ChunksRead
<1>2. f[m].last \in Nat /\ f[m].last > m /\ f[m].last <= Len(text) + 1 /\ f[m].data \in String
  BY <1>1 DEF ChunksRead
<1>. QED  BY <1>1, <1>2 DEF ChunkFrom

\* The chunks f[1], ..., f[m] of the body that starts at b, and one more.
ChunkedAt(text, b, m, f) ==
  /\ HeaderDone(text, b, headers, firstToken, secondToken, thirdToken)
  /\ ChunksRead(text, b, m, f)

ChunkRead(c) == InChunk(state, taken, c, chunkSizeStr, chunkSize, chunkBytesParsed, body)

LEMMA ChunkedAtStays ==
  ASSUME NEW text \in String, NEW b, NEW m, NEW f, ChunkedAt(text, b, m, f), NEW ch \in Char
  PROVE  ChunkedAt(Append(text, ch), b, m, f) /\ ChunkFrom(text, f[m])
BY HeaderDoneStays, ChunksStay, ChunksFrom, Zenon DEF ChunkedAt

LEMMA ChunkedReads ==
  ASSUME IsChunked, UNCHANGED <<tokenVars, headers>>, state' \in ChunkState,
         NEW b, NEW m, NEW f, ChunkedAt(taken', b, m, f), ChunkRead(f[m])',
         state' \in {"ParsingChunk", "ParsingChunkCR", "ParsingChunkLF"} => chunkSize' > 0
  PROVE  ReadSoFar'
<1>1. IsChunked'
  BY DEF IsChunked
<1>2. HeaderDone(taken', b, headers', firstToken', secondToken', thirdToken')
      /\ ChunksRead(taken', b, m, f)
  BY Zenon DEF ChunkedAt, tokenVars
<1>3. InChunks'
  BY <1>1, <1>2, Zenon DEF InChunks, ChunkRead
<1>. QED  BY <1>3, ReadInChunks

LEMMA ChunkedBefore ==
  ASSUME taken \in String, ReadSoFar, NEW ch \in Char, Kept(ch), state \in ChunkState
  PROVE  /\ taken' = Append(taken, ch) /\ Took /\ IsChunked
         /\ body' = IF state = "ParsingChunk" THEN Append(body, ch) ELSE body
         /\ state \in {"ParsingChunk", "ParsingChunkCR", "ParsingChunkLF"} => chunkSize > 0
         /\ \E b, m, f : ChunkedAt(taken, b, m, f) /\ ChunkRead(f[m])
<1>1. InChunks
  BY DEF ReadSoFar
<1>2. /\ taken' = Append(taken, ch) /\ Took
      /\ body' = IF state = "ParsingChunk" THEN Append(body, ch) ELSE body
  BY DEF Kept, isCompleted, bodyExpected, ChunkState
<1>. QED  BY <1>1, <1>2, Zenon DEF InChunks, ChunkedAt, ChunkRead

LEMMA ChunkSizeReads ==
  ASSUME TypeOK, taken \in String, ReadSoFar, NEW ch \in Char, Kept(ch), ParseChunkSize(ch)
  PROVE  ReadSoFar'
<1>1. state = "ParsingChunkSize" /\ state \in ChunkState
  BY DEF ParseChunkSize, ChunkState
<1>2. taken' = Append(taken, ch) /\ Took /\ IsChunked /\ body' = body
  BY <1>1, ChunkedBefore
<1>3. PICK b, m, f : ChunkedAt(taken, b, m, f) /\ ChunkRead(f[m])
  BY <1>1, ChunkedBefore, Zenon
<1>4. ChunkedAt(taken', b, m, f) /\ ChunkFrom(taken, f[m])
  BY <1>2, <1>3, ChunkedAtStays
<1>5. InChunk("ParsingChunkSize", taken, f[m], chunkSizeStr, chunkSize, chunkBytesParsed, body)
  BY <1>1, <1>3 DEF ChunkRead
<1>6. CASE isHexDigit(ch) /\ chunkSizeStr' = Append(chunkSizeStr, ch) /\ Accept("ParsingChunkSize", ch)
           /\ UNCHANGED <<tokenVars, headers, chunkSize, chunkBytesParsed>>
  <2>1. InChunk("ParsingChunkSize", taken', f[m], Append(chunkSizeStr, ch), chunkSize,
                chunkBytesParsed, body)
    BY <1>2, <1>4, <1>5, <1>6, ChunkSizeGoesOn, Zenon
  <2>2. ChunkRead(f[m])' /\ state' = "ParsingChunkSize"
    BY <1>2, <1>6, <2>1 DEF ChunkRead, Accept
  <2>3. state' \in ChunkState /\ state' \notin {"ParsingChunk", "ParsingChunkCR", "ParsingChunkLF"}
    BY <2>2 DEF ChunkState
  <2>. QED  BY <1>2, <1>4, <1>6, <2>2, <2>3, ChunkedReads, Zenon
<1>7. CASE /\ ~isHexDigit(ch) /\ StartChunk /\ UNCHANGED <<tokenVars, headers>>
           /\ Accept(IF isCarriageReturn(ch) THEN "ParsingChunkSizeLF" ELSE "ParsingChunkExtension", ch)
  <2>1. InChunk(IF ch = CR THEN "ParsingChunkSizeLF" ELSE "ParsingChunkExtension",
                taken', f[m], << >>, toUnsignedInt(chunkSizeStr, TRUE), 0, body)
    BY <1>2, <1>4, <1>5, <1>7, ChunkSizeEnds, Zenon
  <2>2. state' = IF ch = CR THEN "ParsingChunkSizeLF" ELSE "ParsingChunkExtension"
    BY <1>7 DEF Accept, isCarriageReturn
  <2>3. chunkSizeStr' = << >> /\ chunkSize' = toUnsignedInt(chunkSizeStr, TRUE) /\ chunkBytesParsed' = 0
    BY <1>7 DEF StartChunk, SizeRead
  <2>4. ChunkRead(f[m])'
    BY <1>2, <2>1, <2>2, <2>3, Zenon DEF ChunkRead
  <2>5. state' \in ChunkState /\ state' \notin {"ParsingChunk", "ParsingChunkCR", "ParsingChunkLF"}
    BY <2>2 DEF ChunkState
  <2>. QED  BY <1>2, <1>4, <1>7, <2>4, <2>5, ChunkedReads, Zenon
<1>. QED  BY <1>2, <1>6, <1>7, ThrowNotTaken DEF ParseChunkSize

LEMMA ChunkExtensionReads ==
  ASSUME TypeOK, taken \in String, ReadSoFar, NEW ch \in Char, Kept(ch), ParseChunkExtension(ch)
  PROVE  ReadSoFar'
<1>1. state = "ParsingChunkExtension" /\ state \in ChunkState
  BY DEF ParseChunkExtension, ChunkState
<1>2. taken' = Append(taken, ch) /\ Took /\ IsChunked /\ body' = body
  BY <1>1, ChunkedBefore
<1>3. PICK b, m, f : ChunkedAt(taken, b, m, f) /\ ChunkRead(f[m])
  BY <1>1, ChunkedBefore, Zenon
<1>4. ChunkedAt(taken', b, m, f) /\ ChunkFrom(taken, f[m])
  BY <1>2, <1>3, ChunkedAtStays
<1>5. InChunk("ParsingChunkExtension", taken, f[m], chunkSizeStr, chunkSize, chunkBytesParsed, body)
  BY <1>1, <1>3 DEF ChunkRead
<1>6. InChunk(IF ch = CR THEN "ParsingChunkSizeLF" ELSE "ParsingChunkExtension",
              taken', f[m], chunkSizeStr, chunkSize, chunkBytesParsed, body)
  BY <1>2, <1>4, <1>5, ChunkExtension, Zenon
<1>7. /\ state' = IF ch = CR THEN "ParsingChunkSizeLF" ELSE "ParsingChunkExtension"
      /\ UNCHANGED <<tokenVars, headers, chunkSizeStr, chunkSize, chunkBytesParsed>>
  BY <1>1 DEF ParseChunkExtension, Accept, isCarriageReturn, contentVars, chunkVars
<1>8. ChunkRead(f[m])'
  BY <1>2, <1>6, <1>7, Zenon DEF ChunkRead
<1>9. state' \in ChunkState /\ state' \notin {"ParsingChunk", "ParsingChunkCR", "ParsingChunkLF"}
  BY <1>7 DEF ChunkState
<1>. QED  BY <1>2, <1>4, <1>7, <1>8, <1>9, ChunkedReads, Zenon

LEMMA ChunkSizeLFReads ==
  ASSUME TypeOK, BodyCountersExact, taken \in String, ReadSoFar, NEW ch \in Char, Kept(ch),
         ParseChunkSizeLF(ch)
  PROVE  ReadSoFar'
<1>1. state = "ParsingChunkSizeLF" /\ state \in ChunkState
  BY DEF ParseChunkSizeLF, ChunkState
<1>2. taken' = Append(taken, ch) /\ Took /\ IsChunked /\ body' = body
  BY <1>1, ChunkedBefore
<1>3. PICK b, m, f : ChunkedAt(taken, b, m, f) /\ ChunkRead(f[m])
  BY <1>1, ChunkedBefore, Zenon
<1>4. ChunkedAt(taken', b, m, f) /\ ChunkFrom(taken, f[m])
  BY <1>2, <1>3, ChunkedAtStays
<1>5. InChunk("ParsingChunkSizeLF", taken, f[m], chunkSizeStr, chunkSize, chunkBytesParsed, body)
  BY <1>1, <1>3 DEF ChunkRead
<1>6. /\ ch = LF /\ UNCHANGED contentVars
      /\ state' = IF chunkSize > 0 THEN "ParsingChunk" ELSE "ParsingTrailerHeader"
  BY <1>2, ThrowNotTaken DEF ParseChunkSizeLF, Expect, Accept, isLineFeed
<1>7. UNCHANGED <<tokenVars, fieldVars, headers, chunkSizeStr, chunkSize, chunkBytesParsed>>
  BY <1>6 DEF contentVars, chunkVars
<1>8. chunkBytesParsed = 0 /\ chunkSize \in Nat
  BY <1>1, UIntSizeAssumption DEF BodyCountersExact, TypeOK, ContentOK, UInt
<1>9. CASE chunkSize > 0
  <2>1. InChunk("ParsingChunk", taken', f[m], chunkSizeStr, chunkSize, 0, body)
    BY <1>2, <1>4, <1>5, ChunkDataBegins, Zenon
  <2>2. state' = "ParsingChunk" /\ state' \in ChunkState /\ chunkSize' > 0
    BY <1>6, <1>7, <1>9 DEF ChunkState
  <2>3. ChunkRead(f[m])'
    BY <1>2, <1>7, <1>8, <2>1, <2>2, Zenon DEF ChunkRead
  <2>. QED  BY <1>2, <1>4, <1>7, <2>2, <2>3, ChunkedReads, Zenon
<1>10. CASE ~(chunkSize > 0)
  <2>1. chunkSize = 0 /\ state' = "ParsingTrailerHeader" /\ state' \in TrailerState
    BY <1>6, <1>8, <1>10 DEF TrailerState
  <2>2. PICK x : SizeLine(taken, f[m].last, x, Len(taken), 0) /\ body = f[m].data
    BY <1>5, <2>1 DEF InChunk
  <2>3. PICK y : y = Len(taken)
    OBVIOUS
  <2>4. SizeLine(taken', f[m].last, x, y, 0)
    BY <1>2, <1>4, <2>2, <2>3, SizeLineStays, Zenon DEF ChunkFrom
  <2>5. PICK p : p = y + 2
    OBVIOUS
  <2>6. ChunksDone(taken', b, p, body')
    BY <1>2, <1>4, <2>2, <2>4, <2>5, Zenon DEF ChunksDone, ChunkedAt
  <2>7. Len(taken') + 1 = p /\ taken'[Len(taken')] = LF
    BY <1>2, <1>6, <2>3, <2>5, Appended
  <2>8. PICK hs : hs = headers
    OBVIOUS
  <2>9. SectionRead(p, hs)'
    <3>1. InSection("Start", taken', p, hs, hs, headerFieldName', headerFieldValue')
      BY <2>7 DEF InSection
    <3>. QED  BY <1>7, <2>1, <2>8, <3>1, Phases, Zenon DEF SectionRead
  <2>10. /\ HeaderDone(taken', b, hs, firstToken', secondToken', thirdToken')
         /\ haveValue(hs, TransferEncoding, Chunked)
    BY <1>2, <1>4, <1>7, <2>8, Zenon DEF ChunkedAt, IsChunked, tokenVars
  <2>11. InTrailer'
    BY <2>6, <2>9, <2>10, Zenon DEF InTrailer
  <2>. QED  BY <2>1, <2>11, ReadInTrailer
<1>. QED  BY <1>9, <1>10
LEMMA ChunkReads ==
  ASSUME TypeOK, BodyCountersExact, taken \in String, ReadSoFar, NEW ch \in Char, Kept(ch),
         ParseChunk(ch)
  PROVE  ReadSoFar'
<1>1. state = "ParsingChunk" /\ state \in ChunkState
  BY DEF ParseChunk, ChunkState
<1>2. taken' = Append(taken, ch) /\ IsChunked /\ body' = Append(body, ch)
  BY <1>1, ChunkedBefore
<1>3. PICK b, m, f : ChunkedAt(taken, b, m, f) /\ ChunkRead(f[m])
  BY <1>1, ChunkedBefore, Zenon
<1>4. ChunkedAt(taken', b, m, f) /\ ChunkFrom(taken, f[m])
  BY <1>2, <1>3, ChunkedAtStays
<1>5. InChunk("ParsingChunk", taken, f[m], chunkSizeStr, chunkSize, chunkBytesParsed, body)
  BY <1>1, <1>3 DEF ChunkRead
<1>6. /\ chunkBytesParsed \in SizeT /\ chunkSize \in UInt /\ chunkBytesParsed < chunkSize
      /\ chunkBytesParsed \in Nat /\ chunkSize \in Nat
  BY <1>1, UIntSizeAssumption, ParserAssumption DEF BodyCountersExact, TypeOK, ContentOK, UInt, SizeT
<1>7. /\ UNCHANGED <<tokenVars, headers, chunkSizeStr, chunkSize>>
      /\ chunkBytesParsed' = chunkBytesParsed + 1
  BY <1>6, IncrementBelow DEF ParseChunk
<1>8. /\ state' \in ChunkState /\ chunkSize' > 0
      /\ state' = "ParsingChunk" \/ (state' = "ParsingChunkCR" /\ chunkBytesParsed + 1 = chunkSize)
  BY <1>1, <1>6, <1>7 DEF ParseChunk, Accept, ChunkState
<1>9. InChunk(state', taken', f[m], chunkSizeStr, chunkSize, chunkBytesParsed + 1, Append(body, ch))
  BY <1>2, <1>4, <1>5, <1>6, <1>8, ChunkDataGoesOn, Zenon
<1>10. ChunkRead(f[m])'
  BY <1>2, <1>7, <1>9, Zenon DEF ChunkRead
<1>. QED  BY <1>2, <1>4, <1>7, <1>8, <1>10, ChunkedReads, Zenon

LEMMA ChunkCRReads ==
  ASSUME TypeOK, taken \in String, ReadSoFar, NEW ch \in Char, Kept(ch), ParseChunkCR(ch)
  PROVE  ReadSoFar'
<1>1. state = "ParsingChunkCR" /\ state \in ChunkState
  BY DEF ParseChunkCR, ChunkState
<1>2. taken' = Append(taken, ch) /\ Took /\ IsChunked /\ body' = body /\ chunkSize > 0
  BY <1>1, ChunkedBefore
<1>3. PICK b, m, f : ChunkedAt(taken, b, m, f) /\ ChunkRead(f[m])
  BY <1>1, ChunkedBefore, Zenon
<1>4. ChunkedAt(taken', b, m, f) /\ ChunkFrom(taken, f[m])
  BY <1>2, <1>3, ChunkedAtStays
<1>5. InChunk("ParsingChunkCR", taken, f[m], chunkSizeStr, chunkSize, chunkBytesParsed, body)
  BY <1>1, <1>3 DEF ChunkRead
<1>6. state' = "ParsingChunkLF" /\ UNCHANGED contentVars
  BY <1>2, ThrowNotTaken DEF ParseChunkCR, Expect, Accept
<1>7. /\ UNCHANGED <<tokenVars, headers, chunkSizeStr, chunkSize, chunkBytesParsed>>
      /\ state' \in ChunkState /\ chunkSize' > 0 /\ chunkSize \in Nat
  BY <1>2, <1>6, UIntSizeAssumption DEF contentVars, chunkVars, ChunkState, TypeOK, ContentOK, UInt
<1>8. InChunk("ParsingChunkLF", taken', f[m], chunkSizeStr, chunkSize, chunkBytesParsed, body)
  BY <1>2, <1>4, <1>5, <1>7, ChunkDataEnds, Zenon
<1>9. ChunkRead(f[m])'
  BY <1>2, <1>6, <1>7, <1>8, Zenon DEF ChunkRead
<1>. QED  BY <1>2, <1>4, <1>7, <1>9, ChunkedReads, Zenon

LEMMA ChunkLFReads ==
  ASSUME TypeOK, BodyCountersExact, taken \in String, ReadSoFar, NEW ch \in Char, Kept(ch),
         ParseChunkLF(ch)
  PROVE  ReadSoFar'
<1>1. state = "ParsingChunkLF" /\ state \in ChunkState
  BY DEF ParseChunkLF, ChunkState
<1>2. taken' = Append(taken, ch) /\ Took /\ IsChunked /\ body' = body /\ chunkSize > 0
  BY <1>1, ChunkedBefore
<1>3. PICK b, m, f : ChunkedAt(taken, b, m, f) /\ ChunkRead(f[m])
  BY <1>1, ChunkedBefore, Zenon
<1>4. ChunkedAt(taken', b, m, f) /\ ChunkFrom(taken, f[m])
  BY <1>2, <1>3, ChunkedAtStays
<1>5. InChunk("ParsingChunkLF", taken, f[m], chunkSizeStr, chunkSize, chunkBytesParsed, body)
  BY <1>1, <1>3 DEF ChunkRead
<1>6. state' = "ParsingChunkSize" /\ UNCHANGED contentVars /\ chunkSizeStr = << >>
  BY <1>1, <1>2, ThrowNotTaken DEF ParseChunkLF, Expect, Accept, BodyCountersExact
<1>7. /\ UNCHANGED <<tokenVars, headers, chunkSizeStr, chunkSize, chunkBytesParsed>>
      /\ chunkSize \in Nat \ {0} /\ state' \in ChunkState
      /\ state' \notin {"ParsingChunk", "ParsingChunkCR", "ParsingChunkLF"}
  BY <1>2, <1>6, UIntSizeAssumption DEF contentVars, chunkVars, ChunkState, TypeOK, ContentOK, UInt
<1>8. PICK d : ChunkStep(Append(taken, ch), f[m], d) /\ d.last = Len(taken) + 2 /\ d.data = body
  <2>1. ChunkEnded(taken, ch, f[m], body)
    BY <1>4, <1>5, <1>7, ChunkEnds, Zenon
  <2>. QED  BY <2>1, Zenon DEF ChunkEnded
<1>9. PICK n : n = m + 1
  OBVIOUS
<1>10. PICK g : g = [j \in 0 .. m + 1 |-> IF j = m + 1 THEN d ELSE f[j]]
  OBVIOUS
<1>11. taken' \in String /\ Len(taken') + 1 = d.last
  BY <1>2, <1>8, Appended
<1>12. ChunksRead(taken', b, n, g) /\ m \in Nat
  <2>1. ChunksRead(taken', b, m, f) /\ ChunkStep(taken', f[m], d)
    BY <1>2, <1>4, <1>8, Zenon DEF ChunkedAt
  <2>2. ChunksRead(taken', b, m + 1, [j \in 0 .. m + 1 |-> IF j = m + 1 THEN d ELSE f[j]])
    BY <1>11, <2>1, ChunksGoOn
  <2>3. m \in Nat
    BY <2>1 DEF ChunksRead
  <2>. QED  BY <1>9, <1>10, <2>2, <2>3, Zenon
<1>13. g[n] = d
  BY <1>9, <1>10, <1>12
<1>14. InChunk("ParsingChunkSize", taken', d, << >>, chunkSize, chunkBytesParsed, d.data)
  BY <1>11, ChunkSizeBegins
<1>15. ChunkRead(g[n])'
  BY <1>2, <1>6, <1>7, <1>8, <1>13, <1>14, Zenon DEF ChunkRead
<1>16. ChunkedAt(taken', b, n, g)
  BY <1>4, <1>12, Zenon DEF ChunkedAt
<1>. QED  BY <1>2, <1>7, <1>15, <1>16, ChunkedReads, Zenon

-----------------------------------------------------------------------------
(* The trailer.                                                            *)

LEMMA ChunksDoneStays ==
  ASSUME NEW text \in String, NEW b, NEW p, NEW data, ChunksDone(text, b, p, data), NEW ch \in Char
  PROVE  ChunksDone(Append(text, ch), b, p, data) /\ p \in Nat /\ p >= 2
<1>1. PICK m, f, x, y : /\ ChunksRead(text, b, m, f) /\ SizeLine(text, f[m].last, x, y, 0)
                        /\ p = y + 2 /\ data = f[m].data
  BY DEF ChunksDone
<1>2. ChunksRead(Append(text, ch), b, m, f) /\ ChunkFrom(text, f[m])
  BY <1>1, ChunksStay, ChunksFrom, Zenon
<1>3. f[m].last \in Nat \ {0}
  BY <1>2 DEF ChunkFrom
<1>4. SizeLine(Append(text, ch), f[m].last, x, y, 0)
  BY <1>1, <1>3, SizeLineStays, Zenon
<1>5. y \in Nat
  BY <1>1, <1>3 DEF SizeLine, IsFirst, From
<1>6. p \in Nat /\ p >= 2
  BY <1>1, <1>5
<1>. QED  BY <1>1, <1>2, <1>4, <1>6, Zenon DEF ChunksDone

LEMMA ChunkedReadingIs ==
  ASSUME NEW text \in String, NEW b, NEW hs, NEW first, NEW second, NEW third,
         HeaderDone(text, b, hs, first, second, third), haveValue(hs, TransferEncoding, Chunked),
         NEW p \in Nat, NEW data, ChunksDone(text, b, p, data), NEW e, IsEmptyLine(e, text, p),
         e + 1 = Len(text)
  PROVE  Reading(text) = [first |-> first, second |-> second, third |-> third,
                          headers |-> Filed(hs, text, p, e), body |-> data, size |-> Len(text)]
<1>. DEFINE all == Filed(hs, text, p, e)
            rest == [headers |-> all, body |-> data, size |-> Len(text)]
<1>1. PICK m, f, x, y : /\ ChunksRead(text, b, m, f) /\ SizeLine(text, f[m].last, x, y, 0)
                        /\ p = y + 2 /\ data = f[m].data
  BY DEF ChunksDone
<1>2. f[m].last \in Nat
  BY <1>1, ChunksFrom, Zenon DEF ChunkFrom
<1>3. SizeAt(text, f[m].last) = 0 /\ LineAfter(text, f[m].last) = p
  BY <1>1, <1>2, SizeLineIs, Zenon
<1>4. Chunks(text, b) = f[m]
  BY <1>1, <1>3, ChunksAre, Zenon
<1>5. EmptyLine(text, p) = e
  BY EmptyLineIs
<1>6. ChunkedReading(text, hs, b) = rest
  BY <1>1, <1>3, <1>4, <1>5, Zenon DEF ChunkedReading
<1>7. RestOf(text, hs, b) = rest
  BY <1>6, Zenon DEF RestOf
<1>8. rest.headers = all /\ rest.body = data /\ rest.size = Len(text)
  BY Zenon
<1>. HIDE DEF rest, all
<1>9. Reading(text) = [first |-> first, second |-> second, third |-> third, headers |-> all,
                       body |-> data, size |-> Len(text)]
  BY <1>7, <1>8, ReadingIs, Zenon
<1>. QED  BY <1>9 DEF all

LEMMA TrailerReads ==
  ASSUME TypeOK, taken \in String, ReadSoFar, NEW ch \in Char, Kept(ch),
         state \in TrailerState, SectionStep(ch, TRUE)
  PROVE  ReadSoFar'
<1>1. taken' = Append(taken, ch) /\ body' = body /\ Took /\ InTrailer
  BY DEF Kept, isCompleted, bodyExpected, TrailerState, ReadSoFar
<1>2. PICK b, hs, p : /\ HeaderDone(taken, b, hs, firstToken, secondToken, thirdToken)
                      /\ haveValue(hs, TransferEncoding, Chunked)
                      /\ ChunksDone(taken, b, p, body) /\ SectionRead(p, hs)
  BY <1>1 DEF InTrailer
<1>3. HeaderDone(taken', b, hs, firstToken, secondToken, thirdToken)
  BY <1>1, <1>2, HeaderDoneStays
<1>4. ChunksDone(taken', b, p, body') /\ p \in Nat /\ p >= 2
  BY <1>1, <1>2, ChunksDoneStays
<1>5. SectionGoesOn(ch, p, hs, TRUE)
  BY <1>1, <1>2, <1>4, SectionReads
<1>6. SectionRead(p, hs)' /\ state' \in TrailerState /\ UNCHANGED tokenVars
  BY <1>1, <1>5, Zenon DEF SectionGoesOn, SectionRead
<1>7. HeaderDone(taken', b, hs, firstToken', secondToken', thirdToken')
  BY <1>3, <1>6, Zenon DEF tokenVars
<1>8. InTrailer'
  BY <1>2, <1>4, <1>6, <1>7, Zenon DEF InTrailer
<1>. QED  BY <1>6, <1>8, ReadInTrailer

LEMMA FinalLFReads ==
  ASSUME TypeOK, taken \in String, ReadSoFar, NEW ch \in Char, Kept(ch), ParseFinalLF(ch)
  PROVE  ReadSoFar'
<1>1. /\ taken' = Append(taken, ch) /\ body' = body /\ Took /\ InTrailer
      /\ state = "ParsingFinalLF"
  BY DEF Kept, isCompleted, bodyExpected, TrailerState, ReadSoFar, ParseFinalLF
<1>2. PICK b, hs, p : /\ HeaderDone(taken, b, hs, firstToken, secondToken, thirdToken)
                      /\ haveValue(hs, TransferEncoding, Chunked)
                      /\ ChunksDone(taken, b, p, body) /\ SectionRead(p, hs)
  BY <1>1 DEF InTrailer
<1>3. HeaderDone(taken', b, hs, firstToken, secondToken, thirdToken)
  BY <1>1, <1>2, HeaderDoneStays
<1>4. ChunksDone(taken', b, p, body) /\ p \in Nat /\ p >= 2 /\ p \in Nat \ {0}
  BY <1>1, <1>2, ChunksDoneStays
<1>5. PICK e : e = Len(taken)
  OBVIOUS
<1>6. IsEmptyLine(e, taken, p) /\ headers = Filed(hs, taken, p, e)
  BY <1>1, <1>2, <1>5, Phases DEF SectionRead, InSection
<1>7. IsEmptyLine(e, taken', p)
  BY <1>1, <1>4, <1>6, EmptyLineStays
<1>8. e \in Nat /\ p <= e /\ e <= Len(taken) + 1 /\ e + 1 = Len(taken') /\ taken' \in String
  BY <1>1, <1>4, <1>5, <1>6, Appended DEF IsEmptyLine, From
<1>9. Filed(hs, taken', p, e) = headers
  BY <1>1, <1>4, <1>6, <1>8, FiledStays
<1>10. Reading(taken') = [first |-> firstToken, second |-> secondToken, third |-> thirdToken,
                          headers |-> Filed(hs, taken', p, e), body |-> body, size |-> Len(taken')]
  BY <1>2, <1>3, <1>4, <1>7, <1>8, ChunkedReadingIs
<1>11. state' = "ParsingMessage" /\ UNCHANGED <<tokenVars, headers>>
  BY <1>1, ThrowNotTaken DEF ParseFinalLF, Expect, Accept, contentVars
<1>12. Reading(taken') = [first |-> firstToken', second |-> secondToken', third |-> thirdToken',
                          headers |-> headers', body |-> body', size |-> Len(taken')]
  BY <1>1, <1>9, <1>10, <1>11, Zenon DEF tokenVars
<1>. QED  BY <1>11, <1>12, ReadWhenCompleted
-----------------------------------------------------------------------------
(* Every step of the user keeps the invariant.                             *)

LEMMA ReadStays ==
  ASSUME ReadSoFar, UNCHANGED <<parserVars, taken, body>>
  PROVE  ReadSoFar'
<1>1. /\ UNCHANGED <<state, firstToken, secondToken, thirdToken, headerFieldName, headerFieldValue>>
      /\ UNCHANGED <<headers, contentLength, identityBodyBytesParsed>>
      /\ UNCHANGED <<chunkSizeStr, chunkSize, chunkBytesParsed, taken, body>>
  BY DEF parserVars, contentVars, tokenVars, fieldVars, bodyVars, chunkVars
<1>2. SectionPhase(state)' = SectionPhase(state)
  BY <1>1 DEF SectionPhase
<1>3. InStartLine' = InStartLine /\ InHeader' = InHeader /\ InTrailer' = InTrailer
  BY <1>1 DEF InStartLine, LinePhase, InHeader, InTrailer, SectionRead, SectionPhase
<1>4. InIdentityBody' = InIdentityBody /\ InChunks' = InChunks
  BY <1>1 DEF InIdentityBody, InChunks, IsChunked, HasLength, DeclaredLength
<1>5. CompletedMessageIsItsText' = CompletedMessageIsItsText
  BY <1>1 DEF CompletedMessageIsItsText, isCompleted
<1>. QED  BY <1>1, <1>3, <1>4, <1>5, Zenon DEF ReadSoFar

LEMMA ReadParse ==
  ASSUME TypeOK, BodyCountersExact, taken \in String, ReadSoFar, NEW ch \in Char, Parse(ch), Kept(ch)
  PROVE  ReadSoFar'
<1>1. CASE ParseStartLine(ch)
  <2>1. CASE ParseMessage(ch)
    BY <2>1, BeginReads
  <2>2. CASE ParseFirstLineLF(ch)
    BY <2>2, FirstLineLFReads
  <2>3. CASE ~ParseMessage(ch) /\ ~ParseFirstLineLF(ch)
    <3>1. state \in StartLineState /\ state # "ParsingFirstLineLF"
      BY <1>1, <2>3 DEF ParseStartLine, ParseLeadingSP, ParseFirstToken, ParseFirstTokenSP,
         ParseSecondToken, ParseSecondTokenSP, ParseThirdToken, StartLineState
    <3>. QED  BY <1>1, <3>1, StartLineReads
  <2>. QED  BY <2>1, <2>2, <2>3
<1>2. CASE ParseHeaderSection(ch)
  <2>1. CASE ParseEndOfHeader(ch)
    BY <2>1, EndOfHeaderReads
  <2>2. CASE ~ParseEndOfHeader(ch)
    <3>1. state \in HeaderState /\ SectionStep(ch, FALSE)
      BY <1>2, <2>2 DEF ParseHeaderSection, ParseHeader, ParseHeaderName, ParseHeaderValue,
         ParseHeaderValueLF, ParseHeaderValueLWS, HeaderState, SectionStep, Section
    <3>. QED  BY <3>1, HeaderReads
  <2>. QED  BY <2>1, <2>2
<1>3. CASE ParseBody(ch)
  BY <1>3, IdentityBodyReads, ChunkSizeReads, ChunkExtensionReads, ChunkSizeLFReads, ChunkReads,
     ChunkCRReads, ChunkLFReads, Zenon DEF ParseBody
<1>4. CASE ParseTrailer(ch)
  <2>1. CASE ParseFinalLF(ch)
    BY <2>1, FinalLFReads
  <2>2. CASE ~ParseFinalLF(ch)
    <3>1. state \in TrailerState /\ SectionStep(ch, TRUE)
      BY <1>4, <2>2 DEF ParseTrailer, ParseTrailerHeader, ParseTrailerHeaderName,
         ParseTrailerHeaderValue, ParseTrailerHeaderValueLF, ParseTrailerHeaderValueLWS,
         TrailerState, SectionStep, Section
    <3>. QED  BY <3>1, TrailerReads
  <2>. QED  BY <2>1, <2>2
<1>. QED  BY <1>1, <1>2, <1>3, <1>4 DEF Parse

LEMMA TextParse ==
  ASSUME TextInv, NEW ch \in Char, ParseAndKeep(ch)
  PROVE  TextInv'
<1>1. /\ TypeOK /\ FieldBuffersInUse /\ BodyCountersExact /\ taken \in String /\ ReadSoFar
      /\ Parse(ch)
  BY DEF TextInv, ParseAndKeep
<1>2. TypeOK' /\ FieldBuffersInUse' /\ BodyCountersExact'
  BY <1>1, ParseType, FieldBuffersParse, BodyCountersParse
<1>3. CASE ~Took /\ UNCHANGED <<parserVars, taken, body>>
  <2>1. ReadSoFar' /\ taken' = taken
    BY <1>1, <1>3, ReadStays
  <2>. QED  BY <1>1, <1>2, <2>1 DEF TextInv
<1>4. CASE Kept(ch)
  <2>1. taken' \in String
    BY <1>1, <1>4, Appended DEF Kept, String
  <2>2. ReadSoFar'
    BY <1>1, <1>4, ReadParse
  <2>. QED  BY <1>2, <2>1, <2>2 DEF TextInv
<1>5. (~Took /\ UNCHANGED <<parserVars, taken, body>>) \/ Kept(ch)
  BY <1>1, Keeps DEF Kept
<1>. QED  BY <1>3, <1>4, <1>5

(* A completed message is the text the parser has taken, read as a whole.  *)
(* The parser reads a character at a time, in 27 states, with buffers it   *)
(* reuses and an exception for every character it refuses; Reading() cuts  *)
(* the text at its delimiters.  Both find the same tokens, the same        *)
(* headers, those of the trailer included, the same body and the same end. *)
THEOREM TextCorrect == HistorySpec => []CompletedMessageIsItsText
<1>1. HistoryInit => TextInv
  <2>. SUFFICES ASSUME HistoryInit PROVE TextInv
    OBVIOUS
  <2>1. TypeOK /\ taken = << >> /\ state = "ParsingMessage" /\ taken \in String
    BY InitType DEF HistoryInit, Init, String
  <2>2. FieldBuffersInUse /\ BodyCountersExact
    BY DEF HistoryInit, Init, FieldBuffersInUse, FieldState, BodyCountersExact
  <2>3. ReadSoFar
    BY <2>1 DEF ReadSoFar, StartLineState, HeaderState, ChunkState, TrailerState,
                CompletedMessageIsItsText
  <2>. QED  BY <2>1, <2>2, <2>3 DEF TextInv
<1>2. TextInv /\ [HistoryNext]_historyVars => TextInv'
  <2>. SUFFICES ASSUME TextInv, [HistoryNext]_historyVars PROVE TextInv'
    OBVIOUS
  <2>1. ASSUME NEW ch \in Offered[state], ParseAndKeep(ch) PROVE TextInv'
    BY <2>1, OfferedType, TextParse DEF TextInv
  <2>2. CASE ResetAndForget
    <3>1. taken' = << >> /\ state' = "ParsingMessage" /\ taken' \in String
      BY <2>2 DEF ResetAndForget, Reset, String
    <3>2. TypeOK'
      BY <2>2, ResetType DEF ResetAndForget, TextInv
    <3>3. FieldBuffersInUse' /\ BodyCountersExact'
      BY <2>2 DEF ResetAndForget, Reset, ClearContent, ClearField, ClearBody,
                  FieldBuffersInUse, FieldState, BodyCountersExact
    <3>4. ReadSoFar'
      BY <3>1 DEF ReadSoFar, StartLineState, HeaderState, ChunkState, TrailerState,
                  CompletedMessageIsItsText
    <3>. QED  BY <3>1, <3>2, <3>3, <3>4 DEF TextInv
  <2>3. CASE UNCHANGED historyVars
    <3>1. UNCHANGED vars /\ UNCHANGED <<parserVars, taken, body>>
      BY <2>3 DEF historyVars, vars
    <3>2. TypeOK' /\ FieldBuffersInUse' /\ BodyCountersExact'
      BY <3>1, StutterType, FieldBuffersNext, BodyCountersNext DEF TextInv
    <3>. QED  BY <3>1, <3>2, ReadStays DEF TextInv
  <2>. QED  BY <2>1, <2>2, <2>3 DEF HistoryNext
<1>3. TextInv => CompletedMessageIsItsText
  BY DEF TextInv, ReadSoFar
<1>. QED  BY <1>1, <1>2, <1>3, PTL DEF HistorySpec
=============================================================================
