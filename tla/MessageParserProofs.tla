------------------------ MODULE MessageParserProofs ------------------------
(***************************************************************************)
(* Theorems about MessageParser, for every limit, every size of an int and *)
(* of an unsigned int, and whatever characters arrive: what it has read,   *)
(* how long anything may get, how the headers frame the body, and what is  *)
(* left after an exception.                                                *)
(***************************************************************************)
EXTENDS MessageParser, MessageTextProofs

-----------------------------------------------------------------------------
(* Type correctness.  Every case of parse(char) ends in Accept or Raise,   *)
(* so their effect on the control variables is stated once.                *)

LEMMA ToIntType == ASSUME NEW n \in Nat PROVE ToInt(n) \in CInt
<1>. DEFINE r == n % IntSize
            h == IntSize \div 2
<1>1. IntSize \in Nat \ {0} /\ IntSize % 2 = 0
  BY ParserAssumption
<1>2. r \in 0 .. IntSize - 1
  BY <1>1
<1>3. h \in Nat /\ IntSize = 2 * h
  BY <1>1
<1>. HIDE DEF r, h
<1>4. (IF r < h THEN r ELSE r - IntSize) \in -h .. h - 1
  BY <1>2, <1>3
<1>. QED  BY <1>4 DEF ToInt, CInt, r, h

LEMMA ThrownType ==
  ASSUME pos \in Nat, line \in Nat, col \in Nat, NEW code \in Code, NEW ch \in Char
  PROVE  Thrown(code, ch) \in Result
<1>1. ToInt(pos) \in CInt /\ ToInt(line) \in CInt /\ ToInt(col) \in CInt
  BY ToIntType
<1>2. Thrown(code, ch) \in
        [type : {"thrown"}, code : Code, ch : Char, pos : CInt, line : CInt, col : CInt]
  BY <1>1, SMT DEF Thrown
<1>. QED  BY <1>2, Zenon DEF Result

LEMMA ReturnedType == ASSUME NEW next PROVE Returned(next) \in Result
<1>1. (next = "ParsingMessage") \in BOOLEAN /\ bodyExpected \in BOOLEAN
  BY SMT DEF bodyExpected
<1>. QED  BY <1>1, Zenon DEF Returned, Result

LEMMA AcceptControl ==
  ASSUME ControlOK, NEW next \in State, NEW ch \in Char, Accept(next, ch)
  PROVE  ControlOK'
<1>1. result' \in Result
  BY ReturnedType, Zenon DEF Accept
<1>2. (pos' \in Nat /\ line' \in Nat /\ col' \in Nat)
  BY DEF Accept, AdvanceFrom, ControlOK
<1>3. state' \in State
  BY Zenon DEF Accept
<1>4. Result' = Result /\ State' = State
  BY DEF Result, State, CInt, Code, Char
<1>. QED  BY <1>1, <1>2, <1>3, <1>4, Zenon DEF ControlOK

LEMMA RaiseControl ==
  ASSUME ControlOK, NEW code \in Code, NEW ch \in Char, Raise(code, ch)
  PROVE  ControlOK'
<1>1. result' \in Result
  BY ThrownType, Zenon DEF Raise, ControlOK
<1>. QED  BY <1>1, Zenon DEF Raise, ControlOK, posVars

LEMMA ContentUnchanged ==
  ASSUME ContentOK, UNCHANGED contentVars
  PROVE  ContentOK'
BY Zenon DEF ContentOK, contentVars, tokenVars, fieldVars, bodyVars, chunkVars

LEMMA ThrowType ==
  ASSUME ControlOK, ContentOK, NEW code \in Code, NEW ch \in Char, Throw(code, ch)
  PROVE  ControlOK' /\ ContentOK'
BY RaiseControl, ContentUnchanged, Zenon DEF Throw

LEMMA ExpectType ==
  ASSUME ControlOK, ContentOK, NEW expected, NEW next \in State, NEW code \in Code,
         NEW ch \in Char, Expect(expected, next, code, ch)
  PROVE  ControlOK' /\ ContentOK'
BY AcceptControl, ThrowType, ContentUnchanged, Zenon DEF Expect

LEMMA ClearContentType ==
  ASSUME NEW first \in String, ClearContent(first)
  PROVE  ContentOK'
<1>1. << >> \in String /\ << >> \in Seq(Header) /\ 0 \in UInt /\ 0 \in SizeT
  BY UIntSizeAssumption, ParserAssumption DEF String, UInt, SizeT
<1>. QED  BY <1>1, Zenon DEF ClearContent, ClearField, ClearBody, ContentOK

LEMMA BeginType ==
  ASSUME NEW first \in String, NEW next \in State, NEW ch \in Char, Begin(first, next, ch)
  PROVE  ControlOK' /\ ContentOK'
<1>1. pos' \in Nat /\ line' \in Nat /\ col' \in Nat
  BY DEF Begin, AdvanceFrom
<1>2. result' \in Result /\ state' \in State
  BY ReturnedType, Zenon DEF Begin
<1>3. ContentOK'
  BY ClearContentType, Zenon DEF Begin
<1>. QED  BY <1>1, <1>2, <1>3, Zenon DEF ControlOK

LEMMA StartLineType ==
  ASSUME ControlOK, ContentOK, NEW ch \in Char, ParseStartLine(ch)
  PROVE  ControlOK' /\ ContentOK'
<1>. USE DEF Code, State
<1>1. << >> \in String /\ <<ch>> \in String /\ \A str \in String : Append(str, ch) \in String
  BY DEF String
<1>2. CASE ParseMessage(ch)
  BY <1>1, <1>2, BeginType, ThrowType DEF ParseMessage
<1>3. CASE ParseLeadingSP(ch)
  BY <1>1, <1>3, AcceptControl, ThrowType, ContentUnchanged
  DEF ParseLeadingSP, ContentOK, restVars, fieldVars, bodyVars, chunkVars
<1>4. CASE ParseFirstToken(ch)
  BY <1>1, <1>4, AcceptControl, ThrowType, ContentUnchanged
  DEF ParseFirstToken, ContentOK, restVars, fieldVars, bodyVars, chunkVars
<1>5. CASE ParseFirstTokenSP(ch)
  BY <1>1, <1>5, AcceptControl, ThrowType, ContentUnchanged
  DEF ParseFirstTokenSP, ContentOK, restVars, fieldVars, bodyVars, chunkVars
<1>6. CASE ParseSecondToken(ch)
  BY <1>1, <1>6, AcceptControl, ThrowType, ContentUnchanged
  DEF ParseSecondToken, ContentOK, restVars, fieldVars, bodyVars, chunkVars
<1>7. CASE ParseSecondTokenSP(ch)
  BY <1>1, <1>7, AcceptControl, ThrowType, ContentUnchanged
  DEF ParseSecondTokenSP, ContentOK, restVars, fieldVars, bodyVars, chunkVars
<1>8. CASE ParseThirdToken(ch)
  BY <1>1, <1>8, AcceptControl, ThrowType, ContentUnchanged
  DEF ParseThirdToken, ContentOK, restVars, fieldVars, bodyVars, chunkVars
<1>9. CASE ParseFirstLineLF(ch)
  BY <1>9, ExpectType DEF ParseFirstLineLF
<1>. QED
  BY <1>2, <1>3, <1>4, <1>5, <1>6, <1>7, <1>8, <1>9 DEF ParseStartLine

LEMMA SetFieldType ==
  ASSUME ContentOK, NEW name \in String, NEW v \in String, SetField(name, v)
  PROVE  ContentOK'
BY DEF SetField, ContentOK, tokenVars, bodyVars, chunkVars

LEMMA FileFieldType ==
  ASSUME ContentOK, NEW first \in String, FileField(first)
  PROVE  ContentOK'
<1>1. trim(headerFieldName) \in String /\ trim(headerFieldValue) \in String
  BY TrimType, Zenon DEF ContentOK
<1>2. headers' \in Seq(Header)
  BY <1>1, AddProperties, Zenon DEF FileField, ContentOK
<1>3. headerFieldValue' \in String
  BY SMT DEF FileField, String
<1>. QED  BY <1>2, <1>3, Zenon DEF FileField, ContentOK, tokenVars, bodyVars, chunkVars

LEMMA AppendHeaderType ==
  ASSUME ControlOK, ContentOK, NEW ch \in Char, NEW first \in String, NEW next \in State,
         appendHeader(ch, first, next)
  PROVE  ControlOK' /\ ContentOK'
<1>1. "TooManyHeaders" \in Code
  BY DEF Code
<1>. QED  BY <1>1, FileFieldType, AcceptControl, ThrowType, Zenon DEF appendHeader

LEMMA ExtendValueType ==
  ASSUME ControlOK, ContentOK, NEW v \in Char, NEW next \in State, NEW ch \in Char,
         ExtendValue(v, next, ch)
  PROVE  ControlOK' /\ ContentOK'
<1>1. "HeaderValueIsTooLong" \in Code
  BY DEF Code
<1>2. Append(headerFieldValue, v) \in String /\ headerFieldName \in String
  BY DEF ContentOK, String
<1>. QED  BY <1>1, <1>2, SetFieldType, AcceptControl, ThrowType, Zenon DEF ExtendValue

LEMMA parseHeaderType ==
  ASSUME ControlOK, ContentOK, NEW ch \in Char, NEW isTrailer \in BOOLEAN,
         parseHeader(ch, isTrailer)
  PROVE  ControlOK' /\ ContentOK'
<1>1. << >> \in String /\ <<ch>> \in String
  BY DEF String
<1>. QED  BY <1>1, SetFieldType, AcceptControl, RaiseControl
          DEF parseHeader, Section, State, Code

LEMMA parseHeaderNameType ==
  ASSUME ControlOK, ContentOK, NEW ch \in Char, NEW isTrailer \in BOOLEAN,
         parseHeaderName(ch, isTrailer)
  PROVE  ControlOK' /\ ContentOK'
<1>1. /\ Append(headerFieldName, ch) \in String /\ headerFieldValue \in String
      /\ state \in State
  BY DEF ContentOK, ControlOK, String
<1>. QED  BY <1>1, SetFieldType, AcceptControl, ThrowType, ContentUnchanged
          DEF parseHeaderName, Section, State, Code

LEMMA parseHeaderValueType ==
  ASSUME ControlOK, ContentOK, NEW ch \in Char, NEW isTrailer \in BOOLEAN,
         parseHeaderValue(ch, isTrailer)
  PROVE  ControlOK' /\ ContentOK'
<1>1. state \in State
  BY DEF ControlOK
<1>. QED  BY <1>1, ExtendValueType, AcceptControl, ThrowType, ContentUnchanged
          DEF parseHeaderValue, Section, State, Code

LEMMA parseHeaderValueLFType ==
  ASSUME ControlOK, ContentOK, NEW ch \in Char, NEW isTrailer \in BOOLEAN,
         parseHeaderValueLF(ch, isTrailer)
  PROVE  ControlOK' /\ ContentOK'
BY ExpectType DEF parseHeaderValueLF, Section, State, Code

LEMMA parseHeaderValueLWSType ==
  ASSUME ControlOK, ContentOK, NEW ch \in Char, NEW isTrailer \in BOOLEAN,
         parseHeaderValueLWS(ch, isTrailer)
  PROVE  ControlOK' /\ ContentOK'
<1>1. << >> \in String /\ <<ch>> \in String /\ SP \in Char
  BY DEF String, SP, Char
<1>. QED  BY <1>1, AppendHeaderType, ExtendValueType, ThrowType
          DEF parseHeaderValueLWS, Section, State, Code

LEMMA HeaderSectionType ==
  ASSUME ControlOK, ContentOK, NEW ch \in Char, ParseHeaderSection(ch)
  PROVE  ControlOK' /\ ContentOK'
<1>1. CASE ParseHeader(ch)
  BY <1>1, parseHeaderType DEF ParseHeader
<1>2. CASE ParseHeaderName(ch)
  BY <1>2, parseHeaderNameType DEF ParseHeaderName
<1>3. CASE ParseHeaderValue(ch)
  BY <1>3, parseHeaderValueType DEF ParseHeaderValue
<1>4. CASE ParseHeaderValueLF(ch)
  BY <1>4, parseHeaderValueLFType DEF ParseHeaderValueLF
<1>5. CASE ParseHeaderValueLWS(ch)
  BY <1>5, parseHeaderValueLWSType DEF ParseHeaderValueLWS
<1>6. CASE ParseEndOfHeader(ch)
  BY <1>6, AcceptControl, ThrowType, ContentUnchanged
  DEF ParseEndOfHeader, ContentOK, tokenVars, fieldVars, chunkVars, State, Code
<1>. QED  BY <1>1, <1>2, <1>3, <1>4, <1>5, <1>6 DEF ParseHeaderSection

LEMMA BodyType ==
  ASSUME ControlOK, ContentOK, NEW ch \in Char, ParseBody(ch)
  PROVE  ControlOK' /\ ContentOK'
<1>. USE DEF State, Code
<1>1. \A n \in SizeT : Incremented(n) \in SizeT
  BY UIntSizeAssumption, ParserAssumption DEF Incremented, SizeT
<1>2. /\ Append(chunkSizeStr, ch) \in String /\ << >> \in String
      /\ 0 \in SizeT
  BY UIntSizeAssumption, ParserAssumption DEF ContentOK, String, SizeT
<1>3. CASE ParseIdentityBody(ch)
  BY <1>1, <1>3, AcceptControl
  DEF ParseIdentityBody, ContentOK, tokenVars, fieldVars, chunkVars
<1>4. CASE ParseChunkSize(ch)
  BY <1>2, <1>4, AcceptControl, ThrowType
  DEF ParseChunkSize, StartChunk, ContentOK, tokenVars, fieldVars, bodyVars
<1>5. CASE ParseChunkExtension(ch)
  BY <1>5, AcceptControl, ContentUnchanged DEF ParseChunkExtension
<1>6. CASE ParseChunkSizeLF(ch)
  BY <1>6, ExpectType DEF ParseChunkSizeLF
<1>7. CASE ParseChunk(ch)
  BY <1>1, <1>7, AcceptControl
  DEF ParseChunk, ContentOK, tokenVars, fieldVars, bodyVars
<1>8. CASE ParseChunkCR(ch)
  BY <1>8, ExpectType DEF ParseChunkCR
<1>9. CASE ParseChunkLF(ch)
  BY <1>9, ExpectType DEF ParseChunkLF
<1>. QED
  BY <1>3, <1>4, <1>5, <1>6, <1>7, <1>8, <1>9 DEF ParseBody

LEMMA TrailerType ==
  ASSUME ControlOK, ContentOK, NEW ch \in Char, ParseTrailer(ch)
  PROVE  ControlOK' /\ ContentOK'
<1>1. CASE ParseTrailerHeader(ch)
  BY <1>1, parseHeaderType DEF ParseTrailerHeader
<1>2. CASE ParseTrailerHeaderName(ch)
  BY <1>2, parseHeaderNameType DEF ParseTrailerHeaderName
<1>3. CASE ParseTrailerHeaderValue(ch)
  BY <1>3, parseHeaderValueType DEF ParseTrailerHeaderValue
<1>4. CASE ParseTrailerHeaderValueLF(ch)
  BY <1>4, parseHeaderValueLFType DEF ParseTrailerHeaderValueLF
<1>5. CASE ParseTrailerHeaderValueLWS(ch)
  BY <1>5, parseHeaderValueLWSType DEF ParseTrailerHeaderValueLWS
<1>6. CASE ParseFinalLF(ch)
  BY <1>6, ExpectType DEF ParseFinalLF, State, Code
<1>. QED  BY <1>1, <1>2, <1>3, <1>4, <1>5, <1>6 DEF ParseTrailer

LEMMA InitType == Init => TypeOK
<1>. SUFFICES ASSUME Init PROVE TypeOK
  OBVIOUS
<1>1. ControlOK
  <2>1. NoResult \in Result
    BY DEF NoResult, Result
  <2>. QED  BY <2>1 DEF Init, ControlOK, State
<1>2. ContentOK
  BY UIntSizeAssumption, ParserAssumption DEF Init, ContentOK, UInt, SizeT, String
<1>3. LimitsOK
  BY DEF Init, LimitsOK
<1>. QED  BY <1>1, <1>2, <1>3 DEF TypeOK

LEMMA ResetType ==
  ASSUME TypeOK, Reset
  PROVE  TypeOK'
<1>1. ControlOK'
  <2>1. NoResult \in Result
    BY DEF NoResult, Result
  <2>. QED  BY <2>1 DEF Reset, ControlOK, State
<1>2. ContentOK'
  <2>1. << >> \in String
    BY DEF String
  <2>. QED  BY <2>1, ClearContentType DEF Reset
<1>3. LimitsOK'
  BY DEF Reset, LimitsOK, limitVars, TypeOK
<1>. QED  BY <1>1, <1>2, <1>3 DEF TypeOK

LEMMA SetLimitType ==
  ASSUME TypeOK,
         \/ \E n \in HeaderNameLimits : SetMaxHeaderNameLength(n)
         \/ \E n \in HeaderValueLimits : SetMaxHeaderValueLength(n)
         \/ \E n \in HeadersAmountLimits : SetMaxHeadersAmount(n)
  PROVE  TypeOK'
<1>. USE DEF SetMaxHeaderNameLength, SetMaxHeaderValueLength, SetMaxHeadersAmount
<1>1. ControlOK'
  <2>1. result' \in Result
    BY DEF NoResult, Result
  <2>2. UNCHANGED <<state, posVars>>
    OBVIOUS
  <2>. QED  BY <2>1, <2>2 DEF ControlOK, posVars, TypeOK
<1>2. ContentOK'
  <2>1. UNCHANGED contentVars
    OBVIOUS
  <2>. QED  BY <2>1, ContentUnchanged DEF TypeOK
<1>3. LimitsOK'
  BY DEF LimitsOK, TypeOK
<1>. QED  BY <1>1, <1>2, <1>3 DEF TypeOK

LEMMA ParseType ==
  ASSUME TypeOK, NEW ch \in Char, Parse(ch)
  PROVE  TypeOK'
<1>1. ControlOK' /\ ContentOK'
  BY StartLineType, HeaderSectionType, BodyType, TrailerType DEF Parse, TypeOK
<1>2. LimitsOK'
  BY DEF Parse, LimitsOK, limitVars, TypeOK
<1>. QED  BY <1>1, <1>2 DEF TypeOK

LEMMA OfferedType == ASSUME TypeOK, NEW ch \in Offered[state] PROVE ch \in Char
BY ParserAssumption DEF TypeOK, ControlOK

LEMMA StutterType == ASSUME TypeOK, UNCHANGED vars PROVE TypeOK'
BY DEF TypeOK, ControlOK, ContentOK, LimitsOK, vars, parserVars, posVars, contentVars,
       tokenVars, fieldVars, bodyVars, chunkVars, limitVars

LEMMA NextType == TypeOK /\ [Next]_vars => TypeOK'
<1>. SUFFICES ASSUME TypeOK, [Next]_vars PROVE TypeOK'
  OBVIOUS
<1>1. ASSUME NEW ch \in Offered[state], Parse(ch) PROVE TypeOK'
  BY <1>1, OfferedType, ParseType
<1>2. CASE Reset
  BY <1>2, ResetType
<1>3. CASE \/ \E n \in HeaderNameLimits : SetMaxHeaderNameLength(n)
           \/ \E n \in HeaderValueLimits : SetMaxHeaderValueLength(n)
           \/ \E n \in HeadersAmountLimits : SetMaxHeadersAmount(n)
  BY <1>3, SetLimitType
<1>4. CASE UNCHANGED vars
  BY <1>4, StutterType
<1>. QED  BY <1>1, <1>2, <1>3, <1>4 DEF Next

(* The fields of the parser, and what it tells its caller, keep their      *)
(* types, whatever is parsed and however often the parser is reset.        *)
THEOREM TypeCorrect == Spec => []TypeOK
<1>1. Init => TypeOK
  BY InitType
<1>2. TypeOK /\ [Next]_vars => TypeOK'
  BY NextType
<1>. QED  BY <1>1, <1>2, PTL DEF Spec

-----------------------------------------------------------------------------
(* The field buffers.  FieldBuffersInUse is inductive by itself once the   *)
(* types are known; each case of parse(char) is a step of the proof.       *)

LEMMA FieldBuffersParse ==
  ASSUME TypeOK, FieldBuffersInUse, NEW ch \in Char, Parse(ch)
  PROVE  FieldBuffersInUse'
<1>. USE DEF FieldBuffersInUse, FieldState, Accept, Raise, Throw, Expect, contentVars, fieldVars
<1>1. Append(headerFieldName, ch) # << >> /\ <<ch>> # << >>
  <2>1. Append(headerFieldName, ch) # << >>
    BY AppendProperties DEF TypeOK, ContentOK, String
  <2>2. <<ch>> # << >>
    BY Len(<<ch>>) = 1, Len(<< >>) = 0
  <2>. QED  BY <2>1, <2>2
<1>2. CASE ParseStartLine(ch)
  <2>1. CASE ParseMessage(ch)
    BY <2>1 DEF ParseMessage, Begin, ClearContent, ClearField
  <2>2. CASE ParseLeadingSP(ch) \/ ParseFirstToken(ch) \/ ParseFirstTokenSP(ch)
    BY <2>2 DEF ParseLeadingSP, ParseFirstToken, ParseFirstTokenSP, restVars
  <2>3. CASE ParseSecondToken(ch) \/ ParseSecondTokenSP(ch)
    BY <2>3 DEF ParseSecondToken, ParseSecondTokenSP, restVars
  <2>4. CASE ParseThirdToken(ch) \/ ParseFirstLineLF(ch)
    BY <2>4 DEF ParseThirdToken, ParseFirstLineLF, restVars
  <2>. QED  BY <1>2, <2>1, <2>2, <2>3, <2>4 DEF ParseStartLine
<1>3. CASE ParseHeader(ch) \/ ParseTrailerHeader(ch)
  BY <1>1, <1>3 DEF ParseHeader, ParseTrailerHeader, parseHeader, SetField, Section
<1>4. CASE ParseHeaderName(ch) \/ ParseTrailerHeaderName(ch)
  BY <1>1, <1>4 DEF ParseHeaderName, ParseTrailerHeaderName, parseHeaderName, SetField, Section
<1>5. CASE ParseHeaderValue(ch) \/ ParseTrailerHeaderValue(ch)
  BY <1>5 DEF ParseHeaderValue, ParseTrailerHeaderValue, parseHeaderValue, ExtendValue,
              SetField, Section
<1>6. CASE ParseHeaderValueLF(ch) \/ ParseTrailerHeaderValueLF(ch)
  BY <1>6 DEF ParseHeaderValueLF, ParseTrailerHeaderValueLF, parseHeaderValueLF, Section
<1>7. CASE ParseHeaderValueLWS(ch) \/ ParseTrailerHeaderValueLWS(ch)
  BY <1>1, <1>7 DEF ParseHeaderValueLWS, ParseTrailerHeaderValueLWS, parseHeaderValueLWS,
                    appendHeader, FileField, ExtendValue, SetField, Section
<1>8. CASE ParseEndOfHeader(ch) \/ ParseFinalLF(ch)
  BY <1>8 DEF ParseEndOfHeader, ParseFinalLF
<1>9. CASE ParseBody(ch)
  BY <1>9 DEF ParseBody, ParseIdentityBody, ParseChunkSize, StartChunk, ParseChunkExtension,
              ParseChunkSizeLF, ParseChunk, ParseChunkCR, ParseChunkLF
<1>. QED
  BY <1>2, <1>3, <1>4, <1>5, <1>6, <1>7, <1>8, <1>9
  DEF Parse, ParseHeaderSection, ParseTrailer

LEMMA FieldBuffersNext ==
  ASSUME TypeOK, FieldBuffersInUse, [Next]_vars
  PROVE  FieldBuffersInUse'
<1>1. ASSUME NEW ch \in Offered[state], Parse(ch) PROVE FieldBuffersInUse'
  BY <1>1, OfferedType, FieldBuffersParse
<1>2. CASE Reset
  BY <1>2 DEF Reset, ClearContent, ClearField, FieldBuffersInUse, FieldState
<1>3. CASE \/ \E n \in HeaderNameLimits : SetMaxHeaderNameLength(n)
           \/ \E n \in HeaderValueLimits : SetMaxHeaderValueLength(n)
           \/ \E n \in HeadersAmountLimits : SetMaxHeadersAmount(n)
  BY <1>3 DEF SetMaxHeaderNameLength, SetMaxHeaderValueLength, SetMaxHeadersAmount,
              contentVars, fieldVars, FieldBuffersInUse
<1>4. CASE UNCHANGED vars
  BY <1>4 DEF vars, parserVars, contentVars, fieldVars, FieldBuffersInUse
<1>. QED  BY <1>1, <1>2, <1>3, <1>4 DEF Next

(* The text of one header field never leaks into another.                  *)
THEOREM FieldBuffersCorrect == Spec => []FieldBuffersInUse
<1>1. Init => TypeOK /\ FieldBuffersInUse
  BY InitType DEF Init, FieldBuffersInUse, FieldState
<1>2. TypeOK /\ FieldBuffersInUse /\ [Next]_vars => TypeOK' /\ FieldBuffersInUse'
  BY NextType, FieldBuffersNext
<1>. QED  BY <1>1, <1>2, PTL DEF Spec

-----------------------------------------------------------------------------
(* The strong exception guarantee.  A call that throws ends in Raise, not  *)
(* in Accept, and only parseHeader() raises with a change of the content:  *)
(* it clears buffers that FieldBuffersInUse says are clear.                *)

LEMMA ReturnedIsNotThrown == ASSUME NEW next PROVE Returned(next).type # "thrown"
BY DEF Returned

LEMMA ThrowParse ==
  ASSUME TypeOK, FieldBuffersInUse, NEW ch \in Char, Parse(ch), result'.type = "thrown"
  PROVE  UNCHANGED parserVars
<1>. USE DEF Accept, Raise, Throw, Expect
<1>1. \A next : result' # Returned(next)
  BY ReturnedIsNotThrown, Zenon
<1>2. UNCHANGED limitVars
  BY DEF Parse
<1>. SUFFICES UNCHANGED <<state, posVars, contentVars>>
  BY <1>2, Zenon DEF parserVars
<1>3. CASE ParseStartLine(ch)
  <2>1. CASE ParseMessage(ch)
    BY <1>1, <2>1 DEF ParseMessage, Begin
  <2>2. CASE ParseLeadingSP(ch) \/ ParseFirstToken(ch) \/ ParseFirstTokenSP(ch)
    BY <1>1, <2>2 DEF ParseLeadingSP, ParseFirstToken, ParseFirstTokenSP
  <2>3. CASE ParseSecondToken(ch) \/ ParseSecondTokenSP(ch)
    BY <1>1, <2>3 DEF ParseSecondToken, ParseSecondTokenSP
  <2>4. CASE ParseThirdToken(ch) \/ ParseFirstLineLF(ch)
    BY <1>1, <2>4 DEF ParseThirdToken, ParseFirstLineLF
  <2>. QED  BY <1>3, <2>1, <2>2, <2>3, <2>4 DEF ParseStartLine
<1>4. CASE ParseHeader(ch) \/ ParseTrailerHeader(ch)
  <2>1. headerFieldName = << >> /\ headerFieldValue = << >>
    BY <1>4 DEF ParseHeader, ParseTrailerHeader, FieldBuffersInUse, FieldState
  <2>2. SetField(<< >>, << >>) => UNCHANGED contentVars
    BY <2>1 DEF SetField, contentVars, fieldVars
  <2>. QED  BY <1>1, <1>4, <2>2 DEF ParseHeader, ParseTrailerHeader, parseHeader
<1>5. CASE ParseHeaderName(ch) \/ ParseTrailerHeaderName(ch)
  BY <1>1, <1>5 DEF ParseHeaderName, ParseTrailerHeaderName, parseHeaderName
<1>6. CASE ParseHeaderValue(ch) \/ ParseTrailerHeaderValue(ch)
  BY <1>1, <1>6 DEF ParseHeaderValue, ParseTrailerHeaderValue, parseHeaderValue, ExtendValue
<1>7. CASE ParseHeaderValueLF(ch) \/ ParseTrailerHeaderValueLF(ch)
  BY <1>1, <1>7 DEF ParseHeaderValueLF, ParseTrailerHeaderValueLF, parseHeaderValueLF
<1>8. CASE ParseHeaderValueLWS(ch) \/ ParseTrailerHeaderValueLWS(ch)
  BY <1>1, <1>8 DEF ParseHeaderValueLWS, ParseTrailerHeaderValueLWS, parseHeaderValueLWS,
                    appendHeader, ExtendValue
<1>9. CASE ParseEndOfHeader(ch) \/ ParseFinalLF(ch)
  BY <1>1, <1>9 DEF ParseEndOfHeader, ParseFinalLF
<1>10. CASE ParseBody(ch)
  BY <1>1, <1>10 DEF ParseBody, ParseIdentityBody, ParseChunkSize, ParseChunkExtension,
                     ParseChunkSizeLF, ParseChunk, ParseChunkCR, ParseChunkLF
<1>. QED
  BY <1>3, <1>4, <1>5, <1>6, <1>7, <1>8, <1>9, <1>10
  DEF Parse, ParseHeaderSection, ParseTrailer

LEMMA ThrowNext ==
  ASSUME TypeOK, FieldBuffersInUse, [Next]_vars, result'.type = "thrown"
  PROVE  UNCHANGED parserVars
<1>1. ASSUME NEW ch \in Offered[state], Parse(ch) PROVE UNCHANGED parserVars
  BY <1>1, OfferedType, ThrowParse
<1>2. ~Reset /\ ~\E n \in HeaderNameLimits : SetMaxHeaderNameLength(n)
  BY DEF Reset, SetMaxHeaderNameLength, NoResult
<1>3. /\ ~\E n \in HeaderValueLimits : SetMaxHeaderValueLength(n)
      /\ ~\E n \in HeadersAmountLimits : SetMaxHeadersAmount(n)
  BY DEF SetMaxHeaderValueLength, SetMaxHeadersAmount, NoResult
<1>4. CASE UNCHANGED vars
  BY <1>4 DEF vars
<1>. QED  BY <1>1, <1>2, <1>3, <1>4 DEF Next

(* A call of parse(char) that throws has no effect: the user may offer     *)
(* another character, or ask the parser what it has read so far.           *)
THEOREM ThrowHasNoEffect == Spec => ThrowLeavesParserUnchanged
<1>1. TypeOK /\ FieldBuffersInUse /\ [Next]_vars
        => [result'.type = "thrown" => UNCHANGED parserVars]_vars
  BY ThrowNext
<1>. QED  BY <1>1, TypeCorrect, FieldBuffersCorrect, PTL DEF Spec, ThrowLeavesParserUnchanged

-----------------------------------------------------------------------------
(* The body counters.  A counter in a body state is below its limit, which *)
(* is an unsigned int and no wider than a size_t, so that incrementing it  *)
(* never wraps around.                                                     *)

LEMMA IncrementBelow ==
  ASSUME NEW n \in SizeT, NEW limit \in UInt, n < limit
  PROVE  Incremented(n) = n + 1
BY UIntSizeAssumption, ParserAssumption DEF UInt, SizeT, Incremented

LEMMA BodyCountersParse ==
  ASSUME TypeOK, BodyCountersExact, NEW ch \in Char, Parse(ch)
  PROVE  BodyCountersExact'
<1>. USE DEF BodyCountersExact, Accept, Raise, Throw, Expect, contentVars, bodyVars, chunkVars
<1>1. /\ contentLength \in UInt /\ identityBodyBytesParsed \in SizeT
      /\ chunkSize \in UInt /\ chunkBytesParsed \in SizeT
      /\ UInt \subseteq Nat /\ SizeT \subseteq Nat
  BY UIntSizeAssumption, ParserAssumption DEF TypeOK, ContentOK, UInt, SizeT
<1>2. CASE ParseStartLine(ch)
  <2>1. CASE ParseMessage(ch)
    BY <2>1 DEF ParseMessage, Begin, ClearContent, ClearBody
  <2>2. CASE ParseLeadingSP(ch) \/ ParseFirstToken(ch) \/ ParseFirstTokenSP(ch)
    BY <2>2 DEF ParseLeadingSP, ParseFirstToken, ParseFirstTokenSP, restVars
  <2>3. CASE ParseSecondToken(ch) \/ ParseSecondTokenSP(ch)
    BY <2>3 DEF ParseSecondToken, ParseSecondTokenSP, restVars
  <2>4. CASE ParseThirdToken(ch) \/ ParseFirstLineLF(ch)
    BY <2>4 DEF ParseThirdToken, ParseFirstLineLF, restVars
  <2>. QED  BY <1>2, <2>1, <2>2, <2>3, <2>4 DEF ParseStartLine
<1>3. CASE ParseHeader(ch) \/ ParseTrailerHeader(ch)
  BY <1>3 DEF ParseHeader, ParseTrailerHeader, parseHeader, SetField, Section
<1>4. CASE ParseHeaderName(ch) \/ ParseTrailerHeaderName(ch)
  BY <1>4 DEF ParseHeaderName, ParseTrailerHeaderName, parseHeaderName, SetField, Section
<1>5. CASE ParseHeaderValue(ch) \/ ParseTrailerHeaderValue(ch)
  BY <1>5 DEF ParseHeaderValue, ParseTrailerHeaderValue, parseHeaderValue, ExtendValue,
              SetField, Section
<1>6. CASE ParseHeaderValueLF(ch) \/ ParseTrailerHeaderValueLF(ch)
  BY <1>6 DEF ParseHeaderValueLF, ParseTrailerHeaderValueLF, parseHeaderValueLF, Section
<1>7. CASE ParseHeaderValueLWS(ch) \/ ParseTrailerHeaderValueLWS(ch)
  BY <1>7 DEF ParseHeaderValueLWS, ParseTrailerHeaderValueLWS, parseHeaderValueLWS,
              appendHeader, FileField, ExtendValue, SetField, Section
<1>8. CASE ParseEndOfHeader(ch)
  <2>1. identityBodyBytesParsed = 0 /\ contentLength = 0
    BY <1>1, <1>8 DEF ParseEndOfHeader
  <2>2. CASE UNCHANGED contentVars
    BY <1>8, <2>1, <2>2 DEF ParseEndOfHeader
  <2>3. CASE DeclaredLength \in UInt /\ contentLength' = DeclaredLength
    <3>1. DeclaredLength \in Nat
      BY <1>1, <2>3
    <3>2. UNCHANGED <<identityBodyBytesParsed, chunkVars>>
      BY <1>8, <2>3 DEF ParseEndOfHeader
    <3>. QED  BY <1>8, <2>1, <2>3, <3>1, <3>2 DEF ParseEndOfHeader
  <2>. QED  BY <1>8, <2>2, <2>3 DEF ParseEndOfHeader
<1>9. CASE ParseFinalLF(ch)
  BY <1>9 DEF ParseFinalLF
<1>10. CASE ParseIdentityBody(ch)
  <2>1. identityBodyBytesParsed < contentLength
    BY <1>10 DEF ParseIdentityBody
  <2>2. identityBodyBytesParsed' = identityBodyBytesParsed + 1
    BY <1>1, <1>10, <2>1, IncrementBelow DEF ParseIdentityBody
  <2>. QED  BY <1>1, <1>10, <2>1, <2>2 DEF ParseIdentityBody
<1>11. CASE ParseChunkSize(ch)
  <2>1. CASE state' = state /\ UNCHANGED <<bodyVars, chunkSize, chunkBytesParsed>>
    BY <1>11, <2>1 DEF ParseChunkSize
  <2>2. CASE SizeRead \in UInt /\ StartChunk
    <3>1. SizeRead \in Nat
      BY <1>1, <2>2
    <3>. QED  BY <1>11, <2>2, <3>1 DEF ParseChunkSize, StartChunk
  <2>. QED  BY <1>11, <2>1, <2>2 DEF ParseChunkSize
<1>12. CASE ParseChunkExtension(ch) \/ ParseChunkSizeLF(ch)
  BY <1>1, <1>12 DEF ParseChunkExtension, ParseChunkSizeLF
<1>13. CASE ParseChunk(ch)
  <2>1. chunkBytesParsed < chunkSize
    BY <1>13 DEF ParseChunk
  <2>2. chunkBytesParsed' = chunkBytesParsed + 1
    BY <1>1, <1>13, <2>1, IncrementBelow DEF ParseChunk
  <2>. QED  BY <1>1, <1>13, <2>1, <2>2 DEF ParseChunk
<1>14. CASE ParseChunkCR(ch) \/ ParseChunkLF(ch)
  BY <1>14 DEF ParseChunkCR, ParseChunkLF
<1>. QED
  BY <1>2, <1>3, <1>4, <1>5, <1>6, <1>7, <1>8, <1>9, <1>10, <1>11, <1>12, <1>13, <1>14
  DEF Parse, ParseHeaderSection, ParseBody, ParseTrailer

LEMMA BodyCountersNext ==
  ASSUME TypeOK, BodyCountersExact, [Next]_vars
  PROVE  BodyCountersExact'
<1>1. ASSUME NEW ch \in Offered[state], Parse(ch) PROVE BodyCountersExact'
  BY <1>1, OfferedType, BodyCountersParse
<1>2. CASE Reset
  BY <1>2 DEF Reset, ClearContent, ClearBody, BodyCountersExact
<1>3. CASE \/ \E n \in HeaderNameLimits : SetMaxHeaderNameLength(n)
           \/ \E n \in HeaderValueLimits : SetMaxHeaderValueLength(n)
           \/ \E n \in HeadersAmountLimits : SetMaxHeadersAmount(n)
  BY <1>3 DEF SetMaxHeaderNameLength, SetMaxHeaderValueLength, SetMaxHeadersAmount,
              contentVars, bodyVars, chunkVars, BodyCountersExact
<1>4. CASE UNCHANGED vars
  BY <1>4 DEF vars, parserVars, contentVars, bodyVars, chunkVars, BodyCountersExact
<1>. QED  BY <1>1, <1>2, <1>3, <1>4 DEF Next

(* A body ends on its last byte: no counter passes, or wraps around to     *)
(* miss, the size it is compared with.                                     *)
THEOREM BodyCountersCorrect == Spec => []BodyCountersExact
<1>1. Init => TypeOK /\ BodyCountersExact
  BY InitType DEF Init, BodyCountersExact
<1>2. TypeOK /\ BodyCountersExact /\ [Next]_vars => TypeOK' /\ BodyCountersExact'
  BY NextType, BodyCountersNext
<1>. QED  BY <1>1, <1>2, PTL DEF Spec

-----------------------------------------------------------------------------
(* The position.  Each case of parse(char) but the first moves to a state  *)
(* that suits the character: it leaves the start line or begins a line at  *)
(* a line feed only, and an empty line has its CR in the first column.     *)

SuitsLine(ch) ==
  /\ state' \in StartLineState => state \in StartLineState /\ ~isLineFeed(ch)
  /\ state \in StartLineState => state' \in StartLineState \/ isLineFeed(ch)
  /\ state' \in LineStartState => isLineFeed(ch)
  /\ state' \in {"ParsingEndOfHeader", "ParsingFinalLF"} =>
       state \in LineStartState /\ ~isLineFeed(ch)

LEMMA PositionAdvance ==
  ASSUME TypeOK, PositionConsistent, ~isCompleted, NEW ch,
         AdvanceFrom(pos, line, col, ch), SuitsLine(ch)
  PROVE  PositionConsistent'
<1>1. pos \in Nat /\ line \in Nat /\ col \in Nat
  BY DEF TypeOK, ControlOK
<1>2. CASE isLineFeed(ch)
  <2>1. pos' = pos + 1 /\ line' = line + 1 /\ col' = 1
    BY <1>2 DEF AdvanceFrom
  <2>. QED  BY <1>1, <1>2, <2>1 DEF PositionConsistent, SuitsLine
<1>3. CASE ~isLineFeed(ch)
  <2>1. pos' = pos + 1 /\ line' = line /\ col' = col + 1
    BY <1>3 DEF AdvanceFrom
  <2>. QED  BY <1>1, <1>3, <2>1 DEF PositionConsistent, SuitsLine, isCompleted
<1>. QED  BY <1>2, <1>3

LEMMA SuitsLineParse ==
  ASSUME NEW ch \in Char, Parse(ch), ~isCompleted
  PROVE  UNCHANGED <<state, posVars>> \/ (AdvanceFrom(pos, line, col, ch) /\ SuitsLine(ch))
<1>. USE DEF SuitsLine, StartLineState, LineStartState, Accept, Raise, Throw, Expect
<1>1. isText(ch) \/ isSpaceOrTab(ch) \/ isCarriageReturn(ch) \/ isToken(ch) \/ ch = Colon
        \/ ~isControl(ch) => ~isLineFeed(ch)
  BY DEF isText, isControl, isSpaceOrTab, isSpace, isTab, isCarriageReturn, isLineFeed,
         isToken, Colon, SP, HT, CR, LF
<1>2. isWord(ch) => isText(ch)
  BY DEF isWord
<1>3. CASE ParseStartLine(ch)
  <2>1. ~ParseMessage(ch)
    BY DEF ParseMessage, isCompleted
  <2>2. CASE ParseLeadingSP(ch) \/ ParseFirstToken(ch) \/ ParseFirstTokenSP(ch)
    BY <1>1, <1>2, <2>2 DEF ParseLeadingSP, ParseFirstToken, ParseFirstTokenSP
  <2>3. CASE ParseSecondToken(ch) \/ ParseSecondTokenSP(ch)
    BY <1>1, <1>2, <2>3 DEF ParseSecondToken, ParseSecondTokenSP
  <2>4. CASE ParseThirdToken(ch) \/ ParseFirstLineLF(ch)
    BY <1>1, <2>4 DEF ParseThirdToken, ParseFirstLineLF
  <2>. QED  BY <1>3, <2>1, <2>2, <2>3, <2>4 DEF ParseStartLine
<1>4. CASE ParseHeader(ch) \/ ParseTrailerHeader(ch)
  BY <1>1, <1>4 DEF ParseHeader, ParseTrailerHeader, parseHeader, Section
<1>5. CASE ParseHeaderName(ch) \/ ParseTrailerHeaderName(ch)
  BY <1>1, <1>5 DEF ParseHeaderName, ParseTrailerHeaderName, parseHeaderName, Section
<1>6. CASE ParseHeaderValue(ch) \/ ParseTrailerHeaderValue(ch)
  BY <1>1, <1>6 DEF ParseHeaderValue, ParseTrailerHeaderValue, parseHeaderValue, ExtendValue,
                    Section
<1>7. CASE ParseHeaderValueLF(ch) \/ ParseTrailerHeaderValueLF(ch)
  BY <1>7 DEF ParseHeaderValueLF, ParseTrailerHeaderValueLF, parseHeaderValueLF, Section
<1>8. CASE ParseHeaderValueLWS(ch) \/ ParseTrailerHeaderValueLWS(ch)
  BY <1>1, <1>8 DEF ParseHeaderValueLWS, ParseTrailerHeaderValueLWS, parseHeaderValueLWS,
                    appendHeader, ExtendValue, Section
<1>9. CASE ParseEndOfHeader(ch) \/ ParseFinalLF(ch)
  BY <1>9 DEF ParseEndOfHeader, ParseFinalLF
<1>10. CASE ParseBody(ch)
  BY <1>10 DEF ParseBody, ParseIdentityBody, ParseChunkSize, ParseChunkExtension,
               ParseChunkSizeLF, ParseChunk, ParseChunkCR, ParseChunkLF
<1>. QED
  BY <1>3, <1>4, <1>5, <1>6, <1>7, <1>8, <1>9, <1>10
  DEF Parse, ParseHeaderSection, ParseTrailer

LEMMA PositionNext ==
  ASSUME TypeOK, PositionConsistent, [Next]_vars
  PROVE  PositionConsistent'
<1>1. CASE UNCHANGED <<state, posVars>>
  BY <1>1 DEF PositionConsistent, posVars, isCompleted
<1>2. ASSUME NEW ch \in Offered[state], Parse(ch), isCompleted PROVE PositionConsistent'
  <2>1. ParseMessage(ch)
    BY <1>2 DEF isCompleted, Parse, ParseStartLine, ParseHeaderSection, ParseBody, ParseTrailer,
         ParseLeadingSP, ParseFirstToken, ParseFirstTokenSP, ParseSecondToken, ParseSecondTokenSP,
         ParseThirdToken, ParseFirstLineLF, ParseHeader, ParseHeaderName, ParseHeaderValue,
         ParseHeaderValueLF, ParseHeaderValueLWS, ParseEndOfHeader, ParseIdentityBody,
         ParseChunkSize, ParseChunkExtension, ParseChunkSizeLF, ParseChunk, ParseChunkCR,
         ParseChunkLF, ParseTrailerHeader, ParseTrailerHeaderName, ParseTrailerHeaderValue,
         ParseTrailerHeaderValueLF, ParseTrailerHeaderValueLWS, ParseFinalLF
  <2>2. isSpaceOrTab(ch) \/ isWord(ch) => ~isLineFeed(ch)
    BY <1>2, OfferedType DEF isWord, isText, isControl, isSpaceOrTab, isSpace, isTab, isLineFeed,
         SP, HT, LF
  <2>3. CASE UNCHANGED <<state, posVars>>
    BY <1>1, <2>3
  <2>4. CASE pos' = 1 /\ line' = 1 /\ col' = 2 /\ state' \in {"ParsingLeadingSP", "ParsingFirstToken"}
    BY <2>4 DEF PositionConsistent, StartLineState, LineStartState
  <2>. QED  BY <2>1, <2>2, <2>3, <2>4 DEF ParseMessage, Begin, AdvanceFrom, Throw, Raise
<1>3. ASSUME NEW ch \in Offered[state], Parse(ch), ~isCompleted PROVE PositionConsistent'
  BY <1>1, <1>3, OfferedType, SuitsLineParse, PositionAdvance
<1>4. CASE Reset
  BY <1>4 DEF Reset, PositionConsistent, StartLineState, LineStartState, isCompleted
<1>5. CASE \/ \E n \in HeaderNameLimits : SetMaxHeaderNameLength(n)
           \/ \E n \in HeaderValueLimits : SetMaxHeaderValueLength(n)
           \/ \E n \in HeadersAmountLimits : SetMaxHeadersAmount(n)
  BY <1>1, <1>5 DEF SetMaxHeaderNameLength, SetMaxHeaderValueLength, SetMaxHeadersAmount
<1>6. CASE UNCHANGED vars
  BY <1>1, <1>6 DEF vars, parserVars
<1>. QED  BY <1>2, <1>3, <1>4, <1>5, <1>6 DEF Next

(* The position, line and column a user reads, or is told in an Exception, *)
(* agree with each other and with the state of the parser.                 *)
THEOREM PositionCorrect == Spec => []PositionConsistent
<1>1. Init => TypeOK /\ PositionConsistent
  BY InitType DEF Init, PositionConsistent, StartLineState, LineStartState, isCompleted
<1>2. TypeOK /\ PositionConsistent /\ [Next]_vars => TypeOK' /\ PositionConsistent'
  BY NextType, PositionNext
<1>. QED  BY <1>1, <1>2, PTL DEF Spec

-----------------------------------------------------------------------------
(* The body characters.  bodyExpected is evaluated before the step, like   *)
(* the test in parse(char), and BodyCountersExact rules out a counter that *)
(* wraps around in the step that counts.                                   *)

BodyCharIsCounted ==
  result'.type = "returned" =>
    (result'.isBodyChar <=>
       \/ identityBodyBytesParsed' = identityBodyBytesParsed + 1
       \/ chunkBytesParsed' = chunkBytesParsed + 1)

LEMMA ThrownIsNotReturned == ASSUME NEW code, NEW ch PROVE Thrown(code, ch).type # "returned"
BY DEF Thrown

LEMMA IsBodyChar == ASSUME NEW next PROVE Returned(next).isBodyChar = bodyExpected
BY DEF Returned

LEMMA NotCounted ==
  ASSUME TypeOK, ~bodyExpected,
         \/ result'.type # "returned"
         \/ /\ \E next : result' = Returned(next)
            /\ identityBodyBytesParsed' \in {identityBodyBytesParsed, 0}
            /\ chunkBytesParsed' \in {chunkBytesParsed, 0}
  PROVE  BodyCharIsCounted
<1>1. identityBodyBytesParsed \in Nat /\ chunkBytesParsed \in Nat
  BY ParserAssumption, UIntSizeAssumption DEF TypeOK, ContentOK, SizeT
<1>2. /\ identityBodyBytesParsed' \in {identityBodyBytesParsed, 0}
        => identityBodyBytesParsed' # identityBodyBytesParsed + 1
      /\ chunkBytesParsed' \in {chunkBytesParsed, 0} => chunkBytesParsed' # chunkBytesParsed + 1
  BY <1>1
<1>. QED  BY <1>2, IsBodyChar, Zenon DEF BodyCharIsCounted

LEMMA BodyCharsParse ==
  ASSUME TypeOK, BodyCountersExact, NEW ch \in Char, Parse(ch)
  PROVE  BodyCharIsCounted
<1>. USE DEF Accept, Raise, Throw, Expect, contentVars, bodyVars, chunkVars
<1>1. \A code : Thrown(code, ch).type # "returned"
  BY ThrownIsNotReturned, Zenon
<1>. DEFINE Quiet ==
       \/ result'.type # "returned"
       \/ /\ \E next : result' = Returned(next)
          /\ identityBodyBytesParsed' \in {identityBodyBytesParsed, 0}
          /\ chunkBytesParsed' \in {chunkBytesParsed, 0}
<1>2. ~bodyExpected /\ Quiet => BodyCharIsCounted
  BY NotCounted
<1>3. CASE ParseStartLine(ch)
  <2>1. ~bodyExpected
    BY <1>3 DEF bodyExpected, ParseStartLine, ParseMessage, ParseLeadingSP, ParseFirstToken,
         ParseFirstTokenSP, ParseSecondToken, ParseSecondTokenSP, ParseThirdToken, ParseFirstLineLF
  <2>2. CASE ParseMessage(ch)
    BY <1>1, <1>2, <2>1, <2>2 DEF ParseMessage, Begin, ClearContent, ClearBody
  <2>3. CASE ParseLeadingSP(ch) \/ ParseFirstToken(ch) \/ ParseFirstTokenSP(ch)
    BY <1>1, <1>2, <2>1, <2>3 DEF ParseLeadingSP, ParseFirstToken, ParseFirstTokenSP, restVars
  <2>4. CASE ParseSecondToken(ch) \/ ParseSecondTokenSP(ch)
    BY <1>1, <1>2, <2>1, <2>4 DEF ParseSecondToken, ParseSecondTokenSP, restVars
  <2>5. CASE ParseThirdToken(ch) \/ ParseFirstLineLF(ch)
    BY <1>1, <1>2, <2>1, <2>5 DEF ParseThirdToken, ParseFirstLineLF, restVars
  <2>. QED  BY <1>3, <2>2, <2>3, <2>4, <2>5 DEF ParseStartLine
<1>4. CASE ParseHeader(ch) \/ ParseTrailerHeader(ch)
  <2>1. ~bodyExpected
    BY <1>4 DEF bodyExpected, ParseHeader, ParseTrailerHeader
  <2>. QED  BY <1>1, <1>2, <1>4, <2>1 DEF ParseHeader, ParseTrailerHeader, parseHeader, SetField
<1>5. CASE ParseHeaderName(ch) \/ ParseTrailerHeaderName(ch)
  <2>1. ~bodyExpected
    BY <1>5 DEF bodyExpected, ParseHeaderName, ParseTrailerHeaderName
  <2>. QED
    BY <1>1, <1>2, <1>5, <2>1
    DEF ParseHeaderName, ParseTrailerHeaderName, parseHeaderName, SetField
<1>6. CASE ParseHeaderValue(ch) \/ ParseTrailerHeaderValue(ch)
  <2>1. ~bodyExpected
    BY <1>6 DEF bodyExpected, ParseHeaderValue, ParseTrailerHeaderValue
  <2>. QED
    BY <1>1, <1>2, <1>6, <2>1
    DEF ParseHeaderValue, ParseTrailerHeaderValue, parseHeaderValue, ExtendValue, SetField
<1>7. CASE ParseHeaderValueLF(ch) \/ ParseTrailerHeaderValueLF(ch)
  <2>1. ~bodyExpected
    BY <1>7 DEF bodyExpected, ParseHeaderValueLF, ParseTrailerHeaderValueLF
  <2>. QED
    BY <1>1, <1>2, <1>7, <2>1
    DEF ParseHeaderValueLF, ParseTrailerHeaderValueLF, parseHeaderValueLF
<1>8. CASE ParseHeaderValueLWS(ch) \/ ParseTrailerHeaderValueLWS(ch)
  <2>1. ~bodyExpected
    BY <1>8 DEF bodyExpected, ParseHeaderValueLWS, ParseTrailerHeaderValueLWS
  <2>. QED
    BY <1>1, <1>2, <1>8, <2>1
    DEF ParseHeaderValueLWS, ParseTrailerHeaderValueLWS, parseHeaderValueLWS, appendHeader,
        FileField, ExtendValue, SetField
<1>9. CASE ParseEndOfHeader(ch) \/ ParseFinalLF(ch)
  <2>1. ~bodyExpected
    BY <1>9 DEF bodyExpected, ParseEndOfHeader, ParseFinalLF
  <2>. QED  BY <1>1, <1>2, <1>9, <2>1 DEF ParseEndOfHeader, ParseFinalLF
<1>10. CASE ParseIdentityBody(ch)
  <2>1. identityBodyBytesParsed' = identityBodyBytesParsed + 1
    <3>1. identityBodyBytesParsed \in SizeT /\ contentLength \in UInt
      BY DEF TypeOK, ContentOK
    <3>2. identityBodyBytesParsed < contentLength
      BY <1>10 DEF ParseIdentityBody, BodyCountersExact
    <3>. QED  BY <1>10, <3>1, <3>2, IncrementBelow DEF ParseIdentityBody
  <2>2. bodyExpected
    BY <1>10 DEF ParseIdentityBody, bodyExpected
  <2>3. \E next : result' = Returned(next)
    BY <1>10, Zenon DEF ParseIdentityBody
  <2>. QED  BY <2>1, <2>2, <2>3, IsBodyChar, Zenon DEF BodyCharIsCounted
<1>11. CASE ParseChunk(ch)
  <2>1. chunkBytesParsed' = chunkBytesParsed + 1
    <3>1. chunkBytesParsed \in SizeT /\ chunkSize \in UInt
      BY DEF TypeOK, ContentOK
    <3>2. chunkBytesParsed < chunkSize
      BY <1>11 DEF ParseChunk, BodyCountersExact
    <3>. QED  BY <1>11, <3>1, <3>2, IncrementBelow DEF ParseChunk
  <2>2. bodyExpected
    BY <1>11 DEF ParseChunk, bodyExpected
  <2>3. \E next : result' = Returned(next)
    BY <1>11, Zenon DEF ParseChunk
  <2>. QED  BY <2>1, <2>2, <2>3, IsBodyChar, Zenon DEF BodyCharIsCounted
<1>12. CASE ParseChunkSize(ch) \/ ParseChunkExtension(ch) \/ ParseChunkSizeLF(ch)
  <2>1. ~bodyExpected
    BY <1>12 DEF bodyExpected, ParseChunkSize, ParseChunkExtension, ParseChunkSizeLF
  <2>. QED
    BY <1>1, <1>2, <1>12, <2>1
    DEF ParseChunkSize, StartChunk, ParseChunkExtension, ParseChunkSizeLF
<1>13. CASE ParseChunkCR(ch) \/ ParseChunkLF(ch)
  <2>1. ~bodyExpected
    BY <1>13 DEF bodyExpected, ParseChunkCR, ParseChunkLF
  <2>. QED  BY <1>1, <1>2, <1>13, <2>1 DEF ParseChunkCR, ParseChunkLF
<1>. QED
  BY <1>3, <1>4, <1>5, <1>6, <1>7, <1>8, <1>9, <1>10, <1>11, <1>12, <1>13
  DEF Parse, ParseHeaderSection, ParseBody, ParseTrailer

(* A user who keeps the characters *isBodyChar marks has the body and no   *)
(* more: what is marked is what brings a counter closer to its size.       *)
THEOREM BodyCharsCorrect == Spec => BodyCharsAreCounted
<1>1. ASSUME TypeOK, BodyCountersExact, [Next]_vars, result'.type = "returned"
      PROVE  BodyCharIsCounted \/ UNCHANGED vars
  <2>1. ASSUME NEW ch \in Offered[state], Parse(ch) PROVE BodyCharIsCounted
    BY <1>1, <2>1, OfferedType, BodyCharsParse
  <2>2. ~Reset /\ ~\E n \in HeaderNameLimits : SetMaxHeaderNameLength(n)
    BY <1>1 DEF Reset, SetMaxHeaderNameLength, NoResult
  <2>3. /\ ~\E n \in HeaderValueLimits : SetMaxHeaderValueLength(n)
        /\ ~\E n \in HeadersAmountLimits : SetMaxHeadersAmount(n)
    BY <1>1 DEF SetMaxHeaderValueLength, SetMaxHeadersAmount, NoResult
  <2>. QED  BY <1>1, <2>1, <2>2, <2>3 DEF Next
<1>2. TypeOK /\ BodyCountersExact /\ [Next]_vars => [BodyCharIsCounted]_vars
  BY <1>1 DEF BodyCharIsCounted
<1>. QED  BY <1>2, TypeCorrect, BodyCountersCorrect, PTL DEF Spec, BodyCharsAreCounted, BodyCharIsCounted
-----------------------------------------------------------------------------
(* What a call of parse(char) may do to the headers: drop those of the last*)
(* message, or file the field that has ended.                              *)

Files ==
  /\ state \in {"ParsingHeaderValueLWS", "ParsingTrailerHeaderValueLWS"}
  /\ ~HeadersFull
  /\ headers' = add(headers, trim(headerFieldName), trim(headerFieldValue))

Drops == state = "ParsingMessage" /\ headers' = << >>

LEMMA HeadersParse ==
  ASSUME NEW ch \in Char, Parse(ch)
  PROVE  UNCHANGED headers \/ Files \/ Drops
<1>. USE DEF Accept, Raise, Throw, Expect, contentVars
<1>1. CASE ParseStartLine(ch)
  <2>1. CASE ParseMessage(ch)
    BY <2>1 DEF ParseMessage, Begin, ClearContent, Drops
  <2>2. CASE ParseLeadingSP(ch) \/ ParseFirstToken(ch) \/ ParseFirstTokenSP(ch)
    BY <2>2 DEF ParseLeadingSP, ParseFirstToken, ParseFirstTokenSP, restVars
  <2>3. CASE ParseSecondToken(ch) \/ ParseSecondTokenSP(ch)
    BY <2>3 DEF ParseSecondToken, ParseSecondTokenSP, restVars
  <2>4. CASE ParseThirdToken(ch) \/ ParseFirstLineLF(ch)
    BY <2>4 DEF ParseThirdToken, ParseFirstLineLF, restVars
  <2>. QED  BY <1>1, <2>1, <2>2, <2>3, <2>4 DEF ParseStartLine
<1>2. CASE ParseHeader(ch) \/ ParseTrailerHeader(ch)
  BY <1>2 DEF ParseHeader, ParseTrailerHeader, parseHeader, SetField
<1>3. CASE ParseHeaderName(ch) \/ ParseTrailerHeaderName(ch)
  BY <1>3 DEF ParseHeaderName, ParseTrailerHeaderName, parseHeaderName, SetField
<1>4. CASE ParseHeaderValue(ch) \/ ParseTrailerHeaderValue(ch)
  BY <1>4 DEF ParseHeaderValue, ParseTrailerHeaderValue, parseHeaderValue, ExtendValue, SetField
<1>5. CASE ParseHeaderValueLF(ch) \/ ParseTrailerHeaderValueLF(ch)
  BY <1>5 DEF ParseHeaderValueLF, ParseTrailerHeaderValueLF, parseHeaderValueLF
<1>6. CASE ParseHeaderValueLWS(ch) \/ ParseTrailerHeaderValueLWS(ch)
  BY <1>6 DEF ParseHeaderValueLWS, ParseTrailerHeaderValueLWS, parseHeaderValueLWS,
              appendHeader, FileField, ExtendValue, SetField, Files
<1>7. CASE ParseEndOfHeader(ch) \/ ParseFinalLF(ch)
  BY <1>7 DEF ParseEndOfHeader, ParseFinalLF
<1>8. CASE ParseBody(ch)
  BY <1>8 DEF ParseBody, ParseIdentityBody, ParseChunkSize, ParseChunkExtension,
              ParseChunkSizeLF, ParseChunk, ParseChunkCR, ParseChunkLF
<1>. QED
  BY <1>1, <1>2, <1>3, <1>4, <1>5, <1>6, <1>7, <1>8
  DEF Parse, ParseHeaderSection, ParseTrailer

(* The names and values that add() is called with are strings.             *)
LEMMA FieldTrimmed ==
  ASSUME TypeOK
  PROVE  /\ headers \in Seq(Header)
         /\ trim(headerFieldName) \in String /\ trim(headerFieldValue) \in String
         /\ Len(trim(headerFieldName)) <= Len(headerFieldName)
         /\ Len(trim(headerFieldValue)) <= Len(headerFieldValue)
BY TrimType, Zenon DEF TypeOK, ContentOK

-----------------------------------------------------------------------------
(* The headers stay in order, and so the first value of a name stays.      *)

HeadersInOrder == InOrder(headers)

LEMMA EmptyInOrder == InOrder(<< >>)
BY DEF InOrder

LEMMA OrderNext == TypeOK /\ HeadersInOrder /\ [Next]_vars => HeadersInOrder'
<1>. SUFFICES ASSUME TypeOK, HeadersInOrder, [Next]_vars PROVE HeadersInOrder'
  OBVIOUS
<1>. USE DEF HeadersInOrder
<1>1. CASE UNCHANGED headers
  BY <1>1
<1>2. CASE headers' = << >>
  BY <1>2, EmptyInOrder
<1>3. CASE Files
  BY <1>3, FieldTrimmed, AddKeepsOrder, Zenon DEF Files
<1>4. ASSUME NEW ch \in Offered[state], Parse(ch) PROVE HeadersInOrder'
  BY <1>1, <1>2, <1>3, <1>4, OfferedType, HeadersParse DEF Drops
<1>5. CASE Reset
  BY <1>2, <1>5 DEF Reset, ClearContent
<1>6. CASE \/ \E n \in HeaderNameLimits : SetMaxHeaderNameLength(n)
           \/ \E n \in HeaderValueLimits : SetMaxHeaderValueLength(n)
           \/ \E n \in HeadersAmountLimits : SetMaxHeadersAmount(n)
  BY <1>1, <1>6 DEF SetMaxHeaderNameLength, SetMaxHeaderValueLength, SetMaxHeadersAmount,
                    contentVars
<1>7. CASE UNCHANGED vars
  BY <1>1, <1>7 DEF vars, parserVars, contentVars
<1>. QED  BY <1>4, <1>5, <1>6, <1>7 DEF Next

LEMMA HeadersStayInOrder == Spec => [](TypeOK /\ HeadersInOrder)
<1>1. Init => TypeOK /\ HeadersInOrder
  BY InitType, EmptyInOrder DEF Init, HeadersInOrder
<1>2. TypeOK /\ HeadersInOrder /\ [Next]_vars => TypeOK' /\ HeadersInOrder'
  BY NextType, OrderNext
<1>. QED  BY <1>1, <1>2, PTL DEF Spec

FirstValuesKept ==
  state # "ParsingMessage" /\ result'.type = "returned" =>
    \A h \in Range(headers) : value(headers', h.name) = value(headers, h.name)

LEMMA FirstValuesKeptNext ==
  ASSUME TypeOK, HeadersInOrder, [Next]_vars
  PROVE  FirstValuesKept
<1>1. CASE UNCHANGED headers
  BY <1>1, Zenon DEF FirstValuesKept
<1>2. CASE Files
  <2>. SUFFICES ASSUME NEW h \in Range(headers)
                PROVE  value(headers', h.name) = value(headers, h.name)
    BY DEF FirstValuesKept
  <2>1. PICK i \in 1 .. Len(headers) : headers[i] = h
    BY FieldTrimmed DEF Range
  <2>2. h.name \in String
    BY <2>1, FieldTrimmed, HeaderNames
  <2>3. ~Less(h.name, h.name)
    BY <2>2, LessAsymmetric
  <2>4. have(headers, h.name)
    BY <2>1, <2>3 DEF have, equal_range
  <2>. QED
    BY <1>2, <2>2, <2>4, FieldTrimmed, AddKeepsValue, Zenon DEF Files, HeadersInOrder
<1>3. CASE state = "ParsingMessage"
  BY <1>3 DEF FirstValuesKept
<1>4. ASSUME NEW ch \in Offered[state], Parse(ch) PROVE FirstValuesKept
  BY <1>1, <1>2, <1>3, <1>4, OfferedType, HeadersParse DEF Drops
<1>5. CASE Reset
  BY <1>5 DEF Reset, NoResult, FirstValuesKept
<1>6. CASE \/ \E n \in HeaderNameLimits : SetMaxHeaderNameLength(n)
           \/ \E n \in HeaderValueLimits : SetMaxHeaderValueLength(n)
           \/ \E n \in HeadersAmountLimits : SetMaxHeadersAmount(n)
  BY <1>1, <1>6 DEF SetMaxHeaderNameLength, SetMaxHeaderValueLength, SetMaxHeadersAmount,
                    contentVars
<1>7. CASE UNCHANGED vars
  BY <1>1, <1>7 DEF vars, parserVars, contentVars
<1>. QED  BY <1>4, <1>5, <1>6, <1>7 DEF Next

(* Once a name can be looked up it keeps its value for the rest of the     *)
(* message, whatever fields follow it in the header or in a trailer.       *)
THEOREM FirstValueCorrect == Spec => FirstValueStays
<1>1. TypeOK /\ HeadersInOrder /\ [Next]_vars => [FirstValuesKept]_vars
  BY FirstValuesKeptNext
<1>. QED
  BY <1>1, HeadersStayInOrder, PTL DEF Spec, FirstValueStays, FirstValuesKept

-----------------------------------------------------------------------------
(* Framing.  Two facts make CompletedFraming inductive: a length above 0   *)
(* was declared, and a trailer follows the chunk of size 0.  The headers a *)
(* trailer adds leave "chunked" among the values of its name.              *)

FramingInv ==
  /\ TypeOK /\ BodyCountersExact /\ CompletedFraming
  /\ state = "ParsingIdentityBody" => HasLength
  /\ state \in TrailerState => chunkSize = 0

FramingSame == UNCHANGED <<state, posVars, headers, bodyVars, chunkVars>>

LEMMA SameFraming ==
  ASSUME CompletedFraming, FramingSame
  PROVE  CompletedFraming'
BY DEF CompletedFraming, FramingSame, posVars, bodyVars, chunkVars, IsChunked, HasLength,
       DeclaredLength, isCompleted

(* The states that say nothing of the framing.                             *)
EarlyState == State \ ({"ParsingMessage", "ParsingIdentityBody"} \cup ChunkState \cup TrailerState)

LEMMA EarlyFraming ==
  ASSUME state' \in EarlyState
  PROVE  CompletedFraming'
BY DEF EarlyState, CompletedFraming, isCompleted

LEMMA EarlySteps ==
  ASSUME NEW ch \in Char,
         \/ ParseStartLine(ch) \/ ParseHeader(ch) \/ ParseHeaderName(ch)
         \/ ParseHeaderValue(ch) \/ ParseHeaderValueLF(ch) \/ ParseHeaderValueLWS(ch)
  PROVE  FramingSame \/ state' \in EarlyState
<1>. USE DEF FramingSame, EarlyState, State, ChunkState, TrailerState,
             Accept, Raise, Throw, Expect, contentVars
<1>1. CASE ParseStartLine(ch)
  <2>1. CASE ParseMessage(ch)
    BY <2>1 DEF ParseMessage, Begin
  <2>2. CASE ParseLeadingSP(ch) \/ ParseFirstToken(ch) \/ ParseFirstTokenSP(ch)
    BY <2>2 DEF ParseLeadingSP, ParseFirstToken, ParseFirstTokenSP
  <2>3. CASE ParseSecondToken(ch) \/ ParseSecondTokenSP(ch)
    BY <2>3 DEF ParseSecondToken, ParseSecondTokenSP
  <2>4. CASE ParseThirdToken(ch) \/ ParseFirstLineLF(ch)
    BY <2>4 DEF ParseThirdToken, ParseFirstLineLF
  <2>. QED  BY <1>1, <2>1, <2>2, <2>3, <2>4 DEF ParseStartLine
<1>2. CASE ParseHeader(ch)
  BY <1>2 DEF ParseHeader, parseHeader, Section, SetField
<1>3. CASE ParseHeaderName(ch)
  BY <1>3 DEF ParseHeaderName, parseHeaderName, Section
<1>4. CASE ParseHeaderValue(ch)
  BY <1>4 DEF ParseHeaderValue, parseHeaderValue, ExtendValue, Section
<1>5. CASE ParseHeaderValueLF(ch)
  BY <1>5 DEF ParseHeaderValueLF, parseHeaderValueLF, Section
<1>6. CASE ParseHeaderValueLWS(ch)
  BY <1>6 DEF ParseHeaderValueLWS, parseHeaderValueLWS, appendHeader, ExtendValue, Section
<1>. QED  BY <1>1, <1>2, <1>3, <1>4, <1>5, <1>6

(* The steps of a trailer, which file headers but do not count.            *)
LEMMA TrailerSteps ==
  ASSUME NEW ch \in Char, ParseTrailer(ch)
  PROVE  /\ state \in TrailerState
         /\ UNCHANGED <<bodyVars, chunkVars>>
         /\ state' \in TrailerState \/ (state' = "ParsingMessage" /\ UNCHANGED headers)
<1>. USE DEF TrailerState, Accept, Raise, Throw, Expect, contentVars
<1>1. CASE ParseTrailerHeader(ch)
  BY <1>1 DEF ParseTrailerHeader, parseHeader, Section, SetField
<1>2. CASE ParseTrailerHeaderName(ch)
  BY <1>2 DEF ParseTrailerHeaderName, parseHeaderName, Section, SetField
<1>3. CASE ParseTrailerHeaderValue(ch)
  BY <1>3 DEF ParseTrailerHeaderValue, parseHeaderValue, ExtendValue, Section, SetField
<1>4. CASE ParseTrailerHeaderValueLF(ch)
  BY <1>4 DEF ParseTrailerHeaderValueLF, parseHeaderValueLF, Section
<1>5. CASE ParseTrailerHeaderValueLWS(ch)
  BY <1>5 DEF ParseTrailerHeaderValueLWS, parseHeaderValueLWS, appendHeader, FileField,
              ExtendValue, Section, SetField
<1>6. CASE ParseFinalLF(ch)
  BY <1>6 DEF ParseFinalLF
<1>. QED  BY <1>1, <1>2, <1>3, <1>4, <1>5, <1>6 DEF ParseTrailer

LEMMA ChunkedStays ==
  ASSUME TypeOK, IsChunked, UNCHANGED headers \/ Files
  PROVE  IsChunked'
<1>1. CASE UNCHANGED headers
  BY <1>1 DEF IsChunked
<1>2. CASE Files
  BY <1>2, FieldTrimmed, AddKeepsPairs, Zenon DEF Files, IsChunked
<1>. QED  BY <1>1, <1>2

LEMMA FramingParse ==
  ASSUME FramingInv, NEW ch \in Char, Parse(ch)
  PROVE  FramingInv'
<1>. DEFINE Step(framed) == framed /\ (state' = "ParsingIdentityBody" => HasLength')
                              /\ (state' \in TrailerState => chunkSize' = 0)
<1>0. TypeOK' /\ BodyCountersExact'
  BY ParseType, BodyCountersParse DEF FramingInv
<1>. SUFFICES Step(CompletedFraming')
  BY <1>0 DEF FramingInv
<1>. USE DEF Accept, Raise, Throw, Expect, contentVars, bodyVars, chunkVars
<1>1. /\ contentLength \in Nat /\ identityBodyBytesParsed \in Nat
      /\ chunkSize \in Nat /\ chunkBytesParsed \in Nat
      /\ contentLength' \in Nat /\ identityBodyBytesParsed' \in Nat
  BY <1>0, UIntSizeAssumption, ParserAssumption DEF FramingInv, TypeOK, ContentOK, UInt, SizeT
<1>2. CASE FramingSame
  <2>1. CompletedFraming'
    BY <1>2, SameFraming DEF FramingInv
  <2>. QED  BY <1>2, <2>1 DEF FramingInv, FramingSame, HasLength
<1>3. CASE state' \in EarlyState
  BY <1>3, EarlyFraming DEF EarlyState
<1>4. CASE ParseEndOfHeader(ch)
  <2>1. state = "ParsingEndOfHeader" /\ UNCHANGED <<headers, chunkVars>>
    BY <1>4 DEF ParseEndOfHeader
  <2>2. identityBodyBytesParsed = 0 /\ contentLength = 0
    BY <1>1, <2>1 DEF FramingInv, BodyCountersExact
  <2>3. CASE state' = "ParsingChunkSize"
    BY <1>4, <2>2, <2>3
    DEF ParseEndOfHeader, CompletedFraming, IsChunked, ChunkState, TrailerState, isCompleted
  <2>4. CASE state' = "ParsingIdentityBody"
    BY <1>4, <2>1, <2>4
    DEF ParseEndOfHeader, CompletedFraming, IsChunked, HasLength, DeclaredLength, ChunkState,
        TrailerState, isCompleted
  <2>5. CASE state' = "ParsingMessage"
    <3>1. ~IsChunked' /\ identityBodyBytesParsed' = 0 /\ contentLength' = 0
      BY <1>4, <2>1, <2>2, <2>5 DEF ParseEndOfHeader, IsChunked
    <3>2. HasLength' => DeclaredLength' = 0
      BY <1>4, <2>1, <2>5 DEF ParseEndOfHeader, HasLength, DeclaredLength
    <3>. QED  BY <2>5, <3>1, <3>2 DEF CompletedFraming, ChunkState, TrailerState, isCompleted
  <2>6. CASE Throw("InvalidHeaderLF", ch) \/ Throw("InvalidContentLength", ch)
    BY <1>2, <2>6 DEF FramingSame
  <2>. QED  BY <1>4, <2>3, <2>4, <2>5, <2>6 DEF ParseEndOfHeader
<1>5. CASE ParseIdentityBody(ch)
  <2>1. /\ ~IsChunked /\ HasLength /\ contentLength = DeclaredLength
        /\ UNCHANGED <<headers, contentLength, chunkVars>>
    BY <1>5 DEF ParseIdentityBody, FramingInv, CompletedFraming
  <2>2. ~IsChunked' /\ HasLength' /\ contentLength' = DeclaredLength'
    BY <2>1 DEF IsChunked, HasLength, DeclaredLength
  <2>3. identityBodyBytesParsed' <= contentLength'
    BY <1>0 DEF BodyCountersExact
  <2>4. CASE state' = "ParsingMessage"
    <3>1. identityBodyBytesParsed' >= contentLength'
      BY <1>5, <2>1, <2>4 DEF ParseIdentityBody
    <3>. QED  BY <1>1, <2>2, <2>3, <2>4, <3>1
              DEF CompletedFraming, ChunkState, TrailerState, isCompleted
  <2>5. CASE state' = "ParsingIdentityBody"
    BY <2>2, <2>5 DEF CompletedFraming, ChunkState, TrailerState, isCompleted
  <2>. QED  BY <1>5, <2>4, <2>5 DEF ParseIdentityBody
<1>6. CASE state \in ChunkState
  <2>1. IsChunked /\ contentLength = 0
    BY <1>6 DEF FramingInv, CompletedFraming
  <2>2. UNCHANGED <<headers, contentLength>> /\ state' \in ChunkState \cup {"ParsingTrailerHeader"}
    <3>1. ParseBody(ch)
      BY <1>6 DEF Parse, ChunkState, ParseStartLine, ParseMessage, ParseLeadingSP, ParseFirstToken,
           ParseFirstTokenSP, ParseSecondToken, ParseSecondTokenSP, ParseThirdToken,
           ParseFirstLineLF, ParseHeaderSection, ParseHeader, ParseHeaderName, ParseHeaderValue,
           ParseHeaderValueLF, ParseHeaderValueLWS, ParseEndOfHeader, ParseTrailer,
           ParseTrailerHeader, ParseTrailerHeaderName, ParseTrailerHeaderValue,
           ParseTrailerHeaderValueLF, ParseTrailerHeaderValueLWS, ParseFinalLF
    <3>. QED  BY <1>6, <3>1 DEF ParseBody, ParseIdentityBody, ParseChunkSize, ParseChunkExtension,
              ParseChunkSizeLF, ParseChunk, ParseChunkCR, ParseChunkLF, ChunkState
  <2>3. IsChunked' /\ contentLength' = 0
    BY <2>1, <2>2 DEF IsChunked
  <2>4. state' = "ParsingTrailerHeader" => chunkSize' = 0
    <3>1. state' = "ParsingTrailerHeader" => ParseChunkSizeLF(ch)
      BY <1>6 DEF Parse, ChunkState, ParseStartLine, ParseMessage, ParseLeadingSP, ParseFirstToken,
           ParseFirstTokenSP, ParseSecondToken, ParseSecondTokenSP, ParseThirdToken,
           ParseFirstLineLF, ParseHeaderSection, ParseHeader, ParseHeaderName, ParseHeaderValue,
           ParseHeaderValueLF, ParseHeaderValueLWS, ParseEndOfHeader, ParseTrailer,
           ParseTrailerHeader, ParseTrailerHeaderName, ParseTrailerHeaderValue,
           ParseTrailerHeaderValueLF, ParseTrailerHeaderValueLWS, ParseFinalLF,
           ParseBody, ParseIdentityBody, ParseChunkSize, ParseChunkExtension,
           ParseChunk, ParseChunkCR, ParseChunkLF
    <3>. QED  BY <1>1, <3>1 DEF ParseChunkSizeLF
  <2>. QED  BY <2>2, <2>3, <2>4 DEF CompletedFraming, ChunkState, TrailerState, isCompleted
<1>7. CASE ParseTrailer(ch)
  <2>1. state \in TrailerState /\ UNCHANGED <<bodyVars, chunkVars>>
    BY <1>7, TrailerSteps
  <2>2. IsChunked /\ contentLength = 0 /\ chunkSize = 0
    BY <2>1 DEF FramingInv, CompletedFraming
  <2>3. identityBodyBytesParsed = 0 /\ chunkSizeStr = << >>
    BY <1>1, <2>1, <2>2 DEF FramingInv, BodyCountersExact, TrailerState
  <2>4. UNCHANGED headers \/ Files
    BY <2>1, HeadersParse DEF Drops, TrailerState
  <2>5. IsChunked'
    BY <2>2, <2>4, ChunkedStays DEF FramingInv
  <2>6. state' \in TrailerState \cup {"ParsingMessage"}
    BY <1>7, TrailerSteps
  <2>. QED  BY <2>1, <2>2, <2>3, <2>5, <2>6 DEF CompletedFraming, ChunkState, TrailerState, isCompleted
<1>. QED
  BY <1>2, <1>3, <1>4, <1>5, <1>6, <1>7, EarlySteps
  DEF Parse, ParseHeaderSection, ParseBody, ParseChunkSize, ParseChunkExtension,
      ParseChunkSizeLF, ParseChunk, ParseChunkCR, ParseChunkLF, ChunkState

LEMMA FramingNext == FramingInv /\ [Next]_vars => FramingInv'
<1>. SUFFICES ASSUME FramingInv, [Next]_vars PROVE FramingInv'
  OBVIOUS
<1>0. TypeOK' /\ BodyCountersExact'
  BY NextType, BodyCountersNext DEF FramingInv
<1>1. CASE FramingSame
  <2>1. CompletedFraming'
    BY <1>1, SameFraming DEF FramingInv
  <2>. QED  BY <1>0, <1>1, <2>1 DEF FramingInv, FramingSame, HasLength, chunkVars
<1>2. ASSUME NEW ch \in Offered[state], Parse(ch) PROVE FramingInv'
  BY <1>2, OfferedType, FramingParse DEF FramingInv
<1>3. CASE Reset
  <2>1. state' = "ParsingMessage" /\ pos' = 0 /\ headers' = << >>
    BY <1>3 DEF Reset, ClearContent
  <2>2. ~IsChunked'
    BY <2>1, NothingInEmpty DEF IsChunked
  <2>. QED
    BY <1>0, <2>1, <2>2
    DEF FramingInv, CompletedFraming, ChunkState, TrailerState, isCompleted
<1>4. CASE \/ \E n \in HeaderNameLimits : SetMaxHeaderNameLength(n)
           \/ \E n \in HeaderValueLimits : SetMaxHeaderValueLength(n)
           \/ \E n \in HeadersAmountLimits : SetMaxHeadersAmount(n)
  BY <1>1, <1>4 DEF SetMaxHeaderNameLength, SetMaxHeaderValueLength, SetMaxHeadersAmount,
                    contentVars, FramingSame
<1>5. CASE UNCHANGED vars
  BY <1>1, <1>5 DEF vars, parserVars, contentVars, FramingSame
<1>. QED  BY <1>2, <1>3, <1>4, <1>5 DEF Next

(* A completed message was framed by the headers its user reads: by the    *)
(* first Content-Length, or in chunks, and no trailer changes the answer.  *)
THEOREM FramingCorrect == Spec => []CompletedFraming
<1>1. Init => FramingInv
  <2>. SUFFICES ASSUME Init PROVE FramingInv
    OBVIOUS
  <2>1. TypeOK
    BY InitType
  <2>2. ~IsChunked
    BY NothingInEmpty DEF Init, IsChunked
  <2>. QED
    BY <2>1, <2>2 DEF Init, FramingInv, BodyCountersExact, CompletedFraming, ChunkState,
                      TrailerState, isCompleted
<1>2. FramingInv /\ [Next]_vars => FramingInv'
  BY FramingNext
<1>3. FramingInv => CompletedFraming
  BY DEF FramingInv
<1>. QED  BY <1>1, <1>2, <1>3, PTL DEF Spec

-----------------------------------------------------------------------------
(* How long a buffer may get.  A buffer takes one character at a time: it  *)
(* is given up, it takes its first character unseen, or it has room.       *)

Grows(new, old, limits) ==
  \/ new = old \/ new = << >>
  \/ \E c \in Char : new = <<c>>
  \/ \E c \in Char : new = Append(old, c) /\ (old = << >> \/ \E n \in limits : ~Full(old, n))

LEMMA GrowsWithin ==
  ASSUME NEW old \in String, NEW new, NEW limits, limits \subseteq Nat,
         Within(old, limits), Grows(new, old, limits)
  PROVE  Within(new, limits)
<1>1. Within(<< >>, limits)
  BY Len(<< >>) = 0 DEF Within
<1>2. ASSUME NEW c \in Char PROVE Within(<<c>>, limits)
  BY Len(<<c>>) = 1 DEF Within
<1>3. ASSUME NEW c \in Char PROVE Within(Append(<< >>, c), limits)
  BY Len(Append(<< >>, c)) = 1 DEF Within
<1>4. ASSUME NEW c \in Char, NEW n \in limits, ~Full(old, n) PROVE Within(Append(old, c), limits)
  <2>1. Len(Append(old, c)) = Len(old) + 1 /\ Len(old) \in Nat /\ n \in Nat
    BY DEF String
  <2>. QED  BY <1>4, <2>1 DEF Full, Within
<1>. QED  BY <1>1, <1>2, <1>3, <1>4, Zenon DEF Grows

(* A token that is not begun is empty, so that its first character, which  *)
(* no limit is asked about, is its only one.                               *)
TokensRead ==
  /\ state = "ParsingLeadingSP" => firstToken = << >>
  /\ state \in {"ParsingLeadingSP", "ParsingFirstToken", "ParsingFirstTokenSP"} =>
       secondToken = << >>
  /\ state \in {"ParsingLeadingSP", "ParsingFirstToken", "ParsingFirstTokenSP",
                "ParsingSecondToken", "ParsingSecondTokenSP"} => thirdToken = << >>

TokensGrow ==
  /\ Grows(firstToken', firstToken, {MaxFirstTokenLength})
  /\ Grows(secondToken', secondToken, {MaxSecondTokenLength})
  /\ Grows(thirdToken', thirdToken, {MaxThirdTokenLength})

LEMMA TokensStartLine ==
  ASSUME TokensRead, NEW ch \in Char, ParseStartLine(ch)
  PROVE  TokensRead' /\ TokensGrow
<1>. USE DEF TokensRead, TokensGrow, Grows, Accept, Raise, Throw, Expect, contentVars, tokenVars
<1>1. CASE ParseMessage(ch)
  BY <1>1 DEF ParseMessage, Begin, ClearContent
<1>2. CASE ParseLeadingSP(ch)
  BY <1>2 DEF ParseLeadingSP
<1>3. CASE ParseFirstToken(ch)
  BY <1>3 DEF ParseFirstToken
<1>4. CASE ParseFirstTokenSP(ch)
  BY <1>4 DEF ParseFirstTokenSP
<1>5. CASE ParseSecondToken(ch)
  BY <1>5 DEF ParseSecondToken
<1>6. CASE ParseSecondTokenSP(ch)
  BY <1>6 DEF ParseSecondTokenSP
<1>7. CASE ParseThirdToken(ch)
  BY <1>7 DEF ParseThirdToken
<1>8. CASE ParseFirstLineLF(ch)
  BY <1>8 DEF ParseFirstLineLF
<1>. QED  BY <1>1, <1>2, <1>3, <1>4, <1>5, <1>6, <1>7, <1>8 DEF ParseStartLine

LEMMA TokensKept ==
  ASSUME NEW ch \in Char, ParseHeaderSection(ch) \/ ParseBody(ch) \/ ParseTrailer(ch)
  PROVE  UNCHANGED tokenVars /\ state' \notin StartLineState
<1>. USE DEF StartLineState, Accept, Raise, Throw, Expect, contentVars, Section, SetField
<1>1. CASE ParseHeader(ch) \/ ParseTrailerHeader(ch)
  BY <1>1 DEF ParseHeader, ParseTrailerHeader, parseHeader
<1>2. CASE ParseHeaderName(ch) \/ ParseTrailerHeaderName(ch)
  BY <1>2 DEF ParseHeaderName, ParseTrailerHeaderName, parseHeaderName
<1>3. CASE ParseHeaderValue(ch) \/ ParseTrailerHeaderValue(ch)
  BY <1>3 DEF ParseHeaderValue, ParseTrailerHeaderValue, parseHeaderValue, ExtendValue
<1>4. CASE ParseHeaderValueLF(ch) \/ ParseTrailerHeaderValueLF(ch)
  BY <1>4 DEF ParseHeaderValueLF, ParseTrailerHeaderValueLF, parseHeaderValueLF
<1>5. CASE ParseHeaderValueLWS(ch) \/ ParseTrailerHeaderValueLWS(ch)
  BY <1>5 DEF ParseHeaderValueLWS, ParseTrailerHeaderValueLWS, parseHeaderValueLWS,
              appendHeader, FileField, ExtendValue
<1>6. CASE ParseEndOfHeader(ch) \/ ParseFinalLF(ch)
  BY <1>6 DEF ParseEndOfHeader, ParseFinalLF
<1>7. CASE ParseBody(ch)
  BY <1>7 DEF ParseBody, ParseIdentityBody, ParseChunkSize, ParseChunkExtension,
              ParseChunkSizeLF, ParseChunk, ParseChunkCR, ParseChunkLF
<1>. QED
  BY <1>1, <1>2, <1>3, <1>4, <1>5, <1>6, <1>7 DEF ParseHeaderSection, ParseTrailer

(* A field is extended where its limit leaves room; only the name takes a  *)
(* first character unseen.                                                 *)
Extends(new, old, limit) == ~Full(old, limit) /\ \E c \in Char : new = Append(old, c)

FieldGrows ==
  /\ \/ headerFieldName' = headerFieldName \/ headerFieldName' = << >>
     \/ \E c \in Char : headerFieldName' = <<c>>
     \/ Extends(headerFieldName', headerFieldName, maxHeaderNameLength)
  /\ \/ headerFieldValue' = headerFieldValue \/ headerFieldValue' = << >>
     \/ Extends(headerFieldValue', headerFieldValue, maxHeaderValueLength)

LEMMA FieldGrowsParse ==
  ASSUME NEW ch \in Char, Parse(ch)
  PROVE  FieldGrows
<1>. USE DEF FieldGrows, Accept, Raise, Throw, Expect, contentVars, fieldVars, SetField
<1>0. SP \in Char
  BY DEF SP, Char
<1>1. CASE UNCHANGED fieldVars
  BY <1>1
<1>2. CASE ParseMessage(ch)
  BY <1>2 DEF ParseMessage, Begin, ClearContent, ClearField
<1>3. CASE ParseHeader(ch) \/ ParseTrailerHeader(ch)
  BY <1>3 DEF ParseHeader, ParseTrailerHeader, parseHeader
<1>4. CASE ParseHeaderName(ch) \/ ParseTrailerHeaderName(ch)
  BY <1>4 DEF ParseHeaderName, ParseTrailerHeaderName, parseHeaderName, Extends
<1>5. CASE ParseHeaderValue(ch) \/ ParseTrailerHeaderValue(ch)
  BY <1>5 DEF ParseHeaderValue, ParseTrailerHeaderValue, parseHeaderValue, ExtendValue, Extends
<1>6. CASE ParseHeaderValueLWS(ch) \/ ParseTrailerHeaderValueLWS(ch)
  BY <1>0, <1>6 DEF ParseHeaderValueLWS, ParseTrailerHeaderValueLWS, parseHeaderValueLWS,
              appendHeader, FileField, ExtendValue, Extends
<1>7. CASE \/ ParseHeaderValueLF(ch) \/ ParseTrailerHeaderValueLF(ch)
           \/ ParseEndOfHeader(ch) \/ ParseFinalLF(ch)
  BY <1>1, <1>7 DEF ParseHeaderValueLF, ParseTrailerHeaderValueLF, parseHeaderValueLF,
                    ParseEndOfHeader, ParseFinalLF
<1>8. CASE ParseBody(ch)
  BY <1>1, <1>8 DEF ParseBody, ParseIdentityBody, ParseChunkSize, ParseChunkExtension,
              ParseChunkSizeLF, ParseChunk, ParseChunkCR, ParseChunkLF
<1>9. CASE ParseStartLine(ch) /\ ~ParseMessage(ch)
  BY <1>1, <1>9 DEF ParseStartLine, ParseLeadingSP, ParseFirstToken, ParseFirstTokenSP,
              ParseSecondToken, ParseSecondTokenSP, ParseThirdToken, ParseFirstLineLF, restVars
<1>. QED
  BY <1>2, <1>3, <1>4, <1>5, <1>6, <1>7, <1>8, <1>9 DEF Parse, ParseHeaderSection, ParseTrailer

LEMMA HeadersBoundedFile ==
  ASSUME TypeOK, FieldBounded, HeadersBounded, Files
  PROVE  HeadersBounded'
<1>. DEFINE h == [name |-> trim(headerFieldName), value |-> trim(headerFieldValue)]
<1>1. headers' \in Seq(Header) /\ Len(headers') = Len(headers) + 1 /\ Range(headers') = Range(headers) \cup {h}
  BY FieldTrimmed, AddProperties, Zenon DEF Files
<1>2. Len(headers') <= maxHeadersAmount /\ maxHeadersAmount \in HeadersAmountLimits
  BY <1>1, ParserAssumption DEF TypeOK, ContentOK, LimitsOK, Files, HeadersFull, Full
<1>3. ASSUME NEW s \in String, NEW t \in String, NEW limits, limits \subseteq Nat,
             Within(s, limits), Len(t) <= Len(s)
      PROVE  Within(t, limits)
  <2>1. PICK n \in limits \cup {1} : Len(s) <= n
    BY <1>3 DEF Within
  <2>2. Len(s) \in Nat /\ Len(t) \in Nat /\ n \in Nat
    BY <1>3 DEF String
  <2>3. Len(t) <= n
    BY <1>3, <2>1, <2>2
  <2>. QED  BY <2>3, Zenon DEF Within
<1>4. headerFieldName \in String /\ headerFieldValue \in String
  BY DEF TypeOK, ContentOK
<1>5. Within(h.name, HeaderNameLimits) /\ Within(h.value, HeaderValueLimits)
  <2>1. h.name = trim(headerFieldName) /\ h.value = trim(headerFieldValue)
    OBVIOUS
  <2>2. Within(trim(headerFieldName), HeaderNameLimits)
    BY <1>3, <1>4, FieldTrimmed, ParserAssumption, Zenon DEF FieldBounded
  <2>3. Within(trim(headerFieldValue), HeaderValueLimits)
    BY <1>3, <1>4, FieldTrimmed, ParserAssumption, Zenon DEF FieldBounded
  <2>. QED  BY <2>1, <2>2, <2>3, Zenon
<1>. HIDE DEF h
<1>6. \A g \in Range(headers') : Within(g.name, HeaderNameLimits) /\ Within(g.value, HeaderValueLimits)
  BY <1>1, <1>5, Zenon DEF HeadersBounded
<1>. QED  BY <1>2, <1>6, Zenon DEF HeadersBounded

BoundedInv == TypeOK /\ TokensRead /\ ContentBounded

LEMMA BoundedParse ==
  ASSUME BoundedInv, NEW ch \in Char, Parse(ch)
  PROVE  TokensRead' /\ ContentBounded'
<1>1. TypeOK /\ TokensRead /\ TokensBounded /\ FieldBounded /\ HeadersBounded
  BY DEF BoundedInv, ContentBounded
<1>2. TokensRead' /\ TokensGrow
  <2>1. CASE ParseStartLine(ch)
    BY <1>1, <2>1, TokensStartLine
  <2>2. CASE ParseHeaderSection(ch) \/ ParseBody(ch) \/ ParseTrailer(ch)
    BY <1>1, <2>2, TokensKept DEF TokensRead, TokensGrow, Grows, StartLineState, tokenVars
  <2>. QED  BY <2>1, <2>2 DEF Parse
<1>3. /\ firstToken \in String /\ secondToken \in String /\ thirdToken \in String
      /\ headerFieldName \in String /\ headerFieldValue \in String
      /\ {MaxFirstTokenLength} \subseteq Nat /\ {MaxSecondTokenLength} \subseteq Nat
      /\ {MaxThirdTokenLength} \subseteq Nat
      /\ HeaderNameLimits \subseteq Nat /\ HeaderValueLimits \subseteq Nat
  BY <1>1, ParserAssumption DEF TypeOK, ContentOK
<1>4. TokensBounded'
  BY <1>1, <1>2, <1>3, GrowsWithin, Zenon DEF TokensBounded, TokensGrow
<1>5. FieldBounded'
  <2>1. /\ Grows(headerFieldName', headerFieldName, HeaderNameLimits)
        /\ Grows(headerFieldValue', headerFieldValue, HeaderValueLimits)
    BY <1>1, FieldGrowsParse, Zenon DEF FieldGrows, Extends, Grows, TypeOK, LimitsOK
  <2>. QED  BY <1>1, <1>3, <2>1, GrowsWithin, Zenon DEF FieldBounded
<1>6. HeadersBounded'
  <2>1. CASE UNCHANGED headers
    BY <1>1, <2>1, Zenon DEF HeadersBounded
  <2>2. CASE Drops
    BY <2>2 DEF Drops, HeadersBounded, Range
  <2>. QED  BY <1>1, <2>1, <2>2, HeadersParse, HeadersBoundedFile
<1>. QED  BY <1>2, <1>4, <1>5, <1>6 DEF ContentBounded

LEMMA NothingIsWithin == (\A limits : Within(<< >>, limits)) /\ Range(<< >>) = {}
BY Len(<< >>) = 0 DEF Within, Range

LEMMA BoundedNext == BoundedInv /\ [Next]_vars => BoundedInv'
<1>. SUFFICES ASSUME BoundedInv, [Next]_vars PROVE BoundedInv'
  OBVIOUS
<1>0. TypeOK /\ TypeOK'
  BY NextType DEF BoundedInv
<1>1. CASE UNCHANGED <<state, contentVars>>
  BY <1>0, <1>1 DEF BoundedInv, TokensRead, ContentBounded, TokensBounded, FieldBounded,
                    HeadersBounded, contentVars, tokenVars, fieldVars
<1>2. ASSUME NEW ch \in Offered[state], Parse(ch) PROVE BoundedInv'
  BY <1>0, <1>2, OfferedType, BoundedParse DEF BoundedInv
<1>3. CASE Reset
  <2>1. /\ state' = "ParsingMessage" /\ firstToken' = << >> /\ secondToken' = << >>
        /\ thirdToken' = << >> /\ headerFieldName' = << >> /\ headerFieldValue' = << >>
        /\ headers' = << >>
    BY <1>3 DEF Reset, ClearContent, ClearField
  <2>2. TokensRead' /\ ContentBounded'
    BY <2>1, NothingIsWithin, Zenon
    DEF TokensRead, ContentBounded, TokensBounded, FieldBounded, HeadersBounded
  <2>. QED  BY <1>0, <2>2 DEF BoundedInv
<1>4. CASE \/ \E n \in HeaderNameLimits : SetMaxHeaderNameLength(n)
           \/ \E n \in HeaderValueLimits : SetMaxHeaderValueLength(n)
           \/ \E n \in HeadersAmountLimits : SetMaxHeadersAmount(n)
  BY <1>1, <1>4 DEF SetMaxHeaderNameLength, SetMaxHeaderValueLength, SetMaxHeadersAmount
<1>5. CASE UNCHANGED vars
  BY <1>1, <1>5 DEF vars, parserVars
<1>. QED  BY <1>2, <1>3, <1>4, <1>5 DEF Next

(* Whatever a peer sends and however the user moves the limits, no token,  *)
(* name or value outgrows the largest limit ever in force, or one          *)
(* character, and no more headers are kept than such a limit allows.       *)
THEOREM ContentBoundedCorrect == Spec => []ContentBounded
<1>1. Init => BoundedInv
  BY InitType, NothingIsWithin, Zenon
  DEF Init, BoundedInv, TokensRead, ContentBounded, TokensBounded, FieldBounded, HeadersBounded
<1>2. BoundedInv /\ [Next]_vars => BoundedInv'
  BY BoundedNext
<1>3. BoundedInv => ContentBounded
  BY DEF BoundedInv
<1>. QED  BY <1>1, <1>2, <1>3, PTL DEF Spec

LEMMA ExtendsUpTo ==
  ASSUME NEW old \in String, NEW new, NEW limit \in Nat, Extends(new, old, limit)
  PROVE  GrowsUpTo(old, new, limit)
<1>1. PICK c \in Char : new = Append(old, c)
  BY DEF Extends
<1>2. Len(new) = Len(old) + 1 /\ Len(old) \in Nat
  BY <1>1 DEF String
<1>. QED  BY <1>2 DEF Extends, Full, GrowsUpTo

LEMMA NoGrowth ==
  ASSUME NEW S, NEW old \in Seq(S), NEW new, NEW limit, new = old \/ new = << >>
  PROVE  GrowsUpTo(old, new, limit)
BY Len(<< >>) = 0 DEF GrowsUpTo

LEMMA FirstIsNoGrowth ==
  ASSUME NEW old \in String, old # << >>, NEW c \in Char, NEW limit
  PROVE  GrowsUpTo(old, <<c>>, limit)
BY Len(<<c>>) = 1 DEF String, GrowsUpTo

LimitsKept ==
  /\ headerFieldName # << >> => GrowsUpTo(headerFieldName, headerFieldName', maxHeaderNameLength)
  /\ GrowsUpTo(headerFieldValue, headerFieldValue', maxHeaderValueLength)
  /\ GrowsUpTo(headers, headers', maxHeadersAmount)

LEMMA LimitsParse ==
  ASSUME TypeOK, NEW ch \in Char, Parse(ch)
  PROVE  LimitsKept
<1>1. /\ headerFieldName \in String /\ headerFieldValue \in String /\ headers \in Seq(Header)
      /\ headerFieldName \in Seq(Char) /\ headerFieldValue \in Seq(Char)
      /\ maxHeaderNameLength \in Nat /\ maxHeaderValueLength \in Nat /\ maxHeadersAmount \in Nat
  BY ParserAssumption DEF TypeOK, ContentOK, LimitsOK, String
<1>2. headerFieldName # << >> => GrowsUpTo(headerFieldName, headerFieldName', maxHeaderNameLength)
  BY <1>1, FieldGrowsParse, ExtendsUpTo, NoGrowth, FirstIsNoGrowth, Zenon DEF FieldGrows
<1>3. GrowsUpTo(headerFieldValue, headerFieldValue', maxHeaderValueLength)
  BY <1>1, FieldGrowsParse, ExtendsUpTo, NoGrowth, Zenon DEF FieldGrows
<1>4. GrowsUpTo(headers, headers', maxHeadersAmount)
  <2>1. CASE UNCHANGED headers \/ Drops
    BY <1>1, <2>1, NoGrowth, Zenon DEF Drops
  <2>2. CASE Files
    <3>1. Len(headers') = Len(headers) + 1 /\ Len(headers) \in Nat
      BY <1>1, <2>2, FieldTrimmed, AddProperties DEF Files
    <3>. QED  BY <1>1, <2>2, <3>1 DEF Files, HeadersFull, Full, GrowsUpTo
  <2>. QED  BY <2>1, <2>2, HeadersParse
<1>. QED  BY <1>2, <1>3, <1>4 DEF LimitsKept

LEMMA LimitsNext == ASSUME TypeOK, [Next]_vars PROVE LimitsKept
<1>1. /\ headerFieldName \in Seq(Char) /\ headerFieldValue \in Seq(Char)
      /\ headers \in Seq(Header)
  BY DEF TypeOK, ContentOK, String
<1>2. ASSUME NEW ch \in Offered[state], Parse(ch) PROVE LimitsKept
  BY <1>2, OfferedType, LimitsParse
<1>3. ASSUME \/ headerFieldName' = headerFieldName /\ headerFieldValue' = headerFieldValue
                /\ headers' = headers
             \/ headerFieldName' = << >> /\ headerFieldValue' = << >> /\ headers' = << >>
      PROVE LimitsKept
  BY <1>1, <1>3, NoGrowth, Zenon DEF LimitsKept
<1>4. CASE Reset
  BY <1>3, <1>4 DEF Reset, ClearContent, ClearField
<1>5. CASE \/ \E n \in HeaderNameLimits : SetMaxHeaderNameLength(n)
           \/ \E n \in HeaderValueLimits : SetMaxHeaderValueLength(n)
           \/ \E n \in HeadersAmountLimits : SetMaxHeadersAmount(n)
  BY <1>3, <1>5 DEF SetMaxHeaderNameLength, SetMaxHeaderValueLength, SetMaxHeadersAmount,
                    contentVars, fieldVars
<1>6. CASE UNCHANGED vars
  BY <1>3, <1>6 DEF vars, parserVars, contentVars, fieldVars
<1>. QED  BY <1>2, <1>4, <1>5, <1>6 DEF Next

(* Names, values and the number of headers do not grow past the limit that *)
(* is in force when a character arrives, however the limits are moved.     *)
THEOREM LimitsCorrect == Spec => LimitsInForce
<1>1. Spec => []TypeOK
  BY TypeCorrect
<1>2. ASSUME TypeOK, [Next]_vars PROVE [LimitsKept]_vars
  BY <1>2, LimitsNext
<1>. QED  BY <1>1, <1>2, PTL DEF Spec, LimitsInForce, LimitsKept

-----------------------------------------------------------------------------
(* A rejected length is there to stay.                                     *)

SizeIsHex == \A i \in 1 .. Len(chunkSizeStr) : isHexDigit(chunkSizeStr[i])

LEMMA SizeIsHexParse ==
  ASSUME TypeOK, SizeIsHex, NEW ch \in Char, Parse(ch)
  PROVE  SizeIsHex'
<1>. USE DEF Accept, Raise, Throw, Expect, contentVars, chunkVars, SetField
<1>1. CASE UNCHANGED chunkSizeStr
  BY <1>1 DEF SizeIsHex
<1>2. CASE chunkSizeStr' = << >>
  BY <1>2 DEF SizeIsHex
<1>3. CASE isHexDigit(ch) /\ chunkSizeStr' = Append(chunkSizeStr, ch)
  <2>1. chunkSizeStr \in Seq(Char)
    BY DEF TypeOK, ContentOK, String
  <2>. QED  BY <1>3, <2>1, AppendProperties DEF SizeIsHex
<1>4. CASE ParseStartLine(ch)
  BY <1>1, <1>2, <1>4
  DEF ParseStartLine, ParseMessage, Begin, ClearContent, ParseLeadingSP, ParseFirstToken,
      ParseFirstTokenSP, ParseSecondToken, ParseSecondTokenSP, ParseThirdToken, ParseFirstLineLF,
      restVars
<1>5. CASE ParseHeaderSection(ch) \/ ParseTrailer(ch)
  <2>1. CASE ParseHeader(ch) \/ ParseTrailerHeader(ch)
    BY <1>1, <2>1 DEF ParseHeader, ParseTrailerHeader, parseHeader
  <2>2. CASE ParseHeaderName(ch) \/ ParseTrailerHeaderName(ch)
    BY <1>1, <2>2 DEF ParseHeaderName, ParseTrailerHeaderName, parseHeaderName
  <2>3. CASE ParseHeaderValue(ch) \/ ParseTrailerHeaderValue(ch)
    BY <1>1, <2>3 DEF ParseHeaderValue, ParseTrailerHeaderValue, parseHeaderValue, ExtendValue
  <2>4. CASE ParseHeaderValueLF(ch) \/ ParseTrailerHeaderValueLF(ch)
    BY <1>1, <2>4 DEF ParseHeaderValueLF, ParseTrailerHeaderValueLF, parseHeaderValueLF
  <2>5. CASE ParseHeaderValueLWS(ch) \/ ParseTrailerHeaderValueLWS(ch)
    BY <1>1, <2>5 DEF ParseHeaderValueLWS, ParseTrailerHeaderValueLWS, parseHeaderValueLWS,
                      appendHeader, FileField, ExtendValue
  <2>6. CASE ParseEndOfHeader(ch) \/ ParseFinalLF(ch)
    BY <1>1, <2>6 DEF ParseEndOfHeader, ParseFinalLF
  <2>. QED
    BY <1>5, <2>1, <2>2, <2>3, <2>4, <2>5, <2>6 DEF ParseHeaderSection, ParseTrailer
<1>6. CASE ParseBody(ch)
  BY <1>1, <1>2, <1>3, <1>6
  DEF ParseBody, ParseIdentityBody, ParseChunkSize, StartChunk, ParseChunkExtension,
      ParseChunkSizeLF, ParseChunk, ParseChunkCR, ParseChunkLF
<1>. QED  BY <1>4, <1>5, <1>6 DEF Parse

LEMMA SizeIsHexNext == TypeOK /\ SizeIsHex /\ [Next]_vars => SizeIsHex'
<1>. SUFFICES ASSUME TypeOK, SizeIsHex, [Next]_vars PROVE SizeIsHex'
  OBVIOUS
<1>1. CASE UNCHANGED chunkSizeStr
  BY <1>1 DEF SizeIsHex
<1>2. ASSUME NEW ch \in Offered[state], Parse(ch) PROVE SizeIsHex'
  BY <1>2, OfferedType, SizeIsHexParse
<1>3. CASE Reset
  BY <1>3 DEF Reset, ClearContent, SizeIsHex
<1>4. CASE \/ \E n \in HeaderNameLimits : SetMaxHeaderNameLength(n)
           \/ \E n \in HeaderValueLimits : SetMaxHeaderValueLength(n)
           \/ \E n \in HeadersAmountLimits : SetMaxHeadersAmount(n)
  BY <1>1, <1>4 DEF SetMaxHeaderNameLength, SetMaxHeaderValueLength, SetMaxHeadersAmount,
                    contentVars, chunkVars
<1>5. CASE UNCHANGED vars
  BY <1>1, <1>5 DEF vars, parserVars, contentVars, chunkVars
<1>. QED  BY <1>2, <1>3, <1>4, <1>5 DEF Next

LEMMA SizesAreHex == Spec => [](TypeOK /\ SizeIsHex)
<1>1. Init => TypeOK /\ SizeIsHex
  BY InitType DEF Init, SizeIsHex
<1>2. TypeOK /\ SizeIsHex /\ [Next]_vars => TypeOK' /\ SizeIsHex'
  BY NextType, SizeIsHexNext
<1>. QED  BY <1>1, <1>2, PTL DEF Spec

LEMMA NoSizeIsFine == toUnsignedInt(<< >>, TRUE) \in UInt
<1>1. trim(<< >>) = << >>
  BY DEF trim
<1>. QED  BY <1>1, UIntSizeAssumption DEF toUnsignedInt, UInt

PoisonStays == Poisoned => Poisoned' \/ (isCompleted' /\ pos' = 0)

LEMMA PoisonParse ==
  ASSUME TypeOK, SizeIsHex, Poisoned, NEW ch \in Char, Parse(ch)
  PROVE  Poisoned'
<1>1. CASE state = "ParsingEndOfHeader"
  <2>1. ParseEndOfHeader(ch)
    BY <1>1 DEF Parse, ParseStartLine, ParseMessage, ParseLeadingSP, ParseFirstToken,
         ParseFirstTokenSP, ParseSecondToken, ParseSecondTokenSP, ParseThirdToken,
         ParseFirstLineLF, ParseHeaderSection, ParseHeader, ParseHeaderName, ParseHeaderValue,
         ParseHeaderValueLF, ParseHeaderValueLWS, ParseTrailer, ParseTrailerHeader,
         ParseTrailerHeaderName, ParseTrailerHeaderValue, ParseTrailerHeaderValueLF,
         ParseTrailerHeaderValueLWS, ParseFinalLF, ParseBody, ParseIdentityBody, ParseChunkSize,
         ParseChunkExtension, ParseChunkSizeLF, ParseChunk, ParseChunkCR, ParseChunkLF
  <2>2. ~IsChunked /\ HasLength /\ DeclaredLength \notin UInt
    BY <1>1 DEF Poisoned
  <2>3. UNCHANGED <<state, headers>>
    BY <2>1, <2>2 DEF ParseEndOfHeader, Throw, Raise, contentVars
  <2>. QED  BY <1>1, <2>2, <2>3 DEF Poisoned, IsChunked, HasLength, DeclaredLength
<1>2. CASE state = "ParsingChunkSize"
  <2>1. ParseChunkSize(ch)
    BY <1>2 DEF Parse, ParseStartLine, ParseMessage, ParseLeadingSP, ParseFirstToken,
         ParseFirstTokenSP, ParseSecondToken, ParseSecondTokenSP, ParseThirdToken,
         ParseFirstLineLF, ParseHeaderSection, ParseHeader, ParseHeaderName, ParseHeaderValue,
         ParseHeaderValueLF, ParseHeaderValueLWS, ParseEndOfHeader, ParseTrailer,
         ParseTrailerHeader, ParseTrailerHeaderName, ParseTrailerHeaderValue,
         ParseTrailerHeaderValueLF, ParseTrailerHeaderValueLWS, ParseFinalLF, ParseBody,
         ParseIdentityBody, ParseChunkExtension, ParseChunkSizeLF, ParseChunk, ParseChunkCR,
         ParseChunkLF
  <2>2. SizeRead \notin UInt /\ chunkSizeStr # << >>
    BY <1>2, NoSizeIsFine DEF Poisoned, SizeRead
  <2>3. CASE isHexDigit(ch)
    <3>1. state' = "ParsingChunkSize" /\ chunkSizeStr' = Append(chunkSizeStr, ch)
      BY <2>1, <2>3 DEF ParseChunkSize, Accept
    <3>2. chunkSizeStr \in String
      BY DEF TypeOK, ContentOK
    <3>3. toUnsignedInt(Append(chunkSizeStr, ch), TRUE) \notin UInt
      BY <2>2, <2>3, <3>2, NotANumberStays, Zenon DEF SizeIsHex, SizeRead
    <3>. QED  BY <3>1, <3>3 DEF Poisoned, SizeRead
  <2>4. CASE ~isHexDigit(ch)
    <3>1. UNCHANGED <<state, chunkSizeStr>>
      BY <2>1, <2>2, <2>4 DEF ParseChunkSize, Throw, Raise, contentVars, chunkVars
    <3>. QED  BY <1>2, <2>2, <3>1 DEF Poisoned, SizeRead
  <2>. QED  BY <2>3, <2>4
<1>. QED  BY <1>1, <1>2 DEF Poisoned

(* A rejected length cannot be outrun: a chunk size that has overflowed    *)
(* stays rejected however many digits follow, and a header that declares a *)
(* bad length is never left, until reset().                                *)
THEOREM PoisonedCorrect == Spec => PoisonedUntilReset
<1>1. TypeOK /\ SizeIsHex /\ [Next]_vars => [PoisonStays]_vars
  <2>. SUFFICES ASSUME TypeOK, SizeIsHex, [Next]_vars, Poisoned
                PROVE  Poisoned' \/ (isCompleted' /\ pos' = 0)
    BY DEF PoisonStays
  <2>1. CASE UNCHANGED <<state, headers, chunkSizeStr>>
    BY <2>1 DEF Poisoned, IsChunked, HasLength, DeclaredLength, SizeRead
  <2>2. ASSUME NEW ch \in Offered[state], Parse(ch) PROVE Poisoned'
    BY <2>2, OfferedType, PoisonParse
  <2>3. CASE Reset
    BY <2>3 DEF Reset, isCompleted
  <2>4. CASE \/ \E n \in HeaderNameLimits : SetMaxHeaderNameLength(n)
             \/ \E n \in HeaderValueLimits : SetMaxHeaderValueLength(n)
             \/ \E n \in HeadersAmountLimits : SetMaxHeadersAmount(n)
    BY <2>1, <2>4 DEF SetMaxHeaderNameLength, SetMaxHeaderValueLength, SetMaxHeadersAmount,
                      contentVars, chunkVars
  <2>5. CASE UNCHANGED vars
    BY <2>1, <2>5 DEF vars, parserVars, contentVars, chunkVars
  <2>. QED  BY <2>2, <2>3, <2>4, <2>5 DEF Next
<1>. QED  BY <1>1, SizesAreHex, PTL DEF Spec, PoisonedUntilReset, PoisonStays

=============================================================================
