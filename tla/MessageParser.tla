--------------------------- MODULE MessageParser ---------------------------
(***************************************************************************)
(* The streaming HTTP-message parser of message_parser.cpp, one action per *)
(* case of the switch in parse(char).  Every field of the class is a       *)
(* variable of the same name without its underscore; result is what the    *)
(* last parse(char) answered to its caller.                                *)
(***************************************************************************)
EXTENDS Headers

CONSTANTS
  IntSize,                    \* how many values an int has (2^32)
  SizeTSize,                  \* how many values a size_t has (2^32 or 2^64)
  MaxFirstTokenLength,        \* the constructor's limits that have no setter
  MaxSecondTokenLength,
  MaxThirdTokenLength,
  HeaderNameLimits,           \* the values the caller gives the other limits
  HeaderValueLimits,
  HeadersAmountLimits,
  Offered,                    \* the characters that may arrive in each state
  MaxPos,                     \* bounds the length of a message
  MaxSizeDigits               \* bounds the digits of a chunk size

State ==
  { "ParsingMessage", "ParsingLeadingSP", "ParsingFirstToken", "ParsingFirstTokenSP",
    "ParsingSecondToken", "ParsingSecondTokenSP", "ParsingThirdToken", "ParsingFirstLineLF",
    "ParsingHeader", "ParsingHeaderName", "ParsingHeaderValue", "ParsingHeaderValueLF",
    "ParsingHeaderValueLWS", "ParsingEndOfHeader", "ParsingIdentityBody",
    "ParsingChunkSize", "ParsingChunkSizeLF", "ParsingChunkExtension",
    "ParsingChunk", "ParsingChunkCR", "ParsingChunkLF",
    "ParsingTrailerHeader", "ParsingTrailerHeaderName", "ParsingTrailerHeaderValue",
    "ParsingTrailerHeaderValueLF", "ParsingTrailerHeaderValueLWS", "ParsingFinalLF" }

\* Exception::InvalidState is left out: the switch has a case for every state.
Code ==
  { "InvalidFirstToken", "FirstTokenIsTooLong", "InvalidSecondToken", "SecondTokenIsTooLong",
    "InvalidThirdToken", "ThirdTokenIsTooLong", "InvalidFirstLineLF", "TooManyHeaders",
    "EmptyHeaderName", "InvalidHeaderName", "HeaderNameIsTooLong", "HeaderIsMissingColon",
    "InvalidHeaderValue", "HeaderValueIsTooLong", "InvalidHeaderLF", "InvalidContentLength",
    "EmptyChunkSize", "InvalidChunkSize", "InvalidChunkSizeLF", "InvalidChunkDataCR",
    "InvalidChunkDataLF", "InvalidFinalLF" }

ASSUME ParserAssumption ==
  /\ IntSize \in Nat \ {0} /\ IntSize % 2 = 0
  /\ SizeTSize \in Nat /\ SizeTSize >= UIntSize
  /\ {MaxFirstTokenLength, MaxSecondTokenLength, MaxThirdTokenLength} \subseteq Nat
  /\ HeaderNameLimits \subseteq Nat
  /\ HeaderValueLimits \subseteq Nat
  /\ HeadersAmountLimits \subseteq Nat
  /\ Offered \in [State -> SUBSET Char]
  /\ MaxPos \in Nat /\ MaxSizeDigits \in Nat

VARIABLES
  state, pos, line, col,
  firstToken, secondToken, thirdToken,
  headerFieldName, headerFieldValue, headers,
  contentLength, identityBodyBytesParsed,
  chunkSizeStr, chunkSize, chunkBytesParsed,
  maxHeaderNameLength, maxHeaderValueLength, maxHeadersAmount,
  result

posVars     == <<pos, line, col>>
tokenVars   == <<firstToken, secondToken, thirdToken>>
fieldVars   == <<headerFieldName, headerFieldValue>>
bodyVars    == <<contentLength, identityBodyBytesParsed>>
chunkVars   == <<chunkSizeStr, chunkSize, chunkBytesParsed>>
contentVars == <<tokenVars, fieldVars, headers, bodyVars, chunkVars>>
limitVars   == <<maxHeaderNameLength, maxHeaderValueLength, maxHeadersAmount>>
parserVars  == <<state, posVars, contentVars, limitVars>>
vars        == <<parserVars, result>>

-----------------------------------------------------------------------------
(* What a call of parse(char) tells its caller.                            *)

NoResult == [type |-> "none"]

bodyExpected == state \in {"ParsingIdentityBody", "ParsingChunk"}

isCompleted == state = "ParsingMessage"

\* A bug that would look at the state behind the character.
MutantReturned(next) ==
  [type |-> "returned", complete |-> next = "ParsingMessage",
   isBodyChar |-> next \in {"ParsingIdentityBody", "ParsingChunk"}]

\* The return value and *isBodyChar of a call that moves the parser to next.
Returned(next) ==
  [type |-> "returned", complete |-> next = "ParsingMessage", isBodyChar |-> bodyExpected]

\* Exception stores the size_t position, line and column as int.
ToInt(n) == IF n % IntSize < IntSize \div 2 THEN n % IntSize ELSE (n % IntSize) - IntSize

Thrown(code, ch) ==
  [type |-> "thrown", code |-> code, ch |-> ch,
   pos |-> ToInt(pos), line |-> ToInt(line), col |-> ToInt(col)]

\* A bug that would give the message up on an error.
MutantRaise(code, ch) ==
  /\ result' = Thrown(code, ch)
  /\ state' = "ParsingMessage"
  /\ UNCHANGED posVars

\* throw Exception(...), with the content left as the caller of Raise says.
Raise(code, ch) ==
  /\ result' = Thrown(code, ch)
  /\ UNCHANGED <<state, posVars>>

Throw(code, ch) == Raise(code, ch) /\ UNCHANGED contentVars

MutantAdvanceFrom(p, l, c, ch) ==
  /\ pos'  = p + 1
  /\ line' = IF isLineFeed(ch) THEN l + 1 ELSE l
  /\ col'  = IF isCarriageReturn(ch) THEN 1 ELSE c + 1

\* The tail of parse(char): the position behind ch, when ch stood at p, l, c.
AdvanceFrom(p, l, c, ch) ==
  /\ pos'  = p + 1
  /\ line' = IF isLineFeed(ch) THEN l + 1 ELSE l
  /\ col'  = IF isLineFeed(ch) THEN 1 ELSE c + 1

Accept(next, ch) ==
  /\ state'  = next
  /\ result' = Returned(next)
  /\ AdvanceFrom(pos, line, col, ch)

\* A case that admits one character only, else throws.
Expect(expected, next, code, ch) ==
  \/ expected  /\ Accept(next, ch) /\ UNCHANGED contentVars
  \/ ~expected /\ Throw(code, ch)

\* A bug that would keep the counters of the last message.
MutantClearBody == UNCHANGED bodyVars

ClearBody  == contentLength' = 0 /\ identityBodyBytesParsed' = 0
ClearField == headerFieldName' = << >> /\ headerFieldValue' = << >>

\* What reset() clears, with the first token left as the given string.
ClearContent(first) ==
  /\ firstToken' = first /\ secondToken' = << >> /\ thirdToken' = << >>
  /\ ClearField
  /\ headers' = << >>
  /\ ClearBody
  /\ chunkSizeStr' = << >> /\ chunkSize' = 0 /\ chunkBytesParsed' = 0

-----------------------------------------------------------------------------
(* The start line: three tokens.  Only the third may hold blanks, and only *)
(* the first character of a token escapes the length check.                *)

isText(ch) == isChar(ch) /\ ~isControl(ch)
isWord(ch) == isText(ch) /\ ~isSpaceOrTab(ch)

MutantFull(token, limit) == Len(token) > limit
Full(token, limit) == Len(token) >= limit

restVars == <<fieldVars, headers, bodyVars, chunkVars>>

\* A bug that would count on from the last message.
MutantBegin(first, next, ch) ==
  /\ ClearContent(first)
  /\ AdvanceFrom(pos, line, col, ch)
  /\ state'  = next
  /\ result' = Returned(next)

\* A new message drops the one before it, of which the user may have read.
Begin(first, next, ch) ==
  /\ ClearContent(first)
  /\ AdvanceFrom(0, 1, 1, ch)
  /\ state'  = next
  /\ result' = Returned(next)

ParseMessage(ch) ==
  /\ state = "ParsingMessage"
  /\ \/ isSpaceOrTab(ch) /\ Begin(<< >>, "ParsingLeadingSP", ch)
     \/ isWord(ch)       /\ Begin(<<ch>>, "ParsingFirstToken", ch)
     \/ /\ ~isSpaceOrTab(ch) /\ ~isText(ch)
        /\ Throw("InvalidFirstToken", ch)

ParseLeadingSP(ch) ==
  /\ state = "ParsingLeadingSP"
  /\ \/ isSpaceOrTab(ch) /\ Accept("ParsingLeadingSP", ch) /\ UNCHANGED contentVars
     \/ /\ isWord(ch)
        /\ firstToken' = Append(firstToken, ch)
        /\ Accept("ParsingFirstToken", ch)
        /\ UNCHANGED <<secondToken, thirdToken, restVars>>
     \/ ~isSpaceOrTab(ch) /\ ~isText(ch) /\ Throw("InvalidFirstToken", ch)

ParseFirstToken(ch) ==
  /\ state = "ParsingFirstToken"
  /\ \/ isSpaceOrTab(ch) /\ Accept("ParsingFirstTokenSP", ch) /\ UNCHANGED contentVars
     \/ /\ isWord(ch) /\ ~Full(firstToken, MaxFirstTokenLength)
        /\ firstToken' = Append(firstToken, ch)
        /\ Accept("ParsingFirstToken", ch)
        /\ UNCHANGED <<secondToken, thirdToken, restVars>>
     \/ /\ isWord(ch) /\ Full(firstToken, MaxFirstTokenLength)
        /\ Throw("FirstTokenIsTooLong", ch)
     \/ ~isSpaceOrTab(ch) /\ ~isText(ch) /\ Throw("InvalidFirstToken", ch)

ParseFirstTokenSP(ch) ==
  /\ state = "ParsingFirstTokenSP"
  /\ \/ isSpaceOrTab(ch) /\ Accept("ParsingFirstTokenSP", ch) /\ UNCHANGED contentVars
     \/ /\ isWord(ch)
        /\ secondToken' = Append(secondToken, ch)
        /\ Accept("ParsingSecondToken", ch)
        /\ UNCHANGED <<firstToken, thirdToken, restVars>>
     \/ ~isSpaceOrTab(ch) /\ ~isText(ch) /\ Throw("InvalidSecondToken", ch)

ParseSecondToken(ch) ==
  /\ state = "ParsingSecondToken"
  /\ \/ isSpaceOrTab(ch) /\ Accept("ParsingSecondTokenSP", ch) /\ UNCHANGED contentVars
     \/ /\ isWord(ch) /\ ~Full(secondToken, MaxSecondTokenLength)
        /\ secondToken' = Append(secondToken, ch)
        /\ Accept("ParsingSecondToken", ch)
        /\ UNCHANGED <<firstToken, thirdToken, restVars>>
     \/ /\ isWord(ch) /\ Full(secondToken, MaxSecondTokenLength)
        /\ Throw("SecondTokenIsTooLong", ch)
     \/ ~isSpaceOrTab(ch) /\ ~isText(ch) /\ Throw("InvalidSecondToken", ch)

ParseSecondTokenSP(ch) ==
  /\ state = "ParsingSecondTokenSP"
  /\ \/ isSpaceOrTab(ch) /\ Accept("ParsingSecondTokenSP", ch) /\ UNCHANGED contentVars
     \/ /\ isWord(ch)
        /\ thirdToken' = Append(thirdToken, ch)
        /\ Accept("ParsingThirdToken", ch)
        /\ UNCHANGED <<firstToken, secondToken, restVars>>
     \/ ~isSpaceOrTab(ch) /\ ~isText(ch) /\ Throw("InvalidThirdToken", ch)

ParseThirdToken(ch) ==
  /\ state = "ParsingThirdToken"
  /\ \/ isCarriageReturn(ch) /\ Accept("ParsingFirstLineLF", ch) /\ UNCHANGED contentVars
     \/ /\ isText(ch) /\ ~Full(thirdToken, MaxThirdTokenLength)
        /\ thirdToken' = Append(thirdToken, ch)
        /\ Accept("ParsingThirdToken", ch)
        /\ UNCHANGED <<firstToken, secondToken, restVars>>
     \/ /\ isText(ch) /\ Full(thirdToken, MaxThirdTokenLength)
        /\ Throw("ThirdTokenIsTooLong", ch)
     \/ ~isCarriageReturn(ch) /\ ~isText(ch) /\ Throw("InvalidThirdToken", ch)

ParseFirstLineLF(ch) ==
  /\ state = "ParsingFirstLineLF"
  /\ Expect(isLineFeed(ch), "ParsingHeader", "InvalidFirstLineLF", ch)

-----------------------------------------------------------------------------
(* Header fields, of the header and of the trailer of a chunked body.      *)

MutantSection(isTrailer, inTrailer, inHeader) == IF isTrailer THEN inHeader ELSE inTrailer

Section(isTrailer, inTrailer, inHeader) == IF isTrailer THEN inTrailer ELSE inHeader

SetField(name, v) ==
  /\ headerFieldName' = name
  /\ headerFieldValue' = v
  /\ UNCHANGED <<tokenVars, headers, bodyVars, chunkVars>>

\* A bug that would hold a message against the largest limit, not the one in force.
MutantHeadersFull == \A n \in HeadersAmountLimits : Full(headers, n)

HeadersFull == Full(headers, maxHeadersAmount)

\* A bug that would start the next field without clearing the value.
MutantFileField(first) ==
  /\ headers' = add(headers, trim(headerFieldName), trim(headerFieldValue))
  /\ headerFieldName' = first
  /\ UNCHANGED <<headerFieldValue, tokenVars, bodyVars, chunkVars>>

FileField(first) ==
  /\ headers' = add(headers, trim(headerFieldName), trim(headerFieldValue))
  /\ headerFieldName' = first /\ headerFieldValue' = << >>
  /\ UNCHANGED <<tokenVars, bodyVars, chunkVars>>

\* A bug that would trim the field in place before it looks for room.
MutantAppendHeader(ch, first, next) ==
  \/ HeadersFull /\ Raise("TooManyHeaders", ch) /\ SetField(headerFieldName, trim(headerFieldValue))
  \/ ~HeadersFull /\ FileField(first) /\ Accept(next, ch)

\* Files the finished field and goes on with a name that starts with first.
appendHeader(ch, first, next) ==
  \/ HeadersFull /\ Throw("TooManyHeaders", ch)
  \/ ~HeadersFull /\ FileField(first) /\ Accept(next, ch)

\* The field is cleared first, also by a call that then throws.
parseHeader(ch, isTrailer) ==
  \/ /\ isCarriageReturn(ch)
     /\ SetField(<< >>, << >>)
     /\ Accept(Section(isTrailer, "ParsingFinalLF", "ParsingEndOfHeader"), ch)
  \/ ch = Colon /\ SetField(<< >>, << >>) /\ Raise("EmptyHeaderName", ch)
  \/ /\ isToken(ch)
     /\ SetField(<<ch>>, << >>)
     /\ Accept(Section(isTrailer, "ParsingTrailerHeaderName", "ParsingHeaderName"), ch)
  \/ /\ ~isCarriageReturn(ch) /\ ch # Colon /\ ~isToken(ch)
     /\ SetField(<< >>, << >>)
     /\ Raise("InvalidHeaderName", ch)

parseHeaderName(ch, isTrailer) ==
  \/ isCarriageReturn(ch) /\ Throw("HeaderIsMissingColon", ch)
  \/ /\ ch = Colon
     /\ Accept(Section(isTrailer, "ParsingTrailerHeaderValue", "ParsingHeaderValue"), ch)
     /\ UNCHANGED contentVars
  \/ /\ isToken(ch) /\ ~Full(headerFieldName, maxHeaderNameLength)
     /\ SetField(Append(headerFieldName, ch), headerFieldValue)
     /\ Accept(state, ch)
  \/ /\ isToken(ch) /\ Full(headerFieldName, maxHeaderNameLength)
     /\ Throw("HeaderNameIsTooLong", ch)
  \/ ~isCarriageReturn(ch) /\ ch # Colon /\ ~isToken(ch) /\ Throw("InvalidHeaderName", ch)

\* Adds ch to the value and moves to next, unless the value is full.
ExtendValue(v, next, ch) ==
  \/ /\ ~Full(headerFieldValue, maxHeaderValueLength)
     /\ SetField(headerFieldName, Append(headerFieldValue, v))
     /\ Accept(next, ch)
  \/ /\ Full(headerFieldValue, maxHeaderValueLength)
     /\ Throw("HeaderValueIsTooLong", ch)

parseHeaderValue(ch, isTrailer) ==
  \/ /\ isCarriageReturn(ch)
     /\ Accept(Section(isTrailer, "ParsingTrailerHeaderValueLF", "ParsingHeaderValueLF"), ch)
     /\ UNCHANGED contentVars
  \/ ~isControl(ch) /\ ExtendValue(ch, state, ch)
  \/ ~isCarriageReturn(ch) /\ isControl(ch) /\ Throw("InvalidHeaderValue", ch)

parseHeaderValueLF(ch, isTrailer) ==
  Expect(isLineFeed(ch),
         Section(isTrailer, "ParsingTrailerHeaderValueLWS", "ParsingHeaderValueLWS"),
         "InvalidHeaderLF", ch)

\* A field ends only when the next line does not continue it.
parseHeaderValueLWS(ch, isTrailer) ==
  \/ /\ isCarriageReturn(ch)
     /\ appendHeader(ch, << >>, Section(isTrailer, "ParsingFinalLF", "ParsingEndOfHeader"))
  \/ ch = Colon /\ Throw("EmptyHeaderName", ch)
  \/ /\ isSpaceOrTab(ch)
     /\ ExtendValue(SP, Section(isTrailer, "ParsingTrailerHeaderValue", "ParsingHeaderValue"), ch)
  \/ /\ isToken(ch)
     /\ appendHeader(ch, <<ch>>,
                     Section(isTrailer, "ParsingTrailerHeaderName", "ParsingHeaderName"))
  \/ /\ ~isCarriageReturn(ch) /\ ch # Colon /\ ~isSpaceOrTab(ch) /\ ~isToken(ch)
     /\ Throw("InvalidHeaderName", ch)

ParseHeader(ch)           == state = "ParsingHeader"         /\ parseHeader(ch, FALSE)
ParseHeaderName(ch)       == state = "ParsingHeaderName"     /\ parseHeaderName(ch, FALSE)
ParseHeaderValue(ch)      == state = "ParsingHeaderValue"    /\ parseHeaderValue(ch, FALSE)
ParseHeaderValueLF(ch)    == state = "ParsingHeaderValueLF"  /\ parseHeaderValueLF(ch, FALSE)
ParseHeaderValueLWS(ch)   == state = "ParsingHeaderValueLWS" /\ parseHeaderValueLWS(ch, FALSE)

ParseTrailerHeader(ch)    == state = "ParsingTrailerHeader" /\ parseHeader(ch, TRUE)
ParseTrailerHeaderName(ch) ==
  state = "ParsingTrailerHeaderName" /\ parseHeaderName(ch, TRUE)
ParseTrailerHeaderValue(ch) ==
  state = "ParsingTrailerHeaderValue" /\ parseHeaderValue(ch, TRUE)
ParseTrailerHeaderValueLF(ch) ==
  state = "ParsingTrailerHeaderValueLF" /\ parseHeaderValueLF(ch, TRUE)
ParseTrailerHeaderValueLWS(ch) ==
  state = "ParsingTrailerHeaderValueLWS" /\ parseHeaderValueLWS(ch, TRUE)

ParseFinalLF(ch) ==
  /\ state = "ParsingFinalLF"
  /\ Expect(isLineFeed(ch), "ParsingMessage", "InvalidFinalLF", ch)

-----------------------------------------------------------------------------
(* The body: none, of a declared length, or in chunks.                     *)

IsChunked      == haveValue(headers, TransferEncoding, Chunked)
HasLength      == have(headers, ContentLength)
DeclaredLength == toUnsignedInt(value(headers, ContentLength), FALSE)

\* "chunked" wins over a length; a length is looked at only here.
ParseEndOfHeader(ch) ==
  /\ state = "ParsingEndOfHeader"
  /\ \/ ~isLineFeed(ch) /\ Throw("InvalidHeaderLF", ch)
     \/ /\ isLineFeed(ch) /\ IsChunked
        /\ Accept("ParsingChunkSize", ch) /\ UNCHANGED contentVars
     \/ /\ isLineFeed(ch) /\ ~IsChunked /\ HasLength /\ DeclaredLength \notin UInt
        /\ Throw("InvalidContentLength", ch)
     \/ /\ isLineFeed(ch) /\ ~IsChunked /\ HasLength /\ DeclaredLength \in UInt
        /\ contentLength' = DeclaredLength
        /\ Accept(IF DeclaredLength = 0 THEN "ParsingMessage" ELSE "ParsingIdentityBody", ch)
        /\ UNCHANGED <<identityBodyBytesParsed, tokenVars, fieldVars, headers, chunkVars>>
     \/ /\ isLineFeed(ch) /\ ~IsChunked /\ ~HasLength
        /\ Accept("ParsingMessage", ch) /\ UNCHANGED contentVars

\* ++n of a size_t.
Incremented(n) == (n + 1) % SizeTSize

ParseIdentityBody(ch) ==
  /\ state = "ParsingIdentityBody"
  /\ identityBodyBytesParsed' = Incremented(identityBodyBytesParsed)
  /\ Accept(IF identityBodyBytesParsed' >= contentLength THEN "ParsingMessage" ELSE state, ch)
  /\ UNCHANGED <<contentLength, tokenVars, fieldVars, headers, chunkVars>>

SizeRead == toUnsignedInt(chunkSizeStr, TRUE)

\* A bug that would forget how much of the last chunk was read.
MutantStartChunk ==
  /\ chunkSize' = SizeRead
  /\ chunkSizeStr' = << >>
  /\ UNCHANGED chunkBytesParsed

StartChunk ==
  /\ chunkSize' = SizeRead
  /\ chunkBytesParsed' = 0
  /\ chunkSizeStr' = << >>

ParseChunkSize(ch) ==
  /\ state = "ParsingChunkSize"
  /\ \/ /\ isHexDigit(ch)
        /\ chunkSizeStr' = Append(chunkSizeStr, ch)
        /\ Accept("ParsingChunkSize", ch)
        /\ UNCHANGED <<tokenVars, fieldVars, headers, bodyVars, chunkSize, chunkBytesParsed>>
     \/ ~isHexDigit(ch) /\ chunkSizeStr = << >> /\ Throw("EmptyChunkSize", ch)
     \/ /\ ~isHexDigit(ch) /\ chunkSizeStr # << >> /\ SizeRead \notin UInt
        /\ Throw("InvalidChunkSize", ch)
     \/ /\ ~isHexDigit(ch) /\ chunkSizeStr # << >> /\ SizeRead \in UInt
        /\ StartChunk
        /\ Accept(IF isCarriageReturn(ch) THEN "ParsingChunkSizeLF" ELSE "ParsingChunkExtension", ch)
        /\ UNCHANGED <<tokenVars, fieldVars, headers, bodyVars>>

ParseChunkExtension(ch) ==
  /\ state = "ParsingChunkExtension"
  /\ Accept(IF isCarriageReturn(ch) THEN "ParsingChunkSizeLF" ELSE state, ch)
  /\ UNCHANGED contentVars

ParseChunkSizeLF(ch) ==
  /\ state = "ParsingChunkSizeLF"
  /\ Expect(isLineFeed(ch), IF chunkSize > 0 THEN "ParsingChunk" ELSE "ParsingTrailerHeader",
            "InvalidChunkSizeLF", ch)

ParseChunk(ch) ==
  /\ state = "ParsingChunk"
  /\ chunkBytesParsed' = Incremented(chunkBytesParsed)
  /\ Accept(IF chunkBytesParsed' >= chunkSize THEN "ParsingChunkCR" ELSE state, ch)
  /\ UNCHANGED <<tokenVars, fieldVars, headers, bodyVars, chunkSizeStr, chunkSize>>

ParseChunkCR(ch) ==
  /\ state = "ParsingChunkCR"
  /\ Expect(isCarriageReturn(ch), "ParsingChunkLF", "InvalidChunkDataCR", ch)

ParseChunkLF(ch) ==
  /\ state = "ParsingChunkLF"
  /\ Expect(isLineFeed(ch), "ParsingChunkSize", "InvalidChunkDataLF", ch)

-----------------------------------------------------------------------------

\* One call of parse(char).
ParseStartLine(ch) ==
  \/ ParseMessage(ch)      \/ ParseLeadingSP(ch)
  \/ ParseFirstToken(ch)   \/ ParseFirstTokenSP(ch)
  \/ ParseSecondToken(ch)  \/ ParseSecondTokenSP(ch)
  \/ ParseThirdToken(ch)   \/ ParseFirstLineLF(ch)

ParseHeaderSection(ch) ==
  \/ ParseHeader(ch)         \/ ParseHeaderName(ch)     \/ ParseHeaderValue(ch)
  \/ ParseHeaderValueLF(ch)  \/ ParseHeaderValueLWS(ch) \/ ParseEndOfHeader(ch)

ParseBody(ch) ==
  \/ ParseIdentityBody(ch)
  \/ ParseChunkSize(ch)  \/ ParseChunkExtension(ch) \/ ParseChunkSizeLF(ch)
  \/ ParseChunk(ch)      \/ ParseChunkCR(ch)        \/ ParseChunkLF(ch)

ParseTrailer(ch) ==
  \/ ParseTrailerHeader(ch)        \/ ParseTrailerHeaderName(ch)
  \/ ParseTrailerHeaderValue(ch)   \/ ParseTrailerHeaderValueLF(ch)
  \/ ParseTrailerHeaderValueLWS(ch) \/ ParseFinalLF(ch)

Parse(ch) ==
  /\ ParseStartLine(ch) \/ ParseHeaderSection(ch) \/ ParseBody(ch) \/ ParseTrailer(ch)
  /\ UNCHANGED limitVars

\* The other calls that change the parser answer nothing.
Reset ==
  /\ state' = "ParsingMessage"
  /\ pos' = 0 /\ line' = 1 /\ col' = 1
  /\ ClearContent(<< >>)
  /\ UNCHANGED limitVars
  /\ result' = NoResult

\* A bug that would copy the setter of the other limit.
MutantSetMaxHeaderNameLength(n) ==
  /\ maxHeaderValueLength' = n
  /\ result' = NoResult
  /\ UNCHANGED <<state, posVars, contentVars, maxHeaderNameLength, maxHeadersAmount>>

SetMaxHeaderNameLength(n) ==
  /\ maxHeaderNameLength' = n
  /\ result' = NoResult
  /\ UNCHANGED <<state, posVars, contentVars, maxHeaderValueLength, maxHeadersAmount>>

SetMaxHeaderValueLength(n) ==
  /\ maxHeaderValueLength' = n
  /\ result' = NoResult
  /\ UNCHANGED <<state, posVars, contentVars, maxHeaderNameLength, maxHeadersAmount>>

SetMaxHeadersAmount(n) ==
  /\ maxHeadersAmount' = n
  /\ result' = NoResult
  /\ UNCHANGED <<state, posVars, contentVars, maxHeaderNameLength, maxHeaderValueLength>>

Init ==
  /\ state = "ParsingMessage"
  /\ pos = 0 /\ line = 1 /\ col = 1
  /\ firstToken = << >> /\ secondToken = << >> /\ thirdToken = << >>
  /\ headerFieldName = << >> /\ headerFieldValue = << >> /\ headers = << >>
  /\ contentLength = 0 /\ identityBodyBytesParsed = 0
  /\ chunkSizeStr = << >> /\ chunkSize = 0 /\ chunkBytesParsed = 0
  /\ maxHeaderNameLength \in HeaderNameLimits
  /\ maxHeaderValueLength \in HeaderValueLimits
  /\ maxHeadersAmount \in HeadersAmountLimits
  /\ result = NoResult

\* The bounds of the model.  A message may always be followed by the next one.
WithinBounds(ch) ==
  /\ pos < MaxPos \/ state = "ParsingMessage"
  /\ Len(chunkSizeStr) < MaxSizeDigits \/ ~isHexDigit(ch)

Next ==
  \/ \E ch \in Offered[state] : WithinBounds(ch) /\ Parse(ch)
  \/ Reset
  \/ \E n \in HeaderNameLimits : SetMaxHeaderNameLength(n)
  \/ \E n \in HeaderValueLimits : SetMaxHeaderValueLength(n)
  \/ \E n \in HeadersAmountLimits : SetMaxHeadersAmount(n)

Spec == Init /\ [][Next]_vars

-----------------------------------------------------------------------------
(* Properties                                                              *)

StartLineState ==
  { "ParsingLeadingSP", "ParsingFirstToken", "ParsingFirstTokenSP", "ParsingSecondToken",
    "ParsingSecondTokenSP", "ParsingThirdToken", "ParsingFirstLineLF" }

FieldState ==
  { "ParsingHeaderName", "ParsingHeaderValue", "ParsingHeaderValueLF", "ParsingHeaderValueLWS",
    "ParsingTrailerHeaderName", "ParsingTrailerHeaderValue", "ParsingTrailerHeaderValueLF",
    "ParsingTrailerHeaderValueLWS" }

TrailerState ==
  { "ParsingTrailerHeader", "ParsingTrailerHeaderName", "ParsingTrailerHeaderValue",
    "ParsingTrailerHeaderValueLF", "ParsingTrailerHeaderValueLWS", "ParsingFinalLF" }

ChunkState ==
  { "ParsingChunkSize", "ParsingChunkExtension", "ParsingChunkSizeLF", "ParsingChunk",
    "ParsingChunkCR", "ParsingChunkLF" }

LineStartState ==
  { "ParsingHeader", "ParsingHeaderValueLWS", "ParsingTrailerHeader",
    "ParsingTrailerHeaderValueLWS" }

SizeT == 0 .. SizeTSize - 1

CInt == -(IntSize \div 2) .. IntSize \div 2 - 1

Result ==
  [type : {"none"}]
    \cup [type : {"returned"}, complete : BOOLEAN, isBodyChar : BOOLEAN]
    \cup [type : {"thrown"}, code : Code, ch : Char, pos : CInt, line : CInt, col : CInt]

ControlOK ==
  /\ state \in State
  /\ pos \in Nat /\ line \in Nat /\ col \in Nat
  /\ result \in Result

ContentOK ==
  /\ firstToken \in String /\ secondToken \in String /\ thirdToken \in String
  /\ headerFieldName \in String /\ headerFieldValue \in String
  /\ headers \in Seq(Header)
  /\ contentLength \in UInt /\ identityBodyBytesParsed \in SizeT
  /\ chunkSizeStr \in String /\ chunkSize \in UInt /\ chunkBytesParsed \in SizeT

LimitsOK ==
  /\ maxHeaderNameLength \in HeaderNameLimits
  /\ maxHeaderValueLength \in HeaderValueLimits
  /\ maxHeadersAmount \in HeadersAmountLimits

(* Every field keeps its type: a size the parser believes is one that      *)
(* toUnsignedInt() can return, a counter is a size_t, and each limit is    *)
(* one of those that its own setter has been given.                        *)
TypeOK == ControlOK /\ ContentOK /\ LimitsOK

(* The buffers of the field being parsed are in use exactly while a field  *)
(* is parsed, so that the text of one field never leaks into another: the  *)
(* name is started by parseHeader() or parseHeaderValueLWS(), never by a   *)
(* throw, and both buffers are given up by appendHeader().                 *)
FieldBuffersInUse ==
  /\ state \in FieldState <=> headerFieldName # << >>
  /\ headerFieldName = << >> => headerFieldValue = << >>

(* The number of body bytes still owed is positive exactly in the states   *)
(* that take body bytes, so the ++n >= size tests of parse() stop on the   *)
(* last byte and never on a counter that has passed its limit.             *)
BodyCountersExact ==
  /\ identityBodyBytesParsed <= contentLength
  /\ state \notin {"ParsingIdentityBody", "ParsingMessage"} => contentLength = 0
  /\ state = "ParsingIdentityBody" => identityBodyBytesParsed < contentLength
  /\ chunkBytesParsed <= chunkSize
  /\ state = "ParsingChunk" => chunkBytesParsed < chunkSize
  /\ state \in {"ParsingChunkCR", "ParsingChunkLF"} => chunkBytesParsed = chunkSize
  /\ state \in {"ParsingChunkExtension", "ParsingChunkSizeLF"} => chunkBytesParsed = 0
  /\ state # "ParsingChunkSize" => chunkSizeStr = << >>

(* A completed message was framed by the headers its user can read: the    *)
(* identity body has the length the first Content-Length declares, unless  *)
(* the message was chunked, and nothing a trailer added changes the answer.*)
CompletedFraming ==
  /\ state \in ChunkState \cup TrailerState => IsChunked /\ contentLength = 0
  /\ state = "ParsingIdentityBody" => ~IsChunked /\ contentLength = DeclaredLength
  /\ isCompleted /\ pos > 0 /\ ~IsChunked =>
       /\ identityBodyBytesParsed = contentLength
       /\ contentLength = IF HasLength THEN DeclaredLength ELSE 0
  /\ isCompleted /\ IsChunked =>
       identityBodyBytesParsed = 0 /\ chunkSize = 0 /\ chunkSizeStr = << >>

Within(str, limits) == \E n \in limits \cup {1} : Len(str) <= n

TokensBounded ==
  /\ Within(firstToken, {MaxFirstTokenLength})
  /\ Within(secondToken, {MaxSecondTokenLength})
  /\ Within(thirdToken, {MaxThirdTokenLength})

FieldBounded ==
  /\ Within(headerFieldName, HeaderNameLimits)
  /\ Within(headerFieldValue, HeaderValueLimits)

HeadersBounded ==
  /\ headers # << >> => \E n \in HeadersAmountLimits : Len(headers) <= n
  /\ \A h \in Range(headers) :
       Within(h.name, HeaderNameLimits) /\ Within(h.value, HeaderValueLimits)

(* Whatever a peer sends and however the user moves the limits, no token,  *)
(* name or value outgrows the largest limit ever in force, or one          *)
(* character: the first one of a token and of a name is never counted.     *)
ContentBounded == TokensBounded /\ FieldBounded /\ HeadersBounded

GrowsUpTo(before, after, limit) == Len(after) > Len(before) => Len(after) <= limit

(* The limit that counts is the one in force when a character arrives: a   *)
(* name, a value or the headers, those of a trailer with those of the      *)
(* header, do not grow past it, also when the user has lowered it in       *)
(* mid-message below what is there, or has raised it after an exception.   *)
(* The first character of a name is not counted.                           *)
LimitsInForce ==
  [][/\ headerFieldName # << >> =>
          GrowsUpTo(headerFieldName, headerFieldName', maxHeaderNameLength)
     /\ GrowsUpTo(headerFieldValue, headerFieldValue', maxHeaderValueLength)
     /\ GrowsUpTo(headers, headers', maxHeadersAmount)]_vars

(* Position, line and column tell the same place: they agree on the start  *)
(* line, a column never lies before the line began, and a state that       *)
(* begins a line has the column of the first character.                    *)
PositionConsistent ==
  /\ line >= 1 /\ col >= 1 /\ (line - 1) + (col - 1) <= pos
  /\ state \in StartLineState => line = 1 /\ col = pos + 1 /\ pos > 0
  /\ line = 1 => state \in StartLineState \/ (isCompleted /\ pos = 0)
  /\ state \in LineStartState => col = 1
  /\ state \in {"ParsingEndOfHeader", "ParsingFinalLF"} => col = 2

(* A call that throws leaves the whole parser as it was, so that the user  *)
(* may offer another character instead: the buffers a failing call clears  *)
(* were clear, and appendHeader() looks for room before it trims.          *)
ThrowLeavesParserUnchanged ==
  [][result'.type = "thrown" => UNCHANGED parserVars]_vars

(* Once a name can be looked up it keeps its value for the rest of the     *)
(* message: a duplicate, in the header or in the trailer and in whatever   *)
(* case, is filed behind it, and the length of the body cannot be changed. *)
FirstValueStays ==
  [][state # "ParsingMessage" /\ result'.type = "returned" =>
       \A h \in Range(headers) : value(headers', h.name) = value(headers, h.name)]_vars

(* *isBodyChar is set for exactly the bytes a body counter counts, also    *)
(* for the last byte of a body, which moves the parser out of the body.    *)
BodyCharsAreCounted ==
  [][result'.type = "returned" =>
       (result'.isBodyChar <=>
          \/ identityBodyBytesParsed' = identityBodyBytesParsed + 1
          \/ chunkBytesParsed' = chunkBytesParsed + 1)]_vars

(* A length or a chunk size that toUnsignedInt() rejects.                  *)
Poisoned ==
  \/ state = "ParsingEndOfHeader" /\ ~IsChunked /\ HasLength /\ DeclaredLength \notin UInt
  \/ state = "ParsingChunkSize" /\ SizeRead \notin UInt

(* A rejected length cannot be outrun: whatever characters follow, the     *)
(* parser stays where it is until reset().                                 *)
PoisonedUntilReset ==
  [][Poisoned => Poisoned' \/ (isCompleted' /\ pos' = 0)]_vars

-----------------------------------------------------------------------------
(* What the repository says of the parser and the code does not keep.      *)

(* isCompleted() "Returns TRUE if the whole HTTP-message has been          *)
(* completely parsed": a parser that has parsed nothing is not completed.  *)
CompletedMeansParsed == isCompleted => pos > 0

(* The position an Exception reports is that "of the error in the          *)
(* HTTP-message (starts from 0)": a character that cannot start a message  *)
(* is at position 0, whatever message came before.                         *)
ErrorAtStartHasPositionZero ==
  [][state = "ParsingMessage" /\ result'.type = "thrown" => result'.pos = 0]_vars

(* The same comment: positions start from 0, so none is negative.          *)
ErrorPositionStartsFromZero == result.type = "thrown" => result.pos >= 0

\* The number a decimal string stands for, however large.
Decimal(str) ==
  FoldLeft(LAMBDA n, ch : n * 10 + hexValue(ch), 0, Digits(trim(str), FALSE))

\* The number the hexadecimal digits of a chunk size stand for.
Hexadecimal(str) == FoldLeft(LAMBDA n, ch : n * 16 + hexValue(ch), 0, str)

(* toUnsignedInt() throws when "Integer overflow has been detected": a     *)
(* length, or a chunk size, that does not fit an unsigned int is never     *)
(* taken for another.                                                      *)
OverflowIsDetected ==
  /\ state = "ParsingIdentityBody" => contentLength = Decimal(value(headers, ContentLength))
  /\ state = "ParsingChunkSize" /\ SizeRead \in UInt => SizeRead = Hexadecimal(chunkSizeStr)
=============================================================================
