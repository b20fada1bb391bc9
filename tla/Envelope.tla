------------------------------ MODULE Envelope ------------------------------
(***************************************************************************)
(* What message_composer.cpp puts around a payload, as functions from the  *)
(* arguments of its stream methods to the bytes they write.  tokens is the *)
(* start line held by a MessageComposer: its three fields, in a sequence.  *)
(***************************************************************************)
EXTENDS Headers

CRLF == <<CR, LF>>

Digit(n) == IF n < 10 THEN 48 + n ELSE 97 + n - 10

\* operator<< of an unsigned number; std::hex writes lower case, no prefix.
NumberText(n, base) ==
  LET text[k \in 0 .. n] ==
        IF k < base THEN <<Digit(k)>> ELSE Append(text[k \div base], Digit(k % base))
  IN  text[n]

composeFirstLine(tokens) ==
  tokens[1] \o <<SP>> \o tokens[2] \o <<SP>> \o tokens[3] \o CRLF

composeHeader(headers) ==
  FlattenSeq([i \in DOMAIN headers |->
                headers[i].name \o <<Colon, SP>> \o headers[i].value \o CRLF])

\* A bug that would trust the framing headers of the caller.
MutantUnframed(headers) == headers

\* The headers of the caller without those that frame a message.
Unframed(headers) == erase(erase(headers, ContentLength), TransferEncoding)

IdentityHeaders(headers, payloadLen) ==
  IF payloadLen > 0
  THEN add(Unframed(headers), ContentLength, NumberText(payloadLen, 10))
  ELSE Unframed(headers)

ChunkedHeaders(headers) == add(Unframed(headers), TransferEncoding, Chunked)

composeEnvelope(tokens, headers, payloadLen) ==
  composeFirstLine(tokens) \o composeHeader(IdentityHeaders(headers, payloadLen)) \o CRLF

MutantRejectsChunk(payloadLen) == FALSE

\* "Could not compose envelope for empty chunk": nothing is written.
RejectsChunk(payloadLen) == payloadLen <= 0

composeFirstChunkEnvelope(tokens, headers, payloadLen) ==
  composeFirstLine(tokens) \o composeHeader(ChunkedHeaders(headers))
    \o CRLF \o NumberText(payloadLen, 16) \o CRLF

composeNextChunkEnvelope(payloadLen) == CRLF \o NumberText(payloadLen, 16) \o CRLF

composeLastChunk(headers) == CRLF \o <<48>> \o CRLF \o composeHeader(headers) \o CRLF
=============================================================================
