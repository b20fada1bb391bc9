-------------------------- MODULE MessageComposer --------------------------
(***************************************************************************)
(* A MessageComposer with a stream and a buffer of its caller.  Each kind  *)
(* of envelope is composed in three ways: into the stream, into the front  *)
(* of the buffer, and in front of a payload that is in the buffer already. *)
(* The stream keeps its formatting flags from one call to the next; the    *)
(* other two ways format into a stream of their own.                       *)
(***************************************************************************)
EXTENDS Envelope, Buffers

CONSTANTS
  Tokens,                     \* the start lines a composer may be given
  HeaderSets, PayloadLens,    \* the arguments of its methods
  BufferSize, Rooms,          \* the part of it a call is given
  MaxCalls                    \* bounds the calls of a behaviour

ASSUME ComposerAssumption ==
  /\ Tokens \subseteq [1 .. 3 -> String]
  /\ HeaderSets \subseteq Seq(Header) /\ PayloadLens \subseteq Nat
  /\ BufferSize \in Nat \ {0} /\ Rooms \subseteq 0 .. BufferSize /\ MaxCalls \in Nat

VARIABLES
  tokens,                     \* the fields of the composer
  stream, buffer,             \* its caller's
  promised,                   \* the envelopes of the calls into the stream that returned
  call, result,               \* the last call, and what it answered
  calls

composerVars == <<tokens, stream, promised, buffer, call, result, calls>>

-----------------------------------------------------------------------------
(* Streams.  What is inserted behind a check that fails is never inserted: *)
(* thrown is TRUE from there on, until the caller has the stream again.    *)

OwnStream == [text |-> << >>, base |-> 10, showbase |-> FALSE, thrown |-> FALSE]

Put(s, text) == IF s.thrown THEN s ELSE [s EXCEPT !.text = @ \o text]

Prefix(s) == IF s.base = 16 /\ s.showbase THEN <<48, 120>> ELSE << >>      \* "0x"

PutNumber(s, n) == Put(s, Prefix(s) \o NumberText(n, s.base))

Hex(s) == IF s.thrown THEN s ELSE [s EXCEPT !.base = 16]

PutSize(s, payloadLen) == Put(PutNumber(Hex(Put(s, CRLF)), payloadLen), CRLF)

\* "Could not compose envelope for empty chunk"
CheckChunk(s, payloadLen) == IF RejectsChunk(payloadLen) THEN [s EXCEPT !.thrown = TRUE] ELSE s

-----------------------------------------------------------------------------
(* The stream behind each of the methods that compose into one.            *)

\* The length is formatted in a stream of its own.
EnvelopeHeaders(headers, payloadLen) ==
  IF payloadLen > 0
  THEN add(Unframed(headers), ContentLength, PutNumber(OwnStream, payloadLen).text)
  ELSE Unframed(headers)

WithEnvelope(target, headers, payloadLen) ==
  Put(Put(Put(target, composeFirstLine(tokens)),
          composeHeader(EnvelopeHeaders(headers, payloadLen))), CRLF)

\* A bug that would look for an empty chunk behind the start line.
MutantWithFirstChunk(target, headers, payloadLen) ==
  LET begun   == Put(target, composeFirstLine(tokens))
      checked == CheckChunk(begun, payloadLen)
  IN  PutSize(Put(checked, composeHeader(ChunkedHeaders(headers))), payloadLen)

WithFirstChunk(target, headers, payloadLen) ==
  LET checked == CheckChunk(target, payloadLen)
      begun   == Put(checked, composeFirstLine(tokens))
  IN  PutSize(Put(begun, composeHeader(ChunkedHeaders(headers))), payloadLen)

WithNextChunk(target, payloadLen) == PutSize(CheckChunk(target, payloadLen), payloadLen)

WithLastChunk(target, headers) ==
  Put(Put(Put(target, CRLF \o <<48>> \o CRLF), composeHeader(headers)), CRLF)

Composed(target, kind, headers, payloadLen) ==
  CASE kind = "identity"   -> WithEnvelope(target, headers, payloadLen)
    [] kind = "firstChunk" -> WithFirstChunk(target, headers, payloadLen)
    [] kind = "nextChunk"  -> WithNextChunk(target, payloadLen)
    [] kind = "lastChunk"  -> WithLastChunk(target, headers)

-----------------------------------------------------------------------------
(* What a call promises, by the functions of module Envelope, of which     *)
(* module Exchange shows what a parser reads back.                         *)

EnvelopeOf(c) ==
  CASE c.kind = "identity"   -> composeEnvelope(tokens, c.headers, c.payloadLen)
    [] c.kind = "firstChunk" -> composeFirstChunkEnvelope(tokens, c.headers, c.payloadLen)
    [] c.kind = "nextChunk"  -> composeNextChunkEnvelope(c.payloadLen)
    [] c.kind = "lastChunk"  -> composeLastChunk(c.headers)

\* A caller that has set std::showbase has asked for a 0x before the size.
EnvelopeIn(s, c) ==
  LET size == <<48, 120>> \o NumberText(c.payloadLen, 16)
  IN  CASE c.kind = "firstChunk" /\ s.showbase ->
             composeFirstLine(tokens) \o composeHeader(ChunkedHeaders(c.headers))
               \o CRLF \o size \o CRLF
        [] c.kind = "nextChunk" /\ s.showbase -> CRLF \o size \o CRLF
        [] c.kind \in {"identity", "lastChunk"} \/ ~s.showbase -> EnvelopeOf(c)

-----------------------------------------------------------------------------
(* Calls.                                                                  *)

Called(form, kind, headers, payloadLen, room) ==
  /\ calls < MaxCalls /\ calls' = calls + 1
  /\ call' = [form |-> form, kind |-> kind, headers |-> headers,
              payloadLen |-> payloadLen, room |-> room]
  /\ UNCHANGED tokens

Throws == result' = [type |-> "thrown"]

\* compose...(std::ostream& target, ...)
ComposeToStream(kind, headers, payloadLen) ==
  LET composed == Composed(stream, kind, headers, payloadLen)
  IN  /\ Called("stream", kind, headers, payloadLen, 0)
      /\ stream' = [composed EXCEPT !.thrown = FALSE]
      /\ \/ /\ composed.thrown
            /\ Throws /\ UNCHANGED promised
         \/ /\ ~composed.thrown
            /\ result' = [type |-> "none"]
            /\ promised' = promised \o EnvelopeIn(stream, call')
      /\ UNCHANGED buffer

\* A bug that would let an envelope be one byte longer than its room.
MutantFits(envelope, room) == Len(envelope) <= room + 1

Fits(envelope, room) == Len(envelope) <= room

\* compose...(void * buffer, size_t bufLen, ...)
ComposeToBuffer(kind, headers, payloadLen, bufLen) ==
  LET composed == Composed(OwnStream, kind, headers, payloadLen)
      envelope == composed.text
  IN  /\ Called("buffer", kind, headers, payloadLen, bufLen)
      /\ \/ /\ composed.thrown \/ ~Fits(envelope, bufLen)
            /\ Throws /\ UNCHANGED buffer
         \/ /\ ~composed.thrown /\ Fits(envelope, bufLen)
            /\ buffer' = Copied(buffer, 0, envelope)
            /\ result' = [type |-> "size", size |-> Len(envelope)]
      /\ UNCHANGED <<stream, promised>>

\* A bug that would put the envelope at the start of its part of the buffer.
MutantPlace(envelopePartLen, envelope, payloadLen) ==
  PacketBefore(Len(envelope), Len(envelope), payloadLen)

Place(envelopePartLen, envelope, payloadLen) ==
  PacketBefore(envelopePartLen, Len(envelope), payloadLen)

\* prepend...(void * buffer, size_t envelopePartLen, ...)
Prepend(kind, headers, payloadLen, envelopePartLen) ==
  LET composed == Composed(OwnStream, kind, headers, payloadLen)
      envelope == composed.text
      packet   == Place(envelopePartLen, envelope, payloadLen)
  IN  /\ envelopePartLen + payloadLen <= BufferSize
      /\ Called("prepend", kind, headers, payloadLen, envelopePartLen)
      /\ \/ /\ composed.thrown \/ ~Fits(envelope, envelopePartLen)
            /\ Throws /\ UNCHANGED buffer
         \/ /\ ~composed.thrown /\ Fits(envelope, envelopePartLen)
            /\ buffer' = Copied(buffer, packet.first, envelope)
            /\ result' = [type |-> "packet", packet |-> packet]
      /\ UNCHANGED <<stream, promised>>

Reset(newTokens) ==
  /\ tokens # newTokens
  /\ tokens' = newTokens
  /\ UNCHANGED <<stream, promised, buffer, call, result, calls>>

\* The methods, by what they compose.
NoHeaders == << >>

StreamMethods ==
  \E headers \in HeaderSets, payloadLen \in PayloadLens :
    \/ ComposeToStream("identity", headers, payloadLen)
    \/ ComposeToStream("firstChunk", headers, payloadLen)
    \/ ComposeToStream("nextChunk", NoHeaders, payloadLen)
    \/ ComposeToStream("lastChunk", headers, 0)

ComposeEnvelope(headers, payloadLen, bufLen) ==
  ComposeToBuffer("identity", headers, payloadLen, bufLen)

ComposeFirstChunkEnvelope(headers, payloadLen, bufLen) ==
  ComposeToBuffer("firstChunk", headers, payloadLen, bufLen)

ComposeNextChunkEnvelope(payloadLen, bufLen) ==
  ComposeToBuffer("nextChunk", NoHeaders, payloadLen, bufLen)

ComposeLastChunk(headers, bufLen) == ComposeToBuffer("lastChunk", headers, 0, bufLen)

PrependEnvelope(headers, payloadLen, envelopePartLen) ==
  Prepend("identity", headers, payloadLen, envelopePartLen)

PrependFirstChunkEnvelope(headers, payloadLen, envelopePartLen) ==
  Prepend("firstChunk", headers, payloadLen, envelopePartLen)

PrependNextChunkEnvelope(payloadLen, envelopePartLen) ==
  Prepend("nextChunk", NoHeaders, payloadLen, envelopePartLen)

\* The caller's stream may have been used for numbers before.
Init ==
  /\ tokens \in Tokens
  /\ stream \in [text : {<< >>}, base : {10, 16}, showbase : BOOLEAN, thrown : {FALSE}]
  /\ promised = << >>
  /\ buffer = [i \in 1 .. BufferSize |-> 128 + i]
  /\ call = [form |-> "none"] /\ result = [type |-> "none"] /\ calls = 0

Next ==
  \/ StreamMethods
  \/ \E headers \in HeaderSets, payloadLen \in PayloadLens, room \in Rooms :
       \/ ComposeEnvelope(headers, payloadLen, room)
       \/ ComposeFirstChunkEnvelope(headers, payloadLen, room)
       \/ ComposeNextChunkEnvelope(payloadLen, room)
       \/ ComposeLastChunk(headers, room)
       \/ PrependEnvelope(headers, payloadLen, room)
       \/ PrependFirstChunkEnvelope(headers, payloadLen, room)
       \/ PrependNextChunkEnvelope(payloadLen, room)
  \/ \E newTokens \in Tokens : Reset(newTokens)

Spec == Init /\ [][Next]_composerVars

-----------------------------------------------------------------------------
(* Properties                                                              *)

MakesCall == calls' # calls

(* A stream holds the envelopes of the calls that returned, one behind the *)
(* other, and nothing of those that threw: an empty chunk is found before  *)
(* a character of its start line has gone out.  A Content-Length is        *)
(* decimal on a stream that a chunk size has left in hex, a size is hex on *)
(* one that was not, and only a size shows the base that showbase asks for.*)
StreamHoldsTheEnvelopes == stream.text = promised

(* The packet a prepend method returns is the envelope followed by the     *)
(* payload, without a gap, whatever was in the buffer before.              *)
PacketIsMessage ==
  [][MakesCall /\ result'.type = "packet" =>
       Contents(buffer', result'.packet) =
         EnvelopeOf(call') \o SubSeq(buffer, call'.room + 1, call'.room + call'.payloadLen)
    ]_composerVars

(* Nothing is written outside the bytes the method reports to its caller:  *)
(* they lie within the room it was given, and the payload, what lies in    *)
(* front of the packet and what lies behind the envelope stay as they were;*)
(* a call that throws reports no bytes and leaves the buffer alone.        *)
OnlyTheEnvelopeIsWritten ==
  [][MakesCall /\ call'.form # "stream" =>
       LET size  == IF result'.type = "thrown" THEN 0 ELSE Len(EnvelopeOf(call'))
           first == IF result'.type = "packet" THEN result'.packet.first ELSE 0
       IN  /\ first >= 0 /\ first + size <= call'.room
           /\ \A i \in 1 .. BufferSize :
                i \notin first + 1 .. first + size => buffer'[i] = buffer[i]]_composerVars

(* composedSize() tells a caller how large a buffer the last chunk needs,  *)
(* to the byte: seven bytes more than its trailer.                         *)
LastChunkFits ==
  call.form = "buffer" /\ call.kind = "lastChunk" =>
    (result.type = "thrown" <=> call.room < composedSize(call.headers) + 7)
=============================================================================
