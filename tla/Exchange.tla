------------------------------ MODULE Exchange ------------------------------
(***************************************************************************)
(* A composer and a parser joined by a connection.  The sender composes    *)
(* messages and writes them piece by piece, as the scenario in             *)
(* message_composer.h does; the connection keeps the bytes and their order *)
(* but hands them over in buffers of any size; the receiver runs the loop  *)
(* of MessageParser::parse(buf, bufLen, os) over each buffer, takes every  *)
(* completed message and parses the rest of the buffer for the next one.   *)
(***************************************************************************)
EXTENDS Envelope, MessageParser, MessageText

CONSTANTS
  Outbox,                     \* the messages the sender may send
  BufferSize,                 \* the most bytes one receive returns
  MaxSent                     \* bounds the number of messages

VARIABLES
  outgoing, unsent,           \* the message being sent and its pieces still to write
  wire,                       \* the bytes written and not yet received
  buf, bytesParsed, complete, \* the buffer, and the locals of parse(buf, bufLen, os)
  body,                       \* the stream os
  sentMessages, receivedMessages

senderVars   == <<outgoing, unsent, sentMessages>>
receiverVars == <<buf, bytesParsed, complete, body, receivedMessages>>
exchangeVars == <<vars, senderVars, wire, receiverVars>>

-----------------------------------------------------------------------------
(* What the sender writes.                                                 *)

\* The chunks a composer accepts; the sender goes on when it throws.
Accepted(m) ==
  LET kept[n \in 0 .. Len(m.chunks)] ==
        IF n = 0 THEN << >>
        ELSE IF RejectsChunk(Len(m.chunks[n])) THEN kept[n - 1]
        ELSE Append(kept[n - 1], m.chunks[n])
  IN  kept[Len(m.chunks)]

Payload(m) == FlattenSeq(m.chunks)

\* The headers before the payload, with those that frame it, and behind it.
Fields(m) ==
  IF m.chunked THEN ChunkedHeaders(m.headers) ELSE IdentityHeaders(m.headers, Len(Payload(m)))

Trailer(m) == IF m.chunked THEN m.trailer ELSE << >>

ChunkEnvelope(m, i) ==
  LET payloadLen == Len(Accepted(m)[i])
  IN  IF i = 1 THEN composeFirstChunkEnvelope(m.tokens, m.headers, payloadLen)
               ELSE composeNextChunkEnvelope(payloadLen)

\* An envelope with its payload at a time.
Pieces(m) ==
  IF m.chunked
  THEN [i \in DOMAIN Accepted(m) |-> ChunkEnvelope(m, i) \o Accepted(m)[i]]
         \o <<composeLastChunk(m.trailer)>>
  ELSE <<composeEnvelope(m.tokens, m.headers, Len(Payload(m))) \o Payload(m)>>

Text(m) == FlattenSeq(Pieces(m))

-----------------------------------------------------------------------------
(* What the receiver makes of it.                                          *)

\* A value as the parser shows it: without blanks around it, and on one line.
Unfolded(v) == trim(Joined(v))

ReadBack(hs) == [i \in DOMAIN hs |-> [name |-> hs[i].name, value |-> Unfolded(hs[i].value)]]

\* A container and more headers, filed in the order in which they are read.
Filling(hs, more) ==
  LET filled[n \in 0 .. Len(more)] ==
        IF n = 0 THEN hs
        ELSE add(filled[n - 1], more[n].name, Unfolded(more[n].value))
  IN  filled[Len(more)]

\* m as its receiver should see it.
View(m) ==
  [first   |-> m.tokens[1], second |-> m.tokens[2], third |-> m.tokens[3],
   headers |-> Filling(ReadBack(Fields(m)), Trailer(m)),
   body    |-> Payload(m),
   size    |-> Len(Text(m))]

\* The message the receiver can read from a parser that has completed it.
Taken ==
  [first   |-> firstToken, second |-> secondToken, third |-> thirdToken,
   headers |-> headers, body |-> body, size |-> pos]

-----------------------------------------------------------------------------
(* The messages a sender may send.  A composer writes tokens and headers   *)
(* as it is given them: it is for the sender to keep to the form and to    *)
(* the limits that the parser expects.                                     *)

AtMost(str, limits) == \A n \in limits : Within(str, {n})

\* The tokens of a start line, of which the third may have blanks in it.
ProperTokens(tokens) ==
  /\ tokens \in [1 .. 3 -> String \ {<< >>}]
  /\ \A i \in DOMAIN tokens[1] : isWord(tokens[1][i])
  /\ \A i \in DOMAIN tokens[2] : isWord(tokens[2][i])
  /\ isWord(tokens[3][1]) /\ \A i \in DOMAIN tokens[3] : isText(tokens[3][i])
  /\ AtMost(tokens[1], {MaxFirstTokenLength})
  /\ AtMost(tokens[2], {MaxSecondTokenLength})
  /\ AtMost(tokens[3], {MaxThirdTokenLength})

\* What a header has behind its colon.  A line of it may break, but then the
\* next one starts with a blank.
BehindColon(v) == <<SP>> \o v \o CRLF

MayFollow(ch, next) ==
  IF ch = CR THEN next = LF
  ELSE IF ch = LF THEN next \in White
  ELSE next = CR \/ ~isControl(next)

ProperField(h) ==
  LET text == BehindColon(h.value)
  IN  /\ h.name # << >> /\ \A i \in DOMAIN h.name : isToken(h.name[i])
      /\ AtMost(h.name, HeaderNameLimits)
      /\ \A i \in 1 .. Len(text) - 1 : MayFollow(text[i], text[i + 1])
      /\ \A n \in HeaderValueLimits : Len(Joined(text)) <= n

\* An identity body is given in one chunk or none; one that is sent in chunks
\* has at least one, without which a composer does not start a message.
ProperBody(m) ==
  /\ m.chunked \in BOOLEAN /\ m.chunks \in Seq(String)
  /\ m.chunked => \E i \in DOMAIN m.chunks : m.chunks[i] # << >>
  /\ Len(Payload(m)) \in UInt /\ \A i \in DOMAIN m.chunks : Len(m.chunks[i]) \in UInt

ProperMessage(m) ==
  /\ ProperTokens(m.tokens) /\ ProperBody(m)
  /\ m.headers \in Seq(Header) /\ InOrder(m.headers)
  /\ m.trailer \in Seq(Header) /\ InOrder(m.trailer)
  /\ \A h \in Range(Fields(m)) \cup Range(Trailer(m)) : ProperField(h)
  /\ \A n \in HeadersAmountLimits : Len(Fields(m)) + Len(Trailer(m)) <= n

\* The parser's name for a chunked body reads back as it is written, and the
\* two headers that frame a message are not the same one.
ASSUME ExchangeAssumption ==
  /\ Unfolded(Chunked) = Chunked
  /\ Less(ContentLength, TransferEncoding) \/ Less(TransferEncoding, ContentLength)
  /\ \A m \in Outbox : ProperMessage(m)
  /\ BufferSize \in Nat \ {0} /\ MaxSent \in Nat

-----------------------------------------------------------------------------
(* The sender, the connection and the receiver.                            *)

Compose(m) ==
  /\ unsent = << >> /\ Len(sentMessages) < MaxSent
  /\ outgoing' = View(m)
  /\ unsent' = Pieces(m)
  /\ UNCHANGED <<vars, sentMessages, wire, receiverVars>>

Write ==
  /\ unsent # << >>
  /\ wire' = wire \o Head(unsent)
  /\ unsent' = Tail(unsent)
  /\ sentMessages' = IF Len(unsent) = 1 THEN Append(sentMessages, outgoing) ELSE sentMessages
  /\ UNCHANGED <<vars, outgoing, receiverVars>>

\* The receiver has stopped when parse() has thrown: the user drops the connection.
Stopped == result.type = "thrown"

Receive(n) ==
  /\ ~Stopped /\ ~complete /\ bytesParsed = Len(buf)
  /\ n <= Len(wire)
  /\ buf' = SubSeq(wire, 1, n)
  /\ wire' = SubSeq(wire, n + 1, Len(wire))
  /\ bytesParsed' = 0
  /\ UNCHANGED <<vars, senderVars, complete, body, receivedMessages>>

\* The loop of parse(buf, bufLen, os) ends with the message.
Stops == result'.type = "returned" /\ result'.complete

\* One round of the loop.
ParseNext ==
  /\ ~Stopped /\ ~complete /\ bytesParsed < Len(buf)
  /\ Parse(buf[bytesParsed + 1])
  /\ bytesParsed' = bytesParsed + 1
  /\ complete' = Stops
  /\ body' = IF result'.type = "returned" /\ result'.isBodyChar
             THEN Append(body, buf[bytesParsed + 1]) ELSE body
  /\ UNCHANGED <<senderVars, wire, buf, receivedMessages>>

\* parse() has returned TRUE; its caller takes the message.
Take ==
  /\ complete
  /\ receivedMessages' = Append(receivedMessages, Taken)
  /\ complete' = FALSE /\ body' = << >>
  /\ UNCHANGED <<vars, senderVars, wire, buf, bytesParsed>>

ExchangeInit ==
  /\ Init
  /\ outgoing = << >> /\ unsent = << >> /\ sentMessages = << >>
  /\ wire = << >>
  /\ buf = << >> /\ bytesParsed = 0 /\ complete = FALSE /\ body = << >>
  /\ receivedMessages = << >>

ExchangeNext ==
  \/ \E m \in Outbox : Compose(m)
  \/ Write
  \/ \E n \in 1 .. BufferSize : Receive(n)
  \/ ParseNext
  \/ Take

\* The connection delivers, and the receiver is a loop of its own: it goes on
\* while there is something to receive, to parse or to take.
Fairness ==
  /\ WF_exchangeVars(\E n \in 1 .. BufferSize : Receive(n))
  /\ WF_exchangeVars(ParseNext)
  /\ WF_exchangeVars(Take)

ExchangeSpec == ExchangeInit /\ [][ExchangeNext]_exchangeVars /\ Fairness

-----------------------------------------------------------------------------

Channel == INSTANCE MessageChannel WITH
  Message <- {View(m) : m \in Outbox}, sent <- sentMessages, received <- receivedMessages

(* Whatever the splits into buffers, every message a composer wrote is     *)
(* read by the parser as it was sent, byte for byte, in order and exactly  *)
(* once, and is in the end read at all: framing headers of the caller do   *)
(* not confuse it, nor do payloads that look like delimiters, and pos() is *)
(* the size of the message.                                                *)
ImplementsChannel == Channel!Spec

(* The parser accepts whatever a composer writes, of messages that keep to *)
(* the limits of the parser.                                               *)
NothingThrown == result.type # "thrown"

(* The parser expects body bytes only while the payload is not complete,   *)
(* so that the caller may read a payload into its own buffer: what os has  *)
(* collected is a prefix of the payload being sent or already sent.        *)
BodyIsPayloadPrefix ==
  body # << >> =>
    LET k == Len(receivedMessages) + 1
        m == IF k <= Len(sentMessages) THEN sentMessages[k] ELSE outgoing
    IN  IsPrefix(body, m.body) /\ (bodyExpected => body # m.body)
=============================================================================
