----------------------- MODULE MessageComposerProofs -----------------------
(***************************************************************************)
(* What the calls of a composer do, for every start line, header container *)
(* and length of a payload, every stream and every size of a buffer.       *)
(***************************************************************************)
EXTENDS MessageComposer, MessageTextProofs

-----------------------------------------------------------------------------
(* Streams.                                                                *)

Stream == [text : Seq(Char), base : Base, showbase : BOOLEAN, thrown : BOOLEAN]

Kind == {"identity", "firstChunk", "nextChunk", "lastChunk"}

LEMMA PutProperties ==
  ASSUME NEW s \in Stream, ~s.thrown, NEW text \in Seq(Char)
  PROVE  /\ Put(s, text) \in Stream /\ Put(s, text).text = s.text \o text
         /\ Put(s, text).base = s.base /\ Put(s, text).showbase = s.showbase
         /\ ~Put(s, text).thrown
         /\ Hex(s) \in Stream /\ Hex(s).text = s.text
         /\ Hex(s).base = 16 /\ Hex(s).showbase = s.showbase /\ ~Hex(s).thrown
<1>1. s.text \in Seq(Char) /\ s.text \o text \in Seq(Char)
  BY ConcatType DEF Stream
<1>2. 16 \in Base
  BY DEF Base
<1>. QED  BY <1>1, <1>2 DEF Put, Hex, Stream

\* A number, as a stream shows it that writes numbers in hex.
Shown(s, n) == (IF s.showbase THEN <<48, 120>> ELSE << >>) \o NumberText(n, 16)

LEMMA ShownProperties ==
  ASSUME NEW s \in Stream, NEW n \in Nat
  PROVE  /\ Shown(s, n) \in Seq(Char)
         /\ s.showbase => Shown(s, n) = <<48, 120>> \o NumberText(n, 16)
         /\ ~s.showbase => Shown(s, n) = NumberText(n, 16)
<1>1. NumberText(n, 16) \in Seq(Char) /\ <<48, 120>> \in Seq(Char)
  BY NumberTextProperties, LiteralTypes DEF IsNumber, Base, String
<1>2. <<48, 120>> \o NumberText(n, 16) \in Seq(Char)
  BY <1>1, ConcatType, Zenon
<1>3. << >> \o NumberText(n, 16) = NumberText(n, 16)
  BY <1>1, ConcatEmptySeq
<1>. QED  BY <1>1, <1>2, <1>3 DEF Shown

LEMMA PutNumberProperties ==
  ASSUME NEW s \in Stream, ~s.thrown, NEW n \in Nat
  PROVE  /\ PutNumber(s, n) \in Stream
         /\ PutNumber(s, n).base = s.base /\ PutNumber(s, n).showbase = s.showbase
         /\ ~PutNumber(s, n).thrown
         /\ s.base = 10 => PutNumber(s, n).text = s.text \o NumberText(n, 10)
         /\ s.base = 16 => PutNumber(s, n).text = s.text \o Shown(s, n)
<1>1. NumberText(n, s.base) \in Seq(Char) /\ s.base \in {10, 16}
  <2>1. s.base \in Base
    BY DEF Stream
  <2>2. NumberText(n, s.base) \in String
    BY <2>1, NumberTextProperties DEF IsNumber
  <2>. QED  BY <2>1, <2>2 DEF Base, String
<1>2. Prefix(s) \in Seq(Char) /\ (s.base = 10 => Prefix(s) = << >>)
  BY <1>1, LiteralTypes DEF Prefix
<1>3. Prefix(s) \o NumberText(n, s.base) \in Seq(Char)
  BY <1>1, <1>2, ConcatType, Zenon
<1>4. s.base = 10 => Prefix(s) \o NumberText(n, s.base) = NumberText(n, 10)
  BY <1>1, <1>2, ConcatEmptySeq
<1>5. s.base = 16 => Prefix(s) \o NumberText(n, s.base) = Shown(s, n)
  BY DEF Prefix, Shown
<1>6. PICK shown : shown = Prefix(s) \o NumberText(n, s.base)
  OBVIOUS
<1>7. PutNumber(s, n) = Put(s, shown) /\ shown \in Seq(Char)
  BY <1>3, <1>6, Zenon DEF PutNumber
<1>8. /\ s.base = 10 => shown = NumberText(n, 10)
      /\ s.base = 16 => shown = Shown(s, n)
  BY <1>4, <1>5, <1>6, Zenon
<1>9. /\ Put(s, shown) \in Stream /\ Put(s, shown).text = s.text \o shown
      /\ Put(s, shown).base = s.base /\ Put(s, shown).showbase = s.showbase
      /\ ~Put(s, shown).thrown
  BY <1>7, PutProperties, Zenon
<1>. QED  BY <1>7, <1>8, <1>9, Zenon

LEMMA PutSizeProperties ==
  ASSUME NEW s \in Stream, ~s.thrown, NEW n \in Nat
  PROVE  /\ PutSize(s, n) \in Stream /\ PutSize(s, n).showbase = s.showbase
         /\ ~PutSize(s, n).thrown
         /\ PutSize(s, n).text = ((s.text \o CRLF) \o Shown(s, n)) \o CRLF
<1>. DEFINE a == Put(s, CRLF)
            b == Hex(a)
            c == PutNumber(b, n)
            d == Put(c, CRLF)
<1>1. a \in Stream /\ ~a.thrown /\ a.text = s.text \o CRLF /\ a.showbase = s.showbase
  BY PutProperties, LiteralTypes
<1>. HIDE DEF a
<1>2. /\ b \in Stream /\ ~b.thrown /\ b.text = a.text
      /\ b.base = 16 /\ b.showbase = a.showbase
  BY <1>1, PutProperties, LiteralTypes
<1>. HIDE DEF b
<1>3. /\ c \in Stream /\ ~c.thrown /\ c.showbase = b.showbase
      /\ c.text = b.text \o Shown(b, n)
  BY <1>2, PutNumberProperties
<1>. HIDE DEF c
<1>4. d \in Stream /\ ~d.thrown /\ d.text = c.text \o CRLF /\ d.showbase = c.showbase
  BY <1>3, PutProperties, LiteralTypes
<1>5. PutSize(s, n) = d
  BY DEF PutSize, a, b, c
<1>6. Shown(b, n) = Shown(s, n)
  BY <1>1, <1>2 DEF Shown
<1>. HIDE DEF d
<1>. QED  BY <1>1, <1>2, <1>3, <1>4, <1>5, <1>6

\* Nothing is inserted behind a throw.
LEMMA ThrownStays ==
  ASSUME NEW s, s.thrown, NEW text, NEW n
  PROVE  Put(s, text) = s /\ PutSize(s, n) = s
<1>1. \A x : Put(s, x) = s
  BY DEF Put
<1>2. Hex(s) = s
  BY DEF Hex
<1>. QED  BY <1>1, <1>2 DEF PutSize, PutNumber

LEMMA CheckProperties ==
  ASSUME NEW s \in Stream, ~s.thrown, NEW n \in Nat
  PROVE  /\ ~RejectsChunk(n) => CheckChunk(s, n) = s
         /\ RejectsChunk(n) =>
              /\ CheckChunk(s, n) \in Stream /\ CheckChunk(s, n).thrown
              /\ CheckChunk(s, n).text = s.text /\ CheckChunk(s, n).showbase = s.showbase
BY DEF CheckChunk, Stream

LEMMA OwnStreamProperties ==
  /\ OwnStream \in Stream /\ OwnStream.text = << >> /\ ~OwnStream.showbase
  /\ OwnStream.base = 10 /\ ~OwnStream.thrown
BY LiteralTypes DEF OwnStream, Stream, Base

\* An envelope for the start line t, by the functions of module Envelope.
EnvelopeFor(t, kind, hs, payloadLen) ==
  CASE kind = "identity"   -> composeEnvelope(t, hs, payloadLen)
    [] kind = "firstChunk" -> composeFirstChunkEnvelope(t, hs, payloadLen)
    [] kind = "nextChunk"  -> composeNextChunkEnvelope(payloadLen)
    [] kind = "lastChunk"  -> composeLastChunk(hs)

LEMMA EnvelopeType ==
  ASSUME NEW t \in StartLine, NEW kind \in Kind, NEW hs \in Seq(Header), NEW payloadLen \in Nat
  PROVE  EnvelopeFor(t, kind, hs, payloadLen) \in Seq(Char)
<1>1. composeEnvelope(t, hs, payloadLen) \in Seq(Char)
  <2>1. composeFirstLine(t) \o composeHeader(IdentityHeaders(hs, payloadLen)) \in Seq(Char)
    BY FirstLineText, HeaderSectionText, ConcatType
  <2>. QED  BY <2>1, LiteralTypes, ConcatType DEF composeEnvelope
<1>2. composeFirstChunkEnvelope(t, hs, payloadLen) \in Seq(Char)
  <2>. DEFINE a == composeFirstLine(t) \o composeHeader(ChunkedHeaders(hs))
              b == a \o CRLF
              c == b \o NumberText(payloadLen, 16)
  <2>1. a \in Seq(Char)
    BY FirstLineText, HeaderSectionText, ConcatType
  <2>2. b \in Seq(Char)
    BY <2>1, LiteralTypes, ConcatType, Zenon
  <2>3. c \in Seq(Char)
    BY <2>2, HeaderSectionText, ConcatType, Zenon
  <2>. QED  BY <2>3, LiteralTypes, ConcatType, Zenon DEF composeFirstChunkEnvelope
<1>3. composeNextChunkEnvelope(payloadLen) \in Seq(Char)
  <2>1. CRLF \o NumberText(payloadLen, 16) \in Seq(Char)
    BY LiteralTypes, HeaderSectionText, ConcatType, Zenon
  <2>. QED  BY <2>1, LiteralTypes, ConcatType, Zenon DEF composeNextChunkEnvelope
<1>4. composeLastChunk(hs) \in Seq(Char)
  BY LastChunkLength
<1>. QED  BY <1>1, <1>2, <1>3, <1>4 DEF EnvelopeFor, Kind

\* What a stream shows of it, by the functions of module Envelope and Shown.
EnvelopeShown(t, s, kind, hs, payloadLen) ==
  CASE kind = "firstChunk" ->
         (((composeFirstLine(t) \o composeHeader(ChunkedHeaders(hs))) \o CRLF)
            \o Shown(s, payloadLen)) \o CRLF
    [] kind = "nextChunk"  -> (CRLF \o Shown(s, payloadLen)) \o CRLF
    [] kind \in {"identity", "lastChunk"} -> EnvelopeFor(t, kind, hs, payloadLen)

\* A stream behind a call for a chunk that is empty, and behind any other.
LeavesStream(c, s) ==
  c \in Stream /\ c.thrown /\ c.text = s.text /\ c.showbase = s.showbase

AddsTo(c, s, text) ==
  c \in Stream /\ ~c.thrown /\ c.text = s.text \o text /\ c.showbase = s.showbase

(* Of three texts inserted one after another.                              *)
LEMMA ThreePut ==
  ASSUME NEW s \in Stream, ~s.thrown,
         NEW a \in Seq(Char), NEW b \in Seq(Char), NEW c \in Seq(Char)
  PROVE  AddsTo(Put(Put(Put(s, a), b), c), s, (a \o b) \o c)
<1>. DEFINE u == Put(s, a)
            v == Put(u, b)
            w == Put(v, c)
<1>1. u \in Stream /\ ~u.thrown /\ u.text = s.text \o a /\ u.showbase = s.showbase
  BY PutProperties
<1>. HIDE DEF u
<1>2. v \in Stream /\ ~v.thrown /\ v.text = u.text \o b /\ v.showbase = u.showbase
  BY <1>1, PutProperties
<1>. HIDE DEF v
<1>3. w \in Stream /\ ~w.thrown /\ w.text = v.text \o c /\ w.showbase = v.showbase
  BY <1>2, PutProperties
<1>. HIDE DEF w
<1>4. TailJoined(s.text, a, b, c)
  <2>1. s.text \in Seq(Char)
    BY DEF Stream
  <2>. QED  BY <2>1, FourJoined, Zenon
<1>5. ((s.text \o a) \o b) \o c = s.text \o ((a \o b) \o c)
  BY <1>4, Zenon DEF TailJoined
<1>6. AddsTo(w, s, (a \o b) \o c)
  BY <1>1, <1>2, <1>3, <1>5 DEF AddsTo
<1>. QED  BY <1>6 DEF u, v, w

LEMMA EnvelopeAdds ==
  ASSUME tokens \in StartLine, NEW s \in Stream, ~s.thrown,
         NEW hs \in Seq(Header), NEW payloadLen \in Nat
  PROVE  AddsTo(WithEnvelope(s, hs, payloadLen), s, composeEnvelope(tokens, hs, payloadLen))
<1>1. EnvelopeHeaders(hs, payloadLen) = IdentityHeaders(hs, payloadLen)
  <2>1. PutNumber(OwnStream, payloadLen).text = << >> \o NumberText(payloadLen, 10)
    BY OwnStreamProperties, PutNumberProperties
  <2>2. PutNumber(OwnStream, payloadLen).text = NumberText(payloadLen, 10)
    BY <2>1, HeaderSectionText, ConcatEmptySeq
  <2>. QED  BY <2>2 DEF EnvelopeHeaders, IdentityHeaders
<1>. DEFINE fl == composeFirstLine(tokens)
            ch == composeHeader(IdentityHeaders(hs, payloadLen))
<1>2. fl \in Seq(Char) /\ ch \in Seq(Char) /\ CRLF \in Seq(Char)
  BY FirstLineText, HeaderSectionText, LiteralTypes
<1>3. WithEnvelope(s, hs, payloadLen) = Put(Put(Put(s, fl), ch), CRLF)
  BY <1>1 DEF WithEnvelope
<1>4. composeEnvelope(tokens, hs, payloadLen) = (fl \o ch) \o CRLF
  BY DEF composeEnvelope
<1>. HIDE DEF fl, ch
<1>. QED  BY <1>2, <1>3, <1>4, ThreePut

LEMMA FirstChunkAdds ==
  ASSUME tokens \in StartLine, NEW s \in Stream, ~s.thrown,
         NEW hs \in Seq(Header), NEW payloadLen \in Nat
  PROVE  /\ RejectsChunk(payloadLen) => LeavesStream(WithFirstChunk(s, hs, payloadLen), s)
         /\ ~RejectsChunk(payloadLen) =>
              AddsTo(WithFirstChunk(s, hs, payloadLen), s,
                     EnvelopeShown(tokens, s, "firstChunk", hs, payloadLen))
<1>. DEFINE fl == composeFirstLine(tokens)
            ch == composeHeader(ChunkedHeaders(hs))
            sh == Shown(s, payloadLen)
            k  == CheckChunk(s, payloadLen)
            u  == Put(k, fl)
            v  == Put(u, ch)
<1>1. fl \in Seq(Char) /\ ch \in Seq(Char) /\ sh \in Seq(Char) /\ s.text \in Seq(Char)
  BY FirstLineText, HeaderSectionText, ShownProperties DEF Stream
<1>2. WithFirstChunk(s, hs, payloadLen) = PutSize(v, payloadLen)
  BY DEF WithFirstChunk
<1>3. EnvelopeShown(tokens, s, "firstChunk", hs, payloadLen)
        = (((fl \o ch) \o CRLF) \o sh) \o CRLF
  BY DEF EnvelopeShown
<1>4. CASE RejectsChunk(payloadLen)
  <2>1. k \in Stream /\ k.thrown /\ k.text = s.text /\ k.showbase = s.showbase
    BY <1>4, CheckProperties
  <2>2. PutSize(v, payloadLen) = k
    <3>. HIDE DEF k
    <3>1. u = k
      BY <2>1, ThrownStays
    <3>2. v = k
      BY <2>1, <3>1, ThrownStays
    <3>. HIDE DEF v
    <3>. QED  BY <2>1, <3>2, ThrownStays
  <2>. HIDE DEF k, v
  <2>. QED  BY <1>2, <1>4, <2>1, <2>2 DEF LeavesStream
<1>5. CASE ~RejectsChunk(payloadLen)
  <2>1. k = s
    BY <1>5, CheckProperties
  <2>. HIDE DEF fl, ch, k
  <2>2. u \in Stream /\ ~u.thrown /\ u.text = s.text \o fl /\ u.showbase = s.showbase
    BY <1>1, <2>1, PutProperties
  <2>. HIDE DEF u
  <2>3. v \in Stream /\ ~v.thrown /\ v.text = u.text \o ch /\ v.showbase = u.showbase
    BY <1>1, <2>2, PutProperties
  <2>. HIDE DEF v
  <2>4. /\ PutSize(v, payloadLen) \in Stream /\ ~PutSize(v, payloadLen).thrown
        /\ PutSize(v, payloadLen).showbase = v.showbase
        /\ PutSize(v, payloadLen).text = ((v.text \o CRLF) \o Shown(v, payloadLen)) \o CRLF
    BY <2>3, PutSizeProperties
  <2>5. Shown(v, payloadLen) = sh
    BY <2>2, <2>3 DEF Shown
  <2>. HIDE DEF sh
  <2>. DEFINE x == fl \o ch
  <2>6. x \in Seq(Char) /\ (s.text \o fl) \o ch = s.text \o x
    BY <1>1, ConcatType, ThreeJoined, ZenonT(60)
  <2>. HIDE DEF x
  <2>7. (((s.text \o x) \o CRLF) \o sh) \o CRLF = s.text \o (((x \o CRLF) \o sh) \o CRLF)
    <3>1. s.text \o x \in Seq(Char) /\ (CRLF \o sh) \o CRLF \in Seq(Char)
      BY <1>1, <2>6, LiteralTypes, ConcatType
    <3>2. (((s.text \o x) \o CRLF) \o sh) \o CRLF = (s.text \o x) \o ((CRLF \o sh) \o CRLF)
      <4>1. TailJoined(s.text \o x, CRLF, sh, CRLF)
        BY <1>1, <3>1, LiteralTypes, FourJoined, Zenon
      <4>. QED  BY <4>1, Zenon DEF TailJoined
    <3>3. (s.text \o x) \o ((CRLF \o sh) \o CRLF) = s.text \o (x \o ((CRLF \o sh) \o CRLF))
      BY <1>1, <2>6, <3>1, ThreeJoined, ZenonT(60)
    <3>4. x \o ((CRLF \o sh) \o CRLF) = ((x \o CRLF) \o sh) \o CRLF
      <4>1. TailJoined(x, CRLF, sh, CRLF)
        BY <1>1, <2>6, LiteralTypes, FourJoined, Zenon
      <4>. QED  BY <4>1, Zenon DEF TailJoined
    <3>. QED  BY <3>2, <3>3, <3>4, Zenon
  <2>8. EnvelopeShown(tokens, s, "firstChunk", hs, payloadLen) = ((x \o CRLF) \o sh) \o CRLF
    BY <1>3 DEF x
  <2>. QED  BY <1>2, <1>5, <2>2, <2>3, <2>4, <2>5, <2>6, <2>7, <2>8 DEF AddsTo
<1>. QED  BY <1>4, <1>5

LEMMA NextChunkAdds ==
  ASSUME NEW s \in Stream, ~s.thrown, NEW t, NEW hs, NEW payloadLen \in Nat
  PROVE  /\ RejectsChunk(payloadLen) => LeavesStream(WithNextChunk(s, payloadLen), s)
         /\ ~RejectsChunk(payloadLen) =>
              AddsTo(WithNextChunk(s, payloadLen), s,
                     EnvelopeShown(t, s, "nextChunk", hs, payloadLen))
<1>. DEFINE sh == Shown(s, payloadLen)
            k  == CheckChunk(s, payloadLen)
<1>1. WithNextChunk(s, payloadLen) = PutSize(k, payloadLen)
  BY DEF WithNextChunk
<1>2. CASE RejectsChunk(payloadLen)
  <2>1. k \in Stream /\ k.thrown /\ k.text = s.text /\ k.showbase = s.showbase
    BY <1>2, CheckProperties
  <2>. HIDE DEF k
  <2>. QED  BY <1>1, <1>2, <2>1, ThrownStays DEF LeavesStream
<1>3. CASE ~RejectsChunk(payloadLen)
  <2>1. k = s
    BY <1>3, CheckProperties
  <2>2. EnvelopeShown(t, s, "nextChunk", hs, payloadLen) = (CRLF \o sh) \o CRLF
    BY DEF EnvelopeShown
  <2>3. sh \in Seq(Char) /\ s.text \in Seq(Char)
    BY ShownProperties DEF Stream
  <2>4. /\ PutSize(s, payloadLen) \in Stream /\ ~PutSize(s, payloadLen).thrown
        /\ PutSize(s, payloadLen).showbase = s.showbase
        /\ PutSize(s, payloadLen).text = ((s.text \o CRLF) \o sh) \o CRLF
    BY PutSizeProperties
  <2>. HIDE DEF sh, k
  <2>5. ((s.text \o CRLF) \o sh) \o CRLF = s.text \o ((CRLF \o sh) \o CRLF)
    <3>1. TailJoined(s.text, CRLF, sh, CRLF)
      BY <2>3, LiteralTypes, FourJoined, Zenon
    <3>. QED  BY <3>1, Zenon DEF TailJoined
  <2>. QED  BY <1>1, <1>3, <2>1, <2>2, <2>4, <2>5 DEF AddsTo
<1>. QED  BY <1>2, <1>3

LEMMA LastChunkAdds ==
  ASSUME NEW s \in Stream, ~s.thrown, NEW hs \in Seq(Header)
  PROVE  AddsTo(WithLastChunk(s, hs), s, composeLastChunk(hs))
<1>. DEFINE a == (CRLF \o <<48>>) \o CRLF
            h == composeHeader(hs)
<1>1. a \in Seq(Char) /\ h \in Seq(Char) /\ CRLF \in Seq(Char)
  <2>1. CRLF \o <<48>> \in Seq(Char)
    BY LiteralTypes, ConcatType, Zenon
  <2>2. a \in Seq(Char)
    BY <2>1, LiteralTypes, ConcatType, Zenon
  <2>. QED  BY <2>2, LiteralTypes, ComposeHeaderLength DEF String
<1>2. WithLastChunk(s, hs) = Put(Put(Put(s, a), h), CRLF)
  BY DEF WithLastChunk
<1>3. composeLastChunk(hs) = (a \o h) \o CRLF
  BY DEF composeLastChunk
<1>. HIDE DEF a, h
<1>. QED  BY <1>1, <1>2, <1>3, ThreePut

\* The kinds of envelope that a chunk of the given length is rejected for.
Rejects(kind, payloadLen) == kind \in {"firstChunk", "nextChunk"} /\ RejectsChunk(payloadLen)

(* A call that composes into a stream adds its envelope to it, in whatever *)
(* format the stream writes numbers, or leaves its text as it was.         *)
LEMMA ComposedAdds ==
  ASSUME tokens \in StartLine, NEW s \in Stream, ~s.thrown,
         NEW kind \in Kind, NEW hs \in Seq(Header), NEW payloadLen \in Nat
  PROVE  /\ Rejects(kind, payloadLen) => LeavesStream(Composed(s, kind, hs, payloadLen), s)
         /\ ~Rejects(kind, payloadLen) =>
              AddsTo(Composed(s, kind, hs, payloadLen), s,
                     EnvelopeShown(tokens, s, kind, hs, payloadLen))
<1>1. CASE kind = "identity"
  <2>1. /\ Composed(s, kind, hs, payloadLen) = WithEnvelope(s, hs, payloadLen)
        /\ EnvelopeShown(tokens, s, kind, hs, payloadLen) = composeEnvelope(tokens, hs, payloadLen)
        /\ ~Rejects(kind, payloadLen)
    BY <1>1 DEF Composed, EnvelopeShown, EnvelopeFor, Rejects
  <2>. QED  BY <2>1, EnvelopeAdds
<1>2. CASE kind = "firstChunk"
  <2>1. /\ Composed(s, kind, hs, payloadLen) = WithFirstChunk(s, hs, payloadLen)
        /\ Rejects(kind, payloadLen) <=> RejectsChunk(payloadLen)
    BY <1>2 DEF Composed, Rejects
  <2>. QED  BY <1>2, <2>1, FirstChunkAdds
<1>3. CASE kind = "nextChunk"
  <2>1. /\ Composed(s, kind, hs, payloadLen) = WithNextChunk(s, payloadLen)
        /\ Rejects(kind, payloadLen) <=> RejectsChunk(payloadLen)
    BY <1>3 DEF Composed, Rejects
  <2>. QED  BY <1>3, <2>1, NextChunkAdds
<1>4. CASE kind = "lastChunk"
  <2>1. /\ Composed(s, kind, hs, payloadLen) = WithLastChunk(s, hs)
        /\ EnvelopeShown(tokens, s, kind, hs, payloadLen) = composeLastChunk(hs)
        /\ ~Rejects(kind, payloadLen)
    BY <1>4 DEF Composed, EnvelopeShown, EnvelopeFor, Rejects
  <2>. QED  BY <2>1, LastChunkAdds
<1>. QED  BY <1>1, <1>2, <1>3, <1>4 DEF Kind

\* A stream that does not show the base shows the envelope of module Envelope.
LEMMA ShownPlainly ==
  ASSUME NEW t, NEW s \in Stream, ~s.showbase,
         NEW kind \in Kind, NEW hs, NEW payloadLen \in Nat
  PROVE  EnvelopeShown(t, s, kind, hs, payloadLen) = EnvelopeFor(t, kind, hs, payloadLen)
<1>1. Shown(s, payloadLen) = NumberText(payloadLen, 16)
  BY ShownProperties
<1>. QED  BY <1>1 DEF EnvelopeShown, EnvelopeFor, Kind, composeFirstChunkEnvelope,
          composeNextChunkEnvelope

(* A call that composes into a buffer formats its envelope in its own.     *)
LEMMA OwnEnvelope ==
  ASSUME tokens \in StartLine, NEW kind \in Kind, NEW hs \in Seq(Header), NEW payloadLen \in Nat
  PROVE  LET c == Composed(OwnStream, kind, hs, payloadLen)
         IN  /\ c.text \in Seq(Char) /\ c.thrown \in BOOLEAN
             /\ ~c.thrown => c.text = EnvelopeFor(tokens, kind, hs, payloadLen)
             /\ kind = "lastChunk" => ~c.thrown
<1>. DEFINE c == Composed(OwnStream, kind, hs, payloadLen)
            e == EnvelopeFor(tokens, kind, hs, payloadLen)
<1>1. e \in Seq(Char) /\ EnvelopeShown(tokens, OwnStream, kind, hs, payloadLen) = e
  BY EnvelopeType, ShownPlainly, OwnStreamProperties
<1>2. /\ Rejects(kind, payloadLen) => LeavesStream(c, OwnStream)
      /\ ~Rejects(kind, payloadLen) => AddsTo(c, OwnStream, e)
  BY <1>1, OwnStreamProperties, ComposedAdds
<1>3. kind = "lastChunk" => ~Rejects(kind, payloadLen)
  BY DEF Rejects
<1>. HIDE DEF c, e
<1>4. << >> \o e = e
  BY <1>1, ConcatEmptySeq
<1>5. /\ c.text \in Seq(Char) /\ c.thrown \in BOOLEAN
      /\ ~c.thrown => c.text = e
      /\ kind = "lastChunk" => ~c.thrown
  BY <1>2, <1>3, <1>4, OwnStreamProperties DEF LeavesStream, AddsTo, Stream
<1>. QED  BY <1>5 DEF c, e
-----------------------------------------------------------------------------
(* Buffers.                                                                *)

Bytes == [1 .. BufferSize -> Int]

LEMMA CopiedBytes ==
  ASSUME NEW buf \in Bytes, NEW offset \in Int, NEW bytes \in Seq(Char)
  PROVE  /\ Copied(buf, offset, bytes) \in Bytes
         /\ \A i \in 1 .. BufferSize :
              Copied(buf, offset, bytes)[i] =
                IF i - offset \in 1 .. Len(bytes) THEN bytes[i - offset] ELSE buf[i]
<1>1. /\ DOMAIN bytes = 1 .. Len(bytes) /\ DOMAIN buf = 1 .. BufferSize
      /\ \A i \in DOMAIN bytes : bytes[i] \in Int
      /\ \A i \in 1 .. BufferSize : buf[i] \in Int
  <2>1. \A ch \in Char : ch \in Int
    BY DEF Char
  <2>2. DOMAIN bytes = 1 .. Len(bytes) /\ \A i \in 1 .. Len(bytes) : bytes[i] \in Char
    OBVIOUS
  <2>3. DOMAIN buf = 1 .. BufferSize /\ \A i \in 1 .. BufferSize : buf[i] \in Int
    BY DEF Bytes
  <2>. QED  BY <2>1, <2>2, <2>3
<1>. QED  BY <1>1 DEF Copied, Bytes

(* A packet before a payload is the envelope followed by the payload.      *)
LEMMA PacketJoins ==
  ASSUME NEW buf \in Bytes, NEW env \in Seq(Char), NEW room \in Nat, NEW size \in Nat,
         Len(env) <= room, room + size <= BufferSize
  PROVE  LET pkt == PacketBefore(room, Len(env), size)
         IN  Contents(Copied(buf, pkt.first, env), pkt) = env \o SubSeq(buf, room + 1, room + size)
<1>. DEFINE e       == Len(env)
            copied  == Copied(buf, room - e, env)
            payload == SubSeq(buf, room + 1, room + size)
            pkt     == PacketBefore(room, e, size)
<1>1. pkt.first = room - e /\ pkt.second = e + size
  BY DEF PacketBefore
<1>2. e \in Nat /\ e <= room /\ BufferSize \in Nat /\ room - e \in Int
  BY ComposerAssumption
<1>3. /\ copied \in Bytes
      /\ \A i \in 1 .. BufferSize :
           copied[i] = IF i - (room - e) \in 1 .. e THEN env[i - (room - e)] ELSE buf[i]
  BY <1>2, CopiedBytes
<1>4. /\ payload \in Seq(Int) /\ Len(payload) = size
      /\ \A i \in 1 .. size : payload[i] = buf[room + i]
  <2>1. buf \in Seq(Int) /\ Len(buf) = BufferSize
    BY <1>2 DEF Bytes
  <2>2. \A i \in room + 1 .. room + size : buf[i] \in Int
    BY <1>2 DEF Bytes
  <2>. QED  BY <1>2, <2>1, <2>2, SubSeqProperties
<1>5. env \in Seq(Int) /\ \A i \in 1 .. e : env[i] \in Int
  <2>1. Char \subseteq Int
    BY DEF Char
  <2>2. env \in Seq(Int)
    BY <2>1, SeqMonotonic
  <2>. QED  BY <2>2
<1>. HIDE DEF copied, payload
<1>6. /\ env \o payload \in Seq(Int) /\ Len(env \o payload) = e + size
      /\ \A i \in 1 .. e + size :
           (env \o payload)[i] = IF i <= e THEN env[i] ELSE payload[i - e]
  <2>1. /\ env \o payload \in Seq(Int) /\ Len(env \o payload) = Len(env) + Len(payload)
        /\ \A i \in 1 .. Len(env) + Len(payload) :
             (env \o payload)[i] = IF i <= Len(env) THEN env[i] ELSE payload[i - Len(env)]
    BY <1>4, <1>5, ConcatProperties
  <2>. QED  BY <1>4, <2>1
<1>. HIDE DEF e
<1>7. Contents(copied, pkt) = [i \in 1 .. e + size |-> copied[(room - e) + i]]
  BY <1>1 DEF Contents
<1>8. ASSUME NEW i \in 1 .. e + size
      PROVE  copied[(room - e) + i] = (env \o payload)[i] /\ copied[(room - e) + i] \in Int
  <2>1. (room - e) + i \in 1 .. BufferSize /\ ((room - e) + i) - (room - e) = i
    BY <1>2
  <2>2. copied[(room - e) + i] = IF i \in 1 .. e THEN env[i] ELSE buf[(room - e) + i]
    BY <1>3, <2>1, Zenon
  <2>3. CASE i <= e
    BY <1>2, <1>5, <1>6, <2>2, <2>3
  <2>4. CASE i > e
    <3>1. i - e \in 1 .. size /\ room + (i - e) = (room - e) + i
      BY <1>2, <2>4
    <3>2. payload[i - e] = buf[(room - e) + i]
      BY <1>4, <3>1
    <3>3. copied[(room - e) + i] \in Int
      BY <1>3, <2>1 DEF Bytes
    <3>4. ~(i <= e) /\ i \notin 1 .. e
      BY <1>2, <2>4
    <3>5. (env \o payload)[i] = payload[i - e]
      BY <1>6, <3>4, Zenon
    <3>. QED  BY <2>2, <3>2, <3>3, <3>4, <3>5, Zenon
  <2>5. i <= e \/ i > e
    BY <1>2
  <2>. QED  BY <2>3, <2>4, <2>5, Zenon
<1>9. Contents(copied, pkt) \in Seq(Int) /\ Len(Contents(copied, pkt)) = e + size
  <2>. DEFINE c == [i \in 1 .. e + size |-> copied[(room - e) + i]]
  <2>1. \A i \in 1 .. e + size : copied[(room - e) + i] \in Int
    BY <1>8
  <2>2. e + size \in Nat
    BY <1>2
  <2>3. c \in Seq(Int) /\ Len(c) = e + size
    BY <2>1, <2>2
  <2>. QED  BY <1>7, <2>3
<1>10. \A i \in 1 .. e + size : Contents(copied, pkt)[i] = (env \o payload)[i]
  BY <1>7, <1>8
<1>11. Contents(copied, pkt) = env \o payload
  BY <1>6, <1>9, <1>10, SeqEqual
<1>. QED  BY <1>1, <1>11 DEF copied, payload, pkt, e
-----------------------------------------------------------------------------
(* Calls, and what holds after each of them.                               *)

Calls(kind, hs, payloadLen, room) ==
  \/ ComposeToStream(kind, hs, payloadLen)
  \/ ComposeToBuffer(kind, hs, payloadLen, room)
  \/ Prepend(kind, hs, payloadLen, room)

LEMMA CallsOrReset ==
  ASSUME Next
  PROVE  \/ \E kind \in Kind, hs \in Seq(Header), payloadLen \in Nat, room \in Nat :
              Calls(kind, hs, payloadLen, room)
         \/ \E newTokens \in StartLine : Reset(newTokens)
<1>1. /\ HeaderSets \subseteq Seq(Header) /\ PayloadLens \subseteq Nat /\ Rooms \subseteq Nat
      /\ NoHeaders \in Seq(Header) /\ 0 \in Nat /\ Tokens \subseteq StartLine
  BY ComposerAssumption DEF NoHeaders, StartLine
<1>2. {"identity", "firstChunk", "nextChunk", "lastChunk"} = Kind
  BY DEF Kind
<1>3. CASE StreamMethods
  <2>1. PICK hs \in HeaderSets, payloadLen \in PayloadLens :
          \/ ComposeToStream("identity", hs, payloadLen)
          \/ ComposeToStream("firstChunk", hs, payloadLen)
          \/ ComposeToStream("nextChunk", NoHeaders, payloadLen)
          \/ ComposeToStream("lastChunk", hs, 0)
    BY <1>3, Zenon DEF StreamMethods
  <2>2. hs \in Seq(Header) /\ payloadLen \in Nat
    BY <1>1
  <2>3. \/ Calls("identity", hs, payloadLen, 0) \/ Calls("firstChunk", hs, payloadLen, 0)
        \/ Calls("nextChunk", NoHeaders, payloadLen, 0) \/ Calls("lastChunk", hs, 0, 0)
    BY <2>1, Zenon DEF Calls
  <2>. QED  BY <1>1, <1>2, <2>2, <2>3
<1>4. ASSUME NEW hs \in HeaderSets, NEW payloadLen \in PayloadLens, NEW room \in Rooms,
             \/ ComposeEnvelope(hs, payloadLen, room)
             \/ ComposeFirstChunkEnvelope(hs, payloadLen, room)
             \/ ComposeNextChunkEnvelope(payloadLen, room)
             \/ ComposeLastChunk(hs, room)
             \/ PrependEnvelope(hs, payloadLen, room)
             \/ PrependFirstChunkEnvelope(hs, payloadLen, room)
             \/ PrependNextChunkEnvelope(payloadLen, room)
      PROVE  \E kind \in Kind, h \in Seq(Header), p \in Nat, r \in Nat : Calls(kind, h, p, r)
  <2>1. hs \in Seq(Header) /\ payloadLen \in Nat /\ room \in Nat
    BY <1>1
  <2>2. \/ Calls("identity", hs, payloadLen, room) \/ Calls("firstChunk", hs, payloadLen, room)
        \/ Calls("nextChunk", NoHeaders, payloadLen, room) \/ Calls("lastChunk", hs, 0, room)
    BY <1>4, Zenon DEF Calls, ComposeEnvelope, ComposeFirstChunkEnvelope,
       ComposeNextChunkEnvelope, ComposeLastChunk, PrependEnvelope, PrependFirstChunkEnvelope,
       PrependNextChunkEnvelope
  <2>. QED  BY <1>1, <1>2, <2>1, <2>2
<1>5. CASE \E newTokens \in Tokens : Reset(newTokens)
  BY <1>1, <1>5
<1>. QED  BY <1>3, <1>4, <1>5, Zenon DEF Next

ComposerType ==
  /\ tokens \in StartLine
  /\ stream \in Stream /\ ~stream.thrown
  /\ buffer \in Bytes
  /\ calls \in Nat

\* What a call is given, and that it is counted.
LEMMA CalledProperties ==
  ASSUME NEW form, NEW kind, NEW hs, NEW payloadLen, NEW room, calls \in Nat,
         Called(form, kind, hs, payloadLen, room)
  PROVE  /\ calls' = calls + 1 /\ calls' \in Nat /\ calls' # calls /\ tokens' = tokens
         /\ call'.form = form /\ call'.kind = kind /\ call'.headers = hs
         /\ call'.payloadLen = payloadLen /\ call'.room = room
BY DEF Called

LEMMA TypeInit == Init => ComposerType
<1>. SUFFICES ASSUME Init PROVE ComposerType
  OBVIOUS
<1>1. tokens \in StartLine /\ calls \in Nat
  BY ComposerAssumption DEF Init, StartLine
<1>2. stream \in Stream /\ ~stream.thrown
  BY LiteralTypes DEF Init, Stream, Base
<1>3. buffer \in Bytes
  BY ComposerAssumption DEF Init, Bytes
<1>. QED  BY <1>1, <1>2, <1>3 DEF ComposerType

LEMMA TypeNext == ComposerType /\ [Next]_composerVars => ComposerType'
<1>. SUFFICES ASSUME ComposerType, [Next]_composerVars PROVE ComposerType'
  OBVIOUS
<1>1. /\ tokens \in StartLine /\ stream \in Stream /\ ~stream.thrown
      /\ buffer \in Bytes /\ calls \in Nat
  BY DEF ComposerType
<1>2. ASSUME NEW kind \in Kind, NEW hs \in Seq(Header), NEW payloadLen \in Nat, NEW room \in Nat
      PROVE  Calls(kind, hs, payloadLen, room) => ComposerType'
  <2>. DEFINE env == Composed(OwnStream, kind, hs, payloadLen).text
  <2>0. env \in Seq(Char)
    BY <1>1, OwnEnvelope
  <2>1. CASE ComposeToStream(kind, hs, payloadLen)
    <3>1. /\ Called("stream", kind, hs, payloadLen, 0) /\ buffer' = buffer
          /\ stream' = [Composed(stream, kind, hs, payloadLen) EXCEPT !.thrown = FALSE]
      BY <2>1 DEF ComposeToStream
    <3>2. Composed(stream, kind, hs, payloadLen) \in Stream
      BY <1>1, ComposedAdds DEF LeavesStream, AddsTo
    <3>3. stream' \in Stream /\ ~stream'.thrown
      BY <3>1, <3>2 DEF Stream
    <3>. QED  BY <1>1, <3>1, <3>3, CalledProperties DEF ComposerType
  <2>2. CASE ComposeToBuffer(kind, hs, payloadLen, room)
    <3>1. /\ Called("buffer", kind, hs, payloadLen, room) /\ stream' = stream
          /\ buffer' = buffer \/ buffer' = Copied(buffer, 0, env)
      BY <2>2 DEF ComposeToBuffer
    <3>2. Copied(buffer, 0, env) \in Bytes
      <4>. HIDE DEF env
      <4>1. 0 \in Int
        OBVIOUS
      <4>. QED  BY <1>1, <2>0, <4>1, CopiedBytes, Zenon
    <3>. QED  BY <1>1, <3>1, <3>2, CalledProperties DEF ComposerType
  <2>3. CASE Prepend(kind, hs, payloadLen, room)
    <3>1. /\ Called("prepend", kind, hs, payloadLen, room) /\ stream' = stream
          /\ buffer' = buffer \/ buffer' = Copied(buffer, room - Len(env), env)
      BY <2>3 DEF Prepend, Place, PacketBefore
    <3>2. room - Len(env) \in Int
      <4>. HIDE DEF env
      <4>. QED  BY <2>0
    <3>3. Copied(buffer, room - Len(env), env) \in Bytes
      BY <1>1, <2>0, <3>2, CopiedBytes
    <3>. QED  BY <1>1, <3>1, <3>3, CalledProperties DEF ComposerType
  <2>. QED  BY <2>1, <2>2, <2>3 DEF Calls
<1>3. ASSUME NEW newTokens \in StartLine, Reset(newTokens) PROVE ComposerType'
  BY <1>1, <1>3 DEF Reset, ComposerType
<1>4. CASE UNCHANGED composerVars
  BY <1>1, <1>4 DEF composerVars, ComposerType
<1>. QED  BY <1>2, <1>3, <1>4, CallsOrReset

LEMMA ComposerTypeCorrect == Spec => []ComposerType
BY TypeInit, TypeNext, PTL DEF Spec
-----------------------------------------------------------------------------
(* What a call does, of each of the three forms.                           *)

\* A call as its caller made it.
IsCall(c, form, kind, hs, payloadLen, room) ==
  /\ c.form = form /\ c.kind = kind /\ c.headers = hs
  /\ c.payloadLen = payloadLen /\ c.room = room

StreamDone(kind, hs, payloadLen) ==
  /\ calls' # calls /\ IsCall(call', "stream", kind, hs, payloadLen, 0) /\ buffer' = buffer
  /\ \/ /\ result'.type = "thrown"
        /\ stream'.text = stream.text /\ promised' = promised
     \/ /\ result'.type = "none"
        /\ stream'.text = stream.text \o EnvelopeShown(tokens, stream, kind, hs, payloadLen)
        /\ promised' = promised \o EnvelopeShown(tokens, stream, kind, hs, payloadLen)

\* The bytes a call puts into the buffer, and where: behind the first ones.
BufferDone(form, kind, hs, payloadLen, room, env, first) ==
  /\ calls' # calls /\ IsCall(call', form, kind, hs, payloadLen, room)
  /\ stream' = stream /\ promised' = promised
  /\ \/ result'.type = "thrown" /\ buffer' = buffer
     \/ /\ result'.type # "thrown" /\ Len(env) <= room
        /\ env = EnvelopeFor(tokens, kind, hs, payloadLen) /\ env \in Seq(Char)
        /\ buffer' = Copied(buffer, first, env)

LEMMA EnvelopeOfCall ==
  ASSUME NEW c, NEW form, NEW kind, NEW hs, NEW payloadLen, NEW room,
         IsCall(c, form, kind, hs, payloadLen, room)
  PROVE  /\ EnvelopeOf(c) = EnvelopeFor(tokens, kind, hs, payloadLen)
         /\ c.form = form /\ c.kind = kind /\ c.headers = hs
         /\ c.payloadLen = payloadLen /\ c.room = room
BY DEF IsCall, EnvelopeOf, EnvelopeFor

LEMMA EnvelopeInStream ==
  ASSUME NEW s \in Stream, NEW c, NEW form, NEW kind \in Kind, NEW hs, NEW payloadLen \in Nat,
         NEW room, IsCall(c, form, kind, hs, payloadLen, room)
  PROVE  EnvelopeIn(s, c) = EnvelopeShown(tokens, s, kind, hs, payloadLen)
<1>1. /\ EnvelopeOf(c) = EnvelopeFor(tokens, kind, hs, payloadLen)
      /\ c.kind = kind /\ c.headers = hs /\ c.payloadLen = payloadLen
  BY EnvelopeOfCall
<1>2. CASE ~s.showbase
  <2>1. EnvelopeIn(s, c) = EnvelopeOf(c)
    BY <1>1, <1>2 DEF EnvelopeIn, Kind
  <2>. QED  BY <1>1, <1>2, <2>1, ShownPlainly
<1>3. CASE s.showbase
  <2>1. Shown(s, payloadLen) = <<48, 120>> \o NumberText(payloadLen, 16)
    BY <1>3, ShownProperties
  <2>. QED  BY <1>1, <1>3, <2>1 DEF EnvelopeIn, EnvelopeShown, Kind
<1>. QED  BY <1>2, <1>3

LEMMA StreamCall ==
  ASSUME ComposerType, NEW kind \in Kind, NEW hs \in Seq(Header), NEW payloadLen \in Nat,
         ComposeToStream(kind, hs, payloadLen)
  PROVE  StreamDone(kind, hs, payloadLen)
<1>. DEFINE c == Composed(stream, kind, hs, payloadLen)
            e == EnvelopeShown(tokens, stream, kind, hs, payloadLen)
<1>1. tokens \in StartLine /\ stream \in Stream /\ ~stream.thrown /\ calls \in Nat
  BY DEF ComposerType
<1>2. calls' # calls /\ IsCall(call', "stream", kind, hs, payloadLen, 0)
  BY <1>1, CalledProperties DEF ComposeToStream, IsCall
<1>3. /\ buffer' = buffer /\ stream' = [c EXCEPT !.thrown = FALSE]
      /\ \/ c.thrown /\ result' = [type |-> "thrown"] /\ promised' = promised
         \/ /\ ~c.thrown /\ result' = [type |-> "none"]
            /\ promised' = promised \o EnvelopeIn(stream, call')
  BY DEF ComposeToStream, Throws
<1>4. LeavesStream(c, stream) \/ AddsTo(c, stream, e)
  BY <1>1, ComposedAdds
<1>5. EnvelopeIn(stream, call') = e
  BY <1>1, <1>2, EnvelopeInStream
<1>. HIDE DEF c, e
<1>6. c \in Stream
  BY <1>4 DEF LeavesStream, AddsTo
<1>7. stream'.text = c.text
  BY <1>3, <1>6 DEF Stream
<1>8. \/ /\ result'.type = "thrown" /\ stream'.text = stream.text /\ promised' = promised
      \/ /\ result'.type = "none" /\ stream'.text = stream.text \o e
         /\ promised' = promised \o e
  BY <1>3, <1>4, <1>5, <1>7 DEF LeavesStream, AddsTo
<1>. QED  BY <1>2, <1>3, <1>8 DEF StreamDone, e

LEMMA BufferCall ==
  ASSUME ComposerType, NEW kind \in Kind, NEW hs \in Seq(Header), NEW payloadLen \in Nat,
         NEW room \in Nat, ComposeToBuffer(kind, hs, payloadLen, room)
  PROVE  LET env == Composed(OwnStream, kind, hs, payloadLen).text
         IN  /\ BufferDone("buffer", kind, hs, payloadLen, room, env, 0)
             /\ kind = "lastChunk" =>
                  /\ result'.type = "thrown" <=> ~(Len(env) <= room)
                  /\ env = EnvelopeFor(tokens, kind, hs, payloadLen)
             /\ result'.type \in {"thrown", "size"}
<1>. DEFINE env    == Composed(OwnStream, kind, hs, payloadLen).text
            thrown == Composed(OwnStream, kind, hs, payloadLen).thrown
<1>1. tokens \in StartLine /\ calls \in Nat
  BY DEF ComposerType
<1>2. calls' # calls /\ IsCall(call', "buffer", kind, hs, payloadLen, room)
  BY <1>1, CalledProperties DEF ComposeToBuffer, IsCall
<1>3. /\ env \in Seq(Char)
      /\ kind = "lastChunk" => ~thrown
      /\ ~thrown => env = EnvelopeFor(tokens, kind, hs, payloadLen)
  BY <1>1, OwnEnvelope
<1>4. \/ /\ thrown \/ ~(Len(env) <= room)
         /\ result' = [type |-> "thrown"] /\ buffer' = buffer
      \/ /\ ~thrown /\ Len(env) <= room
         /\ result' = [type |-> "size", size |-> Len(env)] /\ buffer' = Copied(buffer, 0, env)
  BY Zenon DEF ComposeToBuffer, Throws, Fits
<1>9. stream' = stream /\ promised' = promised
  BY DEF ComposeToBuffer
<1>. HIDE DEF env, thrown
<1>5. \/ /\ result' = [type |-> "thrown"] /\ buffer' = buffer
         /\ kind = "lastChunk" => ~(Len(env) <= room)
      \/ /\ result' = [type |-> "size", size |-> Len(env)] /\ buffer' = Copied(buffer, 0, env)
         /\ Len(env) <= room /\ env = EnvelopeFor(tokens, kind, hs, payloadLen)
  BY <1>3, <1>4, Zenon
<1>6. BufferDone("buffer", kind, hs, payloadLen, room, env, 0)
  <2>1. env \in Seq(Char)
    BY <1>3
  <2>. QED  BY <1>2, <1>5, <1>9, <2>1 DEF BufferDone
<1>7. kind = "lastChunk" => /\ result'.type = "thrown" <=> ~(Len(env) <= room)
                            /\ env = EnvelopeFor(tokens, kind, hs, payloadLen)
  <2>1. kind = "lastChunk" => env = EnvelopeFor(tokens, kind, hs, payloadLen)
    BY <1>3, Zenon
  <2>. QED  BY <1>5, <2>1
<1>8. result'.type \in {"thrown", "size"}
  BY <1>5
<1>. QED  BY <1>6, <1>7, <1>8 DEF env

LEMMA PrependCall ==
  ASSUME ComposerType, NEW kind \in Kind, NEW hs \in Seq(Header), NEW payloadLen \in Nat,
         NEW room \in Nat, Prepend(kind, hs, payloadLen, room)
  PROVE  LET env == Composed(OwnStream, kind, hs, payloadLen).text
         IN  /\ BufferDone("prepend", kind, hs, payloadLen, room, env, room - Len(env))
             /\ room + payloadLen <= BufferSize
             /\ result'.type # "thrown" =>
                  result'.type = "packet" /\ result'.packet = PacketBefore(room, Len(env), payloadLen)
<1>. DEFINE env    == Composed(OwnStream, kind, hs, payloadLen).text
            thrown == Composed(OwnStream, kind, hs, payloadLen).thrown
<1>1. tokens \in StartLine /\ calls \in Nat
  BY DEF ComposerType
<1>2. calls' # calls /\ IsCall(call', "prepend", kind, hs, payloadLen, room)
  BY <1>1, CalledProperties DEF Prepend, IsCall
<1>3. env \in Seq(Char) /\ (~thrown => env = EnvelopeFor(tokens, kind, hs, payloadLen))
  BY <1>1, OwnEnvelope
<1>4. /\ stream' = stream /\ promised' = promised /\ room + payloadLen <= BufferSize
      /\ \/ result' = [type |-> "thrown"] /\ buffer' = buffer
         \/ /\ ~thrown /\ Len(env) <= room
            /\ result' = [type |-> "packet", packet |-> PacketBefore(room, Len(env), payloadLen)]
            /\ buffer' = Copied(buffer, PacketBefore(room, Len(env), payloadLen).first, env)
  BY Zenon DEF Prepend, Throws, Fits, Place
<1>. HIDE DEF env, thrown
<1>5. PacketBefore(room, Len(env), payloadLen).first = room - Len(env)
  BY DEF PacketBefore
<1>6. BufferDone("prepend", kind, hs, payloadLen, room, env, room - Len(env))
  BY <1>2, <1>3, <1>4, <1>5 DEF BufferDone
<1>7. result'.type # "thrown" =>
        result'.type = "packet" /\ result'.packet = PacketBefore(room, Len(env), payloadLen)
  BY <1>4
<1>. QED  BY <1>4, <1>6, <1>7 DEF env

-----------------------------------------------------------------------------
(* Theorems.                                                               *)

\* The steps that make a call are those of the three forms.
LEMMA EveryCall ==
  ASSUME [Next]_composerVars, MakesCall
  PROVE  \E kind \in Kind, hs \in Seq(Header), payloadLen \in Nat, room \in Nat :
           Calls(kind, hs, payloadLen, room)
<1>1. ~UNCHANGED composerVars /\ ~\E newTokens \in StartLine : Reset(newTokens)
  BY DEF MakesCall, composerVars, Reset
<1>. QED  BY <1>1, CallsOrReset

(* Whatever a stream has been used for, whatever format it writes numbers  *)
(* in and however many calls have thrown, it holds the envelopes of those  *)
(* that returned.                                                          *)
THEOREM StreamCorrect == Spec => []StreamHoldsTheEnvelopes
<1>1. Init => StreamHoldsTheEnvelopes
  BY DEF Init, StreamHoldsTheEnvelopes
<1>2. ComposerType /\ StreamHoldsTheEnvelopes /\ [Next]_composerVars => StreamHoldsTheEnvelopes'
  <2>. SUFFICES ASSUME ComposerType, stream.text = promised, [Next]_composerVars
                PROVE  stream'.text = promised'
    BY DEF StreamHoldsTheEnvelopes
  <2>1. ASSUME NEW kind \in Kind, NEW hs \in Seq(Header), NEW payloadLen \in Nat,
               NEW room \in Nat, Calls(kind, hs, payloadLen, room)
        PROVE  stream'.text = promised'
    <3>1. CASE ComposeToStream(kind, hs, payloadLen)
      <4>1. StreamDone(kind, hs, payloadLen)
        BY <3>1, StreamCall
      <4>. DEFINE e == EnvelopeShown(tokens, stream, kind, hs, payloadLen)
      <4>2. \/ stream'.text = stream.text /\ promised' = promised
            \/ stream'.text = stream.text \o e /\ promised' = promised \o e
        BY <4>1, Zenon DEF StreamDone
      <4>. HIDE DEF e
      <4>. QED  BY <4>2
    <3>2. CASE ComposeToBuffer(kind, hs, payloadLen, room)
      BY <3>2, BufferCall DEF BufferDone
    <3>3. CASE Prepend(kind, hs, payloadLen, room)
      BY <3>3, PrependCall DEF BufferDone
    <3>. QED  BY <2>1, <3>1, <3>2, <3>3 DEF Calls
  <2>. QED  BY <2>1, CallsOrReset DEF Reset, composerVars
<1>. QED  BY <1>1, <1>2, ComposerTypeCorrect, PTL DEF Spec

(* The packet that a prepend method returns is the envelope followed by    *)
(* the payload as it was, without a gap.                                   *)
THEOREM PacketIsMessageCorrect == Spec => PacketIsMessage
<1>1. ComposerType /\ [Next]_composerVars =>
        [MakesCall /\ result'.type = "packet" =>
           Contents(buffer', result'.packet) =
             EnvelopeOf(call') \o SubSeq(buffer, call'.room + 1, call'.room + call'.payloadLen)
        ]_composerVars
  <2>. SUFFICES ASSUME ComposerType, [Next]_composerVars, MakesCall, result'.type = "packet"
                PROVE  Contents(buffer', result'.packet) =
                         EnvelopeOf(call')
                           \o SubSeq(buffer, call'.room + 1, call'.room + call'.payloadLen)
    OBVIOUS
  <2>1. PICK kind \in Kind, hs \in Seq(Header), payloadLen \in Nat, room \in Nat :
          Calls(kind, hs, payloadLen, room)
    BY EveryCall
  <2>2. CASE ComposeToStream(kind, hs, payloadLen)
    BY <2>2, StreamCall DEF StreamDone
  <2>3. CASE ComposeToBuffer(kind, hs, payloadLen, room)
    BY <2>3, BufferCall
  <2>4. CASE Prepend(kind, hs, payloadLen, room)
    <3>. DEFINE env == Composed(OwnStream, kind, hs, payloadLen).text
                pkt == PacketBefore(room, Len(env), payloadLen)
    <3>1. /\ BufferDone("prepend", kind, hs, payloadLen, room, env, room - Len(env))
          /\ room + payloadLen <= BufferSize /\ result'.packet = pkt
      BY <2>4, PrependCall
    <3>. HIDE DEF env
    <3>2. /\ env = EnvelopeOf(call') /\ env \in Seq(Char) /\ Len(env) <= room
          /\ call'.room = room /\ call'.payloadLen = payloadLen
          /\ buffer' = Copied(buffer, room - Len(env), env)
      BY <3>1, EnvelopeOfCall DEF BufferDone
    <3>3. pkt.first = room - Len(env)
      BY DEF PacketBefore
    <3>4. buffer \in Bytes
      BY DEF ComposerType
    <3>5. Contents(Copied(buffer, pkt.first, env), pkt)
            = env \o SubSeq(buffer, room + 1, room + payloadLen)
      BY <3>1, <3>2, <3>4, PacketJoins
    <3>. QED  BY <3>1, <3>2, <3>3, <3>5
  <2>. QED  BY <2>1, <2>2, <2>3, <2>4 DEF Calls
<1>. QED  BY <1>1, ComposerTypeCorrect, PTL DEF Spec, PacketIsMessage

(* The bytes that a call reports lie in the room it was given, and no      *)
(* other byte of the buffer is written.                                    *)
THEOREM WritesCorrect == Spec => OnlyTheEnvelopeIsWritten
<1>. DEFINE Size  == IF result'.type = "thrown" THEN 0 ELSE Len(EnvelopeOf(call'))
            Begin == IF result'.type = "packet" THEN result'.packet.first ELSE 0
            Kept  == \A i \in 1 .. BufferSize :
                       i \notin Begin + 1 .. Begin + Size => buffer'[i] = buffer[i]
<1>1. ComposerType /\ [Next]_composerVars =>
        [MakesCall /\ call'.form # "stream" =>
           Begin >= 0 /\ Begin + Size <= call'.room /\ Kept]_composerVars
  <2>. SUFFICES ASSUME ComposerType, [Next]_composerVars, MakesCall, call'.form # "stream"
                PROVE  Begin >= 0 /\ Begin + Size <= call'.room /\ Kept
    OBVIOUS
  <2>1. PICK kind \in Kind, hs \in Seq(Header), payloadLen \in Nat, room \in Nat :
          Calls(kind, hs, payloadLen, room)
    BY EveryCall
  <2>2. CASE ComposeToStream(kind, hs, payloadLen)
    BY <2>2, StreamCall DEF StreamDone, IsCall
  <2>. DEFINE env == Composed(OwnStream, kind, hs, payloadLen).text
  <2>3. ASSUME NEW form \in {"buffer", "prepend"}, NEW first \in Int,
               BufferDone(form, kind, hs, payloadLen, room, env, first),
               result'.type # "thrown", first >= 0, first + Len(env) <= room,
               Begin = first
        PROVE  Begin >= 0 /\ Begin + Size <= call'.room /\ Kept
    <3>. HIDE DEF env, Begin
    <3>1. /\ env = EnvelopeOf(call') /\ env \in Seq(Char) /\ call'.room = room
          /\ buffer' = Copied(buffer, first, env) /\ Size = Len(env)
      BY <2>3, EnvelopeOfCall DEF BufferDone
    <3>2. buffer \in Bytes
      BY DEF ComposerType
    <3>3. \A i \in 1 .. BufferSize :
            buffer'[i] = IF i - first \in 1 .. Len(env) THEN env[i - first] ELSE buffer[i]
      BY <3>1, <3>2, CopiedBytes, ZenonT(60)
    <3>4. Len(env) \in Nat
      BY <3>1
    <3>5. \A i \in 1 .. BufferSize :
            i \notin first + 1 .. first + Len(env) => i - first \notin 1 .. Len(env)
      BY <3>4
    <3>6. \A i \in 1 .. BufferSize :
            i \notin first + 1 .. first + Len(env) => buffer'[i] = buffer[i]
      BY <3>3, <3>5, Zenon
    <3>. QED  BY <2>3, <3>1, <3>6
  <2>6. ASSUME NEW form \in {"buffer", "prepend"}, NEW first,
               BufferDone(form, kind, hs, payloadLen, room, env, first), result'.type = "thrown"
        PROVE  Begin >= 0 /\ Begin + Size <= call'.room /\ Kept
    <3>1. Begin = 0 /\ Size = 0 /\ buffer' = buffer /\ call'.room = room
      BY <2>6 DEF BufferDone, IsCall
    <3>. QED  BY <3>1
  <2>4. CASE ComposeToBuffer(kind, hs, payloadLen, room)
    <3>1. /\ BufferDone("buffer", kind, hs, payloadLen, room, env, 0)
          /\ result'.type \in {"thrown", "size"}
      BY <2>4, BufferCall
    <3>. HIDE DEF env
    <3>4. CASE result'.type = "thrown"
      <4>. HIDE DEF Begin, Kept, Size
      <4>. QED  BY <2>6, <3>1, <3>4
    <3>5. SUFFICES ASSUME result'.type # "thrown"
                   PROVE  Begin >= 0 /\ Begin + Size <= call'.room /\ Kept
      BY <3>4
    <3>2. Begin = 0 /\ Len(env) <= room /\ Len(env) \in Nat
      BY <3>1, <3>5 DEF BufferDone, IsCall
    <3>3. 0 \in Int /\ 0 >= 0 /\ 0 + Len(env) <= room /\ "buffer" \in {"buffer", "prepend"}
      BY <3>2
    <3>. HIDE DEF Begin, Kept, Size
    <3>. QED  BY <2>3, <3>1, <3>2, <3>3, <3>5, Zenon
  <2>5. CASE Prepend(kind, hs, payloadLen, room)
    <3>. DEFINE first == room - Len(env)
    <3>1. /\ BufferDone("prepend", kind, hs, payloadLen, room, env, first)
          /\ result'.type # "thrown" => /\ result'.type = "packet"
                                        /\ result'.packet = PacketBefore(room, Len(env), payloadLen)
      BY <2>5, PrependCall
    <3>. HIDE DEF env
    <3>4. CASE result'.type = "thrown"
      <4>. HIDE DEF Begin, Kept, Size, first
      <4>. QED  BY <2>6, <3>1, <3>4
    <3>5. SUFFICES ASSUME result'.type # "thrown"
                   PROVE  Begin >= 0 /\ Begin + Size <= call'.room /\ Kept
      BY <3>4
    <3>2. Begin = first /\ Len(env) <= room /\ Len(env) \in Nat
      BY <3>1, <3>5 DEF BufferDone, IsCall, PacketBefore
    <3>3. /\ first \in Int /\ first >= 0 /\ first + Len(env) <= room
          /\ "prepend" \in {"buffer", "prepend"}
      BY <3>2
    <3>. HIDE DEF Begin, Kept, Size, first
    <3>. QED  BY <2>3, <3>1, <3>2, <3>3, <3>5, Zenon
  <2>. QED  BY <2>1, <2>2, <2>4, <2>5 DEF Calls
<1>. QED  BY <1>1, ComposerTypeCorrect, PTL DEF Spec, OnlyTheEnvelopeIsWritten

(* composedSize() tells to the byte how large a buffer a last chunk needs. *)
THEOREM LastChunkCorrect == Spec => []LastChunkFits
<1>1. Init => LastChunkFits
  BY DEF Init, LastChunkFits
<1>2. ComposerType /\ LastChunkFits /\ [Next]_composerVars => LastChunkFits'
  <2>. SUFFICES ASSUME ComposerType, LastChunkFits, [Next]_composerVars PROVE LastChunkFits'
    OBVIOUS
  <2>1. CASE ~MakesCall
    <3>1. call' = call /\ result' = result
      <4>1. ASSUME NEW kind \in Kind, NEW hs \in Seq(Header), NEW payloadLen \in Nat,
                   NEW room \in Nat
            PROVE  ~Calls(kind, hs, payloadLen, room)
        BY <2>1, StreamCall, BufferCall, PrependCall DEF Calls, StreamDone, BufferDone, MakesCall
      <4>. QED  BY <4>1, CallsOrReset DEF Reset, composerVars
    <3>. QED  BY <3>1 DEF LastChunkFits
  <2>2. CASE MakesCall
    <3>1. PICK kind \in Kind, hs \in Seq(Header), payloadLen \in Nat, room \in Nat :
            Calls(kind, hs, payloadLen, room)
      BY <2>2, EveryCall
    <3>2. CASE ComposeToStream(kind, hs, payloadLen)
      BY <3>2, StreamCall DEF StreamDone, IsCall, LastChunkFits
    <3>3. CASE ComposeToBuffer(kind, hs, payloadLen, room)
      <4>. DEFINE env == Composed(OwnStream, kind, hs, payloadLen).text
      <4>1. /\ BufferDone("buffer", kind, hs, payloadLen, room, env, 0)
            /\ kind = "lastChunk" =>
                 /\ result'.type = "thrown" <=> ~(Len(env) <= room)
                 /\ env = EnvelopeFor(tokens, kind, hs, payloadLen)
        BY <3>3, BufferCall
      <4>. HIDE DEF env
      <4>2. call'.kind = kind /\ call'.headers = hs /\ call'.room = room
        BY <4>1 DEF BufferDone, IsCall
      <4>3. CASE kind = "lastChunk"
        <5>1. Len(env) = composedSize(hs) + 7 /\ composedSize(hs) \in Nat
          BY <4>1, <4>3, LastChunkLength DEF EnvelopeFor
        <5>2. ~(Len(env) <= room) <=> room < composedSize(hs) + 7
          BY <5>1
        <5>. QED  BY <4>1, <4>2, <4>3, <5>2 DEF LastChunkFits
      <4>. QED  BY <4>2, <4>3 DEF LastChunkFits
    <3>4. CASE Prepend(kind, hs, payloadLen, room)
      BY <3>4, PrependCall DEF BufferDone, IsCall, LastChunkFits
    <3>. QED  BY <3>1, <3>2, <3>3, <3>4 DEF Calls
  <2>. QED  BY <2>1, <2>2
<1>. QED  BY <1>1, <1>2, ComposerTypeCorrect, PTL DEF Spec
=============================================================================
