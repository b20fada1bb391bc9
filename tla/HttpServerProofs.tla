-------------------------- MODULE HttpServerProofs --------------------------
(***************************************************************************)
(* What a client of HttpServer has got and what is left of its packet are  *)
(* the response, for any number of clients, any requests, any sizes of the *)
(* buffer and of responses, and partial sends of any sizes.                *)
(***************************************************************************)
EXTENDS HttpServer, SequenceTheorems, TLAPS

Byte == {"zero", "part", "end", "bad", "envelope", "body"} \X Nat

Buffer == [1 .. BufferSize -> Byte]

Packet == [first : Nat, second : Nat]

\* A packet that lies in the buffer.
InBuffer(pkt) == pkt \in Packet /\ pkt.first + pkt.second <= BufferSize

-----------------------------------------------------------------------------
(* Buffers and packets.                                                    *)

LEMMA CopiedType ==
  ASSUME NEW buf \in Buffer, NEW offset \in Int, NEW bytes \in Seq(Byte)
  PROVE  Copied(buf, offset, bytes) \in Buffer
<1>1. \A i \in DOMAIN bytes : bytes[i] \in Byte
  OBVIOUS
<1>. QED  BY <1>1 DEF Copied, Buffer

LEMMA CopiedAt ==
  ASSUME NEW buf \in Buffer, NEW offset \in Int, NEW bytes, NEW i \in Int,
         offset + i \in 1 .. BufferSize
  PROVE  Copied(buf, offset, bytes)[offset + i] =
           IF i \in DOMAIN bytes THEN bytes[i] ELSE buf[offset + i]
<1>. DEFINE k == offset + i
<1>1. k \in DOMAIN buf /\ k - offset = i
  BY DEF Buffer
<1>. HIDE DEF k
<1>2. Copied(buf, offset, bytes)[k] =
        IF k - offset \in DOMAIN bytes THEN bytes[k - offset] ELSE buf[k]
  BY <1>1 DEF Copied
<1>. QED  BY <1>1, <1>2 DEF k

LEMMA ContentsType ==
  ASSUME NEW buf \in Buffer, NEW pkt, InBuffer(pkt)
  PROVE  Contents(buf, pkt) \in Seq(Byte) /\ Len(Contents(buf, pkt)) = pkt.second
<1>1. pkt.first \in Nat /\ pkt.second \in Nat /\ pkt.first + pkt.second <= BufferSize
  BY DEF InBuffer, Packet
<1>2. \A i \in 1 .. pkt.second : buf[pkt.first + i] \in Byte
  BY <1>1, ServerAssumption DEF Buffer
<1>. QED  BY <1>1, <1>2 DEF Contents

LEMMA ResponseType ==
  ASSUME NEW e \in Nat, NEW b \in Nat
  PROVE  /\ Envelope(e) \in Seq(Byte) /\ Len(Envelope(e)) = e
         /\ Body(b) \in Seq(Byte) /\ Len(Body(b)) = b
BY DEF Envelope, Body, Byte

(* Once envelope and body have been copied into the buffer, the packet is  *)
(* the whole response.                                                     *)
LEMMA ComposedPacket ==
  ASSUME NEW buf \in Buffer, NEW e \in Nat, NEW b \in Nat,
         e <= EnvelopePartSize, b <= BufferSize - EnvelopePartSize
  PROVE  LET pkt == PacketBefore(EnvelopePartSize, e, b)
             composed == Copied(Copied(buf, EnvelopePartSize, Body(b)),
                                EnvelopePartSize - e, Envelope(e))
         IN  InBuffer(pkt) /\ composed \in Buffer
               /\ Contents(composed, pkt) = Envelope(e) \o Body(b)
<1>. DEFINE pkt == PacketBefore(EnvelopePartSize, e, b)
            withBody == Copied(buf, EnvelopePartSize, Body(b))
            composed == Copied(withBody, EnvelopePartSize - e, Envelope(e))
<1>1. BufferSize \in Nat /\ EnvelopePartSize \in Nat
  BY ServerAssumption
<1>2. pkt.first = EnvelopePartSize - e /\ pkt.second = e + b /\ InBuffer(pkt)
  BY <1>1 DEF PacketBefore, InBuffer, Packet
<1>3. withBody \in Buffer
  BY <1>1, ResponseType, CopiedType
<1>4. composed \in Buffer
  <2>. HIDE DEF withBody
  <2>. QED  BY <1>1, <1>3, ResponseType, CopiedType
<1>5. ASSUME NEW i \in 1 .. e PROVE composed[pkt.first + i] = Envelope(e)[i]
  <2>1. EnvelopePartSize - e + i \in 1 .. BufferSize /\ EnvelopePartSize - e \in Int
    BY <1>1
  <2>2. i \in DOMAIN Envelope(e)
    BY DEF Envelope
  <2>. HIDE DEF withBody
  <2>3. composed[EnvelopePartSize - e + i] = Envelope(e)[i]
    BY <1>3, <2>1, <2>2, CopiedAt
  <2>. QED  BY <1>2, <2>3
<1>6. ASSUME NEW i \in e + 1 .. e + b PROVE composed[pkt.first + i] = Body(b)[i - e]
  <2>1. /\ EnvelopePartSize + (i - e) \in 1 .. BufferSize
        /\ EnvelopePartSize - e + i = EnvelopePartSize + (i - e)
        /\ EnvelopePartSize - e \in Int /\ i - e \in Int
    BY <1>1
  <2>2. i - e \in DOMAIN Body(b) /\ i \notin DOMAIN Envelope(e)
    BY DEF Body, Envelope
  <2>3. withBody[EnvelopePartSize + (i - e)] = Body(b)[i - e]
    BY <1>1, <2>1, <2>2, CopiedAt
  <2>. HIDE DEF withBody
  <2>4. composed[EnvelopePartSize - e + i] = withBody[EnvelopePartSize - e + i]
    BY <1>3, <2>1, <2>2, CopiedAt
  <2>. QED  BY <1>2, <2>1, <2>3, <2>4
<1>7. Contents(composed, pkt) = Envelope(e) \o Body(b)
  <2>. HIDE DEF pkt, composed, withBody
  <2>1. /\ Contents(composed, pkt) \in Seq(Byte) /\ Len(Contents(composed, pkt)) = e + b
        /\ \A i \in 1 .. e + b : Contents(composed, pkt)[i] = composed[pkt.first + i]
    BY <1>2, <1>4, ContentsType DEF Contents
  <2>2. /\ Envelope(e) \o Body(b) \in Seq(Byte) /\ Len(Envelope(e) \o Body(b)) = e + b
        /\ \A i \in 1 .. e : (Envelope(e) \o Body(b))[i] = Envelope(e)[i]
        /\ \A i \in e + 1 .. e + b : (Envelope(e) \o Body(b))[i] = Body(b)[i - e]
    BY ResponseType
  <2>3. \A i \in 1 .. e + b : i \in 1 .. e \/ i \in e + 1 .. e + b
    OBVIOUS
  <2>4. \A i \in 1 .. e + b : Contents(composed, pkt)[i] = (Envelope(e) \o Body(b))[i]
    BY <1>5, <1>6, <2>1, <2>2, <2>3
  <2>. QED  BY <2>1, <2>2, <2>4
<1>. QED  BY <1>2, <1>4, <1>7

(* A partial send moves bytes from the front of the packet to the client.  *)
LEMMA SentPart ==
  ASSUME NEW buf \in Buffer, NEW pkt, InBuffer(pkt), NEW got \in Seq(Byte),
         NEW n \in 1 .. BufferSize, n <= pkt.second
  PROVE  /\ InBuffer(Advanced(pkt, n))
         /\ got \o SubSeq(Contents(buf, pkt), 1, n) \in Seq(Byte)
         /\ (got \o SubSeq(Contents(buf, pkt), 1, n)) \o Contents(buf, Advanced(pkt, n))
              = got \o Contents(buf, pkt)
<1>. DEFINE all == Contents(buf, pkt)
            sent == SubSeq(all, 1, n)
            left == Contents(buf, Advanced(pkt, n))
<1>1. /\ pkt.first \in Nat /\ pkt.second \in Nat /\ pkt.first + pkt.second <= BufferSize
      /\ BufferSize \in Nat
  BY ServerAssumption DEF InBuffer, Packet
<1>2. /\ Advanced(pkt, n).first = pkt.first + n /\ Advanced(pkt, n).second = pkt.second - n
      /\ InBuffer(Advanced(pkt, n))
  BY <1>1 DEF Advanced, InBuffer, Packet
<1>3. all \in Seq(Byte) /\ Len(all) = pkt.second
  BY ContentsType
<1>4. left \in Seq(Byte) /\ Len(left) = pkt.second - n
  BY <1>2, ContentsType
<1>5. \A i \in 1 .. pkt.second - n : left[i] = all[n + i]
  BY <1>1, <1>2 DEF Contents
<1>. HIDE DEF all, left
<1>6. sent \in Seq(Byte) /\ Len(sent) = n /\ \A i \in 1 .. n : sent[i] = all[i]
  BY <1>1, <1>3
<1>. HIDE DEF sent
<1>7. sent \o left = all
  <2>1. left = SubSeq(all, n + 1, Len(all))
    BY <1>1, <1>3, <1>4, <1>5
  <2>2. SubSeq(all, 1, n) \o SubSeq(all, n + 1, Len(all)) = SubSeq(all, 1, Len(all))
    BY <1>1, <1>3, ConcatAdjacentSubSeq
  <2>3. SubSeq(all, 1, Len(all)) = all
    BY <1>3
  <2>. QED  BY <2>1, <2>2, <2>3 DEF sent
<1>8. got \o sent \in Seq(Byte)
  BY <1>6, ConcatProperties
<1>9. (got \o sent) \o left = got \o all
  <2>1. (got \o sent) \o left = got \o (sent \o left)
    <3>1. sent \in Seq(Byte) /\ left \in Seq(Byte)
      BY <1>4, <1>6
    <3>. QED  BY <3>1
  <2>. QED  BY <1>7, <2>1, Zenon
<1>. QED  BY <1>2, <1>8, <1>9 DEF all, sent, left

-----------------------------------------------------------------------------
(* The invariant.  A task has one operation under way at most, so that it  *)
(* does not receive into the buffer it sends from; a client that has not   *)
(* been accepted, or whose task still receives, has got nothing.           *)

Part == {"part", "end", "bad"}

ServerTypeOK ==
  /\ request \in [Client -> Seq(Part)] /\ inbox \in [Client -> Seq(Part)]
  /\ pending \in [Client -> {{}, {"receive"}, {"send"}}]
  /\ buffer \in [Client -> Buffer] /\ packet \in [Client -> Packet]
  /\ received \in [Client -> Seq(Byte)]
  /\ response \in [Client -> Seq(Byte)]

Waiting(c) ==
  /\ request[c] = << >> => c \notin backlog /\ pending[c] = {}
  /\ c \in backlog => pending[c] = {}
  /\ request[c] = << >> \/ c \in backlog \/ pending[c] = {"receive"} => received[c] = << >>

Sending(c) ==
  "send" \in pending[c] =>
    InBuffer(packet[c]) /\ received[c] \o Contents(buffer[c], packet[c]) = response[c]

TaskInv(c) == Waiting(c) /\ Sending(c)

ServerInv == ServerTypeOK /\ \A c \in Client : TaskInv(c)

\* The variables of one task and its client, by which a step of another is told.
TaskUnchanged(c) ==
  /\ request'[c] = request[c] /\ pending'[c] = pending[c] /\ received'[c] = received[c]
  /\ buffer'[c] = buffer[c] /\ packet'[c] = packet[c] /\ response'[c] = response[c]
  /\ c \in backlog' <=> c \in backlog

LEMMA OthersInv ==
  ASSUME NEW c, TaskInv(c), TaskUnchanged(c)
  PROVE  TaskInv(c)'
<1>. SUFFICES Waiting(c)' /\ Sending(c)'
  BY DEF TaskInv
<1>1. Waiting(c)'
  BY DEF TaskInv, Waiting, TaskUnchanged
<1>2. Contents(buffer[c], packet[c])' = Contents(buffer[c], packet[c])
  BY DEF TaskUnchanged, Contents
<1>3. Sending(c)'
  BY <1>2 DEF TaskInv, Sending, TaskUnchanged, InBuffer, Packet
<1>. QED  BY <1>1, <1>3

LEMMA ConnectInv ==
  ASSUME ServerInv, NEW c \in Client, Connect(c)
  PROVE  ServerInv'
<1>1. PICK r \in Requests : /\ request' = [request EXCEPT ![c] = r]
                            /\ inbox' = [inbox EXCEPT ![c] = r]
  BY DEF Connect
<1>2. r \in Seq(Part) /\ r # << >>
  BY ServerAssumption DEF Part
<1>3. ServerTypeOK'
  BY <1>1, <1>2 DEF Connect, taskVars, ServerInv, ServerTypeOK, Packet, Buffer
<1>4. TaskInv(c)'
  BY <1>1, <1>2 DEF Connect, taskVars, ServerInv, ServerTypeOK, TaskInv, Waiting, Sending
<1>5. ASSUME NEW d \in Client, d # c PROVE TaskInv(d)'
  <2>1. TaskUnchanged(d)
    BY <1>1, <1>5 DEF Connect, taskVars, TaskUnchanged, ServerInv, ServerTypeOK
  <2>. QED  BY <2>1, OthersInv DEF ServerInv
<1>. QED  BY <1>3, <1>4, <1>5 DEF ServerInv

LEMMA AcceptInv ==
  ASSUME ServerInv, NEW c \in Client, Accept(c)
  PROVE  ServerInv'
<1>1. ServerTypeOK'
  BY DEF Accept, taskVars, ServerInv, ServerTypeOK, Packet, Buffer
<1>2. TaskInv(c)'
  <2>1. c \in backlog /\ request[c] # << >> /\ received[c] = << >>
    BY DEF Accept, ServerInv, TaskInv, Waiting
  <2>2. pending'[c] = {"receive"} /\ c \notin backlog'
    BY DEF Accept, ServerInv, ServerTypeOK
  <2>. QED  BY <2>1, <2>2 DEF Accept, TaskInv, Waiting, Sending
<1>3. ASSUME NEW d \in Client, d # c PROVE TaskInv(d)'
  <2>1. TaskUnchanged(d)
    BY <1>3 DEF Accept, taskVars, TaskUnchanged, ServerInv, ServerTypeOK
  <2>. QED  BY <2>1, OthersInv DEF ServerInv
<1>. QED  BY <1>1, <1>2, <1>3 DEF ServerInv

LEMMA OnErrorInv ==
  ASSUME ServerInv, NEW c \in Client, OnError(c)
  PROVE  ServerInv'
<1>1. pending[c] \in {{"receive"}, {"send"}} /\ pending' = [pending EXCEPT ![c] = {}]
  <2>1. PICK op \in pending[c] : pending' = [pending EXCEPT ![c] = @ \ {op}]
    BY DEF OnError, End
  <2>2. pending[c] \in {{"receive"}, {"send"}} /\ pending[c] \ {op} = {}
    BY <2>1 DEF ServerInv, ServerTypeOK
  <2>. QED  BY <2>1, <2>2
<1>2. ServerTypeOK'
  BY <1>1 DEF OnError, taskVars, ServerInv, ServerTypeOK, Packet, Buffer
<1>3. TaskInv(c)'
  <2>1. c \notin backlog /\ request[c] # << >>
    BY <1>1 DEF ServerInv, TaskInv, Waiting
  <2>2. pending'[c] = {}
    BY <1>1 DEF ServerInv, ServerTypeOK
  <2>. QED  BY <2>1, <2>2 DEF OnError, TaskInv, Waiting, Sending
<1>4. ASSUME NEW d \in Client, d # c PROVE TaskInv(d)'
  <2>1. TaskUnchanged(d)
    BY <1>1, <1>4 DEF OnError, taskVars, TaskUnchanged, ServerInv, ServerTypeOK
  <2>. QED  BY <2>1, OthersInv DEF ServerInv
<1>. QED  BY <1>2, <1>3, <1>4 DEF ServerInv

(* A receive that does not complete a request, or whose response is given  *)
(* up, changes the buffer of a task that sends nothing.                    *)
LEMMA ReceivedInv ==
  ASSUME ServerInv, NEW c \in Client, pending[c] = {"receive"},
         inbox' \in [Client -> Seq(Part)],
         NEW b \in Buffer, buffer' = [buffer EXCEPT ![c] = b],
         pending' = pending \/ pending' = [pending EXCEPT ![c] = {}],
         UNCHANGED <<packet, response, backlog, request, received>>
  PROVE  ServerInv'
<1>1. pending' \in [Client -> {{}, {"receive"}, {"send"}}]
  BY DEF ServerInv, ServerTypeOK
<1>2. ServerTypeOK'
  BY <1>1 DEF ServerInv, ServerTypeOK, Packet, Buffer
<1>3. TaskInv(c)'
  <2>1. c \notin backlog /\ request[c] # << >> /\ received[c] = << >>
    BY DEF ServerInv, TaskInv, Waiting
  <2>2. pending'[c] \in {{}, {"receive"}}
    BY DEF ServerInv, ServerTypeOK
  <2>. QED  BY <2>1, <2>2 DEF TaskInv, Waiting, Sending
<1>4. ASSUME NEW d \in Client, d # c PROVE TaskInv(d)'
  <2>1. TaskUnchanged(d)
    BY <1>4 DEF TaskUnchanged, ServerInv, ServerTypeOK
  <2>. QED  BY <2>1, OthersInv DEF ServerInv
<1>. QED  BY <1>2, <1>3, <1>4 DEF ServerInv

LEMMA RespondInv ==
  ASSUME ServerInv, NEW c \in Client, pending[c] = {"receive"},
         inbox' \in [Client -> Seq(Part)],
         NEW got \in Buffer, NEW e \in Nat, NEW b \in Nat,
         e <= EnvelopePartSize, b <= BufferSize - EnvelopePartSize,
         Respond(c, got, e, b),
         UNCHANGED <<backlog, request, received>>
  PROVE  ServerInv'
<1>. DEFINE pkt == PacketBefore(EnvelopePartSize, e, b)
            composed == Copied(Copied(got, EnvelopePartSize, Body(b)),
                               EnvelopePartSize - e, Envelope(e))
            answer == Envelope(e) \o Body(b)
<1>1. InBuffer(pkt) /\ composed \in Buffer /\ Contents(composed, pkt) = answer
  BY ComposedPacket
<1>2. answer \in Seq(Byte)
  BY ResponseType
<1>3. /\ packet' = [packet EXCEPT ![c] = pkt] /\ buffer' = [buffer EXCEPT ![c] = composed]
      /\ response' = [response EXCEPT ![c] = answer]
      /\ pending' = [pending EXCEPT ![c] = {"send"}]
  <2>1. (pending[c] \ {"receive"}) \cup {"send"} = {"send"}
    OBVIOUS
  <2>. QED  BY <2>1 DEF Respond, InsteadOf
<1>. HIDE DEF pkt, composed, answer
<1>4. ServerTypeOK'
  BY <1>1, <1>2, <1>3 DEF ServerInv, ServerTypeOK, InBuffer
<1>5. TaskInv(c)'
  <2>1. c \notin backlog /\ request[c] # << >> /\ received[c] = << >>
    BY DEF ServerInv, TaskInv, Waiting
  <2>2. /\ packet'[c] = pkt /\ buffer'[c] = composed /\ response'[c] = answer
        /\ pending'[c] = {"send"}
    BY <1>3 DEF ServerInv, ServerTypeOK
  <2>3. received[c] \o Contents(composed, pkt) = answer
    BY <1>1, <1>2, <2>1, ConcatEmptySeq
  <2>4. Sending(c)'
    BY <1>1, <2>2, <2>3 DEF Sending, InBuffer, Contents
  <2>5. Waiting(c)'
    BY <2>1, <2>2 DEF Waiting
  <2>. QED  BY <2>4, <2>5 DEF TaskInv
<1>6. ASSUME NEW d \in Client, d # c PROVE TaskInv(d)'
  <2>1. TaskUnchanged(d)
    BY <1>3, <1>6 DEF TaskUnchanged, ServerInv, ServerTypeOK
  <2>. QED  BY <2>1, OthersInv DEF ServerInv
<1>. QED  BY <1>4, <1>5, <1>6 DEF ServerInv

LEMMA OnReceiveInv ==
  ASSUME ServerInv, NEW c \in Client, NEW n \in 1 .. BufferSize, OnReceive(c, n)
  PROVE  ServerInv'
<1>. DEFINE bytes == SubSeq(inbox[c], 1, n)
            got == Copied(buffer[c], 0, Bytes(bytes))
<1>1. pending[c] = {"receive"} /\ n <= Len(inbox[c]) /\ inbox[c] \in Seq(Part)
  BY DEF OnReceive, ServerInv, ServerTypeOK
<1>2. inbox' \in [Client -> Seq(Part)]
  <2>1. SubSeq(inbox[c], n + 1, Len(inbox[c])) \in Seq(Part)
    BY <1>1
  <2>. QED  BY <2>1 DEF OnReceive, ServerInv, ServerTypeOK
<1>3. got \in Buffer
  <2>1. bytes \in Seq(Part)
    BY <1>1, ServerAssumption
  <2>. HIDE DEF bytes
  <2>2. Bytes(bytes) \in Seq(Byte)
    BY <2>1 DEF Bytes, Byte, Part
  <2>. QED  BY <2>2, CopiedType DEF ServerInv, ServerTypeOK
<1>4. UNCHANGED <<backlog, request, received>>
  BY DEF OnReceive
<1>5. pending[c] \ {"receive"} = {}
  BY <1>1
<1>. HIDE DEF got
<1>6. CASE /\ buffer' = [buffer EXCEPT ![c] = got]
           /\ Again(c) \/ End(c, "receive", "rejected")
           /\ UNCHANGED <<packet, response>>
  BY <1>1, <1>2, <1>3, <1>4, <1>5, <1>6, ReceivedInv DEF Again, End
<1>7. ASSUME NEW e \in EnvelopeSizes, NEW b \in BodySizes,
             b > BufferSize - EnvelopePartSize \/ e > EnvelopePartSize,
             buffer' = [buffer EXCEPT ![c] =
                          IF b > BufferSize - EnvelopePartSize THEN got
                          ELSE Copied(got, EnvelopePartSize, Body(b))],
             End(c, "receive", "no room"), UNCHANGED <<packet, response>>
      PROVE  ServerInv'
  <2>1. e \in Nat /\ b \in Nat /\ EnvelopePartSize \in Int
    BY ServerAssumption
  <2>2. Copied(got, EnvelopePartSize, Body(b)) \in Buffer
    BY <1>3, <2>1, ResponseType, CopiedType
  <2>. DEFINE left == IF b > BufferSize - EnvelopePartSize THEN got
                      ELSE Copied(got, EnvelopePartSize, Body(b))
  <2>3. left \in Buffer
    BY <1>3, <2>2
  <2>4. buffer' = [buffer EXCEPT ![c] = left]
    BY <1>7
  <2>. HIDE DEF left
  <2>. QED  BY <1>1, <1>2, <1>4, <1>5, <1>7, <2>3, <2>4, ReceivedInv DEF End
<1>8. ASSUME NEW e \in EnvelopeSizes, NEW b \in BodySizes,
             b <= BufferSize - EnvelopePartSize, e <= EnvelopePartSize, Respond(c, got, e, b)
      PROVE  ServerInv'
  BY <1>1, <1>2, <1>3, <1>4, <1>8, RespondInv, ServerAssumption
<1>. QED  BY <1>6, <1>7, <1>8 DEF OnReceive, got

LEMMA OnSendInv ==
  ASSUME ServerInv, NEW c \in Client, NEW n \in 1 .. BufferSize, OnSend(c, n)
  PROVE  ServerInv'
<1>. DEFINE pkt == packet[c]
            part == SubSeq(Contents(buffer[c], pkt), 1, n)
            rest == Advanced(pkt, n)
<1>1. pending[c] = {"send"} /\ n <= pkt.second
  BY DEF OnSend, ServerInv, ServerTypeOK
<1>2. InBuffer(pkt) /\ received[c] \o Contents(buffer[c], pkt) = response[c]
  BY <1>1 DEF ServerInv, TaskInv, Sending
<1>3. buffer[c] \in Buffer /\ received[c] \in Seq(Byte)
  BY DEF ServerInv, ServerTypeOK
<1>4. /\ InBuffer(rest) /\ received[c] \o part \in Seq(Byte)
      /\ (received[c] \o part) \o Contents(buffer[c], rest) = response[c]
  BY <1>1, <1>2, <1>3, SentPart
<1>5. /\ received' = [received EXCEPT ![c] = @ \o part]
      /\ packet' = [packet EXCEPT ![c] = rest]
      /\ UNCHANGED <<accepting, backlog, request, inbox, buffer, response>>
  BY DEF OnSend
<1>6. pending' = pending \/ pending' = [pending EXCEPT ![c] = {}]
  <2>1. pending[c] \ {"send"} = {}
    BY <1>1
  <2>. QED  BY <2>1 DEF OnSend, Again, End
<1>. HIDE DEF part, rest
<1>7. ServerTypeOK'
  <2>1. pending' \in [Client -> {{}, {"receive"}, {"send"}}]
    BY <1>6 DEF ServerInv, ServerTypeOK
  <2>. QED  BY <1>4, <1>5, <2>1 DEF ServerInv, ServerTypeOK, InBuffer
<1>8. TaskInv(c)'
  <2>1. c \notin backlog /\ request[c] # << >>
    BY <1>1 DEF ServerInv, TaskInv, Waiting
  <2>2. /\ packet'[c] = rest /\ received'[c] = received[c] \o part
        /\ pending'[c] \in {{}, {"send"}}
    BY <1>1, <1>5, <1>6 DEF ServerInv, ServerTypeOK
  <2>3. Sending(c)'
    <3>1. Contents(buffer[c], packet[c])' = Contents(buffer[c], rest)
      BY <1>5, <2>2 DEF Contents
    <3>2. InBuffer(packet[c])'
      BY <1>4, <2>2 DEF InBuffer, Packet
    <3>3. received'[c] \o Contents(buffer[c], rest) = response'[c]
      BY <1>4, <1>5, <2>2
    <3>. QED  BY <3>1, <3>2, <3>3 DEF Sending
  <2>4. Waiting(c)'
    BY <1>5, <2>1, <2>2 DEF Waiting
  <2>. QED  BY <2>3, <2>4 DEF TaskInv
<1>9. ASSUME NEW d \in Client, d # c PROVE TaskInv(d)'
  <2>1. TaskUnchanged(d)
    BY <1>5, <1>6, <1>9 DEF TaskUnchanged, ServerInv, ServerTypeOK
  <2>. QED  BY <2>1, OthersInv DEF ServerInv
<1>. QED  BY <1>7, <1>8, <1>9 DEF ServerInv

LEMMA ServerNext == ServerInv /\ [Next]_vars => ServerInv'
<1>. SUFFICES ASSUME ServerInv, [Next]_vars PROVE ServerInv'
  OBVIOUS
<1>1. CASE AcceptFails \/ UNCHANGED vars
  <2>1. UNCHANGED <<backlog, request, inbox, pending, taskVars, received>>
    BY <1>1 DEF AcceptFails, vars
  <2>2. ServerTypeOK'
    BY <2>1 DEF ServerInv, ServerTypeOK, taskVars, Packet, Buffer
  <2>3. ASSUME NEW c \in Client PROVE TaskInv(c)'
    BY <2>1, OthersInv DEF ServerInv, TaskUnchanged, taskVars
  <2>. QED  BY <2>2, <2>3 DEF ServerInv
<1>2. ASSUME NEW c \in Client,
             \/ Connect(c) \/ Accept(c) \/ OnError(c)
             \/ \E n \in 1 .. BufferSize : OnReceive(c, n) \/ OnSend(c, n)
      PROVE  ServerInv'
  BY <1>2, ConnectInv, AcceptInv, OnErrorInv, OnReceiveInv, OnSendInv
<1>. QED  BY <1>1, <1>2 DEF Next

LEMMA ServerInit == Init => ServerInv
<1>. SUFFICES ASSUME Init PROVE ServerInv
  OBVIOUS
<1>1. ServerTypeOK
  BY ServerAssumption DEF Init, ServerTypeOK, Buffer, Byte, Packet
<1>2. ASSUME NEW c \in Client PROVE TaskInv(c)
  BY DEF Init, TaskInv, Waiting, Sending
<1>. QED  BY <1>1, <1>2 DEF ServerInv

(* While a task sends, what its client has got and what the packet points  *)
(* to make up the response.                                                *)
THEOREM PacketCorrect == Spec => []PacketIsTheRest
<1>1. ServerInv => PacketIsTheRest
  BY DEF ServerInv, TaskInv, Sending, PacketIsTheRest
<1>. QED  BY <1>1, ServerInit, ServerNext, PTL DEF Spec

-----------------------------------------------------------------------------
(* Answers.  What a task has parsed while it goes on receiving are parts,  *)
(* so that the bytes which complete a request complete it as a whole.      *)

\* rest is what is left of r behind some parts.
Unread(r, rest) ==
  /\ Len(rest) <= Len(r)
  /\ Parts(r, Len(r) - Len(rest))
  /\ \A i \in 1 .. Len(rest) : rest[i] = r[Len(r) - Len(rest) + i]

LEMMA UnreadGoesOn ==
  ASSUME NEW r \in Seq(Part), NEW rest \in Seq(Part), Unread(r, rest),
         NEW n \in Nat, n <= Len(rest)
  PROVE  /\ Parsed(SubSeq(rest, 1, n)) = "incomplete" =>
              Unread(r, SubSeq(rest, n + 1, Len(rest)))
         /\ Parsed(SubSeq(rest, 1, n)) = "complete" => Parsed(r) = "complete"
<1>. DEFINE bytes == SubSeq(rest, 1, n)
            left  == SubSeq(rest, n + 1, Len(rest))
            k     == Len(r) - Len(rest)
<1>1. /\ Len(r) \in Nat /\ Len(rest) \in Nat /\ k \in Nat
      /\ Len(bytes) = n /\ \A i \in 1 .. n : bytes[i] = rest[i]
      /\ Len(left) = Len(rest) - n /\ \A i \in 1 .. Len(rest) - n : left[i] = rest[n + i]
      /\ DOMAIN bytes = 1 .. n /\ DOMAIN r = 1 .. Len(r)
  BY DEF Unread
<1>2. /\ Len(rest) <= Len(r) /\ \A i \in 1 .. k : r[i] = "part"
      /\ \A i \in 1 .. Len(rest) : rest[i] = r[k + i]
  BY DEF Unread, Parts
<1>. HIDE DEF bytes, left
<1>3. ASSUME Parts(bytes, n) PROVE Unread(r, left)
  <2>1. Len(r) - Len(left) = k + n
    BY <1>1
  <2>2. ASSUME NEW i \in 1 .. k + n PROVE r[i] = "part"
    <3>1. CASE i <= k
      BY <1>1, <1>2, <3>1
    <3>2. CASE i > k
      <4>1. i - k \in 1 .. n /\ i - k \in 1 .. Len(rest) /\ k + (i - k) = i
        BY <1>1, <3>2
      <4>2. bytes[i - k] = "part" /\ bytes[i - k] = rest[i - k] /\ rest[i - k] = r[k + (i - k)]
        BY <1>1, <1>2, <1>3, <4>1 DEF Parts
      <4>. QED  BY <4>1, <4>2
    <3>. QED  BY <1>1, <3>1, <3>2
  <2>3. ASSUME NEW i \in 1 .. Len(left) PROVE left[i] = r[k + n + i]
    <3>1. n + i \in 1 .. Len(rest) /\ k + (n + i) = k + n + i /\ i \in 1 .. Len(rest) - n
      BY <1>1
    <3>. QED  BY <1>1, <1>2, <3>1
  <2>. HIDE DEF k
  <2>. QED  BY <1>1, <1>2, <2>1, <2>2, <2>3 DEF Unread, Parts
<1>4. ASSUME NEW i \in 1 .. n, bytes[i] = "end", Parts(bytes, i - 1) PROVE Parsed(r) = "complete"
  <2>1. k + i \in 1 .. Len(r) /\ r[k + i] = "end"
    <3>1. i \in 1 .. Len(rest) /\ k + i \in 1 .. Len(r)
      BY <1>1, <1>2
    <3>. QED  BY <1>1, <1>2, <1>4, <3>1
  <2>2. ASSUME NEW j \in 1 .. (k + i) - 1 PROVE r[j] = "part"
    <3>1. CASE j <= k
      BY <1>1, <1>2, <3>1
    <3>2. CASE j > k
      <4>1. j - k \in 1 .. i - 1 /\ j - k \in 1 .. n /\ j - k \in 1 .. Len(rest) /\ k + (j - k) = j
        BY <1>1, <3>2
      <4>2. bytes[j - k] = "part" /\ bytes[j - k] = rest[j - k] /\ rest[j - k] = r[k + (j - k)]
        BY <1>1, <1>2, <1>4, <4>1 DEF Parts
      <4>. QED  BY <4>1, <4>2
    <3>. QED  BY <1>1, <3>1, <3>2
  <2>3. Parts(r, (k + i) - 1)
    BY <2>2 DEF Parts
  <2>4. ~Parts(r, Len(r))
    BY <2>1 DEF Parts
  <2>. QED  BY <1>1, <2>1, <2>3, <2>4 DEF Parsed
<1>5. Parsed(bytes) = "incomplete" => Parts(bytes, n)
  BY <1>1 DEF Parsed
<1>6. Parsed(bytes) = "complete" => \E i \in 1 .. n : bytes[i] = "end" /\ Parts(bytes, i - 1)
  BY <1>1 DEF Parsed
<1>. QED  BY <1>3, <1>4, <1>5, <1>6 DEF bytes, left

LEMMA NothingUnread == ASSUME NEW r \in Seq(Part) PROVE Unread(r, r)
<1>1. Len(r) \in Nat /\ Len(r) - Len(r) = 0
  OBVIOUS
<1>2. \A i \in 1 .. Len(r) : 0 + i = i
  OBVIOUS
<1>. QED  BY <1>1, <1>2 DEF Unread, Parts

LEMMA PrefixOfConcat ==
  ASSUME NEW s \in Seq(Byte), NEW t \in Seq(Byte)
  PROVE  IsPrefix(s, s \o t)
<1>1. s \o t \in Seq(Byte) /\ Len(s \o t) = Len(s) + Len(t) /\ Len(s) \in Nat /\ Len(t) \in Nat
  OBVIOUS
<1>2. SubSeq(s \o t, 1, Len(s)) = SubSeq(s, 1, Len(s))
  OBVIOUS
<1>. QED  BY <1>1, <1>2 DEF IsPrefix

Answer(c) ==
  /\ request[c] = << >> \/ c \in backlog => inbox[c] = request[c]
  /\ pending[c] = {"receive"} => Unread(request[c], inbox[c])
  /\ pending[c] = {"send"} => response[c] # << >>
  /\ pending[c] = {"send"} \/ received[c] # << >> => Parsed(request[c]) = "complete"
  /\ outcome[c] = "answered" =>
       pending[c] = {} /\ received[c] = response[c] /\ response[c] # << >>
  /\ IsPrefix(received[c], response[c])

OutcomeOK == outcome \in [Client -> {"none", "rejected", "no room", "answered", "error"}]

AnswerInv == ServerInv /\ OutcomeOK /\ \A c \in Client : Answer(c)

\* The step is one of the task of c, or of its client.
OnlyTask(c) ==
  \A d \in Client : d # c =>
    /\ request'[d] = request[d] /\ inbox'[d] = inbox[d] /\ pending'[d] = pending[d]
    /\ received'[d] = received[d] /\ response'[d] = response[d] /\ outcome'[d] = outcome[d]
    /\ d \in backlog' <=> d \in backlog

LEMMA OtherAnswers ==
  ASSUME AnswerInv, ServerInv', OutcomeOK', NEW c \in Client, OnlyTask(c), Answer(c)'
  PROVE  AnswerInv'
<1>1. ASSUME NEW d \in Client, d # c PROVE Answer(d)'
  BY <1>1, Zenon DEF AnswerInv, Answer, OnlyTask
<1>. QED  BY <1>1 DEF AnswerInv

LEMMA ConnectAnswer ==
  ASSUME AnswerInv, NEW c \in Client, Connect(c)
  PROVE  AnswerInv'
<1>1. PICK r \in Requests : /\ request' = [request EXCEPT ![c] = r]
                            /\ inbox' = [inbox EXCEPT ![c] = r]
  BY DEF Connect
<1>2. ServerInv' /\ ServerTypeOK
  BY ConnectInv DEF AnswerInv, ServerInv
<1>3. OnlyTask(c)
  BY <1>1, <1>2 DEF Connect, taskVars, OnlyTask, ServerTypeOK
<1>4. Answer(c)'
  <2>1. pending[c] = {} /\ received[c] = << >>
    BY DEF Connect, AnswerInv, ServerInv, TaskInv, Waiting
  <2>2. request'[c] = r /\ inbox'[c] = r
    BY <1>1, <1>2 DEF ServerTypeOK
  <2>. QED  BY <2>1, <2>2 DEF Connect, taskVars, AnswerInv, Answer
<1>5. OutcomeOK'
  BY DEF Connect, AnswerInv, OutcomeOK
<1>. QED  BY <1>2, <1>3, <1>4, <1>5, OtherAnswers

LEMMA AcceptAnswer ==
  ASSUME AnswerInv, NEW c \in Client, Accept(c)
  PROVE  AnswerInv'
<1>1. ServerInv' /\ ServerTypeOK
  BY AcceptInv DEF AnswerInv, ServerInv
<1>2. OnlyTask(c)
  BY <1>1 DEF Accept, taskVars, OnlyTask, ServerTypeOK
<1>3. Answer(c)'
  <2>1. /\ pending'[c] = {"receive"} /\ c \notin backlog' /\ received[c] = << >>
        /\ inbox[c] = request[c] /\ request[c] # << >> /\ request[c] \in Seq(Part)
    BY <1>1 DEF Accept, AnswerInv, Answer, ServerInv, TaskInv, Waiting, ServerTypeOK
  <2>2. Unread(request[c], inbox[c])
    BY <2>1, NothingUnread
  <2>3. outcome[c] # "answered"
    BY <2>1 DEF AnswerInv, Answer
  <2>4. /\ outcome'[c] = outcome[c] /\ request'[c] = request[c] /\ inbox'[c] = inbox[c]
        /\ received'[c] = received[c] /\ response'[c] = response[c]
        /\ IsPrefix(received[c], response[c])
    BY DEF Accept, taskVars, AnswerInv, Answer
  <2>. QED  BY <2>1, <2>2, <2>3, <2>4 DEF Answer
<1>4. OutcomeOK'
  BY DEF Accept, AnswerInv, OutcomeOK
<1>. QED  BY <1>1, <1>2, <1>3, <1>4, OtherAnswers

LEMMA EndAnswer ==
  ASSUME AnswerInv, NEW c \in Client, NEW op, NEW how \in {"rejected", "no room", "error"},
         pending[c] = {op}, End(c, op, how), ServerInv', OnlyTask(c),
         UNCHANGED <<backlog, request, received, response>>
  PROVE  AnswerInv'
<1>1. pending'[c] = {} /\ outcome'[c] = how
  BY DEF End, AnswerInv, ServerInv, ServerTypeOK, OutcomeOK
<1>2. c \notin backlog /\ request[c] # << >>
  BY DEF AnswerInv, ServerInv, TaskInv, Waiting
<1>3. Answer(c)'
  BY <1>1, <1>2 DEF AnswerInv, Answer
<1>4. OutcomeOK'
  BY DEF End, AnswerInv, OutcomeOK
<1>. QED  BY <1>3, <1>4, OtherAnswers

LEMMA OnErrorAnswer ==
  ASSUME AnswerInv, NEW c \in Client, OnError(c)
  PROVE  AnswerInv'
<1>1. PICK op \in pending[c] : End(c, op, "error")
  BY DEF OnError
<1>2. ServerInv' /\ ServerTypeOK
  BY OnErrorInv DEF AnswerInv, ServerInv
<1>3. pending[c] = {op}
  BY <1>1, <1>2 DEF ServerTypeOK
<1>4. OnlyTask(c)
  BY <1>1, <1>2 DEF OnError, End, taskVars, OnlyTask, ServerTypeOK, AnswerInv, OutcomeOK
<1>. QED  BY <1>1, <1>2, <1>3, <1>4, EndAnswer DEF OnError, taskVars

LEMMA OnReceiveAnswer ==
  ASSUME AnswerInv, NEW c \in Client, NEW n \in 1 .. BufferSize, OnReceive(c, n)
  PROVE  AnswerInv'
<1>. DEFINE bytes == SubSeq(inbox[c], 1, n)
            got == Copied(buffer[c], 0, Bytes(bytes))
<1>1. ServerInv' /\ ServerTypeOK /\ OutcomeOK
  BY OnReceiveInv DEF AnswerInv, ServerInv
<1>2. /\ pending[c] = {"receive"} /\ n <= Len(inbox[c]) /\ n \in Nat
      /\ inbox[c] \in Seq(Part) /\ request[c] \in Seq(Part)
  <2>1. n \in Nat
    BY ServerAssumption
  <2>2. "receive" \in pending[c] /\ n <= Len(inbox[c])
    BY DEF OnReceive
  <2>. QED  BY <1>1, <2>1, <2>2 DEF ServerTypeOK
<1>3. /\ inbox'[c] = SubSeq(inbox[c], n + 1, Len(inbox[c]))
      /\ UNCHANGED <<backlog, request, received>>
  BY <1>1 DEF OnReceive, ServerTypeOK
<1>4. /\ Parsed(bytes) = "incomplete" => Unread(request[c], inbox'[c])
      /\ Parsed(bytes) = "complete" => Parsed(request[c]) = "complete"
  BY <1>2, <1>3, UnreadGoesOn DEF AnswerInv, Answer
<1>5. /\ c \notin backlog /\ request[c] # << >> /\ received[c] = << >>
      /\ outcome[c] # "answered" /\ IsPrefix(received[c], response[c])
  BY <1>2 DEF AnswerInv, Answer, ServerInv, TaskInv, Waiting
<1>6. \A d \in Client : d # c => inbox'[d] = inbox[d]
  BY <1>1 DEF OnReceive, ServerTypeOK
<1>. HIDE DEF bytes, got
<1>7. CASE /\ Parsed(bytes) = "incomplete" /\ Again(c) /\ UNCHANGED <<packet, response>>
  <2>1. OnlyTask(c)
    BY <1>3, <1>6, <1>7 DEF Again, OnlyTask
  <2>2. Answer(c)'
    BY <1>2, <1>3, <1>4, <1>5, <1>7 DEF Again, Answer
  <2>3. OutcomeOK'
    BY <1>1, <1>7 DEF Again, OutcomeOK
  <2>. QED  BY <1>1, <2>1, <2>2, <2>3, OtherAnswers
<1>8. ASSUME NEW how \in {"rejected", "no room"}, End(c, "receive", how), UNCHANGED response
      PROVE  AnswerInv'
  <2>1. OnlyTask(c)
    BY <1>1, <1>3, <1>6, <1>8 DEF End, OnlyTask, ServerTypeOK, OutcomeOK
  <2>. QED  BY <1>1, <1>2, <1>3, <1>8, <2>1, EndAnswer
<1>9. ASSUME Parsed(bytes) = "complete", NEW e \in EnvelopeSizes, NEW b \in BodySizes,
             Respond(c, got, e, b)
      PROVE  AnswerInv'
  <2>1. pending' = [pending EXCEPT ![c] = {"send"}]
    <3>1. (pending[c] \ {"receive"}) \cup {"send"} = {"send"}
      BY <1>2
    <3>. QED  BY <1>9, <3>1 DEF Respond, InsteadOf
  <2>2. e \in Nat \ {0} /\ b \in Nat
    BY ServerAssumption
  <2>3. response'[c] = Envelope(e) \o Body(b) /\ UNCHANGED outcome
    BY <1>1, <1>9 DEF Respond, ServerTypeOK
  <2>4. response'[c] \in Seq(Byte) /\ Len(response'[c]) = e + b
    BY <2>2, <2>3, ResponseType
  <2>5. response'[c] # << >> /\ IsPrefix(<< >>, response'[c])
    <3>1. Len(response'[c]) # 0 /\ Len(<< >>) = 0
      BY <2>2, <2>4
    <3>2. SubSeq(<< >>, 1, 0) = SubSeq(response'[c], 1, 0)
      BY <2>4
    <3>. QED  BY <2>2, <2>4, <3>1, <3>2 DEF IsPrefix
  <2>6. Answer(c)'
    BY <1>1, <1>3, <1>4, <1>5, <1>9, <2>1, <2>3, <2>5 DEF Answer, ServerTypeOK
  <2>7. OnlyTask(c)
    BY <1>1, <1>3, <1>6, <1>9, <2>1, <2>3 DEF Respond, OnlyTask, ServerTypeOK
  <2>8. OutcomeOK'
    BY <1>1, <2>3 DEF OutcomeOK
  <2>. QED  BY <1>1, <2>6, <2>7, <2>8, OtherAnswers
<1>. QED  BY <1>7, <1>8, <1>9 DEF OnReceive, bytes, got

LEMMA OnSendAnswer ==
  ASSUME AnswerInv, NEW c \in Client, NEW n \in 1 .. BufferSize, OnSend(c, n)
  PROVE  AnswerInv'
<1>. DEFINE left == Contents(buffer'[c], packet'[c])
<1>1. ServerInv' /\ ServerTypeOK /\ OutcomeOK /\ ServerTypeOK'
  BY OnSendInv DEF AnswerInv, ServerInv
<1>2. pending[c] = {"send"} /\ UNCHANGED <<backlog, request, inbox, response>>
  BY <1>1 DEF OnSend, ServerTypeOK
<1>3. /\ c \notin backlog /\ request[c] # << >>
      /\ response[c] # << >> /\ Parsed(request[c]) = "complete" /\ outcome[c] # "answered"
  BY <1>2 DEF AnswerInv, Answer, ServerInv, TaskInv, Waiting
<1>4. InBuffer(packet'[c]) /\ received'[c] \o left = response[c]
  <2>. DEFINE part == SubSeq(Contents(buffer[c], packet[c]), 1, n)
  <2>1. InBuffer(packet[c]) /\ received[c] \o Contents(buffer[c], packet[c]) = response[c]
    BY <1>2 DEF AnswerInv, ServerInv, TaskInv, Sending
  <2>2. /\ InBuffer(Advanced(packet[c], n))
        /\ (received[c] \o part) \o Contents(buffer[c], Advanced(packet[c], n)) = response[c]
    BY <1>1, <2>1, SentPart DEF OnSend, ServerTypeOK
  <2>3. /\ packet'[c] = Advanced(packet[c], n) /\ received'[c] = received[c] \o part
        /\ buffer'[c] = buffer[c]
    BY <1>1 DEF OnSend, ServerTypeOK
  <2>. QED  BY <2>2, <2>3
<1>5. left \in Seq(Byte) /\ received'[c] \in Seq(Byte) /\ Len(left) = packet'[c].second
  BY <1>1, <1>4, ContentsType DEF ServerTypeOK
<1>. HIDE DEF left
<1>6. IsPrefix(received'[c], response'[c])
  BY <1>2, <1>4, <1>5, PrefixOfConcat
<1>7. ASSUME IsSent(packet'[c]) PROVE received'[c] = response[c]
  <2>1. Len(left) = 0
    BY <1>4, <1>5, <1>7 DEF IsSent, InBuffer, Packet
  <2>2. left = << >>
    BY <1>5, <2>1, EmptySeq
  <2>. QED  BY <1>4, <1>5, <2>2, ConcatEmptySeq
<1>8. \A d \in Client : d # c => received'[d] = received[d]
  BY <1>1 DEF OnSend, ServerTypeOK
<1>9. CASE IsSent(packet'[c]) /\ End(c, "send", "answered")
  <2>1. pending'[c] = {} /\ outcome'[c] = "answered"
    BY <1>1, <1>2, <1>9 DEF End, ServerTypeOK, OutcomeOK
  <2>2. Answer(c)'
    BY <1>2, <1>3, <1>6, <1>7, <1>9, <2>1 DEF Answer
  <2>3. OnlyTask(c)
    BY <1>1, <1>2, <1>8, <1>9 DEF End, OnlyTask, ServerTypeOK, OutcomeOK
  <2>4. OutcomeOK'
    BY <1>1, <1>9 DEF End, OutcomeOK
  <2>. QED  BY <1>1, <2>2, <2>3, <2>4, OtherAnswers
<1>10. CASE Again(c)
  <2>1. Answer(c)'
    BY <1>2, <1>3, <1>6, <1>10 DEF Again, Answer
  <2>2. OnlyTask(c)
    BY <1>2, <1>8, <1>10 DEF Again, OnlyTask
  <2>3. OutcomeOK'
    BY <1>1, <1>10 DEF Again, OutcomeOK
  <2>. QED  BY <1>1, <2>1, <2>2, <2>3, OtherAnswers
<1>. QED  BY <1>9, <1>10 DEF OnSend

LEMMA AnswerNext == AnswerInv /\ [Next]_vars => AnswerInv'
<1>. SUFFICES ASSUME AnswerInv, [Next]_vars PROVE AnswerInv'
  OBVIOUS
<1>1. CASE AcceptFails \/ UNCHANGED vars
  <2>1. UNCHANGED <<backlog, request, inbox, pending, taskVars, received, outcome>>
    BY <1>1 DEF AcceptFails, vars
  <2>2. ServerInv'
    BY ServerNext DEF AnswerInv
  <2>. QED  BY <2>1, <2>2 DEF AnswerInv, OutcomeOK, Answer, taskVars
<1>2. ASSUME NEW c \in Client,
             \/ Connect(c) \/ Accept(c) \/ OnError(c)
             \/ \E n \in 1 .. BufferSize : OnReceive(c, n) \/ OnSend(c, n)
      PROVE  AnswerInv'
  BY <1>2, ConnectAnswer, AcceptAnswer, OnErrorAnswer, OnReceiveAnswer, OnSendAnswer
<1>. QED  BY <1>1, <1>2 DEF Next

(* A client gets its response whole, in order and once, unless there was an*)
(* error, and gets nothing for a request the parser has not completed.     *)
THEOREM AnsweredCorrect == Spec => []AnsweredInFull
<1>1. Init => AnswerInv
  <2>. SUFFICES ASSUME Init PROVE AnswerInv
    OBVIOUS
  <2>1. ServerInv /\ OutcomeOK
    BY ServerInit DEF Init, OutcomeOK
  <2>2. IsPrefix(<< >>, << >>)
    BY DEF IsPrefix
  <2>3. ASSUME NEW c \in Client PROVE Answer(c)
    BY <2>2 DEF Init, Answer
  <2>. QED  BY <2>1, <2>3 DEF AnswerInv
<1>2. AnswerInv => AnsweredInFull
  BY DEF AnswerInv, Answer, AnsweredInFull
<1>. QED  BY <1>1, <1>2, AnswerNext, PTL DEF Spec

=============================================================================
