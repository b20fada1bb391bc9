----------------------------- MODULE HttpServer -----------------------------
(***************************************************************************)
(* The example server of httpd_file_browser.cpp: accept_handler() starts an*)
(* HttpTask for every connection, whose handlers on_receive() and on_send()*)
(* share one buffer.  All handlers run on the one thread in service.run(), *)
(* each to its end, in the order in which their operations complete.       *)
(*                                                                         *)
(* The parser is what parse(buf, len, os) answers: a request is a sequence *)
(* of "part"s that ends with an "end", and a "bad" byte makes it throw.    *)
(***************************************************************************)
EXTENDS Buffers, SequencesExt

CONSTANTS
  Client,
  Requests,                   \* what a client may send, of "part", "end" and "bad"
  BufferSize, EnvelopePartSize,
  EnvelopeSizes, BodySizes    \* the sizes a response may have

ASSUME ServerAssumption ==
  /\ Requests \subseteq Seq({"part", "end", "bad"}) \ {<< >>}
  /\ BufferSize \in Nat \ {0} /\ EnvelopePartSize \in 0 .. BufferSize
  /\ EnvelopeSizes \subseteq Nat \ {0} /\ BodySizes \subseteq Nat

VARIABLES
  accepting,                  \* an async_accept() is under way
  backlog,                    \* the clients that have connected and wait for it
  request,                    \* what each client has sent, in the end
  inbox,                      \* the bytes of it the task has not received
  pending,                    \* the operations of each task; it lives as long as it has one
  buffer, packet,             \* the task's _buffer and _packet
  response,                   \* what the task means to send
  received,                   \* what the client has got of it
  outcome                     \* how the task ended

taskVars == <<buffer, packet, response>>
vars     == <<accepting, backlog, request, inbox, pending, taskVars, received, outcome>>

\* A byte of a buffer: of a request, or a numbered one of a response.
Bytes(r)       == [i \in DOMAIN r |-> <<r[i], 0>>]
Envelope(size) == [i \in 1 .. size |-> <<"envelope", i>>]
Body(size)     == [i \in 1 .. size |-> <<"body", i>>]

-----------------------------------------------------------------------------

Connect(c) ==
  /\ request[c] = << >>
  /\ \E r \in Requests :
       /\ request' = [request EXCEPT ![c] = r]
       /\ inbox'   = [inbox EXCEPT ![c] = r]
  /\ backlog' = backlog \cup {c}
  /\ UNCHANGED <<accepting, pending, taskVars, received, outcome>>

\* accept_handler(): the next accept and the task's first receive are started.
Accept(c) ==
  /\ accepting /\ c \in backlog
  /\ backlog' = backlog \ {c}
  /\ pending' = [pending EXCEPT ![c] = {"receive"}]
  /\ UNCHANGED <<accepting, request, inbox, taskVars, received, outcome>>

\* On an error it returns, and nobody accepts again.
AcceptFails ==
  /\ accepting
  /\ accepting' = FALSE
  /\ UNCHANGED <<backlog, request, inbox, pending, taskVars, received, outcome>>

\* The handler of op starts no other: the task is destroyed and closes its socket.
End(c, op, how) ==
  /\ pending' = [pending EXCEPT ![c] = @ \ {op}]
  /\ outcome' = [outcome EXCEPT ![c] = how]

\* The first n bytes complete no request and break none.
Parts(bytes, n) == \A i \in 1 .. n : bytes[i] = "part"

\* What parse() answers of some bytes: "incomplete", or what the first byte
\* that is not just a part makes of them.
Parsed(bytes) ==
  IF Parts(bytes, Len(bytes)) THEN "incomplete"
  ELSE IF \E i \in DOMAIN bytes : bytes[i] = "end" /\ Parts(bytes, i - 1)
       THEN "complete" ELSE "thrown"

\* A bug that would go on receiving while it sends.
MutantInsteadOf(c, op, next) == pending' = [pending EXCEPT ![c] = @ \cup {next}]

\* The handler of op has started the operation next.
InsteadOf(c, op, next) == pending' = [pending EXCEPT ![c] = (@ \ {op}) \cup {next}]

\* A bug that would not start the operation again.
MutantAgain(c) == pending' = [pending EXCEPT ![c] = {}] /\ UNCHANGED outcome

\* The handler has started the same operation again.
Again(c) == UNCHANGED <<pending, outcome>>

\* The response is composed in the buffer that held the request.
Respond(c, received_, e, b) ==
  /\ packet'   = [packet EXCEPT ![c] = PacketBefore(EnvelopePartSize, e, b)]
  /\ response' = [response EXCEPT ![c] = Envelope(e) \o Body(b)]
  /\ buffer'   = [buffer EXCEPT ![c] =
                    Copied(Copied(received_, EnvelopePartSize, Body(b)),
                           EnvelopePartSize - e, Envelope(e))]
  /\ InsteadOf(c, "receive", "send")
  /\ UNCHANGED outcome

\* on_receive(), with n bytes.
OnReceive(c, n) ==
  /\ "receive" \in pending[c] /\ n <= Len(inbox[c])
  /\ inbox' = [inbox EXCEPT ![c] = SubSeq(@, n + 1, Len(@))]
  /\ LET bytes     == SubSeq(inbox[c], 1, n)
         received_ == Copied(buffer[c], 0, Bytes(bytes))
     IN  \/ /\ Parsed(bytes) = "incomplete"
            /\ buffer' = [buffer EXCEPT ![c] = received_]
            /\ Again(c)
            /\ UNCHANGED <<packet, response>>
         \/ /\ Parsed(bytes) = "thrown"
            /\ buffer' = [buffer EXCEPT ![c] = received_]
            /\ End(c, "receive", "rejected")
            /\ UNCHANGED <<packet, response>>
         \/ /\ Parsed(bytes) = "complete"
            /\ \E e \in EnvelopeSizes, b \in BodySizes :
                 \/ /\ b > BufferSize - EnvelopePartSize \/ e > EnvelopePartSize
                    /\ buffer' = [buffer EXCEPT ![c] =
                                    IF b > BufferSize - EnvelopePartSize THEN received_
                                    ELSE Copied(received_, EnvelopePartSize, Body(b))]
                    /\ End(c, "receive", "no room")
                    /\ UNCHANGED <<packet, response>>
                 \/ /\ b <= BufferSize - EnvelopePartSize /\ e <= EnvelopePartSize
                    /\ Respond(c, received_, e, b)
  /\ UNCHANGED <<accepting, backlog, request, received>>

Advanced(pkt, n) == [first |-> pkt.first + n, second |-> pkt.second - n]

\* A bug that would take a partial send for the whole.
MutantIsSent(pkt) == TRUE

IsSent(pkt) == pkt.second <= 0

\* on_send(): n bytes have left the buffer, and the rest is sent.
OnSend(c, n) ==
  /\ "send" \in pending[c] /\ n <= packet[c].second
  /\ received' = [received EXCEPT ![c] = @ \o SubSeq(Contents(buffer[c], packet[c]), 1, n)]
  /\ packet'   = [packet EXCEPT ![c] = Advanced(@, n)]
  /\ IF IsSent(packet'[c]) THEN End(c, "send", "answered") ELSE Again(c)
  /\ UNCHANGED <<accepting, backlog, request, inbox, buffer, response>>

\* Either handler, with an error: the client has gone, or the network has.
OnError(c) ==
  /\ \E op \in pending[c] : End(c, op, "error")
  /\ UNCHANGED <<accepting, backlog, request, inbox, taskVars, received>>

Init ==
  /\ accepting = TRUE /\ backlog = {}
  /\ request = [c \in Client |-> << >>] /\ inbox = request
  /\ pending = [c \in Client |-> {}]
  /\ buffer = [c \in Client |-> [i \in 1 .. BufferSize |-> <<"zero", 0>>]]
  /\ packet = [c \in Client |-> [first |-> 0, second |-> 0]]
  /\ response = [c \in Client |-> << >>] /\ received = response
  /\ outcome = [c \in Client |-> "none"]

Next ==
  \/ AcceptFails
  \/ \E c \in Client :
       \/ Connect(c) \/ Accept(c) \/ OnError(c)
       \/ \E n \in 1 .. BufferSize : OnReceive(c, n) \/ OnSend(c, n)

\* The event loop runs every handler whose operation has completed: a receive
\* once there is something to receive, a send because the network takes bytes.
\* No client has to connect or to send all of its request, nothing has to fail.
Fairness ==
  \A c \in Client :
    /\ WF_vars(Accept(c))
    /\ WF_vars(\E n \in 1 .. BufferSize : OnReceive(c, n))
    /\ WF_vars(\E n \in 1 .. BufferSize : OnSend(c, n))

Spec == Init /\ [][Next]_vars /\ Fairness

-----------------------------------------------------------------------------
(* Properties                                                              *)

(* While a task sends, what its client has got and what _packet still      *)
(* points to make up the response, whatever the sizes of the partial sends *)
(* and whatever else the client has sent: the buffer, which held the       *)
(* request, is not written again before the last byte has left it.         *)
PacketIsTheRest ==
  \A c \in Client : "send" \in pending[c] =>
    received[c] \o Contents(buffer[c], packet[c]) = response[c]

(* A client gets its response whole, in order and once, unless there was an*)
(* error, and gets nothing for a request the parser has not completed.     *)
AnsweredInFull ==
  \A c \in Client :
    /\ outcome[c] = "answered" => received[c] = response[c] /\ response[c] # << >>
    /\ received[c] # << >> => Parsed(request[c]) = "complete"
    /\ IsPrefix(received[c], response[c])

(* Every client that sends a whole request is answered in the end, however *)
(* slow the others are, unless an error ends its task, its response does   *)
(* not fit the buffer, or the server has stopped accepting before its turn.*)
EveryRequestEnds ==
  \A c \in Client :
    Parsed(request[c]) # "incomplete" ~> outcome[c] # "none" \/ (~accepting /\ c \in backlog)
=============================================================================
