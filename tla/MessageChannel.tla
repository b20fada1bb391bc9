--------------------------- MODULE MessageChannel ---------------------------
(***************************************************************************)
(* What a composer and a parser at the two ends of a connection promise    *)
(* together: every message arrives, once, in order and as it was sent.     *)
(***************************************************************************)
EXTENDS Naturals, Sequences

CONSTANT Message

VARIABLES sent, received

channelVars == <<sent, received>>

Init == sent = << >> /\ received = << >>

Send(m) == sent' = Append(sent, m) /\ UNCHANGED received

Deliver ==
  /\ Len(received) < Len(sent)
  /\ received' = Append(received, sent[Len(received) + 1])
  /\ UNCHANGED sent

Next == (\E m \in Message : Send(m)) \/ Deliver

Safety == Init /\ [][Next]_channelVars

\* The channel delivers what was sent; nobody has to send.
Spec == Safety /\ WF_channelVars(Deliver)
=============================================================================
