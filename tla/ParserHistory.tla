--------------------------- MODULE ParserHistory ---------------------------
(***************************************************************************)
(* A MessageParser and a user who goes on with it whatever it answers: it  *)
(* drops a character that parse(char) has refused and offers the next one. *)
(* The user keeps the body, as parse(buf, len, os) does, and the model the *)
(* characters the parser has taken since the message began, its history.   *)
(***************************************************************************)
EXTENDS MessageParser, MessageText

VARIABLES
  taken,                      \* the characters of the message so far
  body                        \* the stream os

historyVars == <<vars, taken, body>>

-----------------------------------------------------------------------------

Took == result'.type = "returned"

ParseAndKeep(ch) ==
  LET soFar(str) == IF isCompleted THEN << >> ELSE str
  IN  /\ Parse(ch)
      /\ taken' = IF Took THEN Append(soFar(taken), ch) ELSE taken
      /\ body'  = IF Took THEN (IF result'.isBodyChar THEN Append(soFar(body), ch)
                                                      ELSE soFar(body)) ELSE body

ResetAndForget ==
  /\ Reset
  /\ taken' = << >> /\ body' = << >>

HistoryInit == Init /\ taken = << >> /\ body = << >>

HistoryNext ==
  \/ \E ch \in Offered[state] : WithinBounds(ch) /\ ParseAndKeep(ch)
  \/ ResetAndForget

HistorySpec == HistoryInit /\ [][HistoryNext]_historyVars

-----------------------------------------------------------------------------
(* Properties                                                              *)

(* A completed message is the text the parser has taken, read as a whole:  *)
(* its tokens, its headers with those of the trailer, unfolded and in the  *)
(* order of the multimap, its body, and its last character.  Nothing is    *)
(* left of messages before, of fields before, or of characters the parser  *)
(* has refused, however often its user has gone on after an exception.     *)
CompletedMessageIsItsText ==
  isCompleted /\ taken # << >> =>
    Reading(taken) = [first |-> firstToken, second |-> secondToken, third |-> thirdToken,
                      headers |-> headers, body |-> body, size |-> Len(taken)]

(* pos(), line() and col() tell where the next character is in the text of *)
(* the message, so that an exception reports the place of the refused one: *)
(* refused characters do not count.                                        *)
PositionIsPlaceInText ==
  LET breaks == {i \in DOMAIN taken : isLineFeed(taken[i])}
  IN  /\ pos = Len(taken)
      /\ line = Cardinality(breaks) + 1
      /\ col = Len(taken) - (IF breaks = {} THEN 0 ELSE Max(breaks)) + 1
=============================================================================
