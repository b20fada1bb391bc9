-------------------------- MODULE ChunkedScenario --------------------------
(***************************************************************************)
(* The program in the documentation of MessageComposer that sends words    *)
(* from the standard input as chunks, message_composer.h:29-52, with the   *)
(* composer it calls.                                                      *)
(***************************************************************************)
EXTENDS Envelope

CONSTANTS
  StartLine, InitialHeaders, LastHeaders,
  Inputs                      \* the words that may come, in sequences

VARIABLES
  cin,                        \* the words not yet read
  good,                       \* the state of std::cin
  isFirstChunk,
  sent,
  outcome                     \* "running", "sent" or "thrown"

scenarioVars == <<cin, good, isFirstChunk, sent, outcome>>

\* std::cin >> s leaves s empty at the end of the input, and the stream bad.
Word == IF cin = << >> THEN << >> ELSE Head(cin)

ReadWord ==
  /\ cin' = IF cin = << >> THEN << >> ELSE Tail(cin)
  /\ good' = (cin # << >>)

ChunkFor(s) ==
  IF isFirstChunk THEN composeFirstChunkEnvelope(StartLine, InitialHeaders, Len(s)) \o s
                  ELSE composeNextChunkEnvelope(Len(s)) \o s

\* The body of the loop.  What the composer throws nobody catches.
SendChunk ==
  /\ outcome = "running" /\ good
  /\ ReadWord
  /\ \/ /\ RejectsChunk(Len(Word))
        /\ outcome' = "thrown"
        /\ UNCHANGED <<isFirstChunk, sent>>
     \/ /\ ~RejectsChunk(Len(Word))
        /\ sent' = sent \o ChunkFor(Word)
        /\ isFirstChunk' = FALSE
        /\ UNCHANGED outcome

SendLastChunk ==
  /\ outcome = "running" /\ ~good
  /\ sent' = sent \o composeLastChunk(LastHeaders)
  /\ outcome' = "sent"
  /\ UNCHANGED <<cin, good, isFirstChunk>>

Init ==
  /\ cin \in Inputs /\ good = TRUE /\ isFirstChunk = TRUE
  /\ sent = << >> /\ outcome = "running"

Next == SendChunk \/ SendLastChunk

Spec == Init /\ [][Next]_scenarioVars

(* Chunked transmission "should be implemented similar to following        *)
(* scenario": the composer takes the calls the scenario makes.  It does    *)
(* not: the last std::cin >> s reads nothing, and the envelope of an empty *)
(* chunk is an exception, in front of composeLastChunk().                  *)
ScenarioIsAccepted == outcome # "thrown"
=============================================================================
