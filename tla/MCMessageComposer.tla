------------------------- MODULE MCMessageComposer -------------------------
(***************************************************************************)
(* An instance of MessageComposer for TLC: a buffer in which the longest   *)
(* envelope just fits, and payloads of 0, 1 and 12 bytes, whose lengths    *)
(* are written differently in decimal and in hex.                          *)
(***************************************************************************)
EXTENDS MessageComposer

MCTransferEncoding == <<84>>     \* "T"
MCContentLength    == <<76>>     \* "L"
MCChunked          == <<99>>     \* "c"

MCTokens == { << <<71>>, <<47>>, <<72>> >>, << <<72>>, <<50, 48>>, <<79, SP, 75>> >> }

Entry(name, v) == [name |-> name, value |-> v]

\* No headers, and one of the caller's beside the framing of another message.
MCHeaderSets ==
  { << >>, <<Entry(<<108>>, <<57>>), Entry(<<116>>, <<99>>), Entry(<<120>>, <<121>>)>> }
=============================================================================
