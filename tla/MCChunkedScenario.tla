------------------------- MODULE MCChunkedScenario -------------------------
(***************************************************************************)
(* An instance of ChunkedScenario for TLC: one word or two.                *)
(***************************************************************************)
EXTENDS ChunkedScenario

MCTransferEncoding == <<84>>     \* "T"
MCContentLength    == <<76>>     \* "L"
MCChunked          == <<99>>     \* "c"

MCStartLine   == << <<71>>, <<47>>, <<72>> >>
MCLastHeaders == <<[name |-> <<120>>, value |-> <<121>>]>>
MCInputs      == { << <<97>> >>, << <<97>>, <<98, 99>> >> }
NoHeaders     == << >>
=============================================================================
