-------------------------- MODULE MCParserHistory --------------------------
(***************************************************************************)
(* Instances of ParserHistory for TLC: texts of start lines and fields,    *)
(* with blanks, foldings and duplicates, and texts with a body.  The parts *)
(* a text is about may also bring characters the parser refuses there.     *)
(***************************************************************************)
EXTENDS ParserHistory, MCMessageParser

FieldTexts ==
  [s \in State |->
     CASE s = "ParsingMessage"             -> {TheWord, HT, CR}
       [] s = "ParsingLeadingSP"           -> {TheWord, SP, NonAscii}
       [] s = "ParsingFirstToken"          -> {TheWord, SP, LF}
       [] s = "ParsingFirstTokenSP"        -> {CR, HT, 47}
       [] s = "ParsingSecondToken"         -> {TheWord, SP, LF}
       [] s = "ParsingSecondTokenSP"       -> {TheWord, HT, NonAscii}
       [] s = "ParsingThirdToken"          -> {SP, CR, NonAscii}
       [] s = "ParsingFirstLineLF"         -> {LF, CR}
       [] s = "ParsingHeader"              -> {97, CR}
       [] s = "ParsingHeaderName"          -> {Colon, SP}
       [] s = "ParsingHeaderValue"         -> {SP, Colon, CR}
       [] s = "ParsingHeaderValueLWS"      -> {HT, 65, Colon, CR}
       [] OTHER                            -> Plain[s]]

\* 50 is a length, 99 is "chunked" or a bad length, and the hex digits make
\* sizes that fit, that overflow and that are read as another.
BodyTexts ==
  [s \in State |->
     CASE s = "ParsingHeader"              -> {84, 108, CR}
       [] s = "ParsingHeaderValue"         -> {99, 50, CR}
       [] s = "ParsingHeaderValueLWS"      -> {CR, 76}
       [] s = "ParsingIdentityBody"        -> {LF, 120}
       [] s = "ParsingChunk"               -> {CR}
       [] s = "ParsingChunkSize"           -> {48, 50, CR, LF}
       [] s = "ParsingChunkExtension"      -> {LF, CR}
       [] s \in {"ParsingChunkSizeLF", "ParsingChunkCR", "ParsingChunkLF"} -> {CR, LF}
       [] s = "ParsingTrailerHeader"       -> {CR, LF, 76}
       [] s = "ParsingTrailerHeaderValue"  -> {50, CR}
       [] s = "ParsingTrailerHeaderValueLF"  -> {LF, CR}
       [] s = "ParsingTrailerHeaderValueLWS" -> {CR, SP, 84}
       [] s = "ParsingFinalLF"             -> {LF, SP}
       [] OTHER                            -> Plain[s]]
=============================================================================
