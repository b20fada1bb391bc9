-------------------------- MODULE MCMessageParser --------------------------
(***************************************************************************)
(* Instances of MessageParser for TLC.  The names and the value the parser *)
(* looks for are one character long.  Each of the three instances below    *)
(* offers the characters that tell the cases of one part of a message      *)
(* apart and takes the short way through the other parts.                  *)
(***************************************************************************)
EXTENDS MessageParser

MCTransferEncoding == <<84>>     \* "T"
MCContentLength    == <<76>>     \* "L"
MCChunked          == <<99>>     \* "c"

TheWord  == 71                   \* "G", a character any token may hold
NonAscii == 200                  \* a character no token may hold

\* A message with an empty header section, in one way.
Plain ==
  [s \in State |->
     CASE s \in {"ParsingMessage", "ParsingLeadingSP", "ParsingFirstTokenSP",
                 "ParsingSecondTokenSP"}                           -> {TheWord}
       [] s \in {"ParsingFirstToken", "ParsingSecondToken"}        -> {SP}
       [] s \in {"ParsingThirdToken", "ParsingHeader",
                 "ParsingHeaderValueLWS", "ParsingTrailerHeader",
                 "ParsingTrailerHeaderValueLWS", "ParsingChunkCR",
                 "ParsingChunkExtension"}                          -> {CR}
       [] s \in {"ParsingHeaderName", "ParsingTrailerHeaderName"}  -> {Colon}
       [] s \in {"ParsingHeaderValue", "ParsingTrailerHeaderValue"} -> {CR}
       [] s \in {"ParsingIdentityBody", "ParsingChunk"}            -> {LF}
       [] s = "ParsingChunkSize"                                   -> {50, CR}
       [] OTHER                                                    -> {LF}]

StartLineOffered ==
  [s \in State |->
     CASE s \in StartLineState \cup {"ParsingMessage"} -> {TheWord, SP, HT, CR, LF, NonAscii}
       [] s = "ParsingHeader"                          -> {CR, LF}
       [] OTHER                                        -> Plain[s]]

\* "a" and "A" are the same name, and neither is one the parser looks for.
HeadersOffered ==
  [s \in State |->
     CASE s \in {"ParsingHeader", "ParsingHeaderValueLWS"} -> {CR, LF, Colon, SP, 97, 65, NonAscii}
       [] s = "ParsingHeaderName"                          -> {97, Colon, CR, SP}
       [] s = "ParsingHeaderValue"                         -> {97, SP, HT, CR, LF, Colon}
       [] s \in {"ParsingHeaderValueLF", "ParsingEndOfHeader"} -> {LF, CR}
       [] OTHER                                            -> Plain[s]]

\* 50 and 51 are the digits "2" and "3", 108 is "l".
LengthOffered ==
  [s \in State |->
     CASE s = "ParsingHeader"              -> {CR, 84, 76, 108}
       [] s = "ParsingHeaderValueLWS"      -> {CR, 76}
       [] s = "ParsingHeaderValue"         -> {99, 50, 51, CR}
       [] s = "ParsingIdentityBody"        -> {TheWord, LF}
       [] OTHER                            -> Plain[s]]
=============================================================================
