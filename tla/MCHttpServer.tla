---------------------------- MODULE MCHttpServer ----------------------------
(***************************************************************************)
(* An instance of HttpServer for TLC: two clients, a buffer with room for  *)
(* an envelope of two bytes and a body of two, and responses on either     *)
(* side of that room.                                                      *)
(***************************************************************************)
EXTENDS HttpServer

\* One whole request, one with another behind it, one that is cut off and a
\* bad one.
MCRequests == { <<"part", "end">>, <<"end", "part", "part", "end">>, <<"part">>, <<"part", "bad">> }
=============================================================================
