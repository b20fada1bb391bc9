------------------------------ MODULE MCParams ------------------------------
(***************************************************************************)
(* An instance of Params for TLC: every target of up to four characters and*)
(* every query of four, over characters that delimit or escape, and names  *)
(* and values made of those and of bytes a query cannot hold.              *)
(***************************************************************************)
EXTENDS Params

\* "a", "4", "&", "=", "%", "+", "?"
Special == {97, 52, Amp, Equals, Percent, Plus, Question}

MCTargets == UNION {[1 .. n -> Special] : n \in 0 .. 4} \cup {<<Question>> \o q : q \in [1 .. 4 -> Special]}
               \cup {<<97, Percent, 51, 70, Question, Percent, 52, 49>>}

MCNames  == {<< >>, <<97>>, <<Amp, Equals>>, <<255, 0, Percent>>}
MCValues == {<< >>, <<52, SP, Plus>>, <<Percent, 52, 49>>}
=============================================================================
