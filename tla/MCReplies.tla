------------------------------ MODULE MCReplies -----------------------------
EXTENDS Replies

CONSTANTS u, v, w

MCWords == {u, v, w}
MCValues == {<<v>>, <<v, w>>}
Texts == {<<>>, <<u>>, <<u, u>>}

(* Replies around every value, replies without one, and uncertain replies.   *)
MCTrajectories ==
  {Compile("supported", a, x, b) : a \in Texts, x \in MCValues, b \in Texts}
    \union {Compile(r, a, <<>>, <<>>) : r \in {"none", "insufficient"}, a \in Texts}

(* Two cases, of which the first ends at once, and all networks for the      *)
(* second, but for one way to be uncertain.                                  *)
MCCases == {1, 2}
MCNetworks ==
  [base : {[c \in MCCases |-> IF c = 1 THEN [p \in Contexts |-> "stop"] ELSE f] : f \in Answers},
   content : Answers, unsure : {[p \in Contexts |-> "a"]}, route : [Contexts -> 0..2]]
=============================================================================
