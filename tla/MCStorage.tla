----------------------------- MODULE MCStorage -----------------------------
(***************************************************************************)
(* Generations that share some of their files and differ in others, as     *)
(* consecutive ones do: an event that is added changes its store and the   *)
(* resident one, an episode only its own.  State files of each version,    *)
(* some of other sessions, and one of two.                                 *)
(***************************************************************************)
EXTENDS Storage, TLC

CONSTANTS v1, v2

MCSaves == {g \in Generations : Resident => g["resident"] = g["events"]}

Plain(id, text) == [Session(id) EXCEPT !.episodes = <<Episode(text)>>]
WithMean(id, text) ==
  [id |-> id, valid |-> TRUE, episodes |-> <<[Episode(text) EXCEPT !.mean = text]>>]
MCOldFiles ==
  {[version |-> 1, table |-> <<Plain("demo", "f")>>],
   [version |-> 2, table |-> <<WithMean("demo", "g")>>],
   [version |-> 2, table |-> <<Plain("demo", "f")>>],
   [version |-> 3, table |-> <<Plain("other", "g"), WithFeatures(Plain("demo", "f"), {1})>>],
   [version |-> 3, table |-> <<Session("other")>>]}
=============================================================================
