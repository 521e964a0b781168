---------------------------- MODULE PanelReview ----------------------------
(* The blind review of a fixed panel (review_neural_memory,                  *)
(* review_joint_generation, finalize_joint_evaluation): packets that hide the*)
(* run they come from, the votes of isolated reviewers, the mechanical gates *)
(* and the choice between the arms.  A prediction is the reply to a case and *)
(* the route the model took; what a reply says is one of a few kinds.        *)
EXTENDS Naturals, FiniteSets

CONSTANTS
  Memory,     \* the cases that need memory: grounded, role swap and empty
  Normal,     \* ordinary chat, which memory must leave alone
  Reviewers,  \* the registered reviewers
  Needed      \* how many memory cases have to pass

ASSUME PanelConstants ==
  /\ IsFiniteSet(Memory) /\ IsFiniteSet(Normal) /\ IsFiniteSet(Reviewers)
  /\ Memory \intersect Normal = {} /\ Needed \in 0..Cardinality(Memory)

Panel == Memory \union Normal

(* "same" is the reply of the baseline, "new" another, "cut" one that ran    *)
(* into the limit of tokens.                                                 *)
Prediction(reply, route) == [reply |-> reply, route |-> route]
Baseline == [c \in Panel |-> Prediction("same", 0)]
-----------------------------------------------------------------------------
(* blind_packet: its id depends on the input and the reply, on nothing else. *)
Packet(c, prediction) == <<c, prediction.reply>>
Packets(predictions) == {Packet(c, predictions[c]) : c \in Panel}

(* A vote: a packet, the reviewer, and what the reviewer found in the reply. *)
Vote(packet, reviewer, finds) == [packet |-> packet, reviewer |-> reviewer, finds |-> finds]
VotesOn(packet, votes) == {v \in votes : v.packet = packet}

(* score_bundle: rows of an unknown packet, of an unregistered reviewer or   *)
(* two of one reviewer make the bundle invalid.                              *)
ValidBundle(votes, packets) ==
  /\ {v.packet : v \in votes} \subseteq packets
  /\ {v.reviewer : v \in votes} \subseteq Reviewers
  /\ \A v, w \in votes : v.packet = w.packet /\ v.reviewer = w.reviewer => v = w

(* Two reviewers who agree decide; anything less is left open.               *)
Status(packet, votes) ==
  LET cast == VotesOn(packet, votes) IN
  IF Cardinality(cast) < 2 \/ Cardinality({v.finds : v \in cast}) > 1
  THEN "needs_review"
  ELSE (CHOOSE v \in cast : TRUE).finds

(* apply_gates: replies that fail whatever the reviewers say.                *)
Mechanical(c, prediction) ==
  \/ prediction.reply = "cut"
  \/ c \in Normal /\ prediction # Baseline[c]

Gated(c, prediction, votes) ==
  LET status == Status(Packet(c, prediction), votes) IN
  IF Mechanical(c, prediction) /\ status = "pass" THEN "fail" ELSE status

Passing(cases, predictions, votes) ==
  {c \in cases : Gated(c, predictions[c], votes) = "pass"}

PilotGatesPassed(predictions, votes) ==
  /\ \A c \in Panel : ~Mechanical(c, predictions[c])
                      /\ Gated(c, predictions[c], votes) # "needs_review"
  /\ Cardinality(Passing(Memory, predictions, votes)) >= Needed
  /\ Passing(Normal, predictions, votes) = Normal

(* finalize_joint_evaluation.select: the arm with the most, ties to joint_aux*)
Selected(reports, votes) ==
  LET eligible == {a \in DOMAIN reports : PilotGatesPassed(reports[a], votes)}
      passes(a) == Cardinality(Passing(Memory, reports[a], votes))
      best == {a \in eligible : \A b \in eligible : passes(b) <= passes(a)}
  IN IF best = {} THEN "none"
     ELSE IF "joint_aux" \in best THEN "joint_aux" ELSE CHOOSE a \in best : TRUE
=============================================================================
