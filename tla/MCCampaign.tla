----------------------------- MODULE MCCampaign ----------------------------
(* One case that needs memory and one ordinary one, two reviewers.           *)
EXTENDS Campaign

MCProtocols == {Joint, Role, Availability}
MCMemory == {"value"}
MCNormal == {"chat"}
MCReviewers == {"left", "right"}
MCPossible(c) ==
  IF c \in MCNormal THEN {Prediction("same", 0), Prediction("new", 1)}
  ELSE {Prediction("new", 1), Prediction("cut", 1)}
=============================================================================
