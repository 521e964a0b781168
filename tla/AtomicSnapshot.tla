--------------------------- MODULE AtomicSnapshot ---------------------------
(***************************************************************************)
(* What src/src/metis/memory_snapshot.c promises the code that saves and   *)
(* loads memory state: the generation that a load returns changes as a     *)
(* whole, and only to one that a save was asked to write.                  *)
(***************************************************************************)
CONSTANTS
  Generations,  \* the states of memory that may be saved
  Initially     \* the outcome of a load before anything was saved

VARIABLES
  stored,       \* the outcome of a load at this moment
  allowed       \* the outcomes a crash at this moment may leave

Init == stored = Initially /\ allowed = {Initially}

\* A save of g begins; from here on g may turn up.
Begin(g) == allowed' = allowed \cup {g} /\ UNCHANGED stored

\* The new generation becomes the one that is loaded.
Publish == stored' \in allowed /\ UNCHANGED allowed

\* A save that reports success: its generation is there, and stays.
Succeed == stored \in Generations /\ allowed' = {stored} /\ UNCHANGED stored

\* A crash settles the matter, one way or the other.
Crash == stored' \in allowed /\ allowed' = {stored'}

Next ==
  \/ \E g \in Generations : Begin(g)
  \/ Publish
  \/ Succeed
  \/ Crash

Spec == Init /\ [][Next]_<<stored, allowed>>
=============================================================================
