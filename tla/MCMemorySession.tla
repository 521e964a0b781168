-------------------------- MODULE MCMemorySession --------------------------
(***************************************************************************)
(* MemorySession with two texts, which recur in three events, one id of    *)
(* the client's and ids for all events.                                    *)
(***************************************************************************)
EXTENDS MemorySession, TLC

CONSTANTS home, a0, a1, a2, a3, a4

MCAutoIds == <<a0, a1, a2, a3, a4>>

MCSpans == [subject |-> [start |-> 0, end |-> 1], value |-> [start |-> 1, end |-> 2]]

\* What clients submit themselves, under the client's name: a fact that is a
\* SET, which the writer cannot supersede, a correction that names its target
\* or leaves it to the server, and a retraction.
Submitted(op, kind, target) ==
  [id : ClientIds, key : {home}, kind : {kind}, op : {op}, target : target,
   spans : {MCSpans}, raw : {0}, active : {1}]

MCEvents ==
  Submitted("ASSERT", "SET", {NoId})
    \cup Submitted("SUPERSEDE", "PROPERTY", {NoId, a0})
    \cup Submitted("RETRACT", "PROPERTY", {NoId})

\* Bound: a snapshot of three events is not explored, a memory of three is.
SmallSnapshots == Len(disk'.mem.events) <= 2

Symmetry == Permutations(Texts)
=============================================================================
