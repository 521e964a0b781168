---------------------------- MODULE MCEventStore ----------------------------
(***************************************************************************)
(* EventStore on a few ids and two keys.  Sizes are scaled to U32Max = 3   *)
(* and SizeMax = 5.                                                        *)
(***************************************************************************)
EXTENDS EventStore, TLC

CONSTANTS home, likes

Pair(a, b, c, d) == [subject |-> [start |-> a, end |-> b],
                     value |-> [start |-> c, end |-> d]]

KnownSpans == Pair(0, 1, 1, 2)
BlankSpans == Pair(5, 5, 0, 5)
HalfSpans == Pair(0, 1, 5, 5)  \* refused by apply

Submit(op, key, kind, targets, spans) ==
  [id : Ids, key : {key}, kind : {kind}, op : {op}, target : targets,
   spans : {spans}, raw : {0}, active : {1}]

\* Two sorts of fact, asserted, superseded and retracted, and a third that is
\* only asserted; an assertion may carry a target, which apply does not look
\* at; one event is refused for its spans.
MCEvents ==
  UNION {Submit("ASSERT", home, "PROPERTY", {NoId}, KnownSpans),
         Submit("ASSERT", home, "SET", {NoId}, BlankSpans),
         Submit("ASSERT", likes, "PROPERTY", Ids, KnownSpans),
         Submit("ASSERT", likes, "PROPERTY", {NoId}, HalfSpans)}
    \cup UNION {Submit(op, s[1], s[2], Ids, KnownSpans) :
                  op \in {"SUPERSEDE", "RETRACT"},
                  s \in {<<home, "PROPERTY">>, <<home, "SET">>}}

LegacyRecord(id, key, op, target, active) ==
  [id |-> id, key |-> key, kind |-> "EVENT", op |-> op, target |-> target,
   spans |-> Pair(0, 0, 0, 0), raw |-> 0, active |-> active]

\* A version 1 file with a superseded fact.
MCLegacyLogs ==
  {<<LegacyRecord(p[1], home, "ASSERT", NoId, 0),
     LegacyRecord(p[2], home, "SUPERSEDE", p[1], 1)>> :
       p \in {q \in Ids \X Ids : q[1] # q[2]}}

Symmetry == Permutations(Ids)

Altered(f) == f.state = "complete" /\ f.version = 2 /\ ~f.intact

\* Bounds: a load begins only while the log in memory is short, and an altered
\* file is only loaded.
Short(log) == Len(log) <= 1

Bounds ==
  /\ load'.on /\ ~load.on => Short(events)
  /\ Altered(file) => file' = file /\ (load.on \/ load'.on)
=============================================================================
