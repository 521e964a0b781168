------------------------------ MODULE EventLog ------------------------------
(***************************************************************************)
(* The records of the typed event store (src/src/metis/event_store.h) and  *)
(* the pure part of src/src/metis/event_store.c: which event an existing   *)
(* log accepts, and the log that accepting it gives.  Modules that keep a  *)
(* log of events as part of their state build on these operators.          *)
(*                                                                         *)
(* A log is a sequence of records.  The strings of a record are opaque: an *)
(* event id is a member of Ids, and the pair (entity, predicate), which    *)
(* the code only ever compares as a pair, is a member of Keys.  Sizes keep *)
(* their two widths, scaled down: SizeMax is (size_t)-1, U32Max is         *)
(* UINT32_MAX.                                                             *)
(***************************************************************************)
EXTENDS Integers, Sequences

CONSTANTS
  Ids,         \* event ids
  NoId,        \* the empty target_event_id
  Keys,        \* (entity, predicate) pairs
  Events,      \* the events callers submit
  MaxCount,    \* EVENT_MAX_COUNT
  U32Max,      \* UINT32_MAX
  SizeMax      \* (size_t)-1, also METIS_EVENT_SPAN_UNKNOWN

Span == [start : 0..SizeMax, end : 0..SizeMax]

ASSUME IdsAssumption == NoId \notin Ids
ASSUME SizesAssumption ==
  /\ U32Max \in Nat \ {0}
  /\ SizeMax \in Nat
  /\ U32Max < SizeMax
  /\ MaxCount \in Nat

Operations == {"ASSERT", "SUPERSEDE", "RETRACT"}
MemoryKinds == {"PROPERTY", "SET", "EVENT"}
Unknown == SizeMax

(***************************************************************************)
(* A record.  episode_id, source_id, value, valid_time, polarity and       *)
(* modality are carried but never tested, so they are left out.            *)
(***************************************************************************)
Record == [id : Ids, key : Keys, kind : MemoryKinds, op : Operations,
           target : Ids \cup {NoId}, spans : [subject : Span, value : Span],
           raw : 0..SizeMax, active : {0, 1}]

\* The active field of a submitted event is ignored by apply.
ASSUME EventsAssumption == Events \subseteq Record
-----------------------------------------------------------------------------
SpanKnown(s) == s.start # Unknown /\ s.end # Unknown

SpanBlank(s) == s.start \in {Unknown, 0} /\ s.end \in {Unknown, 0}

SpanNonEmpty(s) == SpanKnown(s) /\ s.end > s.start /\ s.end <= U32Max

ValidSpans(p) ==
  IF SpanKnown(p.subject) \/ SpanKnown(p.value)
  THEN SpanNonEmpty(p.subject) /\ SpanNonEmpty(p.value)
  ELSE SpanBlank(p.subject) /\ SpanBlank(p.value)

\* find(): ids are unique, so "the first record with this id" is any of them.
Known(log, id) == \E i \in DOMAIN log : log[i].id = id

\* Seeded faults, each in the definition named after "Fault of".
\* Fault of IsTarget: the target may already be inactive.
IsTargetInactiveToo(log, i, e) ==
  log[i].id = e.target /\ log[i].key = e.key /\ log[i].kind = e.kind

\* Record i is what a SUPERSEDE or RETRACT e may deactivate.
IsTarget(log, i, e) ==
  /\ log[i].id = e.target
  /\ log[i].active = 1
  /\ log[i].key = e.key
  /\ log[i].kind = e.kind

\* The checks metis_event_store_apply makes before it changes anything.
Accepts(log, e) ==
  /\ ValidSpans(e.spans)
  /\ ~Known(log, e.id)
  /\ Len(log) < MaxCount
  /\ e.op # "ASSERT" => \E i \in DOMAIN log : IsTarget(log, i, e)
  /\ e.op = "SUPERSEDE" => e.kind = "PROPERTY"

Deactivates(e, r) == e.op # "ASSERT" /\ r.id = e.target

\* A stored record once e is applied: the target's active flag is cleared.
Demoted(r, e) == [r EXCEPT !.active = IF Deactivates(e, r) THEN 0 ELSE @]

\* Fault of Stored: a retraction stays active.
StoredActive(e) == [e EXCEPT !.active = 1]

\* The record appended for e: active unless it is a retraction.
Stored(e) == [e EXCEPT !.active = IF e.op = "RETRACT" THEN 0 ELSE 1]

\* Fault of Applied: the event overwrites its target.
AppliedInPlace(log, e) ==
  IF e.op = "ASSERT" THEN Append(log, Stored(e))
  ELSE [i \in DOMAIN log |-> IF log[i].id = e.target THEN Stored(e) ELSE log[i]]

\* The store after apply.
Applied(log, e) == Append([i \in DOMAIN log |-> Demoted(log[i], e)], Stored(e))
=============================================================================
