----------------------------- MODULE EventStore -----------------------------
(***************************************************************************)
(* The typed event store of src/src/metis/event_store.c: the append-only   *)
(* log in memory, the file it is saved to, and the load that replays a     *)
(* file through apply before it may replace the log.                       *)
(*                                                                         *)
(* The calls are synchronous, so no other call runs inside a load.  A load *)
(* is nevertheless several steps, one per replayed record, because what is *)
(* claimed about it is claimed of every record it replays.                 *)
(***************************************************************************)
EXTENDS EventLog

CONSTANT LegacyLogs  \* contents of version 1 files left by older programs

VARIABLES
  events,  \* metis_event_store_t: the records, in order
  file,    \* the file at the store's path
  load     \* the load in progress: what it parsed, what it replayed

vars == <<events, file, load>>

\* A record as the file holds it: 32-bit words, all ones for "unknown".
FileSpan == [start : 0..U32Max, end : 0..U32Max]
FileRecord == [id : Ids, key : Keys, kind : MemoryKinds, op : Operations,
               target : Ids \cup {NoId},
               spans : [subject : FileSpan, value : FileSpan],
               raw : 0..U32Max, active : {0, 1}]

ASSUME LegacyAssumption == LegacyLogs \subseteq Seq(FileRecord)

(***************************************************************************)
(* "origin" is history: the log that was saved, for as long as the file    *)
(* holds what save wrote ("intact").                                       *)
(***************************************************************************)
Files == [state : {"absent", "unreadable", "complete"}, version : {1, 2},
          records : Seq(FileRecord), intact : BOOLEAN, origin : Seq(Record)]

NoFile == [state |-> "absent", version |-> 2, records |-> <<>>,
           intact |-> FALSE, origin |-> <<>>]

TornFile == [state |-> "unreadable", version |-> 2, records |-> <<>>,
             intact |-> FALSE, origin |-> <<>>]

LegacyFile(log) == [state |-> "complete", version |-> 1, records |-> log,
                    intact |-> FALSE, origin |-> <<>>]

Loads == [on : BOOLEAN, records : Seq(Record), replayed : Seq(Record),
          intact : BOOLEAN, origin : Seq(Record)]

NoLoad == [on |-> FALSE, records |-> <<>>, replayed |-> <<>>,
           intact |-> FALSE, origin |-> <<>>]
-----------------------------------------------------------------------------
\* Fault of DecodeSize: all ones are taken for a size.
DecodeSizeAsIs(n) == n

EncodeSize(n) == IF n = Unknown THEN U32Max ELSE n % (U32Max + 1)
DecodeSize(n) == IF n = U32Max THEN Unknown ELSE n

EncodeSpan(s) == [start |-> EncodeSize(s.start), end |-> EncodeSize(s.end)]
DecodeSpan(s) == [start |-> DecodeSize(s.start), end |-> DecodeSize(s.end)]

EncodeRecord(r) ==
  [r EXCEPT !.spans = [subject |-> EncodeSpan(@.subject),
                       value |-> EncodeSpan(@.value)],
            !.raw = @ % (U32Max + 1)]

BlankSpan == [start |-> Unknown, end |-> Unknown]

\* Version 1 records have no kind and no spans; the reader supplies them.
DecodeRecord(version, r) ==
  IF version = 1
  THEN [r EXCEPT !.kind = "PROPERTY",
                 !.spans = [subject |-> BlankSpan, value |-> BlankSpan]]
  ELSE [r EXCEPT !.spans = [subject |-> DecodeSpan(@.subject),
                            value |-> DecodeSpan(@.value)]]

Encode(log) == [i \in DOMAIN log |-> EncodeRecord(log[i])]
Decode(f) == [i \in DOMAIN f.records |-> DecodeRecord(f.version, f.records[i])]

Saveable(log) ==
  \A i \in DOMAIN log : log[i].raw <= U32Max /\ ValidSpans(log[i].spans)
-----------------------------------------------------------------------------
Init ==
  /\ events = <<>>
  /\ file \in {NoFile} \cup {LegacyFile(log) : log \in LegacyLogs}
  /\ load = NoLoad

\* metis_event_store_apply; a rejected event changes nothing.
Apply(e) ==
  /\ ~load.on
  /\ Accepts(events, e)
  /\ events' = Applied(events, e)
  /\ UNCHANGED <<file, load>>

\* metis_event_store_clear, also a restart of the process.
Clear ==
  /\ ~load.on
  /\ events' = <<>>
  /\ UNCHANGED <<file, load>>

\* metis_event_store_save, run to completion.
Save ==
  /\ ~load.on
  /\ Saveable(events)
  /\ file' = [state |-> "complete", version |-> 2, records |-> Encode(events),
              intact |-> TRUE, origin |-> events]
  /\ UNCHANGED <<events, load>>

\* A record that cannot be written, or an I/O error after the file was
\* opened for writing: what was there is gone and the partial file is removed.
SaveFails ==
  /\ ~load.on
  /\ file' = NoFile
  /\ UNCHANGED <<events, load>>

\* The process dies inside save: a torn file stays behind.
CrashInSave ==
  /\ ~load.on
  /\ events' = <<>>
  /\ file' = TornFile
  /\ UNCHANGED load

Damaged(r, op, kind, active) ==
  [r EXCEPT !.op = op, !.kind = kind, !.active = active]

\* The medium alters words the format does not protect: only the strings of
\* a record carry a checksum.  (A damaged string makes the file unreadable.)
\* It happens at rest, before the process has put anything in its log.
AlterFile(i, op, kind, active) ==
  /\ ~load.on /\ events = <<>>
  /\ file.state = "complete"
  /\ i \in DOMAIN file.records
  /\ file' = [state |-> "complete", version |-> file.version,
              records |-> [file.records EXCEPT
                             ![i] = Damaged(file.records[i], op, kind, active)],
              intact |-> FALSE, origin |-> <<>>]
  /\ UNCHANGED <<events, load>>

\* metis_event_store_load up to the end of the parse.  An absent or
\* unreadable file makes it return before it has changed anything.
BeginLoad ==
  /\ ~load.on
  /\ file.state = "complete"
  /\ Len(file.records) <= MaxCount
  /\ load' = [on |-> TRUE, records |-> Decode(file), replayed |-> <<>>,
              intact |-> file.intact, origin |-> file.origin]
  /\ UNCHANGED <<events, file>>

Replaying == load.on /\ Len(load.replayed) < Len(load.records)
NextReplayed == load.records[Len(load.replayed) + 1]

ReplayStep ==
  /\ Replaying
  /\ Accepts(load.replayed, NextReplayed)
  /\ load' = [load EXCEPT !.replayed = Applied(@, NextReplayed)]
  /\ UNCHANGED <<events, file>>

SameFlags(a, b) ==
  /\ Len(a) = Len(b)
  /\ \A i \in DOMAIN a : a[i].active = b[i].active

FinishLoad ==
  /\ load.on /\ ~Replaying
  /\ SameFlags(load.replayed, load.records)
  /\ events' = load.replayed
  /\ load' = NoLoad
  /\ UNCHANGED file

\* Every other way out of the load: apply refuses a record, a flag differs,
\* or memory runs out.  The caller's store is not touched.
AbandonLoad ==
  /\ load.on
  /\ load' = NoLoad
  /\ UNCHANGED <<events, file>>

Next ==
  \/ \E e \in Events : Apply(e)
  \/ Clear
  \/ Save
  \/ SaveFails
  \/ CrashInSave
  \/ \E i \in 1..MaxCount, op \in Operations, kind \in MemoryKinds,
        active \in {0, 1} : AlterFile(i, op, kind, active)
  \/ BeginLoad
  \/ ReplayStep
  \/ FinishLoad
  \/ AbandonLoad

Spec == Init /\ [][Next]_vars
-----------------------------------------------------------------------------
\* Every variable has its type.
TypeOK ==
  /\ events \in Seq(Record)
  /\ file \in Files
  /\ load \in Loads

(***************************************************************************)
(* "Only its derived active flag changes" (event_store.h): the flag of     *)
(* every record says exactly whether the record asserts something and no   *)
(* later event took it back.                                               *)
(***************************************************************************)
ActiveDerived(log) ==
  \A i \in DOMAIN log :
    (log[i].active = 1) <=> /\ log[i].op # "RETRACT"
                            /\ ~\E j \in DOMAIN log : Deactivates(log[j], log[i])

\* Every SUPERSEDE and RETRACT follows a record of the same key and kind, no
\* record is taken back twice, and only properties are superseded.
LinksSound(log) ==
  /\ \A j \in DOMAIN log : log[j].op # "ASSERT" =>
       \E i \in 1..(j - 1) : /\ log[i].id = log[j].target
                             /\ log[i].key = log[j].key
                             /\ log[i].kind = log[j].kind
                             /\ log[i].op # "RETRACT"
  /\ \A j, k \in DOMAIN log :
       /\ log[j].op # "ASSERT" /\ log[k].op # "ASSERT"
       /\ log[j].target = log[k].target
       => j = k
  /\ \A j \in DOMAIN log : log[j].op = "SUPERSEDE" => log[j].kind = "PROPERTY"

UniqueIds(log) == \A i, j \in DOMAIN log : log[i].id = log[j].id => i = j

\* The active flags of the log in memory are the ones its history implies,
\* whichever mixture of apply, clear and load produced it.
FlagsDerived == ActiveDerived(events)

\* The log in memory has unique ids and well-formed links, also after a load
\* of a file whose unprotected words were altered.
HistorySound == UniqueIds(events) /\ LinksSound(events)

\* A load of the file that save wrote cannot fail: every record is accepted
\* in its turn, and what is replayed in the end is the log that was saved.
IntactLoadSucceeds ==
  load.on /\ load.intact =>
    IF Replaying THEN Accepts(load.replayed, NextReplayed)
    ELSE load.replayed = load.origin /\ SameFlags(load.replayed, load.records)

\* "The source event remains immutable" (event_store.h): outside of clear and
\* load the log only grows at its end, and no record changes except that an
\* active one may become inactive.
OnlyAppends ==
  [][~load.on /\ events' # <<>> =>
       /\ Len(events') >= Len(events)
       /\ \A i \in DOMAIN events :
            events'[i] \in {events[i], [events[i] EXCEPT !.active = 0]}]_events
=============================================================================
