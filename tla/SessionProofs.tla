--------------------------- MODULE SessionProofs ----------------------------
(***************************************************************************)
(* Theorems about the typed event store and about the session memory that  *)
(* keeps such a log next to its texts, for every set of texts, ids, keys   *)
(* and events and every limit.                                             *)
(*                                                                         *)
(* For the store the inductive part is LogOK, a property of a log that     *)
(* Applied preserves whenever Accepts holds; it is kept by the log in      *)
(* memory and by the log a load has replayed so far.  For the session it   *)
(* is MemOK, a property of one memory: the session's and the snapshot's    *)
(* have it.                                                                *)
(***************************************************************************)
EXTENDS EventStore, MemorySession, TLAPS

-----------------------------------------------------------------------------
(* The event store. *)

\* Clearing a flag leaves a record.
LEMMA DemotedType ==
  ASSUME NEW r \in Record, NEW e \in Record
  PROVE  Demoted(r, e) \in Record /\ Stored(e) \in Record
BY DEF Demoted, Stored, Record

\* What Applied gives, position by position.
LEMMA AppliedShape ==
  ASSUME NEW log \in Seq(Record), NEW e \in Record
  PROVE  /\ Applied(log, e) \in Seq(Record)
         /\ Len(Applied(log, e)) = Len(log) + 1
         /\ DOMAIN Applied(log, e) = 1..(Len(log) + 1)
         /\ \A i \in 1..Len(log) : Applied(log, e)[i] = Demoted(log[i], e)
         /\ Applied(log, e)[Len(log) + 1] = Stored(e)
<1> DEFINE old == [i \in DOMAIN log |-> Demoted(log[i], e)]
<1>1. Stored(e) \in Record
  BY DemotedType
<1>2. \A i \in DOMAIN log : Demoted(log[i], e) \in Record
  BY DemotedType
<1>3. old \in Seq(Record) /\ Len(old) = Len(log)
  BY <1>2
<1>. QED
  BY <1>1, <1>3 DEF Applied

\* Everything of a record but its flag, field by field.
SamePayload(a, b) ==
  /\ a.id = b.id
  /\ a.key = b.key
  /\ a.kind = b.kind
  /\ a.op = b.op
  /\ a.target = b.target
  /\ a.spans = b.spans
  /\ a.raw = b.raw

\* A record keeps everything but its flag, and the flag can only be cleared.
LEMMA AppliedFields ==
  ASSUME NEW log \in Seq(Record), NEW e \in Record
  PROVE  /\ \A i \in 1..Len(log) :
              /\ SamePayload(Applied(log, e)[i], log[i])
              /\ Applied(log, e)[i].active =
                   IF Deactivates(e, log[i]) THEN 0 ELSE log[i].active
         /\ SamePayload(Applied(log, e)[Len(log) + 1], e)
         /\ Applied(log, e)[Len(log) + 1].active =
              IF e.op = "RETRACT" THEN 0 ELSE 1
<1>1. ASSUME NEW i \in 1..Len(log)
      PROVE  /\ SamePayload(Applied(log, e)[i], log[i])
             /\ Applied(log, e)[i].active =
                  IF Deactivates(e, log[i]) THEN 0 ELSE log[i].active
  <2>1. log[i] \in Record
    OBVIOUS
  <2>2. Applied(log, e)[i] = Demoted(log[i], e)
    BY AppliedShape
  <2>. QED
    BY <2>1, <2>2 DEF Demoted, Record, SamePayload
<1>2. /\ SamePayload(Applied(log, e)[Len(log) + 1], e)
      /\ Applied(log, e)[Len(log) + 1].active =
           IF e.op = "RETRACT" THEN 0 ELSE 1
  <2>1. Applied(log, e)[Len(log) + 1] = Stored(e)
    BY AppliedShape
  <2>. QED
    BY <2>1 DEF Stored, Record, SamePayload
<1>. QED
  BY <1>1, <1>2
-----------------------------------------------------------------------------

LogOK(log) ==
  /\ log \in Seq(Record)
  /\ Len(log) <= MaxCount
  /\ \A i \in DOMAIN log : ValidSpans(log[i].spans)
  /\ UniqueIds(log)
  /\ ActiveDerived(log)
  /\ LinksSound(log)
-----------------------------------------------------------------------------
\* The heart of the matter: accepting an event keeps a log well formed.
LEMMA AppliedOK ==
  ASSUME NEW log, LogOK(log), NEW e \in Record, Accepts(log, e)
  PROVE  LogOK(Applied(log, e))
<1> DEFINE new == Applied(log, e)
           n == Len(log)
<1>0. log \in Seq(Record) /\ n \in Nat
  BY DEF LogOK
<1>1. new \in Seq(Record) /\ Len(new) = n + 1 /\ DOMAIN new = 1..(n + 1)
  BY <1>0, AppliedShape
<1>2. DOMAIN log = 1..n
  BY <1>0
<1>3. /\ \A i \in 1..n :
           /\ SamePayload(new[i], log[i])
           /\ new[i].active =
                IF Deactivates(e, log[i]) THEN 0 ELSE log[i].active
      /\ SamePayload(new[n + 1], e)
      /\ new[n + 1].active = IF e.op = "RETRACT" THEN 0 ELSE 1
  BY <1>0, AppliedFields
<1>. USE DEF SamePayload
<1> HIDE DEF new
<1>4. Len(new) <= MaxCount
  <2>1. Len(log) < MaxCount
    BY DEF Accepts
  <2>. QED
    BY <2>1, <1>0, <1>1, SizesAssumption
<1>5. \A i \in DOMAIN new : ValidSpans(new[i].spans)
  <2>1. \A i \in 1..n : ValidSpans(log[i].spans)
    BY <1>2 DEF LogOK
  <2>2. ValidSpans(e.spans)
    BY DEF Accepts
  <2>3. \A i \in 1..(n + 1) : i \in 1..n \/ i = n + 1
    BY <1>0
  <2>. QED
    BY <1>1, <1>3, <2>1, <2>2, <2>3
<1>6. UniqueIds(new)
  <2>1. \A i, j \in 1..n : log[i].id = log[j].id => i = j
    BY <1>2 DEF LogOK, UniqueIds
  <2>2. \A i \in 1..n : log[i].id # e.id
    BY <1>2 DEF Accepts, Known
  <2>3. \A i \in 1..(n + 1) : i \in 1..n \/ i = n + 1
    BY <1>0
  <2>. QED
    BY <1>1, <1>3, <2>1, <2>2, <2>3 DEF UniqueIds
<1>7. ActiveDerived(new)
  <2>1. \A i \in 1..n : (log[i].active = 1) <=>
           /\ log[i].op # "RETRACT"
           /\ ~\E j \in 1..n : Deactivates(log[j], log[i])
    BY <1>2 DEF LogOK, ActiveDerived
  <2>2. \A i \in 1..(n + 1) : i \in 1..n \/ i = n + 1
    BY <1>0
  <2>3. ASSUME NEW i \in 1..n
        PROVE  (new[i].active = 1) <=>
                 /\ new[i].op # "RETRACT"
                 /\ ~\E j \in 1..(n + 1) : Deactivates(new[j], new[i])
    <3>1. \A j \in 1..n : Deactivates(new[j], new[i]) <=> Deactivates(log[j], log[i])
      BY <1>3 DEF Deactivates
    <3>2. Deactivates(new[n + 1], new[i]) <=> Deactivates(e, log[i])
      BY <1>3 DEF Deactivates
    <3>3. (\E j \in 1..(n + 1) : Deactivates(new[j], new[i]))
            <=> \/ \E j \in 1..n : Deactivates(log[j], log[i])
                \/ Deactivates(e, log[i])
      <4>1. n + 1 \in 1..(n + 1) /\ 1..n \subseteq 1..(n + 1)
        BY <1>0
      <4>. QED
        BY <2>2, <3>1, <3>2, <4>1
    <3>4. CASE Deactivates(e, log[i])
      <4>1. new[i].active = 0
        BY <3>4, <1>3
      <4>. QED
        BY <4>1, <3>3, <3>4
    <3>5. CASE ~Deactivates(e, log[i])
      <4>1. new[i].active = log[i].active /\ new[i].op = log[i].op
        BY <3>5, <1>3
      <4>. QED
        BY <4>1, <3>3, <3>5, <2>1
    <3>. QED
      BY <3>4, <3>5
  <2>4. ~\E j \in 1..(n + 1) : Deactivates(new[j], new[n + 1])
    <3>1. SUFFICES ASSUME NEW j \in 1..(n + 1), Deactivates(new[j], new[n + 1])
                   PROVE  FALSE
      OBVIOUS
    <3>2. CASE j \in 1..n
      <4>1. log[j].op # "ASSERT" /\ log[j].target = e.id
        BY <3>1, <3>2, <1>3 DEF Deactivates
      <4>2. PICK i \in 1..(j - 1) : log[i].id = log[j].target
        BY <3>2, <4>1, <1>2 DEF LogOK, LinksSound
      <4>3. i \in 1..n
        BY <3>2, <1>0
      <4>. QED
        BY <4>1, <4>2, <4>3, <1>2 DEF Accepts, Known
    <3>3. CASE j = n + 1
      <4>1. e.op # "ASSERT" /\ e.target = e.id
        BY <3>1, <3>3, <1>3 DEF Deactivates
      <4>2. PICK i \in 1..n : log[i].id = e.target
        BY <4>1, <1>2 DEF Accepts, IsTarget
      <4>. QED
        BY <4>1, <4>2, <1>2 DEF Accepts, Known
    <3>. QED
      BY <3>2, <3>3, <2>2
  <2>5. (new[n + 1].active = 1) <=> new[n + 1].op # "RETRACT"
    BY <1>3
  <2>. QED
    BY <1>1, <2>2, <2>3, <2>4, <2>5 DEF ActiveDerived
<1>8. LinksSound(new)
  <2>1. \A j \in 1..(n + 1) : j \in 1..n \/ j = n + 1
    BY <1>0
  <2>2. ASSUME NEW j \in 1..(n + 1), new[j].op # "ASSERT"
        PROVE  \E i \in 1..(j - 1) : /\ new[i].id = new[j].target
                                     /\ new[i].key = new[j].key
                                     /\ new[i].kind = new[j].kind
                                     /\ new[i].op # "RETRACT"
    <3>1. CASE j \in 1..n
      <4>1. log[j].op # "ASSERT"
        BY <2>2, <3>1, <1>3
      <4>2. PICK i \in 1..(j - 1) : /\ log[i].id = log[j].target
                                   /\ log[i].key = log[j].key
                                   /\ log[i].kind = log[j].kind
                                   /\ log[i].op # "RETRACT"
        BY <3>1, <4>1, <1>2 DEF LogOK, LinksSound
      <4>3. i \in 1..n
        BY <3>1, <1>0
      <4>. QED
        BY <3>1, <4>2, <4>3, <1>3
    <3>2. CASE j = n + 1
      <4>1. e.op # "ASSERT"
        BY <2>2, <3>2, <1>3
      <4>2. PICK i \in 1..n : IsTarget(log, i, e)
        BY <4>1, <1>2 DEF Accepts
      <4>3. log[i].op # "RETRACT"
        BY <4>2, <1>2 DEF IsTarget, LogOK, ActiveDerived
      <4>4. i \in 1..(j - 1)
        BY <3>2, <1>0
      <4>. QED
        BY <3>2, <4>2, <4>3, <4>4, <1>3 DEF IsTarget
    <3>. QED
      BY <3>1, <3>2, <2>1
  <2>3. ASSUME NEW j \in 1..n, log[j].op # "ASSERT", e.op # "ASSERT"
        PROVE  log[j].target # e.target
    <3>1. PICK i \in 1..n : log[i].id = e.target /\ log[i].active = 1
      BY <2>3, <1>2 DEF Accepts, IsTarget
    <3>2. ~Deactivates(log[j], log[i])
      BY <3>1, <1>2 DEF LogOK, ActiveDerived
    <3>. QED
      BY <2>3, <3>1, <3>2 DEF Deactivates
  <2>4. ASSUME NEW j \in 1..(n + 1), NEW k \in 1..(n + 1),
               new[j].op # "ASSERT", new[k].op # "ASSERT",
               new[j].target = new[k].target
        PROVE  j = k
    <3>1. CASE j \in 1..n /\ k \in 1..n
      BY <3>1, <2>4, <1>2, <1>3 DEF LogOK, LinksSound
    <3>2. CASE j = n + 1 /\ k \in 1..n
      BY <3>2, <2>3, <2>4, <1>3
    <3>3. CASE j \in 1..n /\ k = n + 1
      BY <3>3, <2>3, <2>4, <1>3
    <3>. QED
      BY <3>1, <3>2, <3>3, <2>1
  <2>5. ASSUME NEW j \in 1..(n + 1), new[j].op = "SUPERSEDE"
        PROVE  new[j].kind = "PROPERTY"
    <3>1. CASE j \in 1..n
      BY <3>1, <2>5, <1>2, <1>3 DEF LogOK, LinksSound
    <3>2. CASE j = n + 1
      BY <3>2, <2>5, <1>3 DEF Accepts
    <3>. QED
      BY <3>1, <3>2, <2>1
  <2>. QED
    BY <1>1, <2>2, <2>4, <2>5 DEF LinksSound
<1>9. LogOK(new)
  BY <1>1, <1>4, <1>5, <1>6, <1>7, <1>8 DEF LogOK
<1>. QED
  BY <1>9 DEF new
-----------------------------------------------------------------------------
\* What a file and its reader hold is well typed.
LEMMA EncodeType ==
  ASSUME NEW log \in Seq(Record)
  PROVE  Encode(log) \in Seq(FileRecord) /\ Len(Encode(log)) = Len(log)
<1>1. ASSUME NEW n \in 0..SizeMax PROVE EncodeSize(n) \in 0..U32Max
  <2>1. U32Max + 1 \in Nat \ {0} /\ n \in Nat
    BY SizesAssumption
  <2>2. n % (U32Max + 1) \in 0..U32Max
    BY <2>1, SizesAssumption
  <2>. QED
    BY <2>2, SizesAssumption DEF EncodeSize
<1>2. ASSUME NEW s \in Span PROVE EncodeSpan(s) \in FileSpan
  BY <1>1 DEF EncodeSpan, Span, FileSpan
<1>3. ASSUME NEW r \in Record PROVE EncodeRecord(r) \in FileRecord
  <2>1. r.spans.subject \in Span /\ r.spans.value \in Span /\ r.raw \in 0..SizeMax
    BY DEF Record
  <2>2. EncodeSpan(r.spans.subject) \in FileSpan /\ EncodeSpan(r.spans.value) \in FileSpan
    BY <2>1, <1>2
  <2>3. r.raw % (U32Max + 1) \in 0..U32Max
    BY <2>1, SizesAssumption
  <2>. QED
    BY <2>2, <2>3 DEF EncodeRecord, Record, FileRecord
<1>. QED
  BY <1>3 DEF Encode

\* What a file is decoded to is a log.
LEMMA DecodeType ==
  ASSUME NEW f \in Files
  PROVE  Decode(f) \in Seq(Record) /\ Len(Decode(f)) = Len(f.records)
<1>1. ASSUME NEW n \in 0..U32Max PROVE DecodeSize(n) \in 0..SizeMax
  BY SizesAssumption DEF DecodeSize, Unknown
<1>2. ASSUME NEW s \in FileSpan PROVE DecodeSpan(s) \in Span
  BY <1>1 DEF DecodeSpan, Span, FileSpan
<1>3. BlankSpan \in Span
  BY SizesAssumption DEF BlankSpan, Span, Unknown
<1>4. ASSUME NEW r \in FileRecord, NEW v \in {1, 2}
      PROVE  DecodeRecord(v, r) \in Record
  <2>1. r.spans.subject \in FileSpan /\ r.spans.value \in FileSpan
    BY DEF FileRecord
  <2>2. DecodeSpan(r.spans.subject) \in Span /\ DecodeSpan(r.spans.value) \in Span
    BY <2>1, <1>2
  <2>3. 0..U32Max \subseteq 0..SizeMax
    BY SizesAssumption
  <2>. QED
    BY <2>2, <2>3, <1>3 DEF DecodeRecord, Record, FileRecord, MemoryKinds
<1>. QED
  BY <1>4 DEF Decode, Files

\* The files that no save wrote are files.
LEMMA NoFileType == NoFile \in Files /\ TornFile \in Files
<1>1. NoFile \in Files
  BY DEF NoFile, Files
<1>2. TornFile \in Files
  BY DEF TornFile, Files
<1>. QED
  BY <1>1, <1>2

\* The state of the store has the shape the code gives it, whatever is called.
THEOREM TypeCorrect == Spec => []TypeOK
<1>1. Init => TypeOK
  <2>1. NoLoad \in Loads
    BY DEF NoLoad, Loads
  <2>2. NoFile \in Files
    BY NoFileType
  <2>3. ASSUME NEW log \in LegacyLogs PROVE LegacyFile(log) \in Files
    BY LegacyAssumption DEF LegacyFile, Files
  <2>. QED
    BY <2>1, <2>2, <2>3 DEF Init, TypeOK
<1>2. TypeOK /\ [Next]_vars => TypeOK'
  <2> SUFFICES ASSUME TypeOK, [Next]_vars PROVE TypeOK'
    OBVIOUS
  <2>. USE DEF TypeOK
  <2>1. ASSUME NEW e \in Events, Apply(e) PROVE TypeOK'
    <3>1. e \in Record
      BY EventsAssumption
    <3>. QED
      BY <2>1, <3>1, AppliedShape DEF Apply
  <2>2. CASE Clear
    BY <2>2 DEF Clear
  <2>3. CASE Save
    <3>1. file' \in Files
      BY <2>3, EncodeType DEF Save, Files
    <3>. QED
      BY <2>3, <3>1 DEF Save
  <2>4. CASE SaveFails
    BY <2>4, NoFileType DEF SaveFails
  <2>5. CASE CrashInSave
    BY <2>5, NoFileType DEF CrashInSave
  <2>6. ASSUME NEW i \in 1..MaxCount, NEW op \in Operations,
               NEW kind \in MemoryKinds, NEW active \in {0, 1},
               AlterFile(i, op, kind, active)
        PROVE  TypeOK'
    <3> DEFINE r == Damaged(file.records[i], op, kind, active)
    <3>1. file.records \in Seq(FileRecord) /\ i \in DOMAIN file.records
      BY <2>6 DEF AlterFile, Files
    <3>2. file.records[i] \in FileRecord
      BY <3>1
    <3>3. r \in FileRecord
      BY <3>2 DEF Damaged, FileRecord
    <3>4. [file.records EXCEPT ![i] = r] \in Seq(FileRecord)
      BY <3>1, <3>3
    <3> DEFINE recs == [file.records EXCEPT ![i] = r]
    <3> HIDE DEF r
    <3>5. file' = [state |-> "complete", version |-> file.version,
                   records |-> recs, intact |-> FALSE, origin |-> <<>>]
      BY <2>6 DEF AlterFile, r
    <3> HIDE DEF recs
    <3>6. file' \in Files
      BY <3>4, <3>5 DEF Files, recs
    <3>. QED
      BY <2>6, <3>6 DEF AlterFile
  <2>7. CASE BeginLoad
    BY <2>7, DecodeType DEF BeginLoad, Files, Loads
  <2>8. CASE ReplayStep
    <3>1. load.records \in Seq(Record) /\ load.replayed \in Seq(Record)
      BY DEF Loads
    <3>2. NextReplayed \in Record
      BY <2>8, <3>1 DEF ReplayStep, Replaying, NextReplayed
    <3>3. Applied(load.replayed, NextReplayed) \in Seq(Record)
      BY <3>1, <3>2, AppliedShape
    <3>. QED
      BY <2>8, <3>3 DEF ReplayStep, Loads
  <2>9. CASE FinishLoad
    BY <2>9 DEF FinishLoad, NoLoad, Loads
  <2>10. CASE AbandonLoad
    BY <2>10 DEF AbandonLoad, NoLoad, Loads
  <2>11. CASE UNCHANGED vars
    BY <2>11 DEF vars
  <2>. QED
    BY <2>1, <2>2, <2>3, <2>4, <2>5, <2>6, <2>7, <2>8, <2>9, <2>10, <2>11 DEF Next
<1>. QED
  BY <1>1, <1>2, PTL DEF Spec
-----------------------------------------------------------------------------
\* The inductive invariant: both logs the store ever holds are well formed.
LogsOK == TypeOK /\ LogOK(events) /\ LogOK(load.replayed)

\* The empty log is well formed.
LEMMA EmptyLogOK == LogOK(<<>>)
BY SizesAssumption DEF LogOK, UniqueIds, ActiveDerived, LinksSound

\* The record a load replays next is a record.
LEMMA NextReplayedType ==
  ASSUME TypeOK, Replaying
  PROVE  NextReplayed \in Record /\ Len(load.replayed) + 1 \in DOMAIN load.records
<1>1. load.records \in Seq(Record) /\ load.replayed \in Seq(Record)
  BY DEF TypeOK, Loads
<1>. QED
  BY <1>1 DEF Replaying, NextReplayed

\* Every log the store keeps, replayed or not, stays well formed.
LEMMA LogsInvariant == Spec => []LogsOK
<1>1. Init /\ TypeOK => LogsOK
  BY EmptyLogOK DEF Init, LogsOK, NoLoad
<1>2. LogsOK /\ TypeOK' /\ [Next]_vars => LogsOK'
  <2> SUFFICES ASSUME LogsOK, TypeOK', [Next]_vars
               PROVE  LogOK(events') /\ LogOK(load.replayed')
    BY DEF LogsOK
  <2>. USE DEF LogsOK
  <2>1. ASSUME NEW e \in Events, Apply(e)
        PROVE  LogOK(events') /\ LogOK(load.replayed')
    BY <2>1, EventsAssumption, AppliedOK DEF Apply
  <2>2. CASE Clear
    BY <2>2, EmptyLogOK DEF Clear
  <2>3. CASE Save
    BY <2>3 DEF Save
  <2>4. CASE SaveFails
    BY <2>4 DEF SaveFails
  <2>5. CASE CrashInSave
    BY <2>5, EmptyLogOK DEF CrashInSave
  <2>6. ASSUME NEW i \in 1..MaxCount, NEW op \in Operations,
               NEW kind \in MemoryKinds, NEW active \in {0, 1},
               AlterFile(i, op, kind, active)
        PROVE  LogOK(events') /\ LogOK(load.replayed')
    BY <2>6 DEF AlterFile
  <2>7. CASE BeginLoad
    BY <2>7, EmptyLogOK DEF BeginLoad
  <2>8. CASE ReplayStep
    <3>1. Replaying /\ NextReplayed \in Record
      BY <2>8, NextReplayedType DEF ReplayStep
    <3>2. load'.replayed = Applied(load.replayed, NextReplayed)
      BY <2>8 DEF ReplayStep, TypeOK, Loads
    <3>3. LogOK(Applied(load.replayed, NextReplayed))
      BY <2>8, <3>1, AppliedOK DEF ReplayStep
    <3>. QED
      BY <2>8, <3>2, <3>3 DEF ReplayStep
  <2>9. CASE FinishLoad
    BY <2>9, EmptyLogOK DEF FinishLoad, NoLoad
  <2>10. CASE AbandonLoad
    BY <2>10, EmptyLogOK DEF AbandonLoad, NoLoad
  <2>11. CASE UNCHANGED vars
    BY <2>11 DEF vars
  <2>. QED
    BY <2>1, <2>2, <2>3, <2>4, <2>5, <2>6, <2>7, <2>8, <2>9, <2>10, <2>11 DEF Next
<1>. QED
  BY <1>1, <1>2, TypeCorrect, PTL DEF Spec

\* In every reachable state the active flags are the ones the history of the
\* log implies.
THEOREM FlagsAlwaysDerived == Spec => []FlagsDerived
<1>1. LogsOK => FlagsDerived
  BY DEF LogsOK, LogOK, FlagsDerived
<1>. QED
  BY <1>1, LogsInvariant, PTL

\* In every reachable state ids are unique and the links of the log are sound.
THEOREM HistoryAlwaysSound == Spec => []HistorySound
<1>1. LogsOK => HistorySound
  BY DEF LogsOK, LogOK, HistorySound
<1>. QED
  BY <1>1, LogsInvariant, PTL

\* The log only grows, and no record comes back to life.
THEOREM LogOnlyAppends == Spec => OnlyAppends
<1> DEFINE A == ~load.on /\ events' # <<>> =>
                  /\ Len(events') >= Len(events)
                  /\ \A i \in DOMAIN events :
                       events'[i] \in {events[i], [events[i] EXCEPT !.active = 0]}
<1>1. TypeOK /\ [Next]_vars => [A]_events
  <2> SUFFICES ASSUME TypeOK, Next, ~load.on, events' # <<>>, events' # events
               PROVE  A
    BY DEF vars
  <2>1. PICK e \in Events : Apply(e)
    BY DEF Next, Clear, Save, SaveFails, CrashInSave, AlterFile, BeginLoad,
           ReplayStep, Replaying, FinishLoad, AbandonLoad
  <2>2. events \in Seq(Record) /\ e \in Record
    BY EventsAssumption DEF TypeOK
  <2>3. /\ Len(events') = Len(events) + 1
        /\ \A i \in 1..Len(events) : events'[i] = Demoted(events[i], e)
    BY <2>1, <2>2, AppliedShape DEF Apply
  <2>4. ASSUME NEW i \in DOMAIN events
        PROVE  events'[i] \in {events[i], [events[i] EXCEPT !.active = 0]}
    <3>1. events[i] \in Record /\ events'[i] = Demoted(events[i], e)
      BY <2>2, <2>3
    <3>2. CASE Deactivates(e, events[i])
      BY <3>1, <3>2 DEF Demoted
    <3>3. CASE ~Deactivates(e, events[i])
      BY <3>1, <3>3 DEF Demoted, Record
    <3>. QED
      BY <3>2, <3>3
  <2>. QED
    BY <2>2, <2>3, <2>4
<1>. QED
  BY <1>1, TypeCorrect, PTL DEF Spec, OnlyAppends
-----------------------------------------------------------------------------
(***************************************************************************)
(* What a load of a saved file does.  The encoding of sizes uses UINT32_MAX*)
(* for "unknown", so the argument needs that no span ends exactly there;   *)
(* the server offers no such span, because it checks that spans fit in a   *)
(* source text that is at most 64 KiB long.                                *)
(***************************************************************************)
EndsElsewhere(p) == p.subject.end # U32Max /\ p.value.end # U32Max

SpansBelowLimit == \A e \in Events : EndsElsewhere(e.spans)

NoEdge(log) == \A i \in DOMAIN log : EndsElsewhere(log[i].spans)

\* Writing a record and reading it back gives the record.
LEMMA RoundTrip ==
  ASSUME NEW r \in Record, ValidSpans(r.spans), EndsElsewhere(r.spans),
         r.raw <= U32Max
  PROVE  DecodeRecord(2, EncodeRecord(r)) = r
<1>1. ASSUME NEW n \in 0..SizeMax, n = Unknown \/ n < U32Max
      PROVE  DecodeSize(EncodeSize(n)) = n
  <2>1. CASE n = Unknown
    BY <2>1 DEF DecodeSize, EncodeSize
  <2>2. CASE n # Unknown
    <3>1. n \in Nat /\ n < U32Max + 1
      BY <1>1, <2>2, SizesAssumption
    <3>2. n % (U32Max + 1) = n
      BY <3>1, SizesAssumption
    <3>. QED
      BY <1>1, <2>2, <3>2, SizesAssumption DEF DecodeSize, EncodeSize
  <2>. QED
    BY <2>1, <2>2
<1>2. /\ r.spans.subject \in Span /\ r.spans.value \in Span
      /\ r.spans = [subject |-> r.spans.subject, value |-> r.spans.value]
      /\ r.raw \in 0..SizeMax
  BY DEF Record
<1>3. ASSUME NEW s \in Span, s.end # U32Max, SpanNonEmpty(s) \/ SpanBlank(s)
      PROVE  DecodeSpan(EncodeSpan(s)) = s
  <2>1. s.start \in 0..SizeMax /\ s.end \in 0..SizeMax
    BY DEF Span
  <2>2. s.start = Unknown \/ s.start < U32Max
    BY <1>3, <2>1, SizesAssumption DEF SpanNonEmpty, SpanKnown, SpanBlank
  <2>3. s.end = Unknown \/ s.end < U32Max
    BY <1>3, <2>1, SizesAssumption DEF SpanNonEmpty, SpanKnown, SpanBlank
  <2>. QED
    BY <1>1, <2>1, <2>2, <2>3 DEF DecodeSpan, EncodeSpan, Span
<1>4. /\ DecodeSpan(EncodeSpan(r.spans.subject)) = r.spans.subject
      /\ DecodeSpan(EncodeSpan(r.spans.value)) = r.spans.value
  <2>1. /\ SpanNonEmpty(r.spans.subject) \/ SpanBlank(r.spans.subject)
        /\ SpanNonEmpty(r.spans.value) \/ SpanBlank(r.spans.value)
    BY DEF ValidSpans
  <2>. QED
    BY <1>2, <1>3, <2>1 DEF EndsElsewhere
<1>5. r.raw % (U32Max + 1) = r.raw
  BY <1>2, SizesAssumption
<1>6. /\ EncodeRecord(r).spans = [subject |-> EncodeSpan(r.spans.subject),
                                   value |-> EncodeSpan(r.spans.value)]
      /\ EncodeRecord(r).raw = r.raw
      /\ EncodeRecord(r).active = r.active
      /\ EncodeRecord(r) = [r EXCEPT !.spans = EncodeRecord(r).spans]
  BY <1>5 DEF EncodeRecord, Record
<1>7. DecodeRecord(2, EncodeRecord(r)) =
        [EncodeRecord(r) EXCEPT !.spans = [subject |-> DecodeSpan(@.subject),
                                           value |-> DecodeSpan(@.value)]]
  BY DEF DecodeRecord
<1>8. DecodeRecord(2, EncodeRecord(r)) =
        [EncodeRecord(r) EXCEPT !.spans = r.spans]
  BY <1>2, <1>4, <1>6, <1>7
<1>. QED
  BY <1>6, <1>8 DEF Record

\* What a file decodes to never ends a span at UINT32_MAX.
LEMMA DecodeNoEdge ==
  ASSUME NEW f \in Files
  PROVE  NoEdge(Decode(f))
<1>1. \A n \in 0..U32Max : DecodeSize(n) # U32Max
  BY SizesAssumption DEF DecodeSize, Unknown
<1>2. ASSUME NEW r \in FileRecord, NEW v \in {1, 2}
      PROVE  EndsElsewhere(DecodeRecord(v, r).spans)
  <2>1. r.spans.subject \in FileSpan /\ r.spans.value \in FileSpan
    BY DEF FileRecord
  <2>2. CASE v = 1
    <3>1. DecodeRecord(v, r).spans = [subject |-> BlankSpan, value |-> BlankSpan]
      BY <2>2 DEF DecodeRecord, FileRecord
    <3>. QED
      BY <3>1, SizesAssumption DEF EndsElsewhere, BlankSpan, Unknown
  <2>3. CASE v = 2
    <3>1. DecodeRecord(v, r).spans = [subject |-> DecodeSpan(r.spans.subject),
                                      value |-> DecodeSpan(r.spans.value)]
      BY <2>3 DEF DecodeRecord, FileRecord
    <3>. QED
      BY <1>1, <2>1, <3>1 DEF EndsElsewhere, DecodeSpan, FileSpan
  <2>. QED
    BY <2>2, <2>3
<1>3. \A i \in DOMAIN f.records : f.records[i] \in FileRecord /\ f.version \in {1, 2}
  BY DEF Files
<1>. QED
  BY <1>2, <1>3 DEF NoEdge, Decode

\* "rep" is a replay of the first records of "log".
ReplayOf(rep, log) ==
  /\ Len(rep) <= Len(log)
  /\ \A i \in DOMAIN rep : SamePayload(rep[i], log[i])

\* Every record of a well-formed log is accepted after the ones before it.
LEMMA ReplayAccepts ==
  ASSUME NEW rep, NEW log, LogOK(rep), LogOK(log), ReplayOf(rep, log),
         Len(rep) < Len(log)
  PROVE  Accepts(rep, log[Len(rep) + 1])
<1> DEFINE m == Len(rep) + 1
           e == log[m]
<1>1. /\ rep \in Seq(Record) /\ log \in Seq(Record)
      /\ DOMAIN rep = 1..Len(rep) /\ DOMAIN log = 1..Len(log)
      /\ Len(rep) \in Nat /\ Len(log) \in Nat
  BY DEF LogOK
<1>2. m \in DOMAIN log /\ \A i \in DOMAIN rep : i \in DOMAIN log /\ i # m
  BY <1>1
<1>3. \A i \in DOMAIN rep : SamePayload(rep[i], log[i])
  BY DEF ReplayOf
<1>4. ValidSpans(e.spans)
  BY <1>2 DEF LogOK
<1>5. ~Known(rep, e.id)
  BY <1>2, <1>3 DEF Known, SamePayload, LogOK, UniqueIds
<1>6. Len(rep) < MaxCount
  BY <1>1, SizesAssumption DEF LogOK
<1>7. ASSUME e.op # "ASSERT" PROVE \E i \in DOMAIN rep : IsTarget(rep, i, e)
  <2>1. PICK i \in 1..(m - 1) : /\ log[i].id = e.target
                               /\ log[i].key = e.key
                               /\ log[i].kind = e.kind
                               /\ log[i].op # "RETRACT"
    BY <1>2, <1>7 DEF LogOK, LinksSound
  <2>2. i \in DOMAIN rep /\ SamePayload(rep[i], log[i])
    BY <1>1, <1>3
  <2>3. \A j \in DOMAIN rep : ~Deactivates(rep[j], rep[i])
    <3>1. SUFFICES ASSUME NEW j \in DOMAIN rep, Deactivates(rep[j], rep[i])
                   PROVE  FALSE
      OBVIOUS
    <3>2. log[j].op # "ASSERT" /\ log[j].target = e.target
      BY <3>1, <2>1, <2>2, <1>3 DEF Deactivates, SamePayload
    <3>3. j = m
      BY <3>2, <1>2, <1>7 DEF LogOK, LinksSound
    <3>. QED
      BY <3>3, <1>2
  <2>4. rep[i].active = 1
    BY <2>1, <2>2, <2>3 DEF LogOK, ActiveDerived, SamePayload
  <2>. QED
    BY <2>1, <2>2, <2>4 DEF IsTarget, SamePayload
<1>8. ASSUME e.op = "SUPERSEDE" PROVE e.kind = "PROPERTY"
  BY <1>2, <1>8 DEF LogOK, LinksSound
<1>. QED
  BY <1>4, <1>5, <1>6, <1>7, <1>8 DEF Accepts

\* A complete replay of a well-formed log is that log, flags included.
LEMMA ReplayComplete ==
  ASSUME NEW rep, NEW log, LogOK(rep), LogOK(log), ReplayOf(rep, log),
         Len(rep) = Len(log)
  PROVE  rep = log
<1>1. /\ rep \in Seq(Record) /\ log \in Seq(Record)
      /\ DOMAIN rep = 1..Len(rep) /\ DOMAIN log = 1..Len(rep)
  BY DEF LogOK
<1>2. \A i \in DOMAIN rep : SamePayload(rep[i], log[i])
  BY DEF ReplayOf
<1>3. ASSUME NEW i \in DOMAIN rep PROVE rep[i] = log[i]
  <2>1. rep[i] \in Record /\ log[i] \in Record
    BY <1>1
  <2>2. \A j \in DOMAIN rep : Deactivates(rep[j], rep[i]) <=> Deactivates(log[j], log[i])
    BY <1>2 DEF Deactivates, SamePayload
  <2>3. (rep[i].active = 1) <=> (log[i].active = 1)
    BY <1>1, <1>2, <2>2 DEF LogOK, ActiveDerived, SamePayload
  <2>4. rep[i].active = log[i].active
    BY <2>1, <2>3 DEF Record
  <2>. QED
    BY <2>1, <2>4, <1>2 DEF Record, SamePayload
<1>. QED
  BY <1>1, <1>3
-----------------------------------------------------------------------------
(***************************************************************************)
(* The invariant behind the load: an intact file decodes to the log it was *)
(* saved from, and what a load has replayed is the beginning of what it    *)
(* parsed.                                                                 *)
(***************************************************************************)
FileFaithful ==
  file.intact => LogOK(file.origin) /\ Decode(file) = file.origin

LoadFaithful ==
  load.on =>
    /\ ReplayOf(load.replayed, load.records)
    /\ load.intact => load.records = load.origin /\ LogOK(load.origin)

NoEdges == NoEdge(events) /\ NoEdge(load.records) /\ NoEdge(load.replayed)

LoadInv == LogsOK /\ NoEdges /\ FileFaithful /\ LoadFaithful

\* Applying an event adds no span that ends at UINT32_MAX.
LEMMA AppliedNoEdge ==
  ASSUME NEW log \in Seq(Record), NEW e \in Record, NoEdge(log),
         EndsElsewhere(e.spans)
  PROVE  NoEdge(Applied(log, e))
<1>1. \A i \in 1..(Len(log) + 1) : i \in 1..Len(log) \/ i = Len(log) + 1
  OBVIOUS
<1>2. /\ \A i \in 1..Len(log) : Applied(log, e)[i].spans = log[i].spans
      /\ Applied(log, e)[Len(log) + 1].spans = e.spans
  BY AppliedFields DEF SamePayload
<1>3. DOMAIN Applied(log, e) = 1..(Len(log) + 1)
  BY AppliedShape
<1>. QED
  BY <1>1, <1>2, <1>3 DEF NoEdge

\* One more replayed record keeps the replayed log a prefix of the original.
LEMMA AppliedReplay ==
  ASSUME NEW rep \in Seq(Record), NEW log \in Seq(Record),
         ReplayOf(rep, log), Len(rep) < Len(log)
  PROVE  ReplayOf(Applied(rep, log[Len(rep) + 1]), log)
<1> DEFINE n == Len(rep)
           e == log[n + 1]
           new == Applied(rep, e)
<1>1. n \in Nat /\ Len(log) \in Nat /\ DOMAIN rep = 1..n /\ e \in Record
  OBVIOUS
<1>2. Len(new) = n + 1 /\ DOMAIN new = 1..(n + 1)
  BY <1>1, AppliedShape
<1>3. /\ \A i \in 1..n : SamePayload(new[i], rep[i])
      /\ SamePayload(new[n + 1], e)
  BY <1>1, AppliedFields
<1>4. \A i \in 1..n : SamePayload(rep[i], log[i])
  BY <1>1 DEF ReplayOf
<1> HIDE DEF new, e
<1>5. ASSUME NEW i \in DOMAIN new PROVE SamePayload(new[i], log[i])
  <2>1. CASE i \in 1..n
    BY <2>1, <1>3, <1>4 DEF SamePayload
  <2>2. CASE i = n + 1
    BY <2>2, <1>3 DEF e
  <2>. QED
    BY <2>1, <2>2, <1>1, <1>2
<1>6. ReplayOf(new, log)
  BY <1>1, <1>2, <1>5 DEF ReplayOf
<1>. QED
  BY <1>6 DEF new, e

\* The file a save writes decodes to the log that was saved.
LEMMA SavedFileFaithful ==
  ASSUME NEW log, LogOK(log), NoEdge(log), Saveable(log),
         NEW f, f.version = 2, f.records = Encode(log)
  PROVE  Decode(f) = log
<1>1. log \in Seq(Record) /\ DOMAIN log = 1..Len(log)
  BY DEF LogOK
<1>2. DOMAIN Encode(log) = DOMAIN log
  BY DEF Encode
<1>3. ASSUME NEW i \in DOMAIN log
      PROVE  DecodeRecord(2, Encode(log)[i]) = log[i]
  <2>1. log[i] \in Record
    BY <1>1
  <2>2. ValidSpans(log[i].spans) /\ EndsElsewhere(log[i].spans) /\ log[i].raw <= U32Max
    BY DEF Saveable, NoEdge
  <2>3. DecodeRecord(2, EncodeRecord(log[i])) = log[i]
    BY <2>1, <2>2, RoundTrip
  <2>. QED
    BY <2>3 DEF Encode
<1>4. Decode(f) = [i \in DOMAIN log |-> log[i]]
  BY <1>2, <1>3 DEF Decode
<1>. QED
  BY <1>1, <1>4

\* Intact files and the loads from them are faithful in every reachable state.
LEMMA LoadInvariant ==
  ASSUME SpansBelowLimit
  PROVE  Spec => []LoadInv
<1>1. Init /\ LogsOK => LoadInv
  BY DEF Init, NoLoad, NoFile, LegacyFile, LoadInv, NoEdges, NoEdge,
         FileFaithful, LoadFaithful
<1>2. LoadInv /\ LogsOK' /\ [Next]_vars => LoadInv'
  <2> SUFFICES ASSUME LoadInv, LogsOK', [Next]_vars
               PROVE  NoEdges' /\ FileFaithful' /\ LoadFaithful'
    BY DEF LoadInv
  <2>. USE DEF LoadInv
  <2>0. TypeOK /\ LogOK(events) /\ LogOK(load.replayed)
    BY DEF LogsOK
  <2>1. ASSUME NEW e \in Events, Apply(e)
        PROVE  NoEdges' /\ FileFaithful' /\ LoadFaithful'
    <3>1. e \in Record /\ EndsElsewhere(e.spans) /\ events \in Seq(Record)
      BY <2>0, EventsAssumption DEF SpansBelowLimit, TypeOK
    <3>2. NoEdge(events')
      BY <2>1, <3>1, AppliedNoEdge DEF Apply, NoEdges
    <3>. QED
      BY <2>1, <3>2 DEF Apply, NoEdges, FileFaithful, LoadFaithful, Decode
  <2>2. CASE Clear
    BY <2>2 DEF Clear, NoEdges, NoEdge, FileFaithful, LoadFaithful, Decode
  <2>3. CASE Save
    <3>1. /\ file'.version = 2 /\ file'.records = Encode(events)
          /\ file'.origin = events
      BY <2>3 DEF Save
    <3>2. Decode(file') = events
      BY <2>0, <2>3, <3>1, SavedFileFaithful DEF Save, NoEdges
    <3>3. FileFaithful'
      BY <2>0, <3>1, <3>2 DEF FileFaithful, Decode
    <3>. QED
      BY <2>3, <3>3 DEF Save, NoEdges, LoadFaithful
  <2>4. CASE SaveFails
    BY <2>4 DEF SaveFails, NoFile, NoEdges, FileFaithful, LoadFaithful
  <2>5. CASE CrashInSave
    BY <2>5 DEF CrashInSave, TornFile, NoEdges, NoEdge, FileFaithful, LoadFaithful
  <2>6. ASSUME NEW i \in 1..MaxCount, NEW op \in Operations,
               NEW kind \in MemoryKinds, NEW active \in {0, 1},
               AlterFile(i, op, kind, active)
        PROVE  NoEdges' /\ FileFaithful' /\ LoadFaithful'
    BY <2>6 DEF AlterFile, NoEdges, FileFaithful, LoadFaithful
  <2>7. CASE BeginLoad
    <3>1. /\ load'.records = Decode(file) /\ load'.replayed = <<>>
          /\ load'.intact = file.intact /\ load'.origin = file.origin
      BY <2>7 DEF BeginLoad
    <3>2. NoEdge(Decode(file)) /\ Len(Decode(file)) \in Nat
      BY <2>0, DecodeNoEdge, DecodeType DEF TypeOK
    <3>3. ReplayOf(<<>>, Decode(file))
      BY <3>2 DEF ReplayOf
    <3>4. events' = events /\ file' = file /\ Decode(file)' = Decode(file)
      BY <2>7 DEF BeginLoad, Decode
    <3>5. NoEdges'
      BY <3>1, <3>2, <3>4 DEF NoEdges, NoEdge
    <3>6. FileFaithful'
      BY <3>4 DEF FileFaithful
    <3>7. LoadFaithful'
      BY <3>1, <3>3 DEF LoadFaithful, FileFaithful
    <3>. QED
      BY <3>5, <3>6, <3>7
  <2>8. CASE ReplayStep
    <3>1. /\ load.records \in Seq(Record) /\ load.replayed \in Seq(Record)
          /\ Len(load.replayed) < Len(load.records)
      BY <2>0, <2>8 DEF TypeOK, Loads, ReplayStep, Replaying
    <3>2. /\ NextReplayed \in Record
          /\ Len(load.replayed) + 1 \in DOMAIN load.records
      BY <2>0, <2>8, NextReplayedType DEF ReplayStep
    <3>3. /\ load'.replayed = Applied(load.replayed, NextReplayed)
          /\ load'.records = load.records
          /\ load'.intact = load.intact /\ load'.origin = load.origin
          /\ load'.on = load.on
      BY <2>0, <2>8 DEF ReplayStep, TypeOK, Loads
    <3>4. NoEdge(load'.replayed)
      BY <3>1, <3>2, <3>3, AppliedNoEdge DEF NoEdges, NoEdge, NextReplayed
    <3>5. load.on => ReplayOf(load'.replayed, load.records)
      BY <3>1, <3>3, AppliedReplay DEF LoadFaithful, NextReplayed
    <3>6. events' = events /\ file' = file /\ Decode(file)' = Decode(file)
      BY <2>8 DEF ReplayStep, Decode
    <3>7. NoEdges'
      BY <3>3, <3>4, <3>6 DEF NoEdges
    <3>8. FileFaithful'
      BY <3>6 DEF FileFaithful
    <3>9. LoadFaithful'
      BY <3>3, <3>5 DEF LoadFaithful
    <3>. QED
      BY <3>7, <3>8, <3>9
  <2>9. CASE FinishLoad
    BY <2>9 DEF FinishLoad, NoLoad, NoEdges, NoEdge, FileFaithful, LoadFaithful, Decode
  <2>10. CASE AbandonLoad
    BY <2>10 DEF AbandonLoad, NoLoad, NoEdges, NoEdge, FileFaithful, LoadFaithful, Decode
  <2>11. CASE UNCHANGED vars
    BY <2>11 DEF vars, NoEdges, FileFaithful, LoadFaithful, Decode
  <2>. QED
    BY <2>1, <2>2, <2>3, <2>4, <2>5, <2>6, <2>7, <2>8, <2>9, <2>10, <2>11 DEF Next
<1>. QED
  BY <1>1, <1>2, LogsInvariant, PTL DEF Spec

\* As long as no submitted span ends at UINT32_MAX, a load of an intact file
\* accepts every record and restores exactly the log that was saved.
THEOREM IntactLoadAlwaysSucceeds ==
  ASSUME SpansBelowLimit
  PROVE  Spec => []IntactLoadSucceeds
<1>1. LoadInv => IntactLoadSucceeds
  <2> SUFFICES ASSUME LoadInv, load.on, load.intact
               PROVE  IF Replaying THEN Accepts(load.replayed, NextReplayed)
                      ELSE /\ load.replayed = load.origin
                           /\ SameFlags(load.replayed, load.records)
    BY DEF IntactLoadSucceeds
  <2>1. /\ LogOK(load.replayed) /\ LogOK(load.origin)
        /\ load.records = load.origin
        /\ ReplayOf(load.replayed, load.origin)
    BY DEF LoadInv, LogsOK, LoadFaithful
  <2>2. Len(load.replayed) \in Nat /\ Len(load.origin) \in Nat
    BY <2>1 DEF LogOK
  <2>3. CASE Replaying
    BY <2>1, <2>3, ReplayAccepts DEF Replaying, NextReplayed
  <2>4. CASE ~Replaying
    <3>1. Len(load.replayed) = Len(load.origin)
      BY <2>1, <2>2, <2>4 DEF Replaying, ReplayOf
    <3>. QED
      BY <2>1, <2>4, <3>1, ReplayComplete DEF SameFlags
  <2>. QED
    BY <2>3, <2>4
<1>. QED
  BY <1>1, LoadInvariant, PTL

-----------------------------------------------------------------------------
(* The session memory. *)

(* A log has one record more after an event, and all as they were but for    *)
(* flags that were cleared.                                                  *)
LEMMA AppliedKeeps ==
  ASSUME NEW log \in Seq(Record), NEW e \in Record, NEW n \in Nat, n = Len(log)
  PROVE  /\ Applied(log, e) \in Seq(Record) /\ Len(Applied(log, e)) = n + 1
         /\ DOMAIN Applied(log, e) = 1 .. (n + 1)
         /\ \A i \in 1 .. n : /\ Applied(log, e)[i].raw = log[i].raw
                            /\ Applied(log, e)[i].id = log[i].id
         /\ Applied(log, e)[n + 1] = Stored(e)
<1> DEFINE old == [i \in DOMAIN log |-> Demoted(log[i], e)]
<1>1. Stored(e) \in Record
  BY DEF Stored, Record
<1>2. ASSUME NEW i \in 1 .. n
      PROVE  /\ Demoted(log[i], e) \in Record
             /\ Demoted(log[i], e).raw = log[i].raw /\ Demoted(log[i], e).id = log[i].id
  <2>1. log[i] \in Record
    OBVIOUS
  <2> QED BY <2>1 DEF Demoted, Record
<1>3. old \in Seq(Record) /\ Len(old) = n /\ \A i \in 1 .. n : old[i] = Demoted(log[i], e)
  BY <1>2
<1>4. Applied(log, e) = Append(old, Stored(e))
  BY DEF Applied
<1> HIDE DEF old
<1> QED BY <1>1, <1>2, <1>3, <1>4

(* Within its limits.                                                        *)
FitsOK(m) ==
  /\ m \in Memory
  /\ Len(m.episodic) <= MaxTexts /\ Len(m.events) <= MaxCount
  /\ Len(m.resident) <= MaxSlots

(* Every text has an event.                                                  *)
UsedOK(m) ==
  \A i \in DOMAIN m.episodic : \E j \in DOMAIN m.events : m.events[j].raw = i - 1

(* The name of an event is a client's, or the automatic one for its place.   *)
NamesOK(m) ==
  \A i \in DOMAIN m.events : m.events[i].id \in ClientIds \cup {AutoIds[i]}

AlignedOK(m) == m.resident = IF Resident THEN m.sources ELSE <<>>

MemOK(m) == FitsOK(m) /\ OwnEvidence(m) /\ UsedOK(m) /\ NamesOK(m) /\ AlignedOK(m)

(* The text a request has just stored is one a retry is recognised by.       *)
RetryOK ==
  reply.path = "remember" /\ reply.ok /\ reply.text # NoText =>
    Replayed(mem, reply.text, NoId, "IGNORE")

Inv == mode \in Modes /\ MemOK(mem) /\ MemOK(disk.mem) /\ RetryOK
-----------------------------------------------------------------------------
SameTexts(a, b) == \A i \in DOMAIN b : i \in DOMAIN a /\ a[i].text = b[i].text

(* Adding a text keeps the texts before it, and has the text: at a new place *)
(* if it was not there.                                                      *)
LEMMA AddedShape ==
  ASSUME NEW ep \in Seq(Episode), NEW t \in Texts, NEW p \in Priorities
  PROVE  /\ Added(ep, t, p) \in Seq(Episode)
         /\ SameTexts(Added(ep, t, p), ep)
         /\ HasText(ep, t) => Len(Added(ep, t, p)) = Len(ep)
         /\ ~HasText(ep, t) => Len(Added(ep, t, p)) = Len(ep) + 1
         /\ HasText(Added(ep, t, p), t)
<1>1. CASE HasText(ep, t)
  <2> DEFINE new == [i \in DOMAIN ep |-> IF ep[i].text = t
                       THEN [text |-> t, priority |-> Larger(ep[i].priority, p)]
                       ELSE ep[i]]
  <2>1. \A i \in DOMAIN ep : ep[i] \in Episode /\ Larger(ep[i].priority, p) \in Priorities
    <3>1. \A i \in DOMAIN ep : ep[i] \in Episode
      OBVIOUS
    <3>2. \A x \in Episode : x.priority \in Priorities
      BY DEF Episode
    <3> QED BY <3>1, <3>2 DEF Larger
  <2>2. ASSUME NEW i \in DOMAIN ep PROVE new[i] \in Episode /\ new[i].text = ep[i].text
    <3>1. CASE ep[i].text = t
      BY <2>1, <3>1 DEF Episode
    <3>2. CASE ep[i].text # t
      BY <2>1, <3>2
    <3> QED BY <3>1, <3>2
  <2>3. new \in Seq(Episode) /\ Len(new) = Len(ep) /\ DOMAIN new = DOMAIN ep
    BY <2>2
  <2>4. Added(ep, t, p) = new
    BY <1>1 DEF Added
  <2> HIDE DEF new
  <2> QED BY <1>1, <2>2, <2>3, <2>4 DEF SameTexts, HasText
<1>2. CASE ~HasText(ep, t)
  <2>1. [text |-> t, priority |-> p] \in Episode
    BY DEF Episode
  <2>2. /\ Append(ep, [text |-> t, priority |-> p]) \in Seq(Episode)
        /\ Len(Append(ep, [text |-> t, priority |-> p])) = Len(ep) + 1
        /\ \A i \in 1 .. Len(ep) : Append(ep, [text |-> t, priority |-> p])[i] = ep[i]
        /\ Append(ep, [text |-> t, priority |-> p])[Len(ep) + 1] = [text |-> t, priority |-> p]
    BY <2>1
  <2>3. Added(ep, t, p) = Append(ep, [text |-> t, priority |-> p])
    BY <1>2 DEF Added
  <2>4. Added(ep, t, p)[Len(ep) + 1].text = t
    BY <2>2, <2>3
  <2> QED BY <1>2, <2>2, <2>3, <2>4 DEF SameTexts, HasText
<1> QED BY <1>1, <1>2

(* The index that comes with it is the one of the text.                      *)
LEMMA RawIndexOf ==
  ASSUME NEW ep \in Seq(Episode), NEW t, HasText(ep, t)
  PROVE  /\ RawIndex(ep, t) \in Nat /\ RawIndex(ep, t) < Len(ep)
         /\ RawIndex(ep, t) + 1 \in DOMAIN ep /\ ep[RawIndex(ep, t) + 1].text = t
<1>1. PICK i \in DOMAIN ep : ep[i].text = t
  BY DEF HasText
<1> DEFINE c == CHOOSE j \in DOMAIN ep : ep[j].text = t
<1>2. c \in DOMAIN ep /\ ep[c].text = t
  BY <1>1
<1>3. RawIndex(ep, t) = c - 1
  BY DEF RawIndex
<1> HIDE DEF c
<1> QED BY <1>2, <1>3
-----------------------------------------------------------------------------
(* The index of an event's text is a number.                                *)
LEMMA RawIsNat == \A r \in Record : r.raw \in Nat
  BY SizesAssumption DEF Record

(* An event that is accepted points at its text, one that was there or the   *)
(* one text that came with it.                                               *)
LEMMA StoredOK ==
  ASSUME NEW m, MemOK(m), NEW t \in Texts, NEW e \in Record,
         e.id \in ClientIds \cup {AutoId(m)},
         Resident => Len(m.resident) < MaxSlots,
         NEW ep \in Seq(Episode), SameTexts(ep, m.episodic), Len(ep) <= MaxTexts,
         NEW r \in Nat, r < Len(ep), ep[r + 1].text = t,
         \A i \in DOMAIN ep : i \in DOMAIN m.episodic \/ i = r + 1,
         NEW ev, ev = [e EXCEPT !.raw = r],
         Accepts(m.events, ev),
         NEW n, n = [episodic |-> ep, events |-> Applied(m.events, ev),
                     resident |-> Slots(m, t), sources |-> Append(m.sources, t)]
  PROVE  /\ MemOK(n)
         /\ e.op # "RETRACT" => Replayed(n, t, NoId, "IGNORE")
<1> DEFINE k == Len(m.events)
<1>1. /\ m \in Memory /\ m.episodic \in Seq(Episode) /\ m.events \in Seq(Record)
      /\ m.resident \in Seq(Texts) /\ m.sources \in Seq(Texts)
      /\ Len(m.episodic) <= MaxTexts /\ k \in Nat
      /\ Len(m.resident) <= MaxSlots /\ Len(m.sources) = k
  BY DEF MemOK, FitsOK, Memory, OwnEvidence
<1>2. Len(ep) \in Nat /\ r + 1 \in DOMAIN ep /\ DOMAIN m.events = 1 .. k
  BY <1>1
<1>4. ev \in Record /\ ev.raw = r /\ ev.id = e.id /\ ev.op = e.op
  <2>1. r \in 0 .. SizeMax
    BY <1>2, ServerAssumption, SizesAssumption
  <2> QED BY <2>1 DEF Record
<1>5. k < MaxCount
  BY DEF Accepts
<1> DEFINE log == Applied(m.events, ev)
<1>6. /\ log \in Seq(Record) /\ Len(log) = k + 1 /\ DOMAIN log = 1 .. (k + 1)
      /\ \A i \in 1 .. k : log[i].raw = m.events[i].raw /\ log[i].id = m.events[i].id
      /\ log[k + 1].raw = r /\ log[k + 1].id = e.id
      /\ e.op # "RETRACT" => log[k + 1].active = 1
  <2>1. m.events \in Seq(Record) /\ k \in Nat /\ k = Len(m.events)
    BY <1>1
  <2>2. /\ log \in Seq(Record) /\ Len(log) = k + 1 /\ DOMAIN log = 1 .. (k + 1)
        /\ \A i \in 1 .. k : log[i].raw = m.events[i].raw /\ log[i].id = m.events[i].id
        /\ log[k + 1] = Stored(ev)
    <3>1. PICK old \in Seq(Record) : old = m.events
      BY <2>1
    <3>2. PICK event \in Record : event = ev
      BY <1>4
    <3>3. k = Len(old)
      BY <3>1
    <3>4. log = Applied(old, event)
      BY <3>1, <3>2
    <3> HIDE DEF k, log
    <3>5. /\ Applied(old, event) \in Seq(Record) /\ Len(Applied(old, event)) = k + 1
          /\ DOMAIN Applied(old, event) = 1 .. (k + 1)
          /\ \A i \in 1 .. k : /\ Applied(old, event)[i].raw = old[i].raw
                              /\ Applied(old, event)[i].id = old[i].id
          /\ Applied(old, event)[k + 1] = Stored(event)
      BY <2>1, <3>3, AppliedKeeps
    <3> QED BY <3>1, <3>2, <3>4, <3>5
  <2>3. /\ Stored(ev).raw = ev.raw /\ Stored(ev).id = ev.id
        /\ ev.op # "RETRACT" => Stored(ev).active = 1
    BY <1>4 DEF Stored, Record
  <2> HIDE DEF log
  <2> QED BY <1>4, <2>2, <2>3
<1> HIDE DEF log
<1>7. n.episodic = ep /\ n.events = log /\ n.resident = Slots(m, t)
      /\ n.sources = Append(m.sources, t)
  BY DEF log
<1>8. /\ n.sources \in Seq(Texts) /\ Len(n.sources) = k + 1
      /\ \A i \in 1 .. k : n.sources[i] = m.sources[i]
      /\ n.sources[k + 1] = t
  <2>1. m.sources \in Seq(Texts) /\ Len(m.sources) = k /\ k \in Nat
    BY <1>1
  <2> HIDE DEF k
  <2> QED BY <1>7, <2>1
<1>9. n.resident \in Seq(Texts) /\ Len(n.resident) <= MaxSlots
  BY <1>1, <1>7, ServerAssumption DEF Slots
<1>10. FitsOK(n)
  <2>1. n \in Memory
    BY <1>2, <1>6, <1>7, <1>8, <1>9 DEF Memory, log
  <2> QED BY <2>1, <1>2, <1>5, <1>6, <1>7, <1>9, SizesAssumption DEF FitsOK
<1>11. OwnEvidence(n)
  <2>1. ASSUME NEW i \in 1 .. k
        PROVE  n.events[i].raw < Len(ep) /\ ep[n.events[i].raw + 1].text = n.sources[i]
    <3>1. /\ m.events[i].raw < Len(m.episodic) /\ m.events[i].raw \in Nat
          /\ m.episodic[m.events[i].raw + 1].text = m.sources[i]
      <4>1. m.events[i] \in Record /\ i \in DOMAIN m.events
        BY <1>1
      <4> QED BY <4>1, RawIsNat DEF MemOK, OwnEvidence
    <3>2. m.events[i].raw + 1 \in DOMAIN m.episodic
      BY <1>1, <3>1
    <3>3. m.events[i].raw < Len(ep)
      BY <1>2, <3>1, <3>2 DEF SameTexts
    <3>4. ep[m.events[i].raw + 1].text = m.episodic[m.events[i].raw + 1].text
      BY <1>2, <3>2 DEF SameTexts
    <3> QED BY <1>6, <1>7, <1>8, <3>1, <3>3, <3>4
  <2>2. n.events[k + 1].raw < Len(ep) /\ ep[n.events[k + 1].raw + 1].text = n.sources[k + 1]
    BY <1>6, <1>7, <1>8
  <2>3. \A i \in 1 .. (k + 1) : i \in 1 .. k \/ i = k + 1
    BY <1>1
  <2> QED BY <1>6, <1>7, <1>8, <2>1, <2>2, <2>3 DEF OwnEvidence
<1>12. UsedOK(n)
  <2> SUFFICES ASSUME NEW i \in DOMAIN ep
               PROVE  \E j \in DOMAIN log : log[j].raw = i - 1
    BY <1>7 DEF UsedOK
  <2>1. CASE i \in DOMAIN m.episodic
    <3>1. PICK j \in DOMAIN m.events : m.events[j].raw = i - 1
      BY <2>1 DEF MemOK, UsedOK
    <3>2. j \in 1 .. k /\ j \in DOMAIN log
      BY <1>1, <1>6, <3>1
    <3> QED BY <1>6, <3>1, <3>2
  <2>2. CASE i \notin DOMAIN m.episodic
    <3>1. k + 1 \in DOMAIN log
      BY <1>1, <1>6
    <3>2. log[k + 1].raw = i - 1
      BY <1>6, <2>2
    <3> QED BY <3>1, <3>2
  <2> QED BY <2>1, <2>2
<1>13. NamesOK(n)
  <2>1. \A i \in 1 .. k : log[i].id \in ClientIds \cup {AutoIds[i]}
    BY <1>2, <1>6 DEF MemOK, NamesOK
  <2>2. log[k + 1].id \in ClientIds \cup {AutoIds[k + 1]}
    BY <1>6 DEF AutoId
  <2>3. \A i \in DOMAIN log : i \in 1 .. k \/ i = k + 1
    BY <1>1, <1>6
  <2> QED BY <1>7, <2>1, <2>2, <2>3 DEF NamesOK
<1>14. AlignedOK(n)
  BY <1>7 DEF MemOK, AlignedOK, Slots
<1>15. e.op # "RETRACT" => Replayed(n, t, NoId, "IGNORE")
  <2> SUFFICES ASSUME e.op # "RETRACT" PROVE Replayed(n, t, NoId, "IGNORE")
    OBVIOUS
  <2>1. k + 1 \in ActiveEvents(n) /\ k + 1 = Len(n.events)
    BY <1>1, <1>6, <1>7 DEF ActiveEvents
  <2>2. n.events[k + 1].raw < Len(n.episodic) /\ n.episodic[n.events[k + 1].raw + 1].text = t
    BY <1>6, <1>7
  <2> QED BY <2>1, <2>2 DEF Replayed
<1> QED BY <1>10, <1>11, <1>12, <1>13, <1>14, <1>15 DEF MemOK

(* A text whose event is refused is taken back; what stays is as it was, but *)
(* perhaps for a priority.                                                   *)
LEMMA TakenBackOK ==
  ASSUME NEW m, MemOK(m), NEW t \in Texts, NEW p \in Priorities,
         NEW n, n = [m EXCEPT !.episodic =
                       Truncated(Added(m.episodic, t, p), Len(m.episodic))]
  PROVE  MemOK(n) /\ Contents(n) = Contents(m)
<1> DEFINE ep == Added(m.episodic, t, p)
           old == m.episodic
           new == SubSeq(ep, 1, Len(old))
<1>1. /\ m \in Memory /\ old \in Seq(Episode) /\ Len(old) \in Nat
  BY DEF MemOK, FitsOK, Memory
<1>2. ep \in Seq(Episode) /\ SameTexts(ep, old) /\ Len(old) <= Len(ep)
  BY <1>1, AddedShape
<1> HIDE DEF ep
<1>3. new \in Seq(Episode) /\ Len(new) = Len(old) /\ \A i \in 1 .. Len(old) : new[i] = ep[i]
  BY <1>1, <1>2
<1>4. DOMAIN new = DOMAIN old /\ \A i \in DOMAIN old : new[i].text = old[i].text
  BY <1>1, <1>2, <1>3 DEF SameTexts
<1>5. n = [m EXCEPT !.episodic = new]
  BY DEF Truncated, ep
<1> HIDE DEF new
<1>6. /\ n \in Memory /\ n.episodic = new /\ n.events = m.events
      /\ n.resident = m.resident /\ n.sources = m.sources
  BY <1>1, <1>3, <1>5 DEF Memory
<1>7. FitsOK(n)
  BY <1>3, <1>6 DEF MemOK, FitsOK
<1>8. OwnEvidence(n)
  <2>1. \A i \in DOMAIN m.events : m.events[i].raw \in Nat
    <3>1. m.events \in Seq(Record)
      BY <1>1 DEF Memory
    <3> QED BY <3>1, RawIsNat
  <2>2. \A i \in DOMAIN m.events : m.events[i].raw + 1 \in DOMAIN old
    BY <1>1, <2>1 DEF MemOK, OwnEvidence
  <2> QED BY <1>3, <1>4, <1>6, <2>2 DEF MemOK, OwnEvidence
<1>9. UsedOK(n) /\ NamesOK(n) /\ AlignedOK(n)
  BY <1>4, <1>6 DEF MemOK, UsedOK, NamesOK, AlignedOK
<1>10. Contents(n) = Contents(m)
  <2>1. [i \in DOMAIN new |-> new[i].text] = [i \in DOMAIN old |-> old[i].text]
    BY <1>4
  <2>2. Contents(n) = [m EXCEPT !.episodic = [i \in DOMAIN new |-> new[i].text]]
    BY <1>1, <1>5, <1>6 DEF Contents, Memory
  <2> QED BY <2>1, <2>2 DEF Contents
<1> QED BY <1>7, <1>8, <1>9, <1>10 DEF MemOK

(* Source text and event go in together, or nothing does.                    *)
LEMMA WriteOK ==
  ASSUME NEW m, MemOK(m), NEW t \in Texts, NEW p \in Priorities, NEW e \in Record,
         e.id \in ClientIds \cup {AutoId(m)},
         Resident => Len(m.resident) < MaxSlots,
         NEW o, o = Write(m, t, p, e)
  PROVE  /\ MemOK(o.mem) /\ o.ok \in BOOLEAN
         /\ ~o.ok => Contents(o.mem) = Contents(m)
         /\ o.ok /\ e.op # "RETRACT" => Replayed(o.mem, t, NoId, "IGNORE")
<1> DEFINE ep == Added(m.episodic, t, p)
           r == RawIndex(ep, t)
           ev == [e EXCEPT !.raw = r]
<1>1. m.episodic \in Seq(Episode) /\ Len(m.episodic) <= MaxTexts /\ Len(m.episodic) \in Nat
  BY DEF MemOK, FitsOK, Memory
<1>2. CASE ~CanAdd(m.episodic, t)
  BY <1>2 DEF Write
<1>3. CASE CanAdd(m.episodic, t) /\ ~Accepts(m.events, ev)
  <2> DEFINE n == [m EXCEPT !.episodic = Truncated(ep, Len(m.episodic))]
  <2>1. o = [mem |-> n, ok |-> FALSE]
    BY <1>3 DEF Write
  <2>2. MemOK(n) /\ Contents(n) = Contents(m)
    BY TakenBackOK
  <2> HIDE DEF n
  <2> QED BY <2>1, <2>2
<1>4. CASE CanAdd(m.episodic, t) /\ Accepts(m.events, ev)
  <2> DEFINE n == [episodic |-> ep, events |-> Applied(m.events, ev),
                   resident |-> Slots(m, t), sources |-> Append(m.sources, t)]
  <2>1. o = [mem |-> n, ok |-> TRUE]
    BY <1>4 DEF Write
  <2>2. /\ ep \in Seq(Episode) /\ SameTexts(ep, m.episodic) /\ HasText(ep, t)
        /\ HasText(m.episodic, t) => Len(ep) = Len(m.episodic)
        /\ ~HasText(m.episodic, t) => Len(ep) = Len(m.episodic) + 1
    BY <1>1, AddedShape
  <2>3. Len(ep) <= MaxTexts
    BY <1>1, <1>4, <2>2, ServerAssumption DEF CanAdd
  <2>4. r \in Nat /\ r < Len(ep) /\ r + 1 \in DOMAIN ep /\ ep[r + 1].text = t
    BY <2>2, RawIndexOf
  <2> HIDE DEF ep, r
  <2>5. ASSUME NEW i \in DOMAIN ep, i \notin DOMAIN m.episodic PROVE i = r + 1
    <3>1. ~HasText(m.episodic, t) /\ i = Len(m.episodic) + 1
      BY <1>1, <2>2, <2>5
    <3>2. r + 1 \notin DOMAIN m.episodic
      BY <2>2, <2>4, <3>1 DEF HasText, SameTexts
    <3> QED BY <1>1, <2>2, <2>4, <3>1, <3>2
  <2>6. MemOK(n) /\ (e.op # "RETRACT" => Replayed(n, t, NoId, "IGNORE"))
    BY <1>4, <2>2, <2>3, <2>4, <2>5, StoredOK
  <2> HIDE DEF n
  <2> QED BY <2>1, <2>6
<1> QED BY <1>2, <1>3, <1>4

(* What the writer proposes has the client's name or the next automatic one. *)
LEMMA ProposedOK ==
  ASSUME NEW m, MemOK(m), NEW id \in ClientIds \cup {NoId}, NEW hint \in Hints,
         NEW e \in Proposed(m, id, hint)
  PROVE  e \in Record /\ e.id \in ClientIds \cup {AutoId(m)} /\ e.op # "RETRACT"
<1> DEFINE name == IF id = NoId THEN AutoId(m) ELSE id
           event(key, op, target) ==
             [id |-> name, key |-> key, kind |-> "PROPERTY", op |-> op, target |-> target,
              spans |-> WriterSpans, raw |-> 0, active |-> 1]
<1>1. m.events \in Seq(Record) /\ Len(m.events) \in Nat /\ Len(m.events) <= MaxCount
  BY DEF MemOK, FitsOK, Memory
<1>2. AutoId(m) \in Ids
  BY <1>1, ServerAssumption, SizesAssumption DEF AutoId
<1>3. name \in Ids /\ name \in ClientIds \cup {AutoId(m)}
  BY <1>2, ServerAssumption
<1> HIDE DEF name
<1>4. ASSUME NEW key \in Keys, NEW op \in {"ASSERT", "SUPERSEDE"},
             NEW target \in Ids \cup {NoId}
      PROVE  event(key, op, target) \in Record /\ event(key, op, target).id = name
             /\ event(key, op, target).op = op
  BY <1>3, ServerAssumption, SizesAssumption DEF Record, MemoryKinds, Operations
<1>5. \/ \E k \in Keys : e = event(k, "ASSERT", NoId)
      \/ \E i \in ActiveEvents(m) :
           e = event(m.events[i].key, "SUPERSEDE", m.events[i].id)
  BY DEF Proposed, Hints, name
<1>6. \A i \in ActiveEvents(m) : m.events[i].key \in Keys /\ m.events[i].id \in Ids
  <2>1. \A i \in ActiveEvents(m) : m.events[i] \in Record
    BY <1>1 DEF ActiveEvents
  <2> QED BY <2>1 DEF Record
<1> HIDE DEF event
<1> QED BY <1>3, <1>4, <1>5, <1>6

(* The outcomes of a request to remember.                                    *)
LEMMA RememberedOK ==
  ASSUME NEW m, MemOK(m), NEW t \in Texts, NEW p \in Priorities,
         NEW id \in ClientIds \cup {NoId}, NEW hint \in Hints,
         NEW o \in Remembered(m, t, p, id, hint)
  PROVE  /\ MemOK(o.mem) /\ o.ok \in BOOLEAN
         /\ ~o.ok => Contents(o.mem) = Contents(m)
         /\ o.ok /\ id = NoId /\ hint = "IGNORE" => Replayed(o.mem, t, NoId, "IGNORE")
<1>1. CASE Replayed(m, t, id, hint)
  <2>1. o = [mem |-> m, ok |-> TRUE]
    BY <1>1 DEF Remembered
  <2>2. id = NoId /\ hint = "IGNORE"
    BY <1>1 DEF Replayed
  <2> QED BY <1>1, <2>1, <2>2
<1>2. CASE ~Replayed(m, t, id, hint)
  <2>1. \/ o = [mem |-> m, ok |-> FALSE]
        \/ SlotFree(m) /\ \E e \in Proposed(m, id, hint) : o = Write(m, t, p, e)
    BY <1>2 DEF Remembered
  <2>2. CASE o = [mem |-> m, ok |-> FALSE]
    BY <2>2
  <2>3. ASSUME SlotFree(m), NEW e \in Proposed(m, id, hint), o = Write(m, t, p, e)
        PROVE  /\ MemOK(o.mem) /\ o.ok \in BOOLEAN
               /\ ~o.ok => Contents(o.mem) = Contents(m)
               /\ o.ok => Replayed(o.mem, t, NoId, "IGNORE")
    <3>1. e \in Record /\ e.id \in ClientIds \cup {AutoId(m)} /\ e.op # "RETRACT"
      BY ProposedOK
    <3>2. Resident => Len(m.resident) < MaxSlots
      BY <2>3 DEF SlotFree
    <3> QED BY <2>3, <3>1, <3>2, WriteOK
  <2> QED BY <2>1, <2>2, <2>3
<1> QED BY <1>1, <1>2
-----------------------------------------------------------------------------
(* A new session's memory is sound.                                          *)
LEMMA EmptyOK == MemOK(Empty)
<1>1. /\ Empty.episodic = <<>> /\ Empty.events = <<>> /\ Empty.resident = <<>>
      /\ Empty.sources = <<>> /\ Empty \in Memory
  BY DEF Empty, Memory
<1>2. FitsOK(Empty)
  BY <1>1, ServerAssumption, SizesAssumption DEF FitsOK
<1> QED BY <1>1, <1>2 DEF MemOK, OwnEvidence, UsedOK, NamesOK, AlignedOK

(* A request that leaves the mode alone and ends with memories that are sound*)
(* keeps the invariant.                                                      *)
LEMMA KeptOK ==
  ASSUME NEW n, MemOK(n), mem' = n, NEW d, MemOK(d), disk'.mem = d,
         mode \in Modes, mode' = mode,
         reply'.path = "remember" /\ reply'.ok /\ reply'.text # NoText =>
           Replayed(n, reply'.text, NoId, "IGNORE")
  PROVE  Inv'
<1>1. MemOK(mem)'
  BY DEF MemOK, FitsOK, OwnEvidence, UsedOK, NamesOK, AlignedOK, Resident
<1>2. MemOK(disk.mem)'
  BY DEF MemOK, FitsOK, OwnEvidence, UsedOK, NamesOK, AlignedOK, Resident
<1>3. RetryOK'
  BY DEF RetryOK, Replayed, ActiveEvents, Resident
<1> QED BY <1>1, <1>2, <1>3 DEF Inv

(* What a handler that fails may not have done.                              *)
Harmless == reply'.path \in Writes /\ ~reply'.ok => Contents(mem') = Contents(mem)

(* A predecessor the server picks changes nothing else of an event.          *)
LEMMA NamedOK ==
  ASSUME MemOK(mem), NEW e \in Events, NEW f \in Named(mem, e)
  PROVE  f \in Record /\ f.id \in ClientIds
<1>1. e \in Record /\ e.id \in ClientIds
  BY EventsAssumption, ClientsAssumption
<1>2. \A i \in ActiveEvents(mem) : mem.events[i].id \in Ids
  <2>1. mem.events \in Seq(Record)
    BY DEF MemOK, FitsOK, Memory
  <2>2. \A i \in ActiveEvents(mem) : mem.events[i] \in Record
    BY <2>1 DEF ActiveEvents
  <2> QED BY <2>2 DEF Record
<1>3. f = e \/ \E i \in ActiveEvents(mem) : f = [e EXCEPT !.target = mem.events[i].id]
  BY DEF Named
<1>4. ASSUME NEW i \in ActiveEvents(mem), f = [e EXCEPT !.target = mem.events[i].id]
      PROVE  f \in Record /\ f.id = e.id
  <2>1. PICK g \in Ids : g = mem.events[i].id
    BY <1>2
  <2>2. f = [e EXCEPT !.target = g]
    BY <1>4, <2>1
  <2> QED BY <1>1, <2>2 DEF Record
<1> QED BY <1>1, <1>3, <1>4

(* The handlers.  Those that write events: with a text of their own, ...     *)
LEMMA EventInv ==
  ASSUME Inv, NEW t \in Texts, NEW e \in Events, HandleMemoryEvent(t, e)
  PROVE  Inv' /\ Harmless
<1>1. MemOK(mem) /\ MemOK(disk.mem) /\ mode \in Modes
  BY DEF Inv
<1>2. ~Resident /\ mode' = mode /\ disk' = disk
  BY DEF HandleMemoryEvent
<1>3. PICK o \in {Write(mem, t, 0, f) : f \in Named(mem, e)} \cup {[mem |-> mem, ok |-> FALSE]} :
        mem' = o.mem /\ reply' = Reply("event", o.ok, NoText, o.ok)
  BY DEF HandleMemoryEvent
<1>4. MemOK(o.mem) /\ (~o.ok => Contents(o.mem) = Contents(mem))
  <2>1. CASE o = [mem |-> mem, ok |-> FALSE]
    BY <1>1, <2>1
  <2>2. ASSUME NEW f \in Named(mem, e), o = Write(mem, t, 0, f)
        PROVE  MemOK(o.mem) /\ (~o.ok => Contents(o.mem) = Contents(mem))
    <3>1. f \in Record /\ f.id \in ClientIds
      BY <1>1, NamedOK
    <3>2. 0 \in Priorities
      BY ServerAssumption
    <3> QED BY <1>1, <1>2, <2>2, <3>1, <3>2, WriteOK
  <2> QED BY <1>3, <2>1, <2>2
<1>5. reply'.path = "event" /\ reply'.ok = o.ok
  BY <1>3 DEF Reply
<1>6. Inv'
  BY <1>1, <1>2, <1>3, <1>4, <1>5, KeptOK
<1> QED BY <1>3, <1>4, <1>5, <1>6 DEF Harmless

(* ... and about a text that is there.                                       *)
LEMMA EventOnRecordInv ==
  ASSUME Inv, NEW i \in 1 .. MaxTexts, NEW e \in Events, HandleEventOnRecord(i, e)
  PROVE  Inv' /\ Harmless
<1>1. MemOK(mem) /\ MemOK(disk.mem) /\ mode \in Modes
  BY DEF Inv
<1>2. ~Resident /\ mode' = mode /\ disk' = disk /\ i \in DOMAIN mem.episodic
  BY DEF HandleEventOnRecord
<1>3. PICK f \in Named(mem, e) :
        LET ev == [f EXCEPT !.raw = i - 1]
            t == mem.episodic[i].text
            ok == Accepts(mem.events, ev)
        IN  /\ mem' = IF ok THEN [mem EXCEPT !.events = Applied(@, ev),
                                             !.sources = Append(@, t)]
                      ELSE mem
            /\ reply' = Reply("event", ok, NoText, ok)
  BY DEF HandleEventOnRecord
<1> DEFINE ev == [f EXCEPT !.raw = i - 1]
           t == mem.episodic[i].text
           n == [episodic |-> mem.episodic, events |-> Applied(mem.events, ev),
                 resident |-> Slots(mem, t), sources |-> Append(mem.sources, t)]
<1>4. reply'.path = "event" /\ reply'.ok = Accepts(mem.events, ev)
  BY <1>3 DEF Reply
<1>5. CASE Accepts(mem.events, ev)
  <2>1. mem \in Memory /\ mem.episodic \in Seq(Episode) /\ Len(mem.episodic) <= MaxTexts
    BY <1>1 DEF MemOK, FitsOK, Memory
  <2>2. mem' = n
    <3>1. mem' = [mem EXCEPT !.events = Applied(mem.events, ev),
                             !.sources = Append(mem.sources, t)]
      BY <1>3, <1>5
    <3> HIDE DEF ev, t
    <3> QED BY <3>1, <2>1, <1>2 DEF Slots, Memory
  <2>3. t \in Texts
    <3>1. mem.episodic[i] \in Episode
      BY <1>2, <2>1
    <3> QED BY <3>1 DEF Episode
  <2>4. f \in Record /\ f.id \in ClientIds
    BY <1>1, NamedOK
  <2>5. SameTexts(mem.episodic, mem.episodic)
    BY DEF SameTexts
  <2>6. PICK r \in Nat : r = i - 1
    OBVIOUS
  <2>7. r < Len(mem.episodic) /\ r + 1 = i
    BY <1>2, <2>1, <2>6
  <2>8. MemOK(n)
    <3>1. ev = [f EXCEPT !.raw = r] /\ mem.episodic[r + 1].text = t
      BY <2>6, <2>7
    <3> HIDE DEF ev, t
    <3> QED BY <1>1, <1>2, <1>5, <2>1, <2>3, <2>4, <2>5, <2>7, <3>1, StoredOK
  <2> HIDE DEF n, ev, t
  <2>9. Inv'
    BY <1>1, <1>2, <1>4, <2>2, <2>8, KeptOK
  <2> QED BY <1>4, <1>5, <2>9 DEF Harmless
<1>6. CASE ~Accepts(mem.events, ev)
  <2>1. mem' = mem
    BY <1>3, <1>6
  <2> HIDE DEF ev
  <2>2. Inv'
    BY <1>1, <1>2, <1>4, <2>1, KeptOK
  <2> QED BY <2>1, <2>2 DEF Harmless
<1> QED BY <1>5, <1>6

(* Remembering, with what a retry is recognised by.                          *)
LEMMA RememberInv ==
  ASSUME Inv, NEW t \in Texts, NEW p \in Priorities, NEW id \in ClientIds \cup {NoId},
         HandleMemoryRemember(t, p, id)
  PROVE  /\ Inv' /\ Harmless
         /\ Replayed(mem, t, id, "IGNORE") => mem' = mem
         /\ reply'.text # NoText => reply'.text = t /\ id = NoId
<1>1. MemOK(mem) /\ MemOK(disk.mem) /\ mode \in Modes
  BY DEF Inv
<1>2. mode' = mode /\ disk' = disk
  BY DEF HandleMemoryRemember
<1>3. PICK o \in Remembered(mem, t, p, id, "IGNORE") :
        /\ mem' = o.mem
        /\ reply' = Reply("remember", o.ok, IF o.ok /\ id = NoId THEN t ELSE NoText, o.ok)
  BY DEF HandleMemoryRemember
<1>4. "IGNORE" \in Hints
  BY DEF Hints
<1>5. /\ MemOK(o.mem) /\ (~o.ok => Contents(o.mem) = Contents(mem))
      /\ o.ok /\ id = NoId => Replayed(o.mem, t, NoId, "IGNORE")
  BY <1>1, <1>4, RememberedOK
<1>6. /\ reply'.path = "remember" /\ reply'.ok = o.ok
      /\ reply'.text = IF o.ok /\ id = NoId THEN t ELSE NoText
  BY <1>3 DEF Reply
<1>7. Inv'
  BY <1>1, <1>2, <1>3, <1>5, <1>6, KeptOK
<1>8. Replayed(mem, t, id, "IGNORE") => mem' = mem
  BY <1>3 DEF Remembered
<1> QED BY <1>3, <1>5, <1>6, <1>7, <1>8 DEF Harmless

(* Requests that generate may empty the memory, and their replies are not    *)
(* those of a write.                                                         *)
LEMMA ChatInv ==
  ASSUME Inv, NEW t \in Texts, NEW p \in Priorities, NEW id \in ClientIds \cup {NoId},
         NEW hint \in Hints, NEW reset \in BOOLEAN,
         HandleChatRemember(t, p, id, hint, reset)
  PROVE  Inv' /\ reply'.path = "chat"
<1>1. MemOK(mem) /\ MemOK(disk.mem) /\ mode \in Modes
  BY DEF Inv
<1>2. mode' = mode /\ disk' = disk
  BY DEF HandleChatRemember
<1> DEFINE m == IF exists /\ reset THEN Empty ELSE mem
<1>3. PICK o \in Remembered(m, t, p, id, hint), generated \in BOOLEAN :
        LET stored == generated /\ o.ok
        IN  /\ mem' \in Generated(o.mem, reset /\ ~exists, generated)
            /\ reply' = Reply("chat", generated, IF stored THEN t ELSE NoText, stored)
  BY DEF HandleChatRemember
<1>4. MemOK(m)
  BY <1>1, EmptyOK
<1> HIDE DEF m
<1>5. MemOK(o.mem)
  BY <1>4, RememberedOK
<1>6. mem' = o.mem \/ mem' = Empty
  BY <1>3 DEF Generated
<1>7. MemOK(Empty)
  BY EmptyOK
<1>8. reply'.path = "chat"
  BY <1>3 DEF Reply
<1>9. Inv'
  BY <1>1, <1>2, <1>5, <1>6, <1>7, <1>8, KeptOK
<1> QED BY <1>8, <1>9

(* So may those that only ask.                                               *)
LEMMA CompletionInv ==
  ASSUME Inv, NEW reset \in BOOLEAN, HandleCompletion(reset)
  PROVE  Inv' /\ reply'.path = "completion"
<1>1. MemOK(mem) /\ MemOK(disk.mem) /\ mode \in Modes
  BY DEF Inv
<1>2. /\ mode' = mode /\ disk' = disk /\ (mem' = mem \/ mem' = Empty)
      /\ reply'.path = "completion"
  BY DEF HandleCompletion, Generated, Reply
<1>3. Inv'
  BY <1>1, <1>2, EmptyOK, KeptOK
<1> QED BY <1>2, <1>3

(* What is exported is the memory of a session.                              *)
LEMMA ExportInv ==
  ASSUME Inv, HandleExport
  PROVE  Inv' /\ Harmless /\ reply'.path = "export"
<1>1. MemOK(mem) /\ MemOK(disk.mem) /\ mode \in Modes
  BY DEF Inv
<1>2. /\ mode' = mode /\ mem' = mem /\ (disk'.mem = mem \/ disk'.mem = disk.mem)
      /\ reply'.path = "export"
  BY DEF HandleExport, Reply
<1>3. Inv'
  BY <1>1, <1>2, KeptOK
<1> QED BY <1>2, <1>3 DEF Harmless

(* An import brings back a memory that was sound when it was exported.       *)
LEMMA ImportInv ==
  ASSUME Inv, HandleImport
  PROVE  Inv' /\ Harmless /\ reply'.path = "import"
<1>1. MemOK(mem) /\ MemOK(disk.mem) /\ mode \in Modes
  BY DEF Inv
<1>2. PICK ok \in BOOLEAN : mem' = (IF ok THEN disk.mem ELSE mem)
                           /\ reply' = Reply("import", ok, NoText, FALSE)
  BY DEF HandleImport
<1>3. mode' = mode /\ disk' = disk /\ reply'.path = "import" /\ reply'.ok = ok
  BY <1>2 DEF HandleImport, Reply
<1>4. MemOK(mem') /\ (~ok => mem' = mem)
  BY <1>1, <1>2
<1>5. Inv'
  BY <1>1, <1>2, <1>3, KeptOK
<1> QED BY <1>3, <1>4, <1>5 DEF Harmless

(* A restart leaves the snapshot, which is as sound as before.               *)
LEMMA RestartInv ==
  ASSUME Inv, Restart
  PROVE  Inv' /\ reply'.path = "none"
<1>1. MemOK(mem) /\ MemOK(disk.mem) /\ mode \in Modes
  BY DEF Inv
<1>2. mode' = mode /\ disk' = disk /\ mem' = Empty /\ reply'.path = "none"
  BY DEF Restart, Reply
<1>3. Inv'
  BY <1>1, <1>2, EmptyOK, KeptOK
<1> QED BY <1>2, <1>3
-----------------------------------------------------------------------------
(* What every step keeps, and what it may not do to a memory.                *)
LEMMA SessionInitInv == SessionInit => Inv
<1> SUFFICES ASSUME SessionInit PROVE Inv
  OBVIOUS
<1>1. mem = Empty /\ disk.mem = Empty /\ mode \in Modes /\ reply.path = "none"
  BY DEF SessionInit, Reply
<1>2. RetryOK
  BY <1>1 DEF RetryOK
<1> QED BY <1>1, <1>2, EmptyOK DEF Inv

(* A repeated request is recognised by the text of the last one.             *)
Repeats ==
  /\ reply.path = "remember" /\ reply.ok
  /\ reply'.path = "remember" /\ reply'.text = reply.text /\ reply.text # NoText

LEMMA SessionStepInv ==
  ASSUME Inv, [SessionNext]_sessionVars
  PROVE  Inv' /\ Harmless /\ (Repeats => mem' = mem)
<1>1. CASE UNCHANGED sessionVars
  <2>1. mem' = mem /\ disk' = disk /\ mode' = mode /\ reply' = reply
    BY <1>1 DEF sessionVars
  <2>2. Inv'
    BY <2>1, KeptOK DEF Inv, RetryOK
  <2> QED BY <2>1, <2>2 DEF Harmless
<1>2. CASE SessionNext
  <2>1. ASSUME NEW t \in Texts, NEW e \in Events, HandleMemoryEvent(t, e)
        PROVE  Inv' /\ Harmless /\ (Repeats => mem' = mem)
    <3>1. reply'.path = "event"
      BY <2>1 DEF HandleMemoryEvent, Reply
    <3> QED BY <2>1, <3>1, EventInv DEF Repeats
  <2>2. ASSUME NEW i \in 1 .. MaxTexts, NEW e \in Events, HandleEventOnRecord(i, e)
        PROVE  Inv' /\ Harmless /\ (Repeats => mem' = mem)
    <3>1. reply'.path = "event"
      BY <2>2 DEF HandleEventOnRecord, Reply
    <3> QED BY <2>2, <3>1, EventOnRecordInv DEF Repeats
  <2>3. ASSUME NEW t \in Texts, NEW p \in Priorities, NEW id \in ClientIds \cup {NoId},
               HandleMemoryRemember(t, p, id)
        PROVE  Inv' /\ Harmless /\ (Repeats => mem' = mem)
    <3>1. /\ Inv' /\ Harmless
          /\ Replayed(mem, t, id, "IGNORE") => mem' = mem
          /\ reply'.text # NoText => reply'.text = t /\ id = NoId
      BY <2>3, RememberInv
    <3>2. ASSUME Repeats PROVE mem' = mem
      <4>1. reply.text = t /\ id = NoId /\ Replayed(mem, reply.text, NoId, "IGNORE")
        BY <3>1, <3>2 DEF Repeats, Inv, RetryOK
      <4> QED BY <3>1, <4>1
    <3> QED BY <3>1, <3>2
  <2>4. ASSUME NEW t \in Texts, NEW p \in Priorities, NEW id \in ClientIds \cup {NoId},
               NEW hint \in Hints, NEW reset \in BOOLEAN,
               HandleChatRemember(t, p, id, hint, reset)
        PROVE  Inv' /\ Harmless /\ (Repeats => mem' = mem)
    BY <2>4, ChatInv DEF Harmless, Writes, Repeats
  <2>5. ASSUME NEW reset \in BOOLEAN, HandleCompletion(reset)
        PROVE  Inv' /\ Harmless /\ (Repeats => mem' = mem)
    BY <2>5, CompletionInv DEF Harmless, Writes, Repeats
  <2>6. CASE HandleExport
    BY <2>6, ExportInv DEF Repeats
  <2>7. CASE HandleImport
    BY <2>7, ImportInv DEF Repeats
  <2>8. CASE Restart
    BY <2>8, RestartInv DEF Harmless, Writes, Repeats
  <2> QED BY <1>2, <2>1, <2>2, <2>3, <2>4, <2>5, <2>6, <2>7, <2>8 DEF SessionNext
<1> QED BY <1>1, <1>2

LEMMA InvAlways == SessionSpec => []Inv
<1>1. Inv /\ [SessionNext]_sessionVars => Inv'
  BY SessionStepInv
<1> QED BY <1>1, SessionInitInv, PTL DEF SessionSpec
-----------------------------------------------------------------------------
(* The next automatic name is nobody's: those given are at earlier places,   *)
(* and a client has none of them.                                            *)
LEMMA NextNameIsFree ==
  ASSUME NEW m, MemOK(m) PROVE ~Known(m.events, AutoId(m))
<1>1. Len(m.events) \in Nat /\ Len(m.events) <= MaxCount /\ DOMAIN m.events = 1 .. Len(m.events)
  BY DEF MemOK, FitsOK, Memory
<1>2. /\ Len(m.events) + 1 \in DOMAIN AutoIds
      /\ \A i \in DOMAIN m.events : i \in DOMAIN AutoIds /\ i # Len(m.events) + 1
  BY <1>1, ServerAssumption, SizesAssumption
<1>3. ASSUME NEW i \in DOMAIN m.events PROVE m.events[i].id # AutoId(m)
  <2>1. m.events[i].id \in ClientIds \/ m.events[i].id = AutoIds[i]
    BY DEF MemOK, NamesOK
  <2>2. AutoId(m) \notin ClientIds
    BY <1>2, ServerAssumption DEF AutoId
  <2>3. AutoIds[i] # AutoId(m)
    BY <1>2, ServerAssumption DEF AutoId
  <2> QED BY <2>1, <2>2, <2>3
<1> QED BY <1>3 DEF Known

(* Texts and events of a session and of its export describe each other,      *)
(* whatever was shared, taken back, exported and imported.                   *)
THEOREM TextsAlwaysMatch == SessionSpec => []TextsMatchEvents
<1>1. ASSUME NEW m, MemOK(m) PROVE MayImport(m)
  <2>1. Resident => Len(m.resident) = Len(m.events)
    BY <1>1 DEF MemOK, AlignedOK, OwnEvidence
  <2> QED BY <1>1, <2>1 DEF MayImport, MemOK, OwnEvidence
<1>2. Inv => TextsMatchEvents
  <2> SUFFICES ASSUME Inv PROVE TextsMatchEvents
    OBVIOUS
  <2>1. EvidenceSound
    BY DEF Inv, MemOK, EvidenceSound
  <2>2. NoOrphanTexts
    BY DEF Inv, MemOK, UsedOK, NoOrphanTexts
  <2>3. ExportsImportable
    BY <1>1 DEF Inv, MemOK, ExportsImportable
  <2> QED BY <2>1, <2>2, <2>3 DEF TextsMatchEvents
<1> QED BY <1>2, InvAlways, PTL

(* No history of requests leaves a session that refuses every later write:   *)
(* limits hold, the next automatic name is free, addresses match events.     *)
THEOREM WritesNeverBlocked == SessionSpec => []WritesNotBlocked
<1>1. Inv => WritesNotBlocked
  <2> SUFFICES ASSUME Inv PROVE WritesNotBlocked
    OBVIOUS
  <2>1. WithinLimits
    BY DEF Inv, MemOK, FitsOK, WithinLimits
  <2>2. AutoIdFresh
    BY NextNameIsFree DEF Inv, AutoIdFresh
  <2>3. ResidentAligned
    BY DEF Inv, MemOK, AlignedOK, ResidentAligned
  <2> QED BY <2>1, <2>2, <2>3 DEF WritesNotBlocked
<1> QED BY <1>1, InvAlways, PTL

(* A write that is answered with an error has left texts, events and         *)
(* addresses as they were.                                                   *)
THEOREM FailedWritesLeaveNoTrace == SessionSpec => FailedWriteKeepsContents
<1>1. Inv /\ [SessionNext]_sessionVars
      => [reply'.path \in Writes /\ ~reply'.ok => Contents(mem') = Contents(mem)]_sessionVars
  BY SessionStepInv DEF Harmless
<1> QED BY <1>1, InvAlways, PTL DEF SessionSpec, FailedWriteKeepsContents

(* A text that is remembered twice in a row is stored once.                  *)
THEOREM RetriesStoreOnce == SessionSpec => RetryStoresOnce
<1>1. Inv /\ [SessionNext]_sessionVars
      => [/\ reply.path = "remember" /\ reply.ok
          /\ reply'.path = "remember" /\ reply'.text = reply.text /\ reply.text # NoText
          => mem' = mem]_sessionVars
  BY SessionStepInv DEF Repeats
<1> QED BY <1>1, InvAlways, PTL DEF SessionSpec, RetryStoresOnce
=============================================================================
