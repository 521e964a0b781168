---------------------------- MODULE MemorySession ----------------------------
(***************************************************************************)
(* The memory of one session of src/examples/openai_server.c: the episodic *)
(* store of source texts (src/src/metis/episodic_store.c), the typed       *)
(* events extracted from them (EventLog), and, in a server that runs a     *)
(* resident model, one resident address per event.  Requests write them,   *)
(* roll them back, export them, import them and clear them together.       *)
(*                                                                         *)
(* The server has one thread and polls only while it streams a reply, when *)
(* the request is done with memory: a handler is one step.                 *)
(* Sessions share nothing; there is one of them here.  The neural heads    *)
(* are oracles: which fields they read from a text, whether they call it   *)
(* an update and which event they pick as its target is arbitrary.         *)
(***************************************************************************)
EXTENDS EventLog

CONSTANTS
  Modes,       \* "plain" and "resident": the second runs a resident model
  Texts,       \* source texts
  NoText,
  Priorities,  \* memory_priority
  AutoIds,     \* the ids "auto-event-0", "auto-event-1", ...
  ClientIds,   \* the ids clients choose
  WriterSpans, \* the evidence the typed writer finds in a text
  MaxTexts,    \* EPISODIC_MAX_RECORDS
  MaxSlots     \* RESIDENT_MAX_EVENTS

ASSUME ServerAssumption ==
  /\ Modes \subseteq {"plain", "resident"}
  /\ NoText \notin Texts
  /\ Priorities \subseteq Nat /\ 0 \in Priorities
  /\ AutoIds \in Seq(Ids) /\ Len(AutoIds) > MaxCount
  /\ \A i, j \in DOMAIN AutoIds : AutoIds[i] = AutoIds[j] => i = j
  /\ ClientIds \subseteq Ids
  /\ \A i \in DOMAIN AutoIds : AutoIds[i] \notin ClientIds
  /\ WriterSpans \in [subject : Span, value : Span]
  /\ MaxTexts \in Nat /\ MaxTexts <= SizeMax
  /\ MaxSlots \in Nat

\* Clients leave the names of the server alone, which nothing in the code
\* makes them do.
ASSUME ClientsAssumption == \A e \in Events : e.id \in ClientIds

VARIABLES
  mode,    \* what the server was started with
  exists,  \* whether the server has the session
  mem,     \* its memory
  disk,    \* the snapshot of it
  reply    \* the answer to the last request

sessionVars == <<mode, exists, mem, disk, reply>>

Resident == mode = "resident"

Episode == [text : Texts, priority : Priorities]

\* "sources" is history: the text each event was extracted from.
Memory == [episodic : Seq(Episode), events : Seq(Record),
           resident : Seq(Texts), sources : Seq(Texts)]

Empty == [episodic |-> <<>>, events |-> <<>>, resident |-> <<>>, sources |-> <<>>]

Hints == {"IGNORE", "STORE", "UPDATE"}

\* "text" is the text a request to remember has stored.
Reply(path, ok, text, stored) ==
  [path |-> path, ok |-> ok, text |-> text, stored |-> stored]
-----------------------------------------------------------------------------
HasText(ep, t) == \E i \in DOMAIN ep : ep[i].text = t

Larger(a, b) == IF a < b THEN b ELSE a

\* metis_episodic_add_indexed: a text that is there already keeps its place,
\* and the higher of its priorities.
Added(ep, t, p) ==
  IF HasText(ep, t)
  THEN [i \in DOMAIN ep |-> IF ep[i].text = t
                            THEN [text |-> t, priority |-> Larger(ep[i].priority, p)]
                            ELSE ep[i]]
  ELSE Append(ep, [text |-> t, priority |-> p])

CanAdd(ep, t) == HasText(ep, t) \/ Len(ep) < MaxTexts

\* Fault of RawIndex: the index of the last record, not of the one found.
RawIndexLast(ep, t) == Len(ep) - 1

\* The record_index it returns; the first of the records, and the only one.
RawIndex(ep, t) == (CHOOSE i \in DOMAIN ep : ep[i].text = t) - 1

\* Fault of Truncated: nothing is taken back.
TruncatedNot(ep, n) == ep

Truncated(ep, n) == SubSeq(ep, 1, n)

\* A resident address is written along with every event.
Slots(m, t) == IF Resident THEN Append(m.resident, t) ELSE m.resident

\* Source text and event go in together, or the text is taken out again.
Write(m, t, p, e) ==
  LET ep == Added(m.episodic, t, p)
      ev == [e EXCEPT !.raw = RawIndex(ep, t)]
  IN  IF ~CanAdd(m.episodic, t) THEN [mem |-> m, ok |-> FALSE]
      ELSE IF Accepts(m.events, ev)
      THEN [mem |-> [episodic |-> ep, events |-> Applied(m.events, ev),
                     resident |-> Slots(m, t), sources |-> Append(m.sources, t)],
            ok |-> TRUE]
      ELSE [mem |-> [m EXCEPT !.episodic = Truncated(ep, Len(m.episodic))],
            ok |-> FALSE]

ActiveEvents(m) == {i \in DOMAIN m.events : m.events[i].active = 1}

\* Fault of Replayed: texts are never recognised.
ReplayedNever(m, t, id, hint) == FALSE

\* remember_autonomous_event recognises a text it has an active event for; in
\* resident mode, only the text of the newest event.
Replayed(m, t, id, hint) ==
  /\ hint = "IGNORE" /\ id = NoId
  /\ \E i \in ActiveEvents(m) :
       /\ Resident => i = Len(m.events)
       /\ m.events[i].raw < Len(m.episodic)
       /\ m.episodic[m.events[i].raw + 1].text = t

\* Fault of AutoId: events are numbered as episodes are.
AutoIdByEpisode(m) == AutoIds[Len(m.episodic) + 1]

AutoId(m) == AutoIds[Len(m.events) + 1]

\* The events the typed writer may propose.  What it calls an update needs an
\* active event to supersede, whose entity and predicate the new one takes;
\* without one it is an assertion, or, if the request insisted, an error.
\* Resident memory only asserts.
Proposed(m, id, hint) ==
  LET name == IF id = NoId THEN AutoId(m) ELSE id
      event(key, op, target) ==
        [id |-> name, key |-> key, kind |-> "PROPERTY", op |-> op, target |-> target,
         spans |-> WriterSpans, raw |-> 0, active |-> 1]
      assertions == {event(k, "ASSERT", NoId) : k \in Keys}
      updates == {event(m.events[i].key, "SUPERSEDE", m.events[i].id) :
                    i \in ActiveEvents(m)}
  IN  CASE Resident \/ hint = "STORE" -> assertions
        [] ~Resident /\ hint = "IGNORE" -> assertions \cup updates
        [] ~Resident /\ hint = "UPDATE" -> updates

SlotFree(m) ==
  Resident => Len(m.resident) = Len(m.events) /\ Len(m.resident) < MaxSlots

\* remember_autonomous_event, with all it may come to.  A head may fail on
\* any text it does not recognise.
Remembered(m, t, p, id, hint) ==
  IF Replayed(m, t, id, hint) THEN {[mem |-> m, ok |-> TRUE]}
  ELSE {[mem |-> m, ok |-> FALSE]}
       \cup (IF SlotFree(m) THEN {Write(m, t, p, e) : e \in Proposed(m, id, hint)}
             ELSE {})
-----------------------------------------------------------------------------
SessionInit ==
  /\ mode \in Modes
  /\ exists = FALSE /\ mem = Empty
  /\ disk = [found |-> FALSE, mem |-> Empty]
  /\ reply = Reply("none", TRUE, NoText, FALSE)

\* handle_memory_event with a source text of its own.  The request names the
\* event; a predecessor it leaves out is picked by the typed link head.  An
\* event whose evidence is not in the text is refused before any change.
Named(m, e) ==
  {e} \cup (IF e.op # "ASSERT" /\ e.target = NoId
            THEN {[e EXCEPT !.target = m.events[i].id] : i \in ActiveEvents(m)}
            ELSE {})

HandleMemoryEvent(t, e) ==
  /\ ~Resident
  /\ exists' = TRUE
  /\ \E o \in {Write(mem, t, 0, f) : f \in Named(mem, e)}
              \cup {[mem |-> mem, ok |-> FALSE]} :
       /\ mem' = o.mem
       /\ reply' = Reply("event", o.ok, NoText, o.ok)
  /\ UNCHANGED <<mode, disk>>

\* handle_memory_event about the text of record i.
HandleEventOnRecord(i, e) ==
  /\ ~Resident
  /\ exists /\ i \in DOMAIN mem.episodic
  /\ \E f \in Named(mem, e) :
       LET ev == [f EXCEPT !.raw = i - 1]
           t == mem.episodic[i].text
           ok == Accepts(mem.events, ev)
       IN  /\ mem' = IF ok THEN [mem EXCEPT !.events = Applied(@, ev),
                                            !.sources = Append(@, t)]
                     ELSE mem
           /\ reply' = Reply("event", ok, NoText, ok)
  /\ UNCHANGED <<mode, exists, disk>>

\* handle_memory_remember.
HandleMemoryRemember(t, p, id) ==
  /\ exists' = TRUE
  /\ \E o \in Remembered(mem, t, p, id, "IGNORE") :
       /\ mem' = o.mem
       /\ reply' = Reply("remember", o.ok, IF o.ok /\ id = NoId THEN t ELSE NoText, o.ok)
  /\ UNCHANGED <<mode, disk>>

\* The reset of prepare_generation clears the memory too.  A generation may
\* fail before it gets there, or after.
Generated(m, reset, ok) ==
  IF ~reset THEN {m} ELSE IF ok THEN {Empty} ELSE {m, Empty}

\* handle_chat_completions with automatic memory.  A session that exists is
\* reset first; one that does not is created by whatever needs it, and then
\* reset when the reply is generated.  If that works, the reply's "stored"
\* tells what became of the text; if it does not, the reply is an error, and
\* what was remembered stays.
HandleChatRemember(t, p, id, hint, reset) ==
  /\ exists' = TRUE
  /\ \E o \in Remembered(IF exists /\ reset THEN Empty ELSE mem, t, p, id, hint),
        generated \in BOOLEAN :
       LET stored == generated /\ o.ok
       IN  /\ mem' \in Generated(o.mem, reset /\ ~exists, generated)
           /\ reply' = Reply("chat", generated, IF stored THEN t ELSE NoText, stored)
  /\ UNCHANGED <<mode, disk>>

\* handle_chat_completions that only asks, and handle_completions: both reset
\* the session if told to.
HandleCompletion(reset) ==
  /\ exists' = TRUE
  /\ \E ok \in BOOLEAN :
       /\ mem' \in Generated(mem, reset, ok)
       /\ reply' = Reply("completion", ok, NoText, FALSE)
  /\ UNCHANGED <<mode, disk>>

\* What metis_memory_snapshot_save_resident agrees to write.
Exportable(m) == Resident => Len(m.resident) = Len(m.events)

\* handle_memory_state, export.  The snapshot is replaced as a whole
\* (AtomicSnapshot); a failed export may have replaced it or not.
HandleExport ==
  /\ exists
  /\ \E written, ok \in BOOLEAN :
       /\ ok => written
       /\ written => Exportable(mem)
       /\ disk' = IF written THEN [found |-> TRUE, mem |-> mem] ELSE disk
       /\ reply' = Reply("export", ok, NoText, FALSE)
  /\ UNCHANGED <<mode, exists, mem>>

\* An import refuses a snapshot whose files disagree on the number of events,
\* and one with an event whose words are not where it says in the text it
\* points at.  Another text may have the same words there.
MayImport(m) ==
  /\ Resident => Len(m.resident) = Len(m.events)
  /\ \A i \in DOMAIN m.events : m.events[i].raw < Len(m.episodic)

\* handle_memory_state, import; it may fail for want of memory.
HandleImport ==
  /\ exists' = TRUE
  /\ \E ok \in BOOLEAN :
       /\ ok => disk.found /\ MayImport(disk.mem)
       /\ mem' = IF ok THEN disk.mem ELSE mem
       /\ reply' = Reply("import", ok, NoText, FALSE)
  /\ UNCHANGED <<mode, disk>>

\* The server stops; only the snapshot survives.
Restart ==
  /\ exists' = FALSE /\ mem' = Empty
  /\ reply' = Reply("none", TRUE, NoText, FALSE)
  /\ UNCHANGED <<mode, disk>>

SessionNext ==
  \/ \E t \in Texts, e \in Events : HandleMemoryEvent(t, e)
  \/ \E i \in 1..MaxTexts, e \in Events : HandleEventOnRecord(i, e)
  \/ \E t \in Texts, p \in Priorities, id \in ClientIds \cup {NoId} :
       HandleMemoryRemember(t, p, id)
  \/ \E t \in Texts, p \in Priorities, id \in ClientIds \cup {NoId},
        hint \in Hints, reset \in BOOLEAN : HandleChatRemember(t, p, id, hint, reset)
  \/ \E reset \in BOOLEAN : HandleCompletion(reset)
  \/ HandleExport
  \/ HandleImport
  \/ Restart

SessionSpec == SessionInit /\ [][SessionNext]_sessionVars
-----------------------------------------------------------------------------
\* Each event of m points at the text it was extracted from.
OwnEvidence(m) ==
  /\ Len(m.sources) = Len(m.events)
  /\ \A i \in DOMAIN m.events :
       /\ m.events[i].raw < Len(m.episodic)
       /\ m.episodic[m.events[i].raw + 1].text = m.sources[i]

\* Every event points at the text it was extracted from, however texts were
\* shared between events, taken back, exported and imported.  Recall and
\* target selection read the text through this index.
EvidenceSound == OwnEvidence(mem)

\* No text is left behind without an event: a failed write takes out what it
\* put in, and nothing that an event still points at.
NoOrphanTexts ==
  \A i \in DOMAIN mem.episodic :
    \E j \in DOMAIN mem.events : mem.events[j].raw = i - 1

\* In resident mode address i is the one of event i: recall takes the index
\* of an address for the index of an event.
ResidentAligned == mem.resident = IF Resident THEN mem.sources ELSE <<>>

\* Whatever was exported passes the checks of an import: no client is left
\* with a snapshot that the server wrote and will not take back.
ExportsImportable == disk.found => MayImport(disk.mem) /\ OwnEvidence(disk.mem)

\* Texts and events describe each other, in the session and in its export,
\* whatever was shared, taken back, exported and imported before.
TextsMatchEvents == EvidenceSound /\ NoOrphanTexts /\ ExportsImportable

\* The number of events is always good for a new id: the text of a client that
\* leaves the naming to the server is not refused for its name.
AutoIdFresh == ~Known(mem.events, AutoId(mem))

WithinLimits ==
  /\ mem \in Memory
  /\ Len(mem.episodic) <= MaxTexts /\ Len(mem.events) <= MaxCount
  /\ Len(mem.resident) <= MaxSlots

\* No history of writes leaves a session that refuses every later one: no store
\* outgrows its limit, the next automatic id is free, and there are as many
\* addresses as events, which is what a write in resident mode asks for first.
WritesNotBlocked == WithinLimits /\ AutoIdFresh /\ ResidentAligned

Contents(m) == [m EXCEPT !.episodic = [i \in DOMAIN m.episodic |-> m.episodic[i].text]]

Writes == {"event", "remember", "export", "import"}

\* A write that is answered with an error has left texts, events and
\* addresses as they were ("failed write modified memory", the message of
\* the assertion in tests/eval_resident_http.py).
FailedWriteKeepsContents ==
  [][reply'.path \in Writes /\ ~reply'.ok => Contents(mem') = Contents(mem)]_sessionVars

\* "Only an immediate replay is idempotent" (openai_server.c): a text that is
\* remembered twice in a row is stored once.
RetryStoresOnce ==
  [][/\ reply.path = "remember" /\ reply.ok
     /\ reply'.path = "remember" /\ reply'.text = reply.text /\ reply.text # NoText
     => mem' = mem]_sessionVars

\* A text that was reported as stored is in memory.
StoredMeansStored ==
  reply.path = "chat" /\ reply.stored => \E i \in DOMAIN mem.sources : mem.sources[i] = reply.text
=============================================================================
