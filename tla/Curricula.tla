------------------------------ MODULE Curricula ------------------------------
\* The data the training tools learn from: each corpus is generated from a
\* configuration, checked, written to a directory and, for some, verified
\* later by generating it again.  The cases and the questions are in FactWorlds
\* and VersionWorlds; this module has the generators' life: a process builds
\* every row in memory, refuses or writes file after file, the manifest last,
\* and can be killed in between.
EXTENDS FactWorlds, TrainingSets

CONSTANTS
  Inventories,  \* the configurations: records with a kind, worlds and splits
  Salts,        \* the values Python's hash of a string takes, one per process
  MaxStarts     \* how often a generator is started

FactKinds == {"protocol", "pilot", "joint", "expanded", "dialogue", "paraphrase"}
VersionKinds == {"repeated", "natural", "conversation", "resident"}

\* What a configuration is.  The generators read people and cities from a list
\* each, as many as their splits need; nobody is named "who", which stands for
\* the person asked for.  The protocol's worlds are written by hand: that an
\* alias is the name of nobody in its world is not checked, and its labels
\* would be wrong otherwise.
Listed(list) == Len(list) \in Nat /\ DOMAIN list = 1..Len(list)
ProtocolFile(c) ==
  /\ Listed(c.worlds) /\ DOMAIN c.splits = DOMAIN c.worlds
  /\ \A w \in ToSet(c.worlds) :
       w.alias \notin {w.a, w.b, "who"} /\ "who" \notin {w.a, w.b}
PeopleFile(c) ==
  /\ Listed(c.people) /\ Listed(c.cities) /\ "who" \notin ToSet(c.people)
  /\ DOMAIN c.splits = 1..(Len(c.people) \div 2)
  /\ c.kind # "pilot" => Len(c.cities) = Len(c.people)

\* The natural generators write of every fact once, and change it once.  The
\* worlds of the resident memory are drawn by `sample` and `shuffle`.
NaturalFile(c) ==
  /\ Listed(c.facts)
  /\ \A f, g \in DOMAIN c.facts :
       c.facts[f][1] = c.facts[g][1] /\ c.facts[f][2] = c.facts[g][2] => f = g
Drawn(list, n) ==
  list \in [1..n -> ToSet(list)] /\ \A i, j \in 1..n : list[i] = list[j] => i = j
Sampled(w) ==
  /\ Drawn(w.people, 4) /\ Drawn(w.relations, 3)
  /\ Drawn(w.keys, 4)
  /\ ToSet(w.keys) = {w.people[1], w.people[2]} \X {w.relations[1], w.relations[2]}
  /\ Drawn(w.updated, 2) /\ ToSet(w.updated) = {w.people[1], w.people[2]} \X {w.relations[1]}
  /\ \E n \in 1..3 : Drawn(w.extra, n)

ASSUME BoundsAssumption == Salts # {} /\ MaxStarts \in Nat \ {0}
ASSUME InventoryAssumption ==
  \A c \in Inventories :
    /\ c.kind \in FactKinds \union VersionKinds
    /\ c.kind = "protocol" => ProtocolFile(c)
    /\ c.kind \in FactKinds \ {"protocol"} => PeopleFile(c)
    /\ c.kind = "repeated" => c.world \in Nat /\ c.events \in Nat
    /\ c.kind \in {"natural", "conversation"} => NaturalFile(c)
    /\ c.kind = "resident" => \A n \in DOMAIN c.worlds : Sampled(c.worlds[n])

VARIABLES
  corpus,   \* the configuration of this corpus
  process,  \* the running generator: what it does, its salt, its rows, its files
  written,  \* what each file of the corpus holds
  verdicts, \* the answers of the runs with --verify, with what they looked at
  runs      \* the generators started so far

curriculaVars == <<corpus, process, written, verdicts, runs>>

\* The generators with --verify.
Verifiable == {"protocol", "pilot", "joint", "expanded", "dialogue"}

-----------------------------------------------------------------------------
\* The worlds of a corpus and the splits they are in.

\* The dialogue generators take people and cities off the end of their lists.
BindingWorlds(c) ==
  LET taken(list) == IF c.kind \in {"dialogue", "paraphrase"} THEN Reverse(list) ELSE list
      first == IF c.kind \in {"dialogue", "paraphrase"} THEN 0 ELSE 3
  IN [i \in 1..(Len(c.people) \div 2) |->
        [id |-> i, number |-> i - 1 + first,
         people |-> SubSeq(taken(c.people), 2 * i - 1, 2 * i),
         cities |-> SubSeq(taken(c.cities), 2 * i - 1, 2 * i)]]
WorldsOf(c) ==
  CASE c.kind = "protocol" -> c.worlds
    [] c.kind = "pilot" -> PilotWorlds(c.people, c.cities)
    [] OTHER -> BindingWorlds(c)

Configured(c) ==
  CASE c.kind = "protocol" -> ProtocolConfigured(c.worlds)
    [] c.kind = "pilot" -> PilotConfigured(c.people, c.cities, c.earlier)
    [] c.kind = "expanded" ->
         /\ Inventoried(c.people, c.cities)
         /\ (ToSet(c.people) \union ToSet(c.cities)) \intersect c.earlier = {}
    [] OTHER -> Inventoried(c.people, c.cities)

CasesOf(c, w) ==
  CASE c.kind = "protocol" -> ProtocolCases(w)
    [] c.kind = "pilot" -> PilotCases(w)
    [] c.kind = "joint" -> {JointCase(Asking(w, r), s) : r \in 1..2, s \in JointScenarios}
    [] c.kind = "expanded" -> {ExpandedCase(Asking(w, r), s) : r \in 1..2, s \in ExpandedScenarios}
    [] c.kind = "dialogue" -> {DialogueCase(Asking(w, r), s) : r \in 1..2, s \in DialogueScenarios}
    [] c.kind = "paraphrase" -> UNION {ParaphraseCases(Asking(w, r), c.cache, c.lost) : r \in 1..2}

\* make_cases raises when its table and its facts disagree.
TablesDisagree(c, w) ==
  \E r \in 1..2 :
    LET q == Asking(w, r)
    IN CASE c.kind = "joint" ->
              \E s \in JointScenarios \ {"ordinary_source", "ordinary_empty"} :
                Inconsistent(q, "current", JointFacts(q, s), s \in JointSupported)
         [] c.kind = "expanded" ->
              \E s \in ExpandedScenarios :
                Inconsistent(q, AskedTime(s), ExpandedFacts(q, s), s \in ExpandedSupported)
         [] c.kind \in {"dialogue", "paraphrase"} ->
              \E s \in DialogueScenarios :
                Inconsistent(q, "current", DialogueFacts(q, s), s \in DialogueSupported)
         [] OTHER -> FALSE

\* The keys a validator keeps within one split.
KeysOf(c, w) ==
  CASE c.kind = "protocol" -> ProtocolKeys(w)
    [] c.kind = "pilot" -> PilotKeys(w)
    [] OTHER -> BindingKeys(w)
LeaksUnchecked(c) == FALSE
Leaks(c) ==
  \E i, j \in DOMAIN WorldsOf(c) :
    /\ c.splits[i] # c.splits[j]
    /\ KeysOf(c, WorldsOf(c)[i]) \intersect KeysOf(c, WorldsOf(c)[j]) # {}

Refused(c) ==
  \/ c.kind \in FactKinds /\
       (~Configured(c) \/ Leaks(c) \/ \E i \in DOMAIN WorldsOf(c) : TablesDisagree(c, WorldsOf(c)[i]))
  \/ c.kind = "repeated" /\ Thin(RepeatedBank(c.world, c.events, c.sizes))

\* All rows of a corpus: per world its split and its cases, or its bank and its questions.
RowsOf(c) ==
  IF c.kind \in FactKinds
    THEN [i \in DOMAIN WorldsOf(c) |-> [split |-> c.splits[i], cases |-> CasesOf(c, WorldsOf(c)[i])]]
    ELSE CASE c.kind = "repeated" -> <<RepeatedWorld(c.world, c.events, c.sizes)>>
           [] c.kind \in {"natural", "conversation"} -> <<NaturalWorld(c.facts, c.values)>>
           [] c.kind = "resident" -> [n \in DOMAIN c.worlds |-> ResidentWorld(c.worlds[n])]

\* The pairs of cases that differ in their memory alone: left, right, and what
\* must change.
PairsOf(c) ==
  CASE c.kind = "protocol" -> Controls
    [] c.kind = "pilot" -> {<<p[1], p[2], "any">> : p \in PilotPairs}
    [] c.kind = "joint" -> {<<p[1], p[2], "any">> : p \in JointPairs}
    [] c.kind = "expanded" -> {<<p[1], p[2], "any">> : p \in ExpandedPairs}
    [] c.kind = "dialogue" -> {<<p[1], p[2], "any">> : p \in DialoguePairs}
    [] OTHER -> {}

-----------------------------------------------------------------------------
\* The generators' life.

Unwritten == <<"absent", 0>>
Torn == <<"torn", 0>>
NoProcess == [stage |-> "none", salt |-> 0, rows |-> <<>>, files |-> <<>>]
Splits(c) == IF c.kind \in {"protocol", "pilot"} THEN <<"train", "dev">> ELSE <<"train", "dev", "test">>
\* What a process writes, in order; the repeated dialogue has no manifest, and
\* the natural one can be asked for its test split alone.
FilesOf(c, testOnly) ==
  IF c.kind = "repeated" THEN Splits(c)
  ELSE Append(IF testOnly THEN <<"test">> ELSE Splits(c), "manifest")
CorpusFiles == {"train", "dev", "test", "manifest"}

\* What a file of a corpus holds.  The turns of the dialogue corpus are picked
\* with hash(), whose value differs between processes; everything else is a
\* function of the configuration.
Content(c, salt) == IF c.kind = "dialogue" THEN <<"picked", salt>> ELSE <<"fixed", 0>>

Start(salt) ==
  /\ process.stage = "none" /\ runs < MaxStarts
  /\ \E testOnly \in (IF corpus.kind = "natural" THEN BOOLEAN ELSE {FALSE}),
        verify \in (IF corpus.kind \in Verifiable THEN BOOLEAN ELSE {FALSE}) :
       process' = [stage |-> IF verify THEN "verify" ELSE "write", rows |-> <<>>,
                   salt |-> IF corpus.kind = "dialogue" THEN salt ELSE 0,
                   files |-> FilesOf(corpus, testOnly)]
  /\ runs' = runs + 1
  /\ UNCHANGED <<corpus, written, verdicts>>

\* build, in memory: every row of every split, checked before anything is written.
Build ==
  /\ process.stage \in {"write", "verify"} /\ process.rows = <<>>
  /\ process' = IF Refused(corpus) THEN NoProcess ELSE [process EXCEPT !.rows = RowsOf(corpus)]
  /\ UNCHANGED <<corpus, written, verdicts, runs>>

\* Who writes over what is there: most want a new directory, the conversations
\* none of their files, the natural curriculum not the file it comes to, and
\* the repeated dialogue opens its files for writing.
FreshAlways(file) == TRUE
Fresh(file) ==
  CASE corpus.kind = "repeated" -> TRUE
    [] corpus.kind = "natural" -> file = "manifest" \/ written[file] = Unwritten
    [] OTHER -> file # "train" \/ \A f \in CorpusFiles : written[f] = Unwritten

Write ==
  /\ process.stage = "write" /\ process.rows # <<>>
  /\ IF process.files = <<>> \/ ~Fresh(Head(process.files))
       THEN process' = NoProcess /\ UNCHANGED written
       ELSE /\ written' = [written EXCEPT ![Head(process.files)] = Content(corpus, process.salt)]
            /\ process' = [process EXCEPT !.files = Tail(@)]
  /\ UNCHANGED <<corpus, verdicts, runs>>

\* A killed generator leaves the file it was writing as far as it got.
Kill ==
  /\ process.stage = "write" /\ process.rows # <<>> /\ process.files # <<>>
  /\ Fresh(Head(process.files))
  /\ written' = [written EXCEPT ![Head(process.files)] = Torn]
  /\ process' = NoProcess
  /\ UNCHANGED <<corpus, verdicts, runs>>

\* materialize(verify=True): every file is what this process has generated.
Verify ==
  /\ process.stage = "verify" /\ process.rows # <<>>
  /\ verdicts' = verdicts \union
       {[accepted |-> \A f \in ToSet(process.files) : written[f] = Content(corpus, process.salt),
         read |-> written]}
  /\ process' = NoProcess
  /\ UNCHANGED <<corpus, written, runs>>

CurriculaInit ==
  /\ corpus \in Inventories
  /\ process = NoProcess
  /\ written = [f \in CorpusFiles |-> Unwritten]
  /\ verdicts = {}
  /\ runs = 0

CurriculaNext == (\E salt \in Salts : Start(salt)) \/ Build \/ Write \/ Kill \/ Verify

CurriculaSpec == CurriculaInit /\ [][CurriculaNext]_curriculaVars

-----------------------------------------------------------------------------
\* The rows are looked at once, when they have just been built.
Rows == IF /\ process.files # <<>> /\ process.stage = "write"
           /\ written[Head(process.files)] = Unwritten /\ Head(process.files) = "train"
        THEN process.rows ELSE <<>>
FactRows == IF corpus.kind \in FactKinds THEN Rows ELSE <<>>
VersionRows == IF corpus.kind \in VersionKinds THEN Rows ELSE <<>>

\* What the label of a case says follows from its episodes, read on their own:
\* it says that evidence is missing exactly when the asked fact is not asserted
\* for the asked person, relation and time, it requires the asserted facts and
\* no others, and the target episodes carry the answer, each of them needed.
LabelFollows(c) ==
  c.needed =>
    /\ c.missing <=> ~Answered(c.ask, FactsIn(c.episodes))
    /\ c.required = IF c.missing THEN {} ELSE Known(c.ask, FactsIn(c.episodes))
    /\ ~c.missing =>
         \A some \in SUBSET c.targets :
           (\A q \in c.ask : AnswersTo(q, UNION {ToSet(c.episodes[i].facts) : i \in some})
                             = AnswersTo(q, FactsIn(c.episodes)))
             <=> some = c.targets

\* A pair changes the memory and not the question, and what it is meant to show
\* is what the episodes show: the left side answers (or needs no memory), and
\* the answer of the right side is missing, changed or the same.
PairShows(c, d, kind) ==
  /\ c.context = d.context /\ c.ask = d.ask /\ c.episodes # d.episodes
  /\ LET left == Known(c.ask, FactsIn(c.episodes))
         right == Known(d.ask, FactsIn(d.episodes))
     IN CASE kind = "missing" -> left # {} /\ right = {}
          [] kind = "change" -> left # {} /\ right # {} /\ left # right
          [] kind = "invariant" -> left # {} /\ left = right
          [] kind = "any" -> c.needed = d.needed /\ (c.needed => left # {} \/ right # {})

\* No fact a model is trained on is in a text it is selected or tested on, and
\* but for the protocol's, neither is a person.
NothingLeaks(rows) ==
  \A i, j \in DOMAIN rows :
    rows[i].split # rows[j].split =>
      LET told(n) == UNION {FactsIn(c.episodes) : c \in rows[n].cases}
      IN /\ told(i) \intersect told(j) = {}
         /\ corpus.kind # "protocol" =>
              {f.subject : f \in told(i)} \intersect {f.subject : f \in told(j)} = {}

\* Supervision is true: every label of every corpus follows from the episodes
\* of its case, whatever the world, its order and the paraphrases of the
\* language model, every pair isolates the change it is made for, and nothing
\* leaks between the splits.
SupervisionIsTrue ==
  /\ NothingLeaks(FactRows)
  /\ \A i \in DOMAIN FactRows :
    LET cases == FactRows[i].cases
    IN /\ \A c \in cases : LabelFollows(c)
       /\ \A c, d \in cases : \A p \in PairsOf(corpus) :
            (c.scenario = p[1] /\ d.scenario = p[2]
               /\ {q.relation : q \in c.ask} = {q.relation : q \in d.ask}) => PairShows(c, d, p[3])

\* What a question about a bank should be answered with, by replaying the bank:
\* the last event of a key is current, the one before an event is previous, and
\* history is the first and the last.
ReplayAnswer(bank, question, target) ==
  LET about == {i \in DOMAIN bank : Key(bank[i]) = Key(target)}
      last == {i \in about : \A j \in about : j <= i}
      first == {i \in about : \A j \in about : i <= j}
  IN IF question.intent = "history" THEN first \union last
     ELSE CASE target.version = "exact" ->
            {i \in about : bank[i].value = target.value /\ bank[i].time = target.time}
       [] target.version = "previous" ->
            {i \in about : i < target.anchor /\ \A j \in about : j < target.anchor => j <= i}
       [] OTHER -> last

\* The worlds of the resident memory teach the same answers however they are
\* trained on.  A trainer that knows the questions alone finds the versions of
\* every fact; a network that has learned its labels answers every question
\* with its gold, from the whole store, from one that whole facts are missing
\* from, where it answers what a replay of the rest does, and from one that
\* another world's facts were added to, which answers no question of this one
\* anew, nor one that had no answer.
SameKey(b, i) == {j \in DOMAIN b : Key(b[j]) = Key(b[i])}
TaughtTheSame(question, b, questions, mask) ==
  LET targets == MaskedTargets(question, mask)
  IN /\ Activated(LabelsOf(b, questions, question), mask) = targets
     /\ targets = (UNION {ReplayAnswer(b, question, t) : t \in ToSet(question.targets)}) \intersect mask
TrainingKeepsAnswers(worlds, n) ==
  LET world == worlds[n]
  IN /\ Loads(world) /\ ~GroupsRefused(world.questions)
     /\ \A question \in world.questions : \A mask \in Masks(world.bank, world.questions) :
          TaughtTheSame(question, world.bank, world.questions, mask)
     /\ \A d \in {d \in DOMAIN worlds : Gives(world, worlds[d])} :
          LET store == Distracted(world, worlds[d])
          IN /\ ~store.partial
             /\ \A i \in DOMAIN store.bank : VersionGroups(store.bank, store.questions)[i] = SameKey(store.bank, i)
             /\ \A question \in world.questions :
                  TaughtTheSame(question, store.bank, store.questions, DOMAIN store.bank)

\* The gold episodes of every question are the ones a replay of the bank
\* answers with; the version validator accepts every bank and resolves every
\* question to its gold; an activation example keeps its target; of every
\* update exactly one candidate pair holds the predecessor; and training sets
\* keep the answers.
AnswersFollowReplay ==
  \A n \in DOMAIN VersionRows :
    LET bank == VersionRows[n].bank
    IN /\ GraphValid(bank)
       /\ \A i \in DOMAIN bank :
            bank[i].operation = "update" => Cardinality(Predecessors(bank, i)) = 1
       /\ \A q \in VersionRows[n].questions :
            /\ q.gold = UNION {ReplayAnswer(bank, q, t) : t \in ToSet(q.targets)}
            /\ q.intent \in {"current", "exact_time", "previous", "multi_current"} =>
                 Resolved(bank, q) = q.gold
            /\ q.intent = "current" => ActivationTarget(bank, q) = q.gold
       /\ corpus.kind = "resident" => TrainingKeepsAnswers(VersionRows, n)

\* A manifest speaks for whole files: whatever was killed and started again,
\* once it is there every file is what one process generated.  (Not so for the
\* natural curriculum: a run for the test split alone writes the manifest next
\* to what a killed run left.)
FrozenIsWhole ==
  corpus.kind # "natural" /\ written["manifest"] \notin {Unwritten, Torn} =>
    \A f \in ToSet(FilesOf(corpus, FALSE)) : written[f] = written["manifest"]

\* A corpus that no one touched verifies ("frozen corpus changed" means that
\* it was changed): a whole one is accepted by every later --verify.
UnchangedVerifies ==
  \A v \in verdicts :
    (\A f \in ToSet(FilesOf(corpus, FALSE)) : v.read[f] \notin {Unwritten, Torn}) => v.accepted
=============================================================================
