---------------------------- MODULE VersionWorlds ----------------------------
\* The corpora whose worlds are banks of dated, versioned events, and the
\* questions about them:
\*   repeated   python/prepare_repeated_dialogue_curriculum.py
\*   natural    python/prepare_natural_memory_curriculum.py and
\*              python/prepare_dialogue_memory_curriculum.py
\*   resident   python/prepare_memory_set_curriculum.py
\* and the tools that read the banks: validate_typed_version_memory.py, the
\* activation rows of prepare_typed_activation_curriculum.py and the pairs of
\* train_typed_pair_verifier.py.  An event is written in one episode, and the
\* sentence it is written in is left out; NoEpisode stands for no episode.
EXTENDS Naturals, FiniteSets, SequencesExt

NoEpisode == 0
Key(e) == <<e.entity, e.predicate>>

\* Numbers in order, the smallest first.
InOrder(S) ==
  [n \in 1..Cardinality(S) |-> CHOOSE i \in S : Cardinality({j \in S : j < i}) = n - 1]
\* The episodes of a bank about a key, oldest first.
Chain(bank, key) == InOrder({i \in DOMAIN bank : Key(bank[i]) = key})
\* One key per chain, in the order in which the bank first names them.
Openings(bank) ==
  InOrder({i \in DOMAIN bank : \A j \in 1..(i - 1) : Key(bank[j]) # Key(bank[i])})
Chains(bank) == [n \in DOMAIN Openings(bank) |-> Chain(bank, Key(bank[Openings(bank)[n]]))]

\* What comes before the event at i, of the episodes about its key.
BeforeFirst(earlier) == IF earlier = {} THEN NoEpisode ELSE Min(earlier)
Before(earlier) == IF earlier = {} THEN NoEpisode ELSE Max(earlier)
\* A bank with what its generator records about versions.
Versioned(events) ==
  [i \in DOMAIN events |->
     LET earlier == {j \in 1..(i - 1) : Key(events[j]) = Key(events[i])}
         later == {j \in DOMAIN events : j > i /\ Key(events[j]) = Key(events[i])}
     IN [entity |-> events[i].entity, predicate |-> events[i].predicate, value |-> events[i].value,
         time |-> events[i].time, version |-> Cardinality(earlier),
         operation |-> IF earlier = {} THEN "create" ELSE "update",
         previous |-> Before(earlier), active |-> later = {}]]

\* A question: its targets, and the episodes its answer spans lie in.
Ask(entity, predicate, version) ==
  [entity |-> entity, predicate |-> predicate, version |-> version, value |-> <<>>, time |-> 0,
   anchor |-> NoEpisode]
Question(intent, targets, gold) == [intent |-> intent, targets |-> targets, gold |-> gold]
Active(bank, i) == Ask(bank[i].entity, bank[i].predicate, "active")

-----------------------------------------------------------------------------
\* Repeated dialogue: speakers take turns, predicates and values cycle.
\* `sizes` are the lengths of the catalogue's lists.

SpeakerCount(world) == 2 + (world % 3)
PredicateOf(world, event, sizes) ==
  ((event \div SpeakerCount(world)) + event * 3 + world) % sizes.predicates
ValueOf(world, event, predicate, sizes) ==
  <<(world * 5 + event * 3 + predicate) % sizes.values,
    (world * 7 + event * 5 + predicate) % sizes.details>>
RepeatedBank(world, events, sizes) ==
  Versioned([i \in 1..events |->
    LET event == i - 1
        predicate == PredicateOf(world, event, sizes)
    IN [entity |-> (world * 3 + (event % SpeakerCount(world))) % sizes.speakers,
        predicate |-> predicate, value |-> ValueOf(world, event, predicate, sizes),
        time |-> event * 3 + (event \div 7)]])

Revised(bank) ==
  LET revised == InOrder({n \in DOMAIN Chains(bank) : Len(Chains(bank)[n]) >= 2})
  IN [k \in DOMAIN revised |-> Chains(bank)[revised[k]]]
\* build_world raises on a bank without repeated facts.
Thin(bank) == Len(Chains(bank)) < 2 \/ Revised(bank) = <<>>

Latest(bank, n) == Last(Chains(bank)[(n % Len(Chains(bank))) + 1])
Families == <<"direct", "paraphrase", "temporal", "previous", "multi", "null">>
RepeatedQuestion(world, bank, query) ==
  LET selector == world * 17 + query * 11
      fact == Latest(bank, selector)
      chain == Revised(bank)[((world + query) % Len(Revised(bank))) + 1]
      new == Last(chain)
      old == chain[Len(chain) - 1]
      next == Latest(bank, selector + 1)
      second == IF next = fact THEN Latest(bank, selector + 2) ELSE next
      family == Families[(query % 6) + 1]
  IN CASE family \in {"direct", "paraphrase"} -> Question("current", <<Active(bank, fact)>>, {fact})
       [] family = "temporal" ->
            Question("exact_time", <<[Active(bank, fact) EXCEPT !.version = "exact",
                                        !.value = bank[fact].value, !.time = bank[fact].time]>>, {fact})
       [] family = "previous" ->
            Question("previous", <<[Active(bank, old) EXCEPT !.version = "previous", !.anchor = new]>>, {old})
       [] family = "multi" ->
            Question("multi_current", <<Active(bank, fact), Active(bank, second)>>, {fact, second})
       [] family = "null" -> Question("null", <<>>, {})

RepeatedWorld(world, events, sizes) ==
  LET bank == RepeatedBank(world, events, sizes)
  IN [bank |-> bank,
      questions |-> IF Thin(bank) THEN {} ELSE {RepeatedQuestion(world, bank, q) : q \in 0..11}]

-----------------------------------------------------------------------------
\* Natural messages and conversations: every fact is written, then every fact
\* is changed.  `facts` are <<entity, predicate>>, all different, and
\* `values[f]` the two values of fact f.

TwoRounds(facts, values) ==
  LET n == Len(facts)
      fact(i) == IF i <= n THEN i ELSE i - n
  IN [i \in 1..(2 * n) |->
        [entity |-> facts[fact(i)][1], predicate |-> facts[fact(i)][2],
         value |-> values[fact(i)][IF i <= n THEN 1 ELSE 2], time |-> 0,
         version |-> IF i <= n THEN 0 ELSE 1,
         operation |-> IF i <= n THEN "create" ELSE "update",
         previous |-> IF i <= n THEN NoEpisode ELSE fact(i), active |-> i > n]]
NaturalWorld(facts, values) ==
  LET bank == TwoRounds(facts, values)
      target(f) == Len(facts) + f
  IN [bank |-> bank,
      questions |-> {Question("current", <<Active(bank, target(f))>>, {target(f)}) : f \in DOMAIN facts}
                      \union {Question("null", <<>>, {})}]

-----------------------------------------------------------------------------
\* Resident slots: a world has four people and three relations.  The first two
\* people's first two relations are written in some order, two of the four are
\* changed in some order, and facts about the third person follow.  `current`
\* and `initial` point at the events.  A value is the stamp of the world, which
\* is random, and the event.

ResidentBank(w) ==
  LET written == w.keys \o w.updated \o [i \in DOMAIN w.extra |-> <<w.people[3], w.extra[i]>>]
  IN Versioned([i \in DOMAIN written |->
       [entity |-> written[i][1], predicate |-> written[i][2], value |-> <<w.stamp, i>>, time |-> 0]])
CurrentOf(bank, key) == Last(Chain(bank, key))
InitialOf(bank, key) == Head(Chain(bank, key))
ResidentWorld(w) ==
  LET bank == ResidentBank(w)
      asked == {w.people[1], w.people[2]}
      told == {w.relations[1], w.relations[2]}
      about(intent, set) ==
        Question(intent, SetToSeq({Ask(k[1], k[2], "active") : k \in set}),
                 {CurrentOf(bank, k) : k \in set})
      nothing(p, r) == Question("null", <<Ask(p, r, "active")>>, {})
  IN [bank |-> bank, people |-> ToSet(w.people),
      questions |->
        {about("current", {k}) : k \in ToSet(w.keys)}
          \union {about("multi", {p} \X told) : p \in asked}
          \union {about("multi", asked \X {w.relations[1]}), about("multi", ToSet(w.keys))}
          \union {Question("history", <<Ask(k[1], k[2], "all")>>, {InitialOf(bank, k), CurrentOf(bank, k)}) :
                    k \in ToSet(w.updated)}
          \union {nothing(w.people[4], w.relations[1]), nothing(w.people[1], w.relations[3])}]

-----------------------------------------------------------------------------
\* validate_typed_version_memory: the graph of versions, and its resolver.

GraphValid(bank) ==
  \A n \in DOMAIN Chains(bank) :
    LET chain == Chains(bank)[n]
    IN /\ \A v \in DOMAIN chain :
            LET e == bank[chain[v]]
            IN /\ e.version = v - 1
               /\ e.previous = IF v = 1 THEN NoEpisode ELSE chain[v - 1]
               /\ e.operation = IF v = 1 THEN "create" ELSE "update"
       /\ {i \in ToSet(chain) : bank[i].active} = {Last(chain)}

\* The one match of a selector, or nothing.
Only(matches) == IF Cardinality(matches) = 1 THEN matches ELSE {}
Resolve(bank, target) ==
  LET about == {i \in DOMAIN bank : Key(bank[i]) = Key(target)}
  IN CASE target.version = "active" -> Only({i \in about : bank[i].active})
       [] target.version = "exact" ->
            Only({i \in about : bank[i].value = target.value /\ bank[i].time = target.time})
       [] target.version = "previous" ->
            IF target.anchor \in about THEN {bank[target.anchor].previous} \ {NoEpisode} ELSE {}
Resolved(bank, question) == UNION {Resolve(bank, t) : t \in ToSet(question.targets)}

\* compile_row: only active lines are evidence of an activation example, and
\* the target of a current question is one of them.  {} stands for a row that
\* is refused or skipped.
ActiveEvidence(bank) == {i \in DOMAIN bank : bank[i].active}
ActivationTarget(bank, question) ==
  IF question.intent # "current" \/ Len(question.targets) # 1 THEN {}
  ELSE Only({i \in ActiveEvidence(bank) : Key(bank[i]) = Key(question.targets[1])})

\* build_active_pairs: an event is compared with the event that is active for
\* each key when it is written; build_predecessor_groups: of an update, exactly
\* one of those candidates is its predecessor.
ActiveBefore(bank, i) ==
  {j \in 1..(i - 1) : \A k \in (j + 1)..(i - 1) : Key(bank[k]) # Key(bank[j])}
Predecessors(bank, i) == {j \in ActiveBefore(bank, i) : j = bank[i].previous}
=============================================================================
