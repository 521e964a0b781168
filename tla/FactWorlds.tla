----------------------------- MODULE FactWorlds -----------------------------
\* The corpora of questions whose labels follow from written facts:
\*   protocol    python/prepare_neural_memory_protocol.py  (P1)
\*   pilot       python/prepare_availability_curriculum.py (CG-001)
\*   joint       python/prepare_joint_binding_curriculum.py (JB-001)
\*   expanded    python/prepare_expanded_memory_worlds.py  (JB-002)
\*   dialogue    python/prepare_dialogue_memory_worlds.py  (JB-004)
\*   paraphrase  python/prepare_paraphrase_corpus.py       (JB-005)
\* A world is two people, two values and what else its corpus needs.  A case is
\* a question over episodes and its label.  A text is the facts it states and
\* the style it states them in; the two languages state the same facts.
EXTENDS Naturals, FiniteSets, SequencesExt

Stated(s, r, v, t, st) == [subject |-> s, relation |-> r, value |-> v, time |-> t, status |-> st]
Fact(s, r, v) == Stated(s, r, v, "current", "actual")
Text(facts, style) == [facts |-> facts, style |-> style]
Asked(s, r, t) == [subject |-> s, relation |-> r, time |-> t]
Sum == Stated("n+m", "equals", "total", "timeless", "actual")

\* The facts of a text, and of the episodes of a case.
FactsIn(episodes) == UNION {ToSet(e.facts) : e \in ToSet(episodes)}

-----------------------------------------------------------------------------
\* What the episodes say, read without the generators.

\* The subjects a name stands for: itself, and whoever goes by it.
Namesakes(name, facts) ==
  {name} \union {f.subject : f \in {g \in facts : g.relation = "alias" /\ g.value = name}}

\* The facts that answer one asked item: asserted, not quoted, supposed or
\* denied, of that subject and relation, at that time.
AnswersTo(q, facts) ==
  {f \in facts : /\ f.status = "actual"
                 /\ f.relation = q.relation
                 /\ f.time = q.time
                 /\ q.subject = "who" \/ f.subject \in Namesakes(q.subject, facts)}

Known(ask, facts) == UNION {AnswersTo(q, facts) : q \in ask}
Answered(ask, facts) == \A q \in ask : Cardinality({f.value : f \in AnswersTo(q, facts)}) = 1

-----------------------------------------------------------------------------
\* Protocol P1: every world once per scenario.

ProtocolScenarios ==
  {"original", "paraphrase", "swapped_values", "same_value_other_person", "wrong_subject",
   "wrong_relation", "target_removed", "all_irrelevant", "distractor_added",
   "distractor_reordered", "multiple_targets", "role_forward", "role_reverse",
   "hypothetical", "negated", "quoted", "update_current", "update_history", "pronoun",
   "alias", "empty", "ordinary_chat"}

\* A case that answers with the facts of its target episodes.
Case(scenario, ask, episodes, targets) ==
  [scenario |-> scenario, ask |-> ask, context |-> <<"asked", ask>>, episodes |-> episodes, needed |-> TRUE,
   missing |-> FALSE, targets |-> targets,
   required |-> UNION {ToSet(episodes[i].facts) : i \in targets},
   allowed |-> UNION {ToSet(episodes[i].facts) : i \in targets}]
\* A case whose episodes do not hold the answer.
Missing(scenario, ask, episodes, targets, allowed) ==
  [Case(scenario, ask, episodes, targets) EXCEPT
     !.missing = TRUE, !.required = {}, !.allowed = allowed]
Ordinary(scenario, episodes) ==
  [Case(scenario, {}, episodes, {}) EXCEPT
     !.context = <<"sum", {}>>, !.needed = FALSE, !.required = {Sum}, !.allowed = {Sum}]

ProtocolCase(w, s) ==
  LET plain(f) == Text(<<f>>, "plain")
      homeOf(p, c) == Fact(p, "home_city", c)
      sourceA == plain(homeOf(w.a, w.city))
      sourceB == plain(homeOf(w.b, w.other))
      drink == plain(Fact(w.a, "drink", w.drink))
      both == <<sourceA, sourceB>>
      home == {Asked(w.a, "home_city", "current")}
      unsure(status) == Stated(w.a, "home_city", w.city, "current", status)
      moved == <<plain(Stated(w.a, "home_city", w.city, "2020", "actual")),
                 plain(homeOf(w.a, w.other))>>
      lent(lender, borrower) ==
        Case(s, {Asked("who", "lent_book_to", "yesterday")},
             <<plain(Stated(lender, "lent_book_to", borrower, "yesterday", "actual"))>>, {1})
  IN CASE s = "original" -> Case(s, home, both, {1})
       [] s = "paraphrase" -> Case(s, home, <<[sourceA EXCEPT !.style = "paraphrase"], sourceB>>, {1})
       [] s = "swapped_values" ->
            Case(s, home, <<plain(homeOf(w.a, w.other)), plain(homeOf(w.b, w.city))>>, {1})
       [] s = "same_value_other_person" -> Case(s, home, <<sourceA, plain(homeOf(w.b, w.city))>>, {1})
       [] s \in {"wrong_subject", "target_removed"} -> Missing(s, home, <<sourceB>>, {}, {})
       [] s = "all_irrelevant" ->
            Missing(s, home, <<sourceB, plain(Fact(w.b, "drink", w.drink))>>, {}, {})
       [] s = "wrong_relation" -> Missing(s, home, <<drink>>, {}, {})
       [] s = "distractor_added" -> Case(s, home, both \o <<drink>>, {1})
       [] s = "distractor_reordered" -> Case(s, home, <<drink, sourceB, sourceA>>, {3})
       [] s = "multiple_targets" ->
            Case(s, home \union {Asked(w.b, "home_city", "current")}, both, {1, 2})
       [] s = "role_forward" -> lent(w.a, w.b)
       [] s = "role_reverse" -> lent(w.b, w.a)
       [] s \in {"hypothetical", "negated", "quoted"} ->
            Missing(s, home, <<plain(unsure(s))>>, {1}, {unsure(s)})
       [] s = "update_current" -> Case(s, home, moved, {2})
       [] s = "update_history" -> Case(s, {Asked(w.a, "home_city", "2020")}, moved, {1})
       [] s = "pronoun" -> [Case(s, home, both, {1}) EXCEPT !.context = <<"this person", home>>]
       [] s = "alias" ->
            [Case(s, {Asked(w.alias, "home_city", "current")},
                  both \o <<plain(Fact(w.a, "alias", w.alias))>>, {1, 3}) EXCEPT
               !.required = {homeOf(w.a, w.city)}, !.allowed = {homeOf(w.a, w.city)}]
       [] s = "empty" -> Missing(s, home, <<>>, {}, {})
       [] s = "ordinary_chat" -> Ordinary(s, both)

ProtocolCases(w) == {ProtocolCase(w, s) : s \in ProtocolScenarios}

\* What generate asks of the worlds of its configuration.
ProtocolConfigured(worlds) ==
  /\ \A w \in ToSet(worlds) : w.a # w.b /\ w.city # w.other
  /\ \A i, j \in DOMAIN worlds : i # j => worlds[i].id # worlds[j].id

\* What validate_records keeps within one split: the family of a world, the set
\* of facts of a case, and each fact.
ProtocolKeys(w) ==
  {<<"world", w.id>>,
   <<"family", {Fact(w.a, "home_city", w.city), Fact(w.b, "home_city", w.other), Fact(w.a, "drink", w.drink)}>>}
    \union {<<"events", FactsIn(c.episodes)>> : c \in {d \in ProtocolCases(w) : d.episodes # <<>>}}
    \union {<<"fact", f>> : f \in UNION {FactsIn(c.episodes) : c \in ProtocolCases(w)}}

\* The causal pairs of neural_memory_causality.py: left, right, what must change.
Controls ==
  {<<"original", "swapped_values", "change">>, <<"original", "update_current", "change">>}
    \union {<<"original", s, "missing">> :
              s \in {"target_removed", "wrong_subject", "wrong_relation", "all_irrelevant",
                     "empty", "hypothetical", "negated", "quoted"}}
    \union {<<"original", "distractor_added", "invariant">>,
            <<"distractor_added", "distractor_reordered", "invariant">>,
            <<"original", "same_value_other_person", "invariant">>}

\* paired_protocol refuses a pair whose rubric does not match its kind.
RubricMatches(left, right, kind) ==
  /\ left.context = right.context /\ left.episodes # right.episodes
  /\ ~left.missing /\ left.required # {}
  /\ IF kind = "missing" THEN right.missing /\ right.required = {}
     ELSE /\ ~right.missing /\ right.required # {}
          /\ (left.required = right.required) = (kind = "invariant")

-----------------------------------------------------------------------------
\* The pilot of single events CG-001.

PilotSupported == {"original", "swapped_values", "paraphrase", "update_current"}
PilotMissing == {"empty", "wrong_subject", "wrong_relation", "conflict", "hypothetical",
                 "negated", "quoted", "historical_only"}
PilotNormal == {"ordinary_empty", "ordinary_original", "ordinary_wrong_subject", "ordinary_conflict"}

\* The one text of a scenario: its facts in order.
PilotFacts(w, s) ==
  LET of(person, place) == Fact(person, "home_city", place)
      said(place, status) == Stated(w.a, "home_city", place, "current", status)
      past == Stated(w.a, "home_city", w.city, "2020", "actual")
  IN CASE s \in {"original", "paraphrase", "ordinary_original"} -> <<of(w.a, w.city)>>
       [] s = "swapped_values" -> <<of(w.a, w.other)>>
       [] s = "update_current" -> <<past, of(w.a, w.other)>>
       [] s \in {"empty", "ordinary_empty"} -> <<>>
       [] s \in {"wrong_subject", "ordinary_wrong_subject"} -> <<of(w.b, w.other)>>
       [] s = "wrong_relation" -> <<Fact(w.a, "likes_architecture_of", w.city)>>
       [] s \in {"conflict", "ordinary_conflict"} -> <<said(w.city, "quoted"), said(w.other, "quoted")>>
       [] s \in {"hypothetical", "negated", "quoted"} -> <<said(w.city, s)>>
       [] s = "historical_only" -> <<past>>

Style(s) == IF s = "paraphrase" THEN s ELSE "plain"
OneText(facts, s) == IF facts = <<>> THEN <<>> ELSE <<Text(facts, Style(s))>>

PilotCase(w, s) ==
  LET facts == PilotFacts(w, s)
      home == {Asked(w.a, "home_city", "current")}
      told == OneText(facts, s)
  IN CASE s \in PilotSupported ->
            [Case(s, home, told, {1}) EXCEPT !.required = {Last(facts)}]
       [] s \in PilotMissing ->
            Missing(s, home, told, {},
                    IF s \in {"empty", "wrong_subject", "wrong_relation"} THEN {} ELSE ToSet(facts))
       [] s \in PilotNormal -> Ordinary(s, told)

PilotCases(w) == {PilotCase(w, s) : s \in PilotSupported \union PilotMissing \union PilotNormal}

\* worlds_from_config: people are all different and not those of earlier
\* diagnostics; two neighbouring cities of the list to each world.
PilotWorlds(people, cities) ==
  [i \in 1..(Len(people) \div 2) |->
     [id |-> i, a |-> people[2 * i - 1], b |-> people[2 * i],
      city |-> cities[((i - 1) % Len(cities)) + 1], other |-> cities[(i % Len(cities)) + 1]]]
PilotConfigured(people, cities, excluded) ==
  /\ IsInjective(people) /\ IsInjective(cities) /\ Len(cities) >= 2
  /\ ToSet(people) \intersect excluded = {}

\* build keeps subjects and atomic facts within one split.
PilotKeys(w) ==
  {<<"world", w.id>>, <<"subject", w.a>>, <<"subject", w.b>>}
    \union {<<"fact", f>> : f \in UNION {FactsIn(c.episodes) : c \in PilotCases(w)}}

PilotPairs ==
  {<<"original", s>> : s \in (PilotSupported \ {"original"}) \union PilotMissing}
    \union {<<"ordinary_empty", s>> : s \in PilotNormal \ {"ordinary_empty"}}

-----------------------------------------------------------------------------
\* The binding corpora: who is asked about, the other person, and a value for
\* each of the two relations.

Relations == <<"home_city", "work_city">>
Asking(w, r) ==
  LET target == (w.number % 2) + 1
  IN [person |-> w.people[target], bystander |-> w.people[3 - target],
      relation |-> Relations[r], aside |-> Relations[3 - r],
      city |-> w.cities[r], alternate |-> w.cities[3 - r]]

Target(q) == Fact(q.person, q.relation, q.city)
Distractor(q) == Fact(q.bystander, q.aside, q.alternate)
Crossed(q) == <<Fact(q.bystander, q.relation, q.city), Fact(q.person, q.aside, q.alternate)>>
ThreeFacts(q) == <<Target(q), Distractor(q), Fact(q.person, q.aside, q.alternate)>>

JointScenarios == {"correct", "role_swap", "value_swap", "clause_reorder", "paraphrase",
  "wrong_subject", "wrong_relation", "negated", "historical", "empty",
  "ordinary_source", "ordinary_empty"}
JointSupported == {"correct", "value_swap", "clause_reorder", "paraphrase"}
JointFacts(q, s) ==
  CASE s \in {"correct", "paraphrase", "ordinary_source"} -> <<Target(q), Distractor(q)>>
    [] s = "role_swap" -> Crossed(q)
    [] s = "value_swap" -> <<Fact(q.person, q.relation, q.alternate), Fact(q.bystander, q.aside, q.city)>>
    [] s = "clause_reorder" -> <<Distractor(q), Target(q)>>
    [] s = "wrong_subject" -> <<Fact(q.bystander, q.relation, q.city)>>
    [] s = "wrong_relation" -> <<Fact(q.person, q.aside, q.city)>>
    [] s = "negated" -> <<[Target(q) EXCEPT !.status = "negated"]>>
    [] s = "historical" -> <<[Target(q) EXCEPT !.time = "2020"]>>
    [] s \in {"empty", "ordinary_empty"} -> <<>>

ExpandedScenarios == {"correct", "role_swap", "empty", "wrong_time", "historical_stated",
  "multi_fact", "hypothetical", "quoted"}
ExpandedSupported == {"correct", "historical_stated", "multi_fact"}
ExpandedFacts(q, s) ==
  CASE s \in {"correct", "wrong_time"} -> <<Target(q), Distractor(q)>>
    [] s = "role_swap" -> Crossed(q)
    [] s = "empty" -> <<>>
    [] s = "historical_stated" ->
         <<Target(q), Stated(q.person, q.relation, q.alternate, "2020", "actual"), Distractor(q)>>
    [] s = "multi_fact" -> ThreeFacts(q)
    [] s \in {"hypothetical", "quoted"} -> <<[Target(q) EXCEPT !.status = s], Distractor(q)>>

DialogueScenarios == {"correct", "role_swap", "empty", "multi_fact"}
DialogueSupported == {"correct", "multi_fact"}
DialogueFacts(q, s) ==
  CASE s = "correct" -> <<Target(q), Distractor(q)>>
    [] s = "role_swap" -> Crossed(q)
    [] s = "empty" -> <<>>
    [] s = "multi_fact" -> ThreeFacts(q)

\* The label of a binding case: the table says whether the scenario is
\* supported, and the generator stops when the facts disagree ("truth label
\* inconsistent").
Joint(q, time, facts) ==
  {f \in ToSet(facts) : f.subject = q.person /\ f.relation = q.relation
                          /\ f.time = time /\ f.status = "actual"}
Inconsistent(q, time, facts, supported) == supported # (Joint(q, time, facts) # {})
BindingCase(q, s, time, facts, supported) ==
  LET ask == {Asked(q.person, q.relation, time)}
      told == OneText(facts, s)
  IN IF supported
       THEN [Case(s, ask, told, {1}) EXCEPT !.required = Joint(q, time, facts)]
       ELSE Missing(s, ask, told, {}, ToSet(facts))

AskedTime(s) == IF s \in {"wrong_time", "historical_stated"} THEN "2020" ELSE "current"

JointCase(q, s) ==
  IF s \in {"ordinary_source", "ordinary_empty"} THEN Ordinary(s, OneText(JointFacts(q, s), s))
  ELSE BindingCase(q, s, "current", JointFacts(q, s), s \in JointSupported)
ExpandedCase(q, s) ==
  BindingCase(q, s, AskedTime(s), ExpandedFacts(q, s), s \in ExpandedSupported)
DialogueCase(q, s) ==
  BindingCase(q, s, "current", DialogueFacts(q, s), s \in DialogueSupported)

\* The three generators share the tables of their worlds: everyone and every
\* city once, nobody named like a city.
Inventoried(people, cities) ==
  /\ IsInjective(people) /\ IsInjective(cities)
  /\ ToSet(people) \intersect ToSet(cities) = {}

\* validate keeps people, cities and worlds within one split.
BindingKeys(w) ==
  {<<"world", w.id>>} \union {<<"people", p>> : p \in ToSet(w.people)}
                      \union {<<"cities", c>> : c \in ToSet(w.cities)}

JointPairs ==
  {<<"correct", s>> : s \in JointScenarios \ {"correct", "ordinary_source", "ordinary_empty"}}
    \union {<<"ordinary_source", "ordinary_empty">>}
ExpandedPairs ==
  {<<"correct", s>> : s \in {"role_swap", "empty", "hypothetical", "quoted"}}
    \union {<<"wrong_time", "historical_stated">>}
DialoguePairs == {<<"correct", s>> : s \in {"role_swap", "empty"}}

-----------------------------------------------------------------------------
\* The paraphrase corpus: the turns are written by a language model.  `cache`
\* are the <<person, relation>> it answered for, `lost` those whose paraphrase
\* does not hold the city verbatim.  A supported record is compiled by the
\* teacher, which wants the value once in the turns of the asked person, and
\* is dropped when that fails; the others are kept as they are.
Paraphrased(facts, lost) ==
  FlattenSeq([i \in DOMAIN facts |->
                IF <<facts[i].subject, facts[i].relation>> \in lost THEN <<>> ELSE <<facts[i]>>])
AllCached(facts, cache) == \A f \in ToSet(facts) : <<f.subject, f.relation>> \in cache
CompilesUnchecked(q, facts, lost) == TRUE
Compiles(q, facts, lost) ==
  Cardinality({f \in ToSet(Paraphrased(facts, lost)) : f.subject = q.person /\ f.value = q.city}) = 1
ParaphraseCases(q, cache, lost) ==
  {[DialogueCase(q, s) EXCEPT !.episodes = OneText(Paraphrased(DialogueFacts(q, s), lost), s)] :
     s \in {t \in DialogueScenarios :
              /\ AllCached(DialogueFacts(q, t), cache)
              /\ t \in DialogueSupported => Compiles(q, DialogueFacts(q, t), lost)}}
=============================================================================
