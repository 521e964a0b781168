---------------------------- MODULE TrainingSets ----------------------------
\* What train_resident_memory_set.py makes of the resident worlds before it
\* learns from them: labels, stores from which facts are missing, and stores to
\* which another world's facts were added.  The labels come from the questions
\* alone; which events share a key is known to the generator only, which writes
\* it for the choice of donors.
EXTENDS VersionWorlds

StoreSlots == 32       \* the events a store holds
MaxTargets == 4   \* the events an answer needs

\* load_worlds: the worlds that are trained on at all.
Loads(world) ==
  /\ Len(world.bank) \in 1..StoreSlots
  /\ \A q \in world.questions :
       Cardinality(q.gold) <= MaxTargets /\ q.gold \subseteq DOMAIN world.bank

\* training_version_groups: the two targets of a history question are versions
\* of one fact, and what no history question asks about has one version.
Histories(questions) == {q.gold : q \in {r \in questions : r.intent = "history"}}
GroupsRefused(questions) ==
  \E h \in Histories(questions) :
    \/ Cardinality(h) # 2
    \/ \E g \in Histories(questions) : g # h /\ g \intersect h # {}
VersionGroups(bank, questions) ==
  [i \in DOMAIN bank |->
     IF \E h \in Histories(questions) : i \in h
       THEN CHOOSE h \in Histories(questions) : i \in h
       ELSE {i}]

\* factorized_labels: the address of a question is every version of its
\* targets; links join the versions of a fact.
LabelsOf(bank, questions, question) ==
  LET groups == VersionGroups(bank, questions)
  IN [address |-> UNION {groups[i] : i \in question.gold}, links |-> groups,
      history |-> question.intent = "history"]

\* version_log_gate, of a network that has learned its labels: of what is
\* addressed, all versions for history, and otherwise what no later event in
\* the store is linked to.
Activated(labels, mask) ==
  {i \in mask \intersect labels.address :
     labels.history \/ \A j \in labels.links[i] \intersect mask : j <= i}

\* Fault of Masks: events are left out one by one.
MasksOfEvents(bank, questions) == SUBSET DOMAIN bank
\* counterfactual_memory_batch: whole groups are left out, and the targets with
\* them.
Masks(bank, questions) ==
  LET groups == VersionGroups(bank, questions)
  IN {UNION kept : kept \in SUBSET {groups[i] : i \in DOMAIN bank}}
MaskedTargets(question, mask) == question.gold \intersect mask

\* Fault of Foreign: only the people that events are about are left out.
ForeignToEvents(recipient, donor) ==
  InOrder({i \in DOMAIN donor.bank :
             donor.bank[i].entity \notin {e.entity : e \in ToSet(recipient.bank)}})
\* distractor_donors: what another world gives is what it says of people who
\* are not of this one, if it shares a relation with it, no value, and fits.
Foreign(recipient, donor) ==
  InOrder({i \in DOMAIN donor.bank : donor.bank[i].entity \notin recipient.people})
Gives(recipient, donor) ==
  LET given == {donor.bank[i] : i \in ToSet(Foreign(recipient, donor))}
      held == ToSet(recipient.bank)
  IN /\ given # {}
     /\ {e.predicate : e \in given} \intersect {e.predicate : e \in held} # {}
     /\ {e.value : e \in given} \intersect {e.value : e \in held} = {}
     /\ Len(Foreign(recipient, donor)) + Len(recipient.bank) <= StoreSlots

\* distractor_pair_batch: the given events come after the store's own, and the
\* donor's history questions, with their targets moved, label the links and are
\* never asked.  A group that would come in part is refused.
Distracted(recipient, donor) ==
  LET given == Foreign(recipient, donor)
      moved(i) == Len(recipient.bank) + CHOOSE n \in DOMAIN given : given[n] = i
      labels == {q \in donor.questions : q.intent = "history" /\ q.gold \intersect ToSet(given) # {}}
  IN [bank |-> recipient.bank \o [n \in DOMAIN given |-> donor.bank[given[n]]],
      partial |-> \E q \in labels : ~(q.gold \subseteq ToSet(given)),
      questions |-> recipient.questions \union
        {Question("history", <<>>, {moved(i) : i \in q.gold}) : q \in {r \in labels : r.gold \subseteq ToSet(given)}}]
=============================================================================
