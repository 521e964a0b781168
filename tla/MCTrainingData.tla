--------------------------- MODULE MCTrainingData --------------------------
\* Small configurations of every corpus.  The first world is fixed, which
\* loses nothing; the second shares with it whatever it can.
EXTENDS TrainingData

People == {"p1", "p2", "p3", "p4"}
FirstWorld == [id |-> 1, a |-> "p1", b |-> "p2", alias |-> "n1", city |-> "c1", other |-> "c2", drink |-> "d1"]
Towns == {"c1", "c2", "c3", "c4"}
MCProtocol ==
  {[kind |-> "protocol", splits |-> <<"train", "dev">>,
    worlds |-> <<FirstWorld, [id |-> id, a |-> a, b |-> b, alias |-> "n2", city |-> x, other |-> y, drink |-> d]>>] :
     id \in {1, 2}, a \in People, b \in People, x \in Towns, y \in Towns, d \in {"d1", "d2"}}
MCPilot ==
  {[kind |-> "pilot", splits |-> <<"train", "dev">>, people |-> <<"p1", "p2", p, q>>, cities |-> cities,
    earlier |-> {"p5"}] :
     p \in People \union {"p5"}, q \in People, cities \in {<<"c1", "c1">>, <<"c1", "c2">>, <<"c1", "c2", "c3">>}}

Orders == {o \in [1..3 -> {"train", "dev", "test"}] : IsInjective(o)}
Lists == {<<"p1", "p2", "p3", "p4", "p5", "p6">>, <<"p1", "p2", "p3", "p4", "p5", "p1">>, <<"p1", "p2", "p3", "p4", "p5", "c1">>}
Cities == <<"c1", "c2", "c3", "c4", "c5", "c6">>
MCBinding ==
  {[kind |-> kind, splits |-> splits, people |-> people, cities |-> Cities, earlier |-> {"p6"} \ exempt] :
     kind \in {"joint", "expanded", "dialogue"}, splits \in Orders, people \in Lists, exempt \in {{}, {"p6"}}}
FirstKeys == {"p6", "p5"} \X {"home_city", "work_city"}
AllKeys == {"p1", "p2", "p3", "p4", "p5", "p6"} \X {"home_city", "work_city"}
MCParaphrase ==
  {[kind |-> "paraphrase", splits |-> <<"train", "dev", "test">>, people |-> <<"p1", "p2", "p3", "p4", "p5", "p6">>,
    cities |-> Cities, cache |-> AllKeys \ unanswered, lost |-> lost] :
     unanswered \in {{}} \union {{k} : k \in FirstKeys}, lost \in SUBSET FirstKeys}

MCRepeated ==
  {[kind |-> "repeated", world |-> world, events |-> events,
    sizes |-> [speakers |-> 4, predicates |-> 2, values |-> 2, details |-> 3]] : world \in 0..5, events \in 2..14}
Facts == <<<<"a", "r">>, <<"b", "r">>, <<"a", "s">>, <<"b", "s">>>>
MCNatural ==
  {[kind |-> "natural", facts |-> SubSeq(Facts, 1, n), values |-> [f \in 1..n |-> pair]] :
     n \in {1, 2, 4}, pair \in {<<"x", "y">>, <<"y", "x">>}}
    \union {[kind |-> "conversation", facts |-> Facts, values |-> [f \in 1..4 |-> <<"x", "y">>]]}
AllKeysOf(p, r) == {<<p[i], r[j]>> : i \in 1..2, j \in 1..2}
Resident(people, relations, stamp, keys, swapped, extra) ==
  [people |-> people, relations |-> relations, stamp |-> stamp, keys |-> keys, extra |-> extra,
   updated |-> IF swapped THEN <<<<people[2], relations[1]>>, <<people[1], relations[1]>>>>
                          ELSE <<<<people[1], relations[1]>>, <<people[2], relations[1]>>>>]
InOneOrder(people, relations) ==
  <<<<people[1], relations[1]>>, <<people[2], relations[2]>>, <<people[2], relations[1]>>, <<people[1], relations[2]>>>>
Rel == <<"r", "s", "t">>
\* Donors: people of another world, two that are in both (one is the person the
\* first world says nothing of), other relations, and the same values.
Donors ==
  LET donor(people, relations, stamp) ==
        Resident(people, relations, stamp, InOneOrder(people, relations), TRUE, <<relations[1], "u">>)
  IN {donor(<<"e", "f", "g", "h">>, Rel, 2), donor(<<"d", "f", "a", "h">>, <<"s", "r", "u">>, 2),
      donor(<<"e", "d", "g", "c">>, Rel, 2), donor(<<"e", "f", "g", "h">>, <<"x", "y", "z">>, 2),
      donor(<<"e", "f", "g", "h">>, Rel, 1)}
MCResident ==
  {[kind |-> "resident",
    worlds |-> <<Resident(<<"a", "b", "c", "d">>, Rel, 1, keys, swapped, extra), donor>>] :
     keys \in {k \in [1..4 -> AllKeysOf(<<"a", "b">>, Rel)] : IsInjective(k)},
     swapped \in BOOLEAN, extra \in {<<"r">>, <<"s", "t", "r">>}, donor \in Donors}

MCInventories ==
  MCProtocol \union MCPilot \union MCBinding \union MCParaphrase \union MCRepeated \union MCNatural \union MCResident

\* Worlds of four events about up to three facts.
Shapes == {s \in [1..4 -> 1..3] : s[1] = 1 /\ \A i \in 2..4 : \E j \in 1..(i - 1) : s[i] <= s[j] + 1}
MCLinkBanks ==
  {Versioned([i \in 1..4 |-> [entity |-> s[i], predicate |-> "r", value |-> i, time |-> i]]) : s \in Shapes}
=============================================================================
