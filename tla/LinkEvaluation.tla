--------------------------- MODULE LinkEvaluation ---------------------------
(* How versions are linked, and how that is measured.  A world's events come *)
(* one by one; of each a network says whether it is new or an update, and    *)
(* scores it against the earlier ones, from which the event that an update   *)
(* replaces follows.  The trainers read the bank and count; a memory that    *)
(* is given the same answers has only what it stored itself.  Four measures: *)
(*   set        train_typed_pair_verifier.py with the set-link head, and the *)
(*              server (openai_server.c, typed_link_model.c) as the memory   *)
(*   joint      the same without that head: a pair counts from 0 up          *)
(*   threshold  train_typed_memory_writer.py, version_link_intervals; scores *)
(*              are taken relative to the threshold                          *)
(*   keys       the same file, compiled_token_version_accuracy: an event is  *)
(*              filed under the tokens its entity and predicate were read as *)
EXTENDS Integers, VersionWorlds

CONSTANTS
  LinkBanks,  \* the worlds
  Scores,     \* the scores of a pair, integers
  Names,      \* what a key can be read as; NoName is a span that is none
  NoName,
  Measures    \* a subset of {"set", "joint", "threshold", "keys"}

(* A bank says of each of its events what the events before it make of it    *)
(* (validate_typed_version_memory).                                          *)
ASSUME LinkAssumption ==
  /\ \A bank \in LinkBanks :
       Len(bank) \in Nat /\ DOMAIN bank = 1..Len(bank) /\ bank = Versioned(bank)
  /\ Scores \subseteq Int /\ NoName \notin Names
  /\ Measures \subseteq {"set", "joint", "threshold", "keys"}

VARIABLES
  measured,  \* the bank and the measure
  tally,     \* of the events so far, how many came out how
  filed,     \* the trainers' table of the last event under each name
  store,     \* the memory: what each event was stored as, the event it replaces or NoEpisode
  named,     \* history: the name each event was read under
  tied       \* history: two candidates had the best score of an update

linkVars == <<measured, tally, filed, store, named, tied>>

Unstored == -1
Bank == measured.bank
measure == measured.by
Outcomes == {"right", "operation", "none", "wrong"}
ThisEvent == Len(store) + 1
TopScored(candidates, score) == {j \in candidates : \A k \in candidates : score[k] <= score[j]}

-----------------------------------------------------------------------------
(* What the trainers count.                                                  *)

(* max(candidates) over (score, event): of equal scores the later event, and *)
(* only when the true predecessor was accepted.                              *)
AcceptsPredecessor(i, answer) ==
  IF measure = "set" THEN answer.exists ELSE answer.score[Bank[i].previous] > 0
SelectedPair(i, answer) ==
  LET scored == {j \in ActiveBefore(Bank, i) : measure = "set" \/ answer.score[j] > 0}
  IN IF AcceptsPredecessor(i, answer) THEN Max(TopScored(scored, answer.score)) ELSE NoEpisode

(* The thresholds at which an update is linked to its predecessor are those  *)
(* from the best later event's score up to its own.                          *)
WithinInterval(i, answer) ==
  LET previous == Bank[i].previous
  IN 0 < answer.score[previous] /\ \A j \in (previous + 1)..(i - 1) : 0 >= answer.score[j]

FiledUnder(name) == IF name \in DOMAIN filed THEN filed[name] ELSE NoEpisode
LinkOf(i, answer) ==
  CASE measure \in {"set", "joint"} -> SelectedPair(i, answer)
    [] measure = "threshold" -> IF WithinInterval(i, answer) THEN Bank[i].previous ELSE NoEpisode
    [] measure = "keys" -> FiledUnder(answer.name)

LinkOutcome(link, previous) ==
  IF link = NoEpisode THEN "none" ELSE IF link = previous THEN "right" ELSE "wrong"
(* Fault of Outcome: an update counts that was not read as one.              *)
OutcomeAnyOperation(i, answer) ==
  IF measure = "keys" /\ answer.name = NoName THEN "none"
  ELSE IF Bank[i].operation = "create"
    THEN IF answer.operation = "update" THEN "operation" ELSE "right"
  ELSE LinkOutcome(LinkOf(i, answer), Bank[i].previous)
Outcome(i, answer) ==
  IF measure = "keys" /\ answer.name = NoName THEN "none"
  ELSE IF answer.operation # Bank[i].operation THEN "operation"
  ELSE IF Bank[i].operation = "create" THEN "right"
  ELSE LinkOutcome(LinkOf(i, answer), Bank[i].previous)

-----------------------------------------------------------------------------
(* What the memory does with the same answers.                               *)

Stored == {i \in DOMAIN store : store[i] # Unstored}
Live == Stored \ {store[i] : i \in Stored}

(* select_typed_active_event: the first of the best among what is active;    *)
(* the existence head sees their scores, and says what it said to the        *)
(* trainer when they are the same candidates.                                *)
ServerSelects(i, answer) ==
  LET exists == IF Live = ActiveBefore(Bank, i) THEN answer.exists ELSE answer.otherwise
  IN IF Live # {} /\ exists THEN Min(TopScored(Live, answer.score)) ELSE NoEpisode
(* Without the head, the best active event above 0; by threshold, the latest *)
(* event above it; by keys, the latest event stored under the name.          *)
MemorySelects(i, answer) ==
  LET above == {j \in Stored : answer.score[j] > 0}
      latest(set) == IF set = {} THEN NoEpisode ELSE Max(set)
  IN CASE measure = "set" -> ServerSelects(i, answer)
       [] measure = "joint" -> latest(TopScored(above \intersect Live, answer.score))
       [] measure = "threshold" -> latest(above)
       [] measure = "keys" -> latest({j \in Stored : named[j] = answer.name})
(* An update that finds nothing to replace is stored as a new fact           *)
(* (compile_autonomous_operation), a span that is none not at all.           *)
StoredAs(i, answer) ==
  IF measure = "keys" /\ answer.name = NoName THEN Unstored
  ELSE IF answer.operation = "create" THEN NoEpisode ELSE MemorySelects(i, answer)

-----------------------------------------------------------------------------
Answers(i) ==
  [operation : {"create", "update"},
   exists : IF measure = "set" THEN BOOLEAN ELSE {FALSE},
   otherwise : IF measure = "set" THEN BOOLEAN ELSE {FALSE},
   score : IF measure = "keys" THEN {[j \in 1..(i - 1) |-> 0]} ELSE [1..(i - 1) -> Scores],
   name : IF measure = "keys" THEN Names \union {NoName} ELSE {NoName}]

(* active[key] = index: what was filed under the name is written over.       *)
Filing(name) ==
  [n \in DOMAIN filed \union ({name} \ {NoName}) |-> IF n = name THEN ThisEvent ELSE filed[n]]

LinkInit ==
  /\ measured \in [bank : LinkBanks, by : Measures]
  /\ tally = [o \in Outcomes |-> 0]
  /\ filed = <<>> /\ store = <<>> /\ named = <<>> /\ tied = FALSE

(* One event: the trainer counts it, the memory stores it.                   *)
ReadEvent ==
  /\ ThisEvent <= Len(Bank)
  /\ \E answer \in Answers(ThisEvent) :
       /\ tally' = [tally EXCEPT ![Outcome(ThisEvent, answer)] = @ + 1]
       /\ filed' = Filing(answer.name)
       /\ store' = Append(store, StoredAs(ThisEvent, answer))
       /\ named' = Append(named, answer.name)
       /\ tied' = (tied \/ Cardinality(TopScored(ActiveBefore(Bank, ThisEvent), answer.score)) > 1)
  /\ UNCHANGED measured

LinkNext == ReadEvent
-----------------------------------------------------------------------------
(* A measure tells the memory: all events are counted as right exactly if    *)
(* every operation was read right and the memory that went by the same       *)
(* answers has the versions of the bank, though the trainer is shown the     *)
(* true state before every event and the memory has its own.  (Not so when   *)
(* two candidates of an update tie for the best score: the trainer takes the *)
(* later one, max over (score, index) in train_typed_pair_verifier.py:1205,  *)
(* the server the first, typed_link_model.c:365-367.)                        *)
MeasureTellsMemory ==
  (measure = "set" => ~tied) =>
    (tally["right"] = Len(store)
       <=> tally["operation"] = 0 /\ \A i \in DOMAIN store : store[i] = Bank[i].previous)
=============================================================================
