----------------------------- MODULE Selection -----------------------------
(* The training programs of python/train_*.py, each a process that trains,   *)
(* now and then measures its weights on held-out rows, keeps what it thinks  *)
(* best, and writes its results to an output path at the end.  They differ   *)
(* in what counts as a candidate, what is selected, when they give up, what  *)
(* they measure again, and how they treat an output path that is already     *)
(* there; a program is described by a record of those differences.  The      *)
(* process may fail or be killed between any two effects, in the middle of a *)
(* write too, and the operator may then start it again on the same path.     *)
EXTENDS Naturals, Sequences, FiniteSets, SequencesExt

CONSTANTS
  Trainers,  \* the programs that are run
  Steps,     \* --steps
  Every,     \* --eval-every, or the interval in the code
  Patience,  \* --patience
  Best,      \* scores are 0..Best; a registered gate asks for Best
  MaxRuns    \* bound: how often the operator starts the program

ASSUME SelectionConstants ==
  /\ {Steps, Every, Patience, Best, MaxRuns} \subseteq Nat \ {0}
  /\ Every <= Steps

VARIABLES
  trainer,   \* the program
  run,       \* how often it was started
  phase,     \* what the process does: "idle", "train", "load", "save", "over"
  step,      \* optimizer steps done
  scores,    \* history: evaluation step -> the score of each part
  kept,      \* part -> the step its best weights are from, or None
  held,      \* history: evaluation steps at which a part's candidate was retained
  stale,     \* evaluations since the last improvement
  weights,   \* part -> the step the live weights are from
  metrics,   \* the weights the reported metrics were measured on
  unsaved,   \* the files still to be written
  disk       \* file -> what it holds

vars == <<trainer, run, phase, step, scores, kept, held, stale, weights,
          metrics, unsaved, disk>>

None == Steps + 1
Absent == [run |-> 0, torn |-> FALSE]
Complete(f) == disk[f].run > 0 /\ ~disk[f].torn
-----------------------------------------------------------------------------
(* The programs.  A record says                                              *)
(*   parts     what is selected independently of the rest                    *)
(*   baseline  the weights before the first step are a candidate             *)
(*   keep      whether the best weights or the last ones are saved           *)
(*   last      the weights after the last step are always evaluated          *)
(*   patience  it gives up after Patience evaluations without improvement    *)
(*   retain    a candidate must not lose what the baseline knew              *)
(*   report    the weights whose held-out metrics are reported: those "kept",*)
(*             as measured when they were selected, or those "loaded", which *)
(*             are measured again                                            *)
(*   fit       the same for the metrics on training rows, if any are judged  *)
(*   draws     what is measured at the end is not what the loop measured: the*)
(*             negatives are drawn anew, the rows or the metric are others   *)
(*   root      whether an output path that exists is refused                 *)
(*   early     files that are written whenever the best weights change       *)
(*   files     files written at the end, in their order                      *)
(*   latest    those of them that are about the last weights                 *)
(*   gate      what "eligible" or "gate_pass" asks of the weights            *)
Typed == [parts |-> {"all"}, baseline |-> TRUE, keep |-> "best", last |-> TRUE,
          patience |-> TRUE, retain |-> FALSE, report |-> "kept", fit |-> "none",
          draws |-> FALSE, root |-> "reuse", early |-> {}, files |-> <<"weights">>,
          latest |-> {}, gate |-> "none"]

TypedWriter == [Typed EXCEPT !.retain = TRUE]
PairVerifier == Typed
QueryActivator == Typed

(* Each field of a tagger and each key is kept on its own, all share one     *)
(* count of stale evaluations, and the combination is measured again.        *)
SpanTagger == [Typed EXCEPT !.parts = {"address", "value"}, !.retain = TRUE,
                            !.report = "loaded"]
AnchorKeys == [Typed EXCEPT !.parts = {"address", "value"}, !.report = "loaded"]

LinkHead == [Typed EXCEPT !.patience = FALSE, !.last = FALSE,
                          !.files = <<"weights", "encoder", "link">>]
ContextOperation == [Typed EXCEPT !.baseline = FALSE, !.patience = FALSE]

(* Research programs claim a new directory and write more than the weights.  *)
Research == [Typed EXCEPT !.patience = FALSE, !.root = "claim", !.gate = "gain"]
MemorySet == [Research EXCEPT
                !.files = <<"final", "state", "weights", "diagnostics", "summary">>,
                !.latest = {"final"}, !.report = "loaded"]
Identity == [Research EXCEPT
               !.files = <<"final", "state", "weights", "cases", "summary">>,
               !.latest = {"final"}, !.report = "loaded"]
MemoryGate == [Research EXCEPT
                 !.files = <<"diagnostics", "controller", "parity", "weights", "summary">>,
                 !.latest = {"diagnostics"}]
SpanGate == [Research EXCEPT !.files = <<"final", "diagnostics", "weights", "summary">>,
                             !.latest = {"final", "diagnostics"}]
Fusion == [Research EXCEPT !.baseline = FALSE, !.early = {"weights"},
                           !.files = <<"summary">>, !.draws = TRUE,
                           !.report = "loaded", !.gate = "score"]
EpisodeBinding == [Research EXCEPT !.baseline = FALSE, !.report = "loaded",
                                   !.files = <<"weights", "summary">>, !.gate = "score"]

(* Heads trained for a fixed number of steps.                                *)
Fixed == [Typed EXCEPT !.baseline = FALSE, !.patience = FALSE, !.last = FALSE,
                       !.report = "loaded", !.draws = TRUE, !.keep = "last",
                       !.gate = "score"]
Relevance1 == Fixed
Relevance2 == [Fixed EXCEPT !.fit = "loaded"]
Relevance3 == [Fixed EXCEPT !.keep = "best", !.fit = "last"]
Relevance4 == [Fixed EXCEPT !.keep = "best", !.fit = "loaded"]
Relevance5 == Relevance4
Relevance6 == Relevance4
Relevance7 == Relevance4
WideMixed == Fixed
WideMixed2 == Fixed
WideMixed7 == Fixed
WideLiveCE == [Fixed EXCEPT !.gate = "none"]
CrossAttention == [Fixed EXCEPT !.gate = "none"]

AllFiles(t) == ToSet(t.files) \union t.early

(* What all of them have in common.                                          *)
Program(t) ==
  /\ t.parts # {}
  /\ t.files \in Seq(STRING) /\ t.files # <<>>
  /\ "weights" \in AllFiles(t) /\ {"weights", "summary"} \intersect t.latest = {}
  /\ t.report = "kept" => t.keep = "best"
  /\ t.patience => t.baseline
  /\ t.early # {} => t.keep = "best" /\ ~t.retain /\ ~t.baseline
  /\ t.gate = "gain" => t.keep = "best" /\ t.baseline
  /\ \A i \in DOMAIN t.files : t.files[i] = "summary" <=> t.root = "claim" /\ i = Len(t.files)
  /\ "summary" \notin t.early
ASSUME TrainersAssumption == \A t \in Trainers : Program(t)
-----------------------------------------------------------------------------
(* The scores of a run. *)

Evaluated == DOMAIN scores
Candidates(p) == {s \in Evaluated : s \in held[p]}
Score(p, s) == scores[s][p]

Due(s) == s % Every = 0 \/ (trainer.last /\ s = Steps)

(* Mutant: an equal score replaces what is kept.                             *)
ImprovedOrEqual(p, new) == kept[p] = None \/ new[p] >= Score(p, kept[p])
Improved(p, new) == kept[p] = None \/ new[p] > Score(p, kept[p])

Measured(s, new) ==
  scores' = [x \in Evaluated \union {s} |-> IF x = s THEN new ELSE scores[x]]

(* Part p is replaced when its candidate is retained and better. *)
Replaced(new, retained) == {p \in trainer.parts : p \in retained /\ Improved(p, new)}

StaleAfter(replaced) == IF replaced # {} THEN 0 ELSE stale + 1

(* What a file holds: the run that wrote it, the weights it is about, those  *)
(* its metrics were measured on, and whether it says they may be used.       *)
File(w, m, eligible) ==
  [run |-> run, torn |-> FALSE, weights |-> w, metrics |-> m, eligible |-> eligible]
-----------------------------------------------------------------------------
(* mkdir(exist_ok=False) refuses a path that exists; the process is over.    *)
ClaimsNothing == TRUE
Claims == trainer.root = "claim" => run = 0

(* The process starts: the path is claimed before anything is computed, then *)
(* the weights it starts from are measured if they are a candidate.          *)
Begin ==
  /\ phase \in {"idle", "over"}
  /\ run < MaxRuns
  /\ Claims
  /\ run' = run + 1
  /\ phase' = "train"
  /\ step' = 0 /\ stale' = 0
  /\ weights' = [p \in trainer.parts |-> 0]
  /\ metrics' = <<>> /\ unsaved' = <<>>
  /\ IF trainer.baseline
     THEN \E new \in [trainer.parts -> 0..Best] :
            /\ scores' = [x \in {0} |-> new]
            /\ kept' = [p \in trainer.parts |-> 0]
            /\ held' = [p \in trainer.parts |-> {0}]
     ELSE /\ scores' = <<>>
          /\ kept' = [p \in trainer.parts |-> None]
          /\ held' = [p \in trainer.parts |-> {}]
  /\ UNCHANGED <<trainer, disk>>

(* One optimizer step without an evaluation. *)
Train ==
  /\ phase = "train" /\ step < Steps /\ ~Due(step + 1)
  /\ step' = step + 1
  /\ weights' = [p \in trainer.parts |-> step + 1]
  /\ phase' = IF step + 1 = Steps THEN "load" ELSE "train"
  /\ UNCHANGED <<trainer, run, scores, kept, held, stale, metrics, unsaved, disk>>

(* A step whose weights are evaluated: the best parts are cloned, the early  *)
(* files rewritten, and the loop is left when it was stale for too long.     *)
Evaluate ==
  /\ phase = "train" /\ step < Steps /\ Due(step + 1)
  /\ \E new \in [trainer.parts -> 0..Best], retained \in SUBSET trainer.parts :
       /\ trainer.retain \/ retained = trainer.parts
       /\ LET s == step + 1
              replaced == Replaced(new, retained) IN
          /\ step' = s
          /\ weights' = [p \in trainer.parts |-> s]
          /\ Measured(s, new)
          /\ kept' = [p \in trainer.parts |-> IF p \in replaced THEN s ELSE kept[p]]
          /\ held' = [p \in trainer.parts |->
                        IF p \in retained THEN held[p] \union {s} ELSE held[p]]
          /\ stale' = StaleAfter(replaced)
          /\ phase' = IF s = Steps \/ (trainer.patience /\ stale' >= Patience)
                      THEN "load" ELSE "train"
          /\ disk' = [f \in DOMAIN disk |->
                        IF f \in trainer.early /\ replaced # {}
                        THEN File(kept', kept', FALSE) ELSE disk[f]]
  /\ UNCHANGED <<trainer, run, metrics, unsaved>>

Loaded == IF trainer.keep = "best" THEN kept ELSE weights
Reported == IF trainer.report = "kept" THEN kept ELSE Loaded

(* The best weights are loaded and what is reported is measured.  Without    *)
(* any candidate there is nothing to load: the program raises.               *)
Load ==
  /\ phase = "load"
  /\ \A p \in trainer.parts : Loaded[p] # None
  /\ weights' = Loaded
  /\ \E final \in [trainer.parts -> 0..Best] :
       /\ \A p \in trainer.parts :
            ~trainer.draws /\ Reported[p] \in Evaluated => final[p] = Score(p, Reported[p])
       /\ metrics' = [report |-> Reported, score |-> final,
                      fit |-> IF trainer.fit = "last" THEN weights ELSE Loaded]
  /\ unsaved' = trainer.files
  /\ phase' = "save"
  /\ UNCHANGED <<trainer, run, step, scores, kept, held, stale, disk>>

(* "selected > 0 and" the gate of the program; or its registered threshold.  *)
Eligible ==
  /\ trainer.gate # "none"
  /\ \A p \in trainer.parts : metrics.score[p] = Best
  /\ trainer.gate = "gain" => \A p \in trainer.parts : weights[p] > 0

(* What the next file holds: the weights that were loaded, with the reported *)
(* metrics, or the last weights for diagnosis only.                          *)
LastWeights == [p \in trainer.parts |-> step]
Written(f) == IF f \in trainer.latest THEN File(LastWeights, LastWeights, FALSE)
              ELSE File(weights, metrics.report, Eligible)

(* One file is written, in place and whole. *)
Save ==
  /\ phase = "save" /\ unsaved # <<>>
  /\ disk' = [disk EXCEPT ![Head(unsaved)] = Written(Head(unsaved))]
  /\ unsaved' = Tail(unsaved)
  /\ phase' = IF Tail(unsaved) = <<>> THEN "over" ELSE "save"
  /\ UNCHANGED <<trainer, run, step, scores, kept, held, stale, weights, metrics>>

(* The process raises or is killed (a loss is not finite, a check fails, the *)
(* machine goes down), and may leave the file it was writing torn.  What it  *)
(* had in memory is gone.                                                    *)
Crash ==
  /\ phase \in {"train", "load", "save"}
  /\ \/ UNCHANGED disk
     \/ /\ phase = "save" /\ unsaved # <<>>
        /\ disk' = [disk EXCEPT ![Head(unsaved)] = [run |-> run, torn |-> TRUE]]
     \/ /\ phase = "train" /\ step > 0
        /\ \E f \in trainer.early :
             disk' = [disk EXCEPT ![f] = [run |-> run, torn |-> TRUE]]
  /\ phase' = "over" /\ step' = 0 /\ stale' = 0
  /\ scores' = <<>> /\ kept' = <<>> /\ held' = <<>> /\ weights' = <<>>
  /\ metrics' = <<>> /\ unsaved' = <<>>
  /\ UNCHANGED <<trainer, run>>
-----------------------------------------------------------------------------
Init ==
  /\ trainer \in Trainers
  /\ run = 0 /\ phase = "idle" /\ step = 0 /\ stale = 0
  /\ scores = <<>> /\ kept = <<>> /\ held = <<>> /\ weights = <<>>
  /\ metrics = <<>> /\ unsaved = <<>>
  /\ disk = [f \in AllFiles(trainer) |-> Absent]

Next == Begin \/ Train \/ Evaluate \/ Load \/ Save \/ Crash

Spec == Init /\ [][Next]_vars
-----------------------------------------------------------------------------
(* Whatever scores the evaluations give, and wherever a run is cut, the      *)
(* weights it has published are, part by part, those of the first among the  *)
(* best retained candidates; a program without selection publishes its last. *)
(* A worse or unretained candidate can never replace better weights.         *)
FirstBest(p, s) ==
  /\ s \in Candidates(p)
  /\ \A c \in Candidates(p) : IF c < s THEN Score(p, c) < Score(p, s) ELSE Score(p, c) <= Score(p, s)

BestPublished ==
  Complete("weights") /\ disk["weights"].run = run /\ weights # <<>> =>
       \A p \in trainer.parts :
          LET s == disk["weights"].weights[p] IN
          IF trainer.keep = "best" THEN FirstBest(p, s) ELSE s = step

(* The metrics a file reports were measured on the weights it holds, also    *)
(* where the parts are from different steps and where the last weights are   *)
(* worse than the best (train_memory_gate.py:266: the last weights never     *)
(* overwrite the selection metrics).                                         *)
MetricsOfPublished ==
  \A f \in DOMAIN disk : Complete(f) => disk[f].metrics = disk[f].weights

(* A program gives up before its last step only when Patience evaluations in *)
(* a row improved no part: while any field still gets better, all go on.     *)
GivesUpOnlyStale ==
  phase = "load" /\ step < Steps =>
    \E first \in Evaluated :
      /\ Cardinality({s \in Evaluated : s > first}) = Patience
      /\ \A p \in trainer.parts : kept[p] <= first /\ FirstBest(p, kept[p])

(* A claimed directory speaks of one run: whichever of its files survive a   *)
(* crash and a restart, they are from the same run, and a summary is there   *)
(* only together with everything it speaks of.                               *)
RootCoherent ==
  trainer.root = "claim" =>
    /\ \A f, g \in DOMAIN disk : Complete(f) /\ Complete(g) => disk[f].run = disk[g].run
    /\ Complete("summary") => \A f \in DOMAIN disk : Complete(f)

(* A summary that calls the weights eligible is about the weights beside it, *)
(* and where the program demands a gain they beat those it started from.     *)
EligibleIsGain ==
  \A f \in DOMAIN disk : Complete(f) /\ disk[f].eligible =>
    /\ f = "summary" => disk["weights"].weights = disk[f].weights
    /\ trainer.gate = "gain" /\ disk[f].run = run /\ weights # <<>> =>
         \A p \in trainer.parts : Score(p, disk[f].weights[p]) > Score(p, 0)

(* What a run publishes is the best it has seen, and it says so truly.       *)
PublishedIsBest == BestPublished /\ MetricsOfPublished /\ GivesUpOnlyStale

(* What a directory says of itself is true of the files in it.               *)
DirectoryTruthful == RootCoherent /\ EligibleIsGain

(* The gate of the relevance heads judges the weights that are saved: the    *)
(* metrics on training rows are measured on them as well.                    *)
GateJudgesSaved ==
  phase = "save" => metrics.fit = weights
=============================================================================
