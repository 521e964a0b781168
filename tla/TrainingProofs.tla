--------------------------- MODULE TrainingProofs ---------------------------
(***************************************************************************)
(* That a trainer publishes the best of what it evaluated, with the        *)
(* metrics of those weights, and that its directory tells the truth        *)
(* whatever runs were killed in it: for any number of steps and runs, any  *)
(* scores and any trainer that TrainersAssumption describes.               *)
(*                                                                         *)
(* The inductive part is SelectionInv: what is remembered of a part is the *)
(* first best of its candidates, the weights in memory are the ones the    *)
(* place in the program calls for, and what is on disk was written by a    *)
(* run that had come that far.                                             *)
(*                                                                         *)
(* That a measure of version links tells what a memory with those answers  *)
(* holds, for any banks LinkAssumption describes and any integer scores:   *)
(* LinkOK counts the events, and as long as every event was counted right  *)
(* the memory has the predecessors of the bank (StoreRight), so that what  *)
(* is live in it is what the trainer was shown.                            *)
(*                                                                         *)
(* That a manifest speaks for whole files, for any configurations and any  *)
(* number of killed generators: CorpusOK says how far a generator has come *)
(* by the files it has left.                                               *)
(***************************************************************************)
(***************************************************************************)
(* That the data teach what is true, for any configurations that           *)
(* InventoryAssumption describes: RowsOK says that what a generator has in *)
(* memory is what its configuration comes to and was not refused.  The     *)
(* rest says what a row is, kind by kind: what each case Tells (who may    *)
(* answer it and what its episodes say of that), that its label says the   *)
(* same (FoundTells, NotFoundTells), that two cases differ in what they    *)
(* tell (PairDiffers, PairSame), and that worlds of different splits have  *)
(* no person in common, or for the protocol no fact.                       *)
(* Of versions: a bank is Replayed if all it records of an event is what   *)
(* the replay of its events gives (ResidentBankIs, NaturalTrue), and then  *)
(* its labels group what one store must answer and what is Taught follows  *)
(* from it, also in stores kept Apart and put Together (DistractedTaught). *)
(***************************************************************************)
EXTENDS Selection, TrainingData, FiniteSetTheorems, SequenceTheorems, InductionProofs, TLAPS

(* There are weights in memory: a process trains or has ended in good order. *)
InMemory == weights # <<>>
Working == phase \in {"train", "load", "save"}

Shape ==
  /\ Program(trainer)
  /\ phase \in {"idle", "train", "load", "save", "over"}
  /\ run \in Nat /\ step \in 0..Steps /\ stale \in Nat
  /\ phase = "idle" => run = 0
  /\ Working => InMemory
  /\ InMemory => phase # "idle" /\ run > 0
  /\ trainer.root = "claim" => run <= 1
  /\ DOMAIN disk = AllFiles(trainer)
  /\ \A f \in DOMAIN disk : disk[f].run \in 0..run

(* What is kept of a part is the first best of its candidates.               *)
KeptIsBest(p) ==
  /\ kept[p] = None => Candidates(p) = {}
  /\ kept[p] # None => FirstBest(p, kept[p])
  /\ trainer.baseline => 0 \in Candidates(p)
Remembered ==
  InMemory =>
    /\ Evaluated \subseteq 0..step
    /\ kept = [p \in trainer.parts |-> kept[p]] /\ DOMAIN weights = trainer.parts
    /\ \A p \in trainer.parts : held[p] \subseteq 0..step
    /\ \A s \in Evaluated, p \in trainer.parts : scores[s][p] \in Nat
    /\ \A p \in trainer.parts : KeptIsBest(p)

(* "stale" counts the evaluations after the last that improved a part.       *)
StaleSince(n) ==
  \E first \in Evaluated :
    /\ Cardinality({s \in Evaluated : s > first}) = n
    /\ \A p \in trainer.parts : kept[p] <= first
Waited ==
  /\ phase = "train" /\ trainer.patience => stale < Patience /\ StaleSince(stale)
  /\ phase = "load" /\ step < Steps => StaleSince(Patience)

(* Which weights are in memory.                                              *)
Loading ==
  /\ InMemory /\ trainer.keep # "best" => weights = LastWeights
  /\ InMemory /\ phase \in {"save", "over"} =>
       /\ trainer.keep = "best" => weights = kept
       /\ \A p \in trainer.parts : weights[p] # None
  /\ phase = "save" => metrics.report = weights
Unsaved ==
  phase = "save" =>
    /\ unsaved \in Seq(STRING) /\ unsaved # <<>>
    /\ ToSet(unsaved) \subseteq ToSet(trainer.files)
    /\ \A i \in DOMAIN unsaved :
         unsaved[i] = "summary" <=> trainer.root = "claim" /\ i = Len(unsaved)

(* What the files say.  Before the end only the early files are this run's.  *)
NotYet ==
  phase \in {"train", "load"} => \A f \in DOMAIN disk \ trainer.early : disk[f].run < run
EarlyWritten ==
  Working /\ trainer.early # {} =>
    \A p \in trainer.parts : kept[p] # None =>
      /\ \A q \in trainer.parts : kept[q] # None
      /\ \A f \in trainer.early : Complete(f)
ToPublish == IF trainer.keep = "best" THEN kept ELSE LastWeights
Published ==
  InMemory /\ Complete("weights") /\ disk["weights"].run = run =>
    /\ disk["weights"].weights = ToPublish
    /\ \A p \in trainer.parts : disk["weights"].weights[p] # None
Gained ==
  trainer.gate = "gain" =>
    \A f \in DOMAIN disk :
      InMemory /\ Complete(f) /\ disk[f].eligible /\ disk[f].run = run =>
        disk[f].weights = kept /\ \A p \in trainer.parts : kept[p] > 0
Summarised ==
  trainer.root = "claim" =>
    /\ phase = "save" => \A f \in DOMAIN disk : f \in ToSet(unsaved) \/ Complete(f)
    /\ Complete("summary") =>
         /\ ~Working
         /\ \A f \in DOMAIN disk : Complete(f)
         /\ disk["weights"].weights = disk["summary"].weights

MemoryInv == Shape /\ Remembered /\ Waited /\ Loading /\ Unsaved
DiskInv ==
  NotYet /\ EarlyWritten /\ Published /\ MetricsOfPublished /\ Gained /\ Summarised
SelectionInv == MemoryInv /\ DiskInv
-----------------------------------------------------------------------------
LEMMA UpToFinite ==
  ASSUME NEW n \in Nat
  PROVE  IsFiniteSet(0..n)
<1>1. 0 \in Int /\ n \in Int
  OBVIOUS
<1> QED  BY <1>1, FS_Interval

(* Facts about a program's files.                                            *)
LEMMA FilesOfProgram ==
  ASSUME NEW t, Program(t)
  PROVE /\ "weights" \in AllFiles(t) /\ "weights" \notin t.latest /\ "summary" \notin t.latest
        /\ t.root = "claim" => "summary" \in AllFiles(t)
        /\ "summary" \in AllFiles(t) => t.root = "claim"
        /\ t.early \subseteq AllFiles(t) /\ ToSet(t.files) \subseteq AllFiles(t)
<1>1. t.files \in Seq(STRING) /\ t.files # <<>>
  BY DEF Program
<1>2. Len(t.files) \in DOMAIN t.files
  BY <1>1
<1>3. t.root = "claim" => t.files[Len(t.files)] = "summary"
  BY <1>2 DEF Program
<1>4. "summary" \in AllFiles(t) => t.root = "claim"
  BY DEF Program, AllFiles, ToSet
<1> QED  BY <1>2, <1>3, <1>4 DEF Program, AllFiles, ToSet

LEMMA SelectionInit == Init => SelectionInv
<1> SUFFICES ASSUME Init PROVE SelectionInv
  OBVIOUS
<1>1. Program(trainer)
  BY TrainersAssumption DEF Init
<1>2. ~InMemory /\ phase = "idle" /\ run = 0 /\ step = 0 /\ stale = 0
  BY DEF Init, InMemory
<1>3. DOMAIN disk = AllFiles(trainer) /\ \A f \in DOMAIN disk : disk[f].run = 0 /\ disk[f].torn = FALSE
  BY DEF Init, Absent
<1>4. Shape
  <2>1. 0 \in 0..Steps
    BY SelectionConstants
  <2>2. \A f \in DOMAIN disk : disk[f].run \in 0..run
    BY <1>2, <1>3
  <2> QED  BY <1>1, <1>2, <1>3, <2>1, <2>2 DEF Shape, Working
<1>5. \A f \in DOMAIN disk : ~Complete(f)
  BY <1>3 DEF Complete
<1>6. "weights" \in DOMAIN disk /\ (trainer.root = "claim" => "summary" \in DOMAIN disk)
  BY <1>1, <1>3, FilesOfProgram
<1>7. DiskInv
  BY <1>2, <1>5, <1>6 DEF DiskInv, NotYet, EarlyWritten, Published, MetricsOfPublished, Gained,
     Summarised, Working
<1> QED
  BY <1>2, <1>4, <1>7 DEF SelectionInv, MemoryInv, Remembered, Waited, Loading, Unsaved

(* A process starts: nothing on the disk is this run's.                      *)
LEMMA BeginInv ==
  ASSUME SelectionInv, Begin
  PROVE  SelectionInv'
<1>1. Shape /\ DiskInv
  BY DEF SelectionInv, MemoryInv
<1>2. /\ run' = run + 1 /\ phase' = "train" /\ step' = 0 /\ stale' = 0
      /\ weights' = [p \in trainer.parts |-> 0] /\ UNCHANGED trainer /\ UNCHANGED disk
      /\ phase \in {"idle", "over"} /\ (trainer.root = "claim" => run = 0)
  BY DEF Begin, Claims
<1>3. trainer.parts # {} /\ Program(trainer) /\ run \in Nat
  BY <1>1 DEF Shape, Program
<1>4. weights' # <<>> /\ DOMAIN weights' = trainer.parts
  <2>1. DOMAIN weights' # {}
    BY <1>2, <1>3
  <2>2. DOMAIN <<>> = {}
    OBVIOUS
  <2> QED  BY <2>1, <2>2, <1>2
<1>5. Shape'
  BY <1>1, <1>2, <1>4, SelectionConstants DEF Shape, InMemory, Working
<1>6. ASSUME trainer.baseline
      PROVE  Remembered' /\ Waited' /\ EarlyWritten'
  <2>1. PICK new \in [trainer.parts -> 0..Best] :
          /\ scores' = [x \in {0} |-> new]
          /\ kept' = [p \in trainer.parts |-> 0]
          /\ held' = [p \in trainer.parts |-> {0}]
    BY <1>6 DEF Begin
  <2>2. None # 0 /\ Patience > 0 /\ Best \in Nat
    BY SelectionConstants DEF None
  <2>3. Evaluated' = {0} /\ (\A p \in trainer.parts : Candidates(p)' = {0})
    BY <2>1, <1>2 DEF Evaluated, Candidates
  <2>4. \A p \in trainer.parts : KeptIsBest(p)'
    BY <1>2, <2>1, <2>2, <2>3 DEF KeptIsBest, FirstBest, Score
  <2>5. Remembered'
    BY <1>2, <1>4, <2>1, <2>2, <2>3, <2>4 DEF Remembered
  <2>6. Waited'
    <3>1. {s \in Evaluated' : s > 0} = {}
      BY <2>3
    <3>2. Cardinality({s \in Evaluated' : s > 0}) = 0
      BY <3>1, FS_EmptySet
    <3>3. StaleSince(0)'
      BY <1>2, <2>1, <2>3, <3>2 DEF StaleSince
    <3> QED  BY <1>2, <2>2, <3>3 DEF Waited
  <2>7. trainer.early = {}
    BY <1>3, <1>6 DEF Program
  <2>8. EarlyWritten'
    BY <1>2, <2>7 DEF EarlyWritten
  <2> QED  BY <2>5, <2>6, <2>8
<1>7. ASSUME ~trainer.baseline
      PROVE  Remembered' /\ Waited' /\ EarlyWritten'
  <2>1. /\ scores' = <<>> /\ kept' = [p \in trainer.parts |-> None]
        /\ held' = [p \in trainer.parts |-> {}]
    BY <1>7 DEF Begin
  <2>2. Evaluated' = {}
    BY <2>1 DEF Evaluated
  <2>3. \A p \in trainer.parts : Candidates(p)' = {} /\ kept'[p] = None'
    BY <2>1, <2>2 DEF Candidates, None
  <2>4. \A p \in trainer.parts : KeptIsBest(p)'
    BY <1>2, <1>7, <2>3 DEF KeptIsBest
  <2>5. Remembered'
    BY <1>2, <1>4, <2>1, <2>2, <2>4 DEF Remembered
  <2>6. Waited'
    BY <1>2, <1>3, <1>7 DEF Waited, Program
  <2>7. EarlyWritten'
    BY <1>2, <2>3 DEF EarlyWritten
  <2> QED  BY <2>5, <2>6, <2>7
<1>8. Loading' /\ Unsaved'
  BY <1>2 DEF Loading, Unsaved, LastWeights
<1>9. \A f \in DOMAIN disk : disk[f].run < run' /\ disk[f].run # run' /\ disk[f].run >= 0
  BY <1>1, <1>2 DEF Shape
<1>10. NotYet' /\ Published' /\ MetricsOfPublished' /\ Gained'
  <2>1. NotYet' /\ MetricsOfPublished'
    BY <1>1, <1>2, <1>9 DEF NotYet, DiskInv, MetricsOfPublished, Complete
  <2>2. Gained'
    BY <1>2, <1>9 DEF Gained
  <2>3. "weights" \in DOMAIN disk
    BY <1>1, <1>3, FilesOfProgram DEF Shape
  <2>4. Published'
    BY <1>2, <1>9, <2>3 DEF Published
  <2> QED  BY <2>1, <2>2, <2>4
<1>11. Summarised'
  <2>1. SUFFICES ASSUME trainer.root = "claim" PROVE Summarised'
    BY <1>2 DEF Summarised
  <2>2. "summary" \in DOMAIN disk
    BY <1>1, <1>3, <2>1, FilesOfProgram DEF Shape
  <2>3. ~Complete("summary")'
    BY <1>1, <1>2, <2>1, <2>2 DEF Complete, Shape
  <2> QED  BY <1>2, <2>3 DEF Summarised
<1> QED  BY <1>5, <1>6, <1>7, <1>8, <1>10, <1>11 DEF SelectionInv, MemoryInv, DiskInv

(* A step without an evaluation.                                             *)
LEMMA SelectionTrainInv ==
  ASSUME SelectionInv, Train
  PROVE  SelectionInv'
<1>1. Shape /\ Remembered /\ Waited /\ Loading /\ DiskInv
  BY DEF SelectionInv, MemoryInv
<1>2. /\ phase = "train" /\ step < Steps /\ step' = step + 1
      /\ weights' = [p \in trainer.parts |-> step + 1]
      /\ phase' = IF step + 1 = Steps THEN "load" ELSE "train"
      /\ UNCHANGED trainer /\ UNCHANGED run /\ UNCHANGED scores /\ UNCHANGED kept
      /\ UNCHANGED held /\ UNCHANGED stale /\ UNCHANGED disk
  BY DEF Train
<1>3. trainer.parts # {} /\ Program(trainer) /\ step \in 0..Steps /\ Steps \in Nat /\ InMemory
  BY <1>1, <1>2, SelectionConstants DEF Shape, Program, Working
<1>4. weights' # <<>> /\ DOMAIN weights' = trainer.parts
  <2>1. DOMAIN weights' # {}
    BY <1>2, <1>3
  <2>2. DOMAIN <<>> = {}
    OBVIOUS
  <2> QED  BY <2>1, <2>2, <1>2
<1>5. Shape'
  <2>1. step' \in 0..Steps /\ phase' \in {"load", "train"}
    BY <1>2, <1>3
  <2> QED  BY <1>1, <1>2, <1>3, <1>4, <2>1 DEF Shape, InMemory, Working
<1>6. \A p \in trainer.parts : KeptIsBest(p)'
  BY <1>1, <1>2, <1>3 DEF Remembered, KeptIsBest, FirstBest, Score, Candidates, Evaluated, None
<1>7. Remembered'
  BY <1>1, <1>2, <1>3, <1>4, <1>6 DEF Remembered, Evaluated
<1>8. Waited'
  <2>1. trainer.patience => stale < Patience /\ StaleSince(stale)
    BY <1>1, <1>2 DEF Waited
  <2>2. \A n : StaleSince(n) <=> StaleSince(n)'
    BY <1>2 DEF StaleSince, Evaluated
  <2>3. phase' = "load" => step' = Steps
    BY <1>2
  <2> QED  BY <1>2, <2>1, <2>2, <2>3, <1>3 DEF Waited
<1>9. Loading' /\ Unsaved'
  BY <1>2, <1>3 DEF Loading, Unsaved, LastWeights
<1>10. NotYet' /\ MetricsOfPublished' /\ EarlyWritten'
  <2>1. NotYet' /\ MetricsOfPublished'
    BY <1>1, <1>2 DEF DiskInv, NotYet, MetricsOfPublished, Complete
  <2>2. EarlyWritten'
    BY <1>1, <1>2 DEF DiskInv, EarlyWritten, Working, Complete, None
  <2> QED  BY <2>1, <2>2
<1>11. Published'
  <2>1. "weights" \in DOMAIN disk
    BY <1>1, <1>3, FilesOfProgram DEF Shape
  <2>2. CASE trainer.keep = "best"
    BY <1>1, <1>2, <1>3, <2>2 DEF DiskInv, Published, ToPublish, Complete, None
  <2>3. CASE trainer.keep # "best"
    <3>1. trainer.early = {}
      BY <1>3, <2>3 DEF Program
    <3>2. disk["weights"].run < run /\ disk["weights"].run \in 0..run /\ run \in Nat
      BY <1>1, <1>2, <2>1, <3>1 DEF DiskInv, NotYet, Shape
    <3> QED  BY <1>2, <3>2 DEF Published
  <2> QED  BY <2>2, <2>3
<1>12. Gained'
  BY <1>1, <1>2, <1>3 DEF DiskInv, Gained, Complete
<1>13. Summarised'
  BY <1>1, <1>2 DEF DiskInv, Summarised, Complete, Working
<1> QED
  BY <1>5, <1>7, <1>8, <1>9, <1>10, <1>11, <1>12, <1>13 DEF SelectionInv, MemoryInv, DiskInv

(* An evaluation.                                                            *)
LEMMA EvaluateInv ==
  ASSUME SelectionInv, Evaluate
  PROVE  SelectionInv'
<1>1. Shape /\ Remembered /\ Waited /\ Loading /\ DiskInv
  BY DEF SelectionInv, MemoryInv
<1>0. PICK s \in Nat : s = step + 1
  BY <1>1 DEF Shape
<1>2. PICK new \in [trainer.parts -> 0..Best], retained \in SUBSET trainer.parts :
        /\ trainer.retain \/ retained = trainer.parts
        /\ LET replaced == Replaced(new, retained) IN
           /\ step' = step + 1
           /\ weights' = [p \in trainer.parts |-> step + 1]
           /\ Measured(step + 1, new)
           /\ kept' = [p \in trainer.parts |-> IF p \in replaced THEN step + 1 ELSE kept[p]]
           /\ held' = [p \in trainer.parts |->
                         IF p \in retained THEN held[p] \union {step + 1} ELSE held[p]]
           /\ stale' = StaleAfter(replaced)
           /\ phase' = IF step + 1 = Steps \/ (trainer.patience /\ stale' >= Patience)
                       THEN "load" ELSE "train"
           /\ disk' = [f \in DOMAIN disk |->
                         IF f \in trainer.early /\ replaced # {}
                         THEN File(kept', kept', FALSE) ELSE disk[f]]
  BY DEF Evaluate
<1> DEFINE replaced == Replaced(new, retained)
<1>3. /\ phase = "train" /\ step < Steps
      /\ UNCHANGED trainer /\ UNCHANGED run /\ UNCHANGED metrics /\ UNCHANGED unsaved
  BY DEF Evaluate
<1>4. /\ trainer.parts # {} /\ Program(trainer) /\ step \in 0..Steps /\ Steps \in Nat /\ InMemory
      /\ Best \in Nat /\ Patience \in Nat \ {0} /\ s \in 0..Steps /\ s # None /\ s > 0
      /\ run \in Nat /\ run > 0 /\ stale \in Nat
  BY <1>0, <1>1, <1>3, SelectionConstants DEF Shape, Program, Working, None
<1>5. /\ Evaluated \subseteq 0..step /\ DOMAIN kept = trainer.parts
      /\ \A p \in trainer.parts : held[p] \subseteq 0..step
      /\ \A x \in Evaluated, p \in trainer.parts : scores[x][p] \in Nat
      /\ \A p \in trainer.parts : KeptIsBest(p)
  BY <1>1, <1>4 DEF Remembered
<1>6. /\ Evaluated' = Evaluated \union {s} /\ s \notin Evaluated
      /\ \A x \in Evaluated : x < s /\ scores'[x] = scores[x]
      /\ scores'[s] = new
  <2>1. scores' = [x \in Evaluated \union {s} |-> IF x = s THEN new ELSE scores[x]]
    BY <1>0, <1>2 DEF Measured
  <2>2. ASSUME NEW x \in Evaluated PROVE x < s /\ x # s
    <3>1. x \in 0..step /\ step \in Nat
      BY <1>4, <1>5
    <3> QED  BY <1>0, <3>1
  <2> QED  BY <2>1, <2>2 DEF Evaluated
<1>7. weights' # <<>> /\ DOMAIN weights' = trainer.parts
  <2>1. weights' = [p \in trainer.parts |-> s]
    BY <1>0, <1>2
  <2>2. DOMAIN weights' # {}
    BY <1>4, <2>1
  <2>3. DOMAIN <<>> = {}
    OBVIOUS
  <2> QED  BY <2>1, <2>2, <2>3
<1>8. /\ step' = s /\ stale' = StaleAfter(replaced) /\ replaced \subseteq retained
      /\ kept' = [p \in trainer.parts |-> IF p \in replaced THEN s ELSE kept[p]]
      /\ phase' = IF s = Steps \/ (trainer.patience /\ stale' >= Patience)
                  THEN "load" ELSE "train"
      /\ disk' = [f \in DOMAIN disk |->
                    IF f \in trainer.early /\ replaced # {}
                    THEN File(kept', kept', FALSE) ELSE disk[f]]
      /\ held' = [p \in trainer.parts |->
                    IF p \in retained THEN held[p] \union {s} ELSE held[p]]
      /\ weights' = [p \in trainer.parts |-> s]
      /\ trainer.retain \/ retained = trainer.parts
  BY <1>0, <1>2 DEF Replaced
<1>9. \A p \in trainer.parts :
        /\ Candidates(p) \subseteq Evaluated
        /\ Candidates(p)' = IF p \in retained THEN Candidates(p) \union {s} ELSE Candidates(p)
        /\ p \in replaced <=> p \in retained /\ Improved(p, new)
  <2>1. SUFFICES ASSUME NEW p \in trainer.parts
        PROVE /\ Candidates(p) \subseteq Evaluated
              /\ Candidates(p)' = IF p \in retained THEN Candidates(p) \union {s} ELSE Candidates(p)
              /\ p \in replaced <=> p \in retained /\ Improved(p, new)
    OBVIOUS
  <2>2. s \notin held[p]
    <3>1. held[p] \subseteq 0..step /\ step \in Nat
      BY <1>4, <1>5
    <3> QED  BY <1>0, <3>1
  <2>3. held'[p] = IF p \in retained THEN held[p] \union {s} ELSE held[p]
    BY <1>8
  <2>4. p \in replaced <=> p \in retained /\ Improved(p, new)
    BY DEF Replaced
  <2> HIDE DEF replaced
  <2>5. Candidates(p)' = {x \in Evaluated' : x \in held'[p]}
    BY DEF Candidates
  <2> QED  BY <1>6, <2>2, <2>3, <2>4, <2>5 DEF Candidates
<1> HIDE DEF replaced
<1>10. \A p \in trainer.parts : kept[p] # None => kept[p] \in Evaluated
  BY <1>5, <1>9 DEF KeptIsBest, FirstBest
<1>11. ASSUME NEW p \in trainer.parts
       PROVE  KeptIsBest(p)'
  <2>1. /\ kept[p] = None => Candidates(p) = {}
        /\ kept[p] # None => FirstBest(p, kept[p])
        /\ trainer.baseline => 0 \in Candidates(p)
    BY <1>5 DEF KeptIsBest
  <2>2. None' = None /\ new[p] \in Nat
    BY <1>2, <1>4 DEF None
  <2>3. \A x \in Candidates(p) : Score(p, x)' = Score(p, x) /\ Score(p, x) \in Nat /\ x < s
    BY <1>5, <1>6, <1>9 DEF Score
  <2>4. Score(p, s)' = new[p]
    BY <1>6, <1>8 DEF Score
  <2>5. CASE p \in replaced
    <3>1. kept'[p] = s /\ Candidates(p)' = Candidates(p) \union {s} /\ Improved(p, new)
      BY <1>8, <1>9, <2>5
    <3>2. \A c \in Candidates(p) : Score(p, c) < new[p]
      <4>1. CASE kept[p] = None
        BY <2>1, <4>1
      <4>2. CASE kept[p] # None
        <5>1. new[p] > Score(p, kept[p]) /\ FirstBest(p, kept[p]) /\ kept[p] \in Candidates(p)
          BY <2>1, <3>1, <4>2 DEF Improved, FirstBest
        <5>2. \A c \in Candidates(p) : Score(p, c) <= Score(p, kept[p])
          BY <5>1, <2>3 DEF FirstBest
        <5> QED  BY <2>2, <2>3, <5>1, <5>2
      <4> QED  BY <4>1, <4>2
    <3>3. FirstBest(p, kept[p])'
      <4>1. \A c \in Candidates(p)' : IF c < s THEN Score(p, c)' < Score(p, s)'
                                                 ELSE Score(p, c)' <= Score(p, s)'
        BY <2>2, <2>3, <2>4, <3>1, <3>2, <1>4
      <4> QED  BY <3>1, <4>1 DEF FirstBest
    <3> QED  BY <1>3, <1>4, <2>1, <2>2, <3>1, <3>3 DEF KeptIsBest
  <2>6. CASE p \notin replaced
    <3>1. kept'[p] = kept[p]
      BY <1>8, <2>6
    <3>2. CASE p \notin retained
      <4>1. Candidates(p)' = Candidates(p)
        BY <1>9, <3>2
      <4>2. kept[p] # None => FirstBest(p, kept[p])'
        BY <2>1, <2>3, <3>1, <4>1 DEF FirstBest
      <4> QED  BY <1>3, <2>1, <2>2, <3>1, <4>1, <4>2 DEF KeptIsBest
    <3>3. CASE p \in retained
      <4>1. Candidates(p)' = Candidates(p) \union {s} /\ kept[p] # None
            /\ ~(new[p] > Score(p, kept[p]))
        BY <1>9, <2>6, <3>3 DEF Improved
      <4>2. FirstBest(p, kept[p]) /\ kept[p] \in Candidates(p)
        BY <2>1, <4>1 DEF FirstBest
      <4>3. \A c \in Candidates(p) : IF c < kept[p] THEN Score(p, c) < Score(p, kept[p])
                                                     ELSE Score(p, c) <= Score(p, kept[p])
        BY <4>2 DEF FirstBest
      <4>4. /\ new[p] <= Score(p, kept[p]) /\ kept[p] < s /\ kept[p] \in Nat
            /\ Score(p, kept[p])' = Score(p, kept[p])
        <5>1. Score(p, kept[p])' = Score(p, kept[p]) /\ Score(p, kept[p]) \in Nat /\ kept[p] < s
          BY <2>3, <3>1, <4>2
        <5>2. kept[p] \in Nat
          <6>1. kept[p] \in Evaluated /\ Evaluated \subseteq 0..step /\ step \in Nat
            BY <4>2, <1>4, <1>5, <1>9
          <6>2. kept[p] \in 0..step
            BY <6>1
          <6> QED  BY <6>1, <6>2
        <5> QED  BY <2>2, <4>1, <5>1, <5>2
      <4>5. \A c \in Candidates(p)' : IF c < kept[p] THEN Score(p, c)' < Score(p, kept[p])'
                                                      ELSE Score(p, c)' <= Score(p, kept[p])'
        <5>1. ~(s < kept[p])
          BY <1>4, <4>4
        <5> QED  BY <2>3, <2>4, <4>1, <4>3, <4>4, <5>1, <3>1
      <4>6. FirstBest(p, kept[p])'
        BY <3>1, <4>1, <4>2, <4>5 DEF FirstBest
      <4> QED  BY <1>3, <2>1, <2>2, <3>1, <4>1, <4>6 DEF KeptIsBest
    <3> QED  BY <3>2, <3>3
  <2> QED  BY <2>5, <2>6
<1>12. Remembered'
  <2>1. Evaluated' \subseteq 0..step'
    BY <1>0, <1>4, <1>5, <1>6, <1>8
  <2>2. \A p \in trainer.parts : held'[p] \subseteq 0..step'
    BY <1>0, <1>4, <1>5, <1>8
  <2>3. \A x \in Evaluated', p \in trainer.parts : scores'[x][p] \in Nat
    <3>1. \A p \in trainer.parts : new[p] \in Nat
      BY <1>2, <1>4
    <3> QED  BY <1>5, <1>6, <3>1
  <2> QED  BY <1>3, <1>7, <1>8, <1>11, <2>1, <2>2, <2>3 DEF Remembered
<1>13. stale' = (IF replaced # {} THEN 0 ELSE stale + 1) /\ stale' \in Nat
  BY <1>4, <1>8 DEF StaleAfter
<1>14. Shape'
  <2>1. step' \in 0..Steps /\ phase' \in {"load", "train"}
    BY <1>4, <1>8
  <2>2. DOMAIN disk' = DOMAIN disk
    BY <1>8
  <2>3. \A f \in DOMAIN disk : disk'[f].run \in 0..run
    <3>1. File(kept', kept', FALSE).run = run
      BY DEF File
    <3>2. SUFFICES ASSUME NEW f \in DOMAIN disk PROVE disk'[f].run \in 0..run
      OBVIOUS
    <3>3. disk'[f] = disk[f] \/ disk'[f] = File(kept', kept', FALSE)
      BY <1>8
    <3>4. disk[f].run \in 0..run
      BY <1>1 DEF Shape
    <3>5. CASE disk'[f] = disk[f]
      BY <3>4, <3>5
    <3>6. CASE disk'[f] = File(kept', kept', FALSE)
      <4>1. disk'[f].run = run /\ run \in Nat
        BY <1>4, <3>1, <3>6
      <4> QED  BY <4>1
    <3> QED  BY <3>3, <3>5, <3>6
  <2> QED  BY <1>1, <1>3, <1>4, <1>7, <1>13, <2>1, <2>2, <2>3 DEF Shape, InMemory, Working
<1>15. trainer.patience => StaleSince(stale)'
  <2>1. SUFFICES ASSUME trainer.patience PROVE StaleSince(stale)'
    OBVIOUS
  <2>2. PICK first \in Evaluated :
          /\ Cardinality({x \in Evaluated : x > first}) = stale
          /\ \A p \in trainer.parts : kept[p] <= first
    BY <1>1, <1>3, <2>1 DEF Waited, StaleSince
  <2>3. CASE replaced # {}
    <3>1. {x \in Evaluated' : x > s} = {}
      <4>1. \A x \in Evaluated : x < s /\ x \in Nat
        BY <1>4, <1>5, <1>6
      <4> QED  BY <1>6, <4>1
    <3>2. Cardinality({x \in Evaluated' : x > s}) = 0
      BY <3>1, FS_EmptySet
    <3>3. \A p \in trainer.parts : kept'[p] <= s
      <4>1. \A p \in trainer.parts : kept[p] # None
        BY <2>2, <1>4, <1>5 DEF None
      <4>2. \A p \in trainer.parts : kept[p] \in 0..step
        BY <4>1, <1>10, <1>5
      <4> QED  BY <1>0, <1>4, <1>8, <4>2
    <3> QED  BY <1>6, <1>13, <2>3, <3>2, <3>3, <1>3 DEF StaleSince
  <2>4. CASE replaced = {}
    <3>1. \A p \in trainer.parts : kept'[p] = kept[p]
      BY <1>8, <2>4
    <3>2. {x \in Evaluated' : x > first} = {x \in Evaluated : x > first} \union {s}
      BY <1>6
    <3>3. IsFiniteSet({x \in Evaluated : x > first})
      <4>0. step \in Nat
        BY <1>4
      <4>1. IsFiniteSet(0..step)
        BY <4>0, UpToFinite
      <4> QED  BY <4>1, <1>5, FS_Subset
    <3>4. Cardinality({x \in Evaluated' : x > first}) = stale + 1
      BY <1>6, <2>2, <3>2, <3>3, FS_AddElement
    <3> QED  BY <1>3, <1>6, <1>13, <2>2, <2>4, <3>1, <3>4 DEF StaleSince
  <2> QED  BY <2>3, <2>4
<1>16. Waited'
  <2>1. trainer.patience => stale < Patience
    BY <1>1, <1>3 DEF Waited
  <2>2. trainer.patience => stale' <= Patience
    BY <1>4, <1>13, <2>1
  <2>3. phase' = "train" /\ trainer.patience => stale' < Patience
    BY <1>4, <1>8, <1>13
  <2>4. phase' = "load" /\ s # Steps => trainer.patience /\ stale' = Patience
    BY <1>4, <1>8, <1>13, <2>2
  <2> QED  BY <1>3, <1>8, <1>15, <2>3, <2>4 DEF Waited
<1>17. phase' \in {"train", "load"}
  BY <1>8
<1>18. Loading' /\ Unsaved'
  BY <1>3, <1>8, <1>17 DEF Loading, Unsaved, LastWeights
<1>19. /\ DOMAIN disk' = DOMAIN disk
       /\ \A f \in DOMAIN disk :
            /\ f \in trainer.early /\ replaced # {} =>
                 /\ disk'[f].run = run /\ disk'[f].torn = FALSE /\ disk'[f].weights = kept'
                 /\ disk'[f].metrics = kept' /\ disk'[f].eligible = FALSE
            /\ ~(f \in trainer.early /\ replaced # {}) => disk'[f] = disk[f]
  <2>1. \A w : /\ File(w, w, FALSE).run = run /\ File(w, w, FALSE).torn = FALSE
               /\ File(w, w, FALSE).weights = w /\ File(w, w, FALSE).metrics = w
               /\ File(w, w, FALSE).eligible = FALSE
    BY DEF File
  <2> QED  BY <1>8, <2>1
<1>20. NotYet' /\ MetricsOfPublished'
  <2>1. NotYet'
    BY <1>1, <1>3, <1>19 DEF DiskInv, NotYet
  <2>2. MetricsOfPublished'
    BY <1>1, <1>19 DEF DiskInv, MetricsOfPublished, Complete
  <2> QED  BY <2>1, <2>2
<1>21. trainer.early # {} =>
         \A p \in trainer.parts : kept'[p] # None =>
           /\ \A q \in trainer.parts : kept'[q] # None
           /\ \A f \in trainer.early : Complete(f)'
  <2>1. SUFFICES ASSUME trainer.early # {}, NEW p \in trainer.parts, kept'[p] # None
        PROVE  /\ \A q \in trainer.parts : kept'[q] # None
               /\ \A f \in trainer.early : Complete(f)'
    OBVIOUS
  <2>2. retained = trainer.parts
    BY <1>4, <1>8, <2>1 DEF Program
  <2>3. \A q \in trainer.parts : kept[q] = None => q \in replaced
    BY <1>9, <2>2 DEF Improved
  <2>4. \A q \in trainer.parts : kept'[q] # None
    BY <1>4, <1>8, <2>3
  <2>5. trainer.early \subseteq DOMAIN disk
    BY <1>1, <1>4, FilesOfProgram DEF Shape
  <2>6. CASE replaced # {}
    BY <1>4, <1>19, <2>4, <2>5, <2>6 DEF Complete
  <2>7. CASE replaced = {}
    <3>1. kept[p] # None
      BY <2>3, <2>7
    <3>2. \A f \in trainer.early : Complete(f)
      BY <1>1, <1>3, <2>1, <3>1 DEF DiskInv, EarlyWritten, Working
    <3> QED  BY <1>19, <2>4, <2>5, <2>7, <3>2 DEF Complete
  <2> QED  BY <2>6, <2>7
<1>22. EarlyWritten'
  BY <1>3, <1>21 DEF EarlyWritten, None
<1>23. Published'
  <2>1. "weights" \in DOMAIN disk
    BY <1>1, <1>4, FilesOfProgram DEF Shape
  <2>2. CASE "weights" \in trainer.early /\ replaced # {}
    <3>1. disk'["weights"].weights = kept' /\ trainer.keep = "best"
      BY <1>4, <1>19, <2>1, <2>2 DEF Program
    <3>2. PICK p \in replaced : p \in trainer.parts
      BY <1>8, <2>2
    <3>3. kept'[p] # None
      BY <1>4, <1>8, <3>2
    <3>4. \A q \in trainer.parts : kept'[q] # None
      BY <1>21, <2>2, <3>2, <3>3
    <3> QED  BY <1>3, <3>1, <3>4 DEF Published, ToPublish, None
  <2>3. CASE "weights" \in trainer.early /\ replaced = {}
    <3>1. kept' = kept
      BY <1>1, <1>4, <1>8, <2>3 DEF Remembered
    <3>2. trainer.keep = "best" /\ disk'["weights"] = disk["weights"]
      BY <1>4, <1>19, <2>1, <2>3 DEF Program
    <3> QED  BY <1>1, <1>3, <1>4, <3>1, <3>2 DEF DiskInv, Published, ToPublish, Complete, None
  <2>4. CASE "weights" \notin trainer.early
    <3>1. disk'["weights"] = disk["weights"] /\ disk["weights"].run < run
          /\ disk["weights"].run \in 0..run
      BY <1>1, <1>3, <1>19, <2>1, <2>4 DEF DiskInv, NotYet, Shape
    <3> QED  BY <1>3, <1>4, <3>1 DEF Published
  <2> QED  BY <2>2, <2>3, <2>4
<1>24. Gained'
  <2>1. SUFFICES ASSUME trainer.gate = "gain", NEW f \in DOMAIN disk PROVE disk'[f].run # run
    BY <1>3, <1>19 DEF Gained
  <2>2. trainer.early = {}
    BY <1>4, <2>1 DEF Program
  <2>3. disk'[f] = disk[f] /\ disk[f].run < run /\ disk[f].run \in 0..run
    BY <1>1, <1>3, <1>19, <2>2 DEF DiskInv, NotYet, Shape
  <2> QED  BY <1>4, <2>3
<1>25. Summarised'
  <2>1. SUFFICES ASSUME trainer.root = "claim" PROVE ~Complete("summary")'
    BY <1>3, <1>17 DEF Summarised
  <2>2. "summary" \in DOMAIN disk /\ "summary" \notin trainer.early
    BY <1>1, <1>4, <2>1, FilesOfProgram DEF Shape, Program
  <2>3. ~Complete("summary")
    BY <1>1, <1>3, <2>1 DEF DiskInv, Summarised, Working
  <2> QED  BY <1>19, <2>2, <2>3 DEF Complete
<1> QED
  BY <1>12, <1>14, <1>16, <1>18, <1>20, <1>22, <1>23, <1>24, <1>25
     DEF SelectionInv, MemoryInv, DiskInv

(* The best weights are loaded, or the last are kept.                        *)
LEMMA LoadInv ==
  ASSUME SelectionInv, Load
  PROVE  SelectionInv'
<1>1. Shape /\ Remembered /\ Loading /\ DiskInv
  BY DEF SelectionInv, MemoryInv
<1>2. /\ phase = "load" /\ (\A p \in trainer.parts : Loaded[p] # None)
      /\ weights' = Loaded /\ metrics'.report = Reported
      /\ unsaved' = trainer.files /\ phase' = "save"
      /\ UNCHANGED trainer /\ UNCHANGED run /\ UNCHANGED step /\ UNCHANGED scores
      /\ UNCHANGED kept /\ UNCHANGED held /\ UNCHANGED stale /\ UNCHANGED disk
  BY DEF Load
<1>3. /\ trainer.parts # {} /\ Program(trainer) /\ InMemory /\ DOMAIN disk = AllFiles(trainer)
      /\ run \in Nat /\ run > 0
  BY <1>1, <1>2 DEF Shape, Program, Working
<1>4. /\ trainer.keep = "best" => Loaded = kept
      /\ trainer.keep # "best" => Loaded = weights /\ weights = LastWeights
  BY <1>1, <1>3 DEF Loaded, Loading
<1>5. DOMAIN Loaded = trainer.parts /\ DOMAIN kept = trainer.parts
  BY <1>1, <1>3, <1>4 DEF Remembered
<1>6. weights' # <<>> /\ DOMAIN weights' = trainer.parts
  <2>1. DOMAIN weights' # {}
    BY <1>2, <1>3, <1>5
  <2>2. DOMAIN <<>> = {}
    OBVIOUS
  <2> QED  BY <2>1, <2>2, <1>2, <1>5
<1>7. Reported = Loaded
  BY <1>3, <1>4 DEF Reported, Program
<1>8. Shape'
  BY <1>1, <1>2, <1>3, <1>6 DEF Shape, InMemory, Working
<1>9. \A p \in trainer.parts : KeptIsBest(p)'
  BY <1>1, <1>2, <1>3 DEF Remembered, KeptIsBest, FirstBest, Score, Candidates, Evaluated, None
<1>10. Remembered'
  BY <1>1, <1>2, <1>3, <1>6, <1>9 DEF Remembered, Evaluated
<1>11. Waited'
  BY <1>2 DEF Waited
<1>12. Loading'
  BY <1>2, <1>4, <1>7 DEF Loading, LastWeights, None
<1>13. Unsaved'
  <2>1. trainer.files \in Seq(STRING) /\ trainer.files # <<>>
    BY <1>3 DEF Program
  <2>2. \A i \in DOMAIN trainer.files :
          trainer.files[i] = "summary" <=> trainer.root = "claim" /\ i = Len(trainer.files)
    BY <1>3 DEF Program
  <2> QED  BY <1>2, <2>1, <2>2 DEF Unsaved
<1>14. NotYet' /\ MetricsOfPublished' /\ EarlyWritten'
  <2>1. NotYet' /\ MetricsOfPublished'
    BY <1>1, <1>2 DEF DiskInv, NotYet, MetricsOfPublished, Complete
  <2>2. EarlyWritten'
    BY <1>1, <1>2 DEF DiskInv, EarlyWritten, Working, Complete, None
  <2> QED  BY <2>1, <2>2
<1>15. Published' /\ Gained'
  <2>1. Published'
    BY <1>1, <1>2, <1>3 DEF DiskInv, Published, ToPublish, LastWeights, Complete, None
  <2>2. Gained'
    BY <1>1, <1>2, <1>3 DEF DiskInv, Gained, Complete
  <2> QED  BY <2>1, <2>2
<1>16. Summarised'
  <2>1. SUFFICES ASSUME trainer.root = "claim" PROVE Summarised'
    BY <1>2 DEF Summarised
  <2>2. ~Complete("summary")
    BY <1>1, <1>2, <2>1 DEF DiskInv, Summarised, Working
  <2>3. ASSUME NEW f \in DOMAIN disk, f \notin ToSet(trainer.files)
        PROVE  Complete(f)
    <3>1. f \in trainer.early
      BY <1>3, <2>3 DEF AllFiles
    <3>2. trainer.keep = "best"
      BY <1>3, <3>1 DEF Program
    <3>3. PICK p \in trainer.parts : kept[p] # None
      BY <1>2, <1>3, <1>4, <3>2
    <3> QED  BY <1>1, <1>2, <3>1, <3>3 DEF DiskInv, EarlyWritten, Working
  <2> QED  BY <1>2, <2>2, <2>3 DEF Summarised, Complete
<1> QED
  BY <1>8, <1>10, <1>11, <1>12, <1>13, <1>14, <1>15, <1>16 DEF SelectionInv, MemoryInv, DiskInv

(* One file is written.                                                      *)
LEMMA SelectionSaveInv ==
  ASSUME SelectionInv, Save
  PROVE  SelectionInv'
<1>1. Shape /\ Remembered /\ Loading /\ Unsaved /\ DiskInv
  BY DEF SelectionInv, MemoryInv
<1>0. PICK h : h = Head(unsaved)
  OBVIOUS
<1>2. /\ phase = "save" /\ unsaved # <<>>
      /\ disk' = [disk EXCEPT ![h] = Written(h)]
      /\ unsaved' = Tail(unsaved)
      /\ phase' = IF Tail(unsaved) = <<>> THEN "over" ELSE "save"
      /\ UNCHANGED trainer /\ UNCHANGED run /\ UNCHANGED step /\ UNCHANGED scores
      /\ UNCHANGED kept /\ UNCHANGED held /\ UNCHANGED stale /\ UNCHANGED weights
      /\ UNCHANGED metrics
  BY <1>0 DEF Save
<1>3. /\ trainer.parts # {} /\ Program(trainer) /\ InMemory /\ DOMAIN disk = AllFiles(trainer)
      /\ run \in Nat /\ run > 0
  BY <1>1, <1>2 DEF Shape, Program, Working
<1>4. /\ unsaved \in Seq(STRING) /\ ToSet(unsaved) \subseteq ToSet(trainer.files)
      /\ \A i \in DOMAIN unsaved :
           unsaved[i] = "summary" <=> trainer.root = "claim" /\ i = Len(unsaved)
  BY <1>1, <1>2 DEF Unsaved
<1>5. PICK n \in Nat : n = Len(unsaved)
  BY <1>4
<1>6. /\ n > 0 /\ DOMAIN unsaved = 1..n /\ h = unsaved[1]
      /\ Tail(unsaved) \in Seq(STRING) /\ DOMAIN Tail(unsaved) = 1..(n - 1)
      /\ Len(Tail(unsaved)) = n - 1
      /\ \A i \in 1..(n - 1) : Tail(unsaved)[i] = unsaved[i + 1]
      /\ Tail(unsaved) = <<>> <=> n = 1
  <2>1. n > 0 /\ DOMAIN unsaved = 1..n
    BY <1>2, <1>4, <1>5
  <2>2. h = unsaved[1]
    BY <1>0, <1>2, <1>4
  <2>3. /\ Tail(unsaved) \in Seq(STRING) /\ Len(Tail(unsaved)) = n - 1
        /\ \A i \in 1..(n - 1) : Tail(unsaved)[i] = unsaved[i + 1]
    BY <1>2, <1>4, <1>5
  <2>4. DOMAIN Tail(unsaved) = 1..(n - 1)
    BY <2>3
  <2>5. Tail(unsaved) = <<>> <=> n = 1
    <3>1. \A q \in Seq(STRING) : q = <<>> <=> Len(q) = 0
      OBVIOUS
    <3>2. Tail(unsaved) = <<>> <=> n - 1 = 0
      BY <2>3, <3>1
    <3> QED  BY <2>1, <3>2
  <2> QED  BY <2>1, <2>2, <2>3, <2>4, <2>5
<1>7. ToSet(unsaved) = {h} \union ToSet(Tail(unsaved))
  <2>1. ToSet(unsaved) = {unsaved[i] : i \in 1..n}
        /\ ToSet(Tail(unsaved)) = {Tail(unsaved)[i] : i \in 1..(n - 1)}
    BY <1>6 DEF ToSet
  <2>2. ASSUME NEW i \in 1..n PROVE unsaved[i] \in {h} \union ToSet(Tail(unsaved))
    <3>1. CASE i = 1
      BY <1>6, <3>1
    <3>2. CASE i # 1
      <4>1. i - 1 \in 1..(n - 1) /\ (i - 1) + 1 = i
        BY <3>2
      <4>2. Tail(unsaved)[i - 1] = unsaved[i]
        BY <1>6, <4>1
      <4> QED  BY <2>1, <4>1, <4>2
    <3> QED  BY <3>1, <3>2
  <2>3. ASSUME NEW i \in 1..(n - 1) PROVE Tail(unsaved)[i] \in ToSet(unsaved)
    <3>1. i + 1 \in 1..n
      OBVIOUS
    <3> QED  BY <1>6, <2>1, <3>1
  <2>4. h \in ToSet(unsaved)
    <3>1. 1 \in 1..n
      BY <1>6
    <3> QED  BY <1>6, <2>1, <3>1
  <2> QED  BY <2>1, <2>2, <2>3, <2>4
<1>8. h \in DOMAIN disk
  BY <1>3, <1>4, <1>7, FilesOfProgram
<1>9. /\ Written(h).run = run /\ Written(h).torn = FALSE
      /\ h \in trainer.latest => /\ Written(h).weights = LastWeights
                                 /\ Written(h).metrics = LastWeights
                                 /\ Written(h).eligible = FALSE
      /\ h \notin trainer.latest => /\ Written(h).weights = weights
                                    /\ Written(h).metrics = metrics.report
                                    /\ Written(h).eligible = Eligible
  BY DEF Written, File
<1>10. /\ DOMAIN disk' = DOMAIN disk /\ disk'[h] = Written(h)
       /\ \A f \in DOMAIN disk : f # h => disk'[f] = disk[f]
  BY <1>2, <1>8
<1>11. /\ metrics.report = weights /\ (\A p \in trainer.parts : weights[p] # None)
       /\ weights = ToPublish
  BY <1>1, <1>2, <1>3 DEF Loading, ToPublish
<1>12. phase' \in {"save", "over"}
  BY <1>2
<1>13. Shape'
  <2>1. ASSUME NEW f \in DOMAIN disk PROVE disk'[f].run \in 0..run
    <3>1. CASE f = h
      <4>1. disk'[f].run = run
        BY <1>9, <1>10, <3>1
      <4> QED  BY <1>3, <4>1
    <3>2. CASE f # h
      BY <1>1, <1>10, <3>2 DEF Shape
    <3> QED  BY <3>1, <3>2
  <2> QED  BY <1>1, <1>2, <1>3, <1>10, <1>12, <2>1 DEF Shape, InMemory, Working
<1>14. \A p \in trainer.parts : KeptIsBest(p)'
  BY <1>1, <1>2, <1>3 DEF Remembered, KeptIsBest, FirstBest, Score, Candidates, Evaluated, None
<1>15. Remembered'
  BY <1>1, <1>2, <1>3, <1>14 DEF Remembered, Evaluated
<1>16. Waited'
  BY <1>12 DEF Waited
<1>17. Loading'
  BY <1>1, <1>2, <1>12 DEF Loading, LastWeights, None, InMemory
<1>18. Unsaved'
  <2>1. SUFFICES ASSUME phase' = "save" PROVE Unsaved'
    BY DEF Unsaved
  <2>2. unsaved' \in Seq(STRING) /\ unsaved' # <<>> /\ n > 1
    BY <1>2, <1>6, <2>1
  <2>3. ToSet(unsaved') \subseteq ToSet(trainer.files)
    BY <1>2, <1>4, <1>7
  <2>4. ASSUME NEW i \in DOMAIN unsaved'
        PROVE  unsaved'[i] = "summary" <=> trainer.root = "claim" /\ i = Len(unsaved')
    <3>1. i \in 1..(n - 1) /\ i + 1 \in 1..n /\ Len(unsaved') = n - 1
      BY <1>2, <1>6, <2>4
    <3>2. unsaved'[i] = unsaved[i + 1]
      BY <1>2, <1>6, <3>1
    <3>3. unsaved[i + 1] = "summary" <=> trainer.root = "claim" /\ i + 1 = n
      BY <1>4, <1>5, <1>6, <3>1
    <3>4. i + 1 = n <=> i = n - 1
      BY <3>1
    <3> QED  BY <3>1, <3>2, <3>3, <3>4
  <2> QED  BY <1>2, <2>2, <2>3, <2>4 DEF Unsaved
<1>19. NotYet'
  BY <1>12 DEF NotYet
<1>20. EarlyWritten'
  BY <1>1, <1>2, <1>3, <1>9, <1>10, FilesOfProgram DEF DiskInv, EarlyWritten, Working, Complete, None
<1>21. MetricsOfPublished'
  BY <1>1, <1>9, <1>10, <1>11 DEF DiskInv, MetricsOfPublished, Complete
<1>22. Published'
  <2>1. "weights" \in DOMAIN disk /\ "weights" \notin trainer.latest
    BY <1>3, FilesOfProgram
  <2>2. ToPublish' = ToPublish /\ None' = None
    BY <1>2 DEF ToPublish, LastWeights, None
  <2>3. CASE h = "weights"
    <3>1. disk'["weights"].weights = weights
      BY <1>9, <1>10, <2>1, <2>3
    <3> QED  BY <1>2, <1>11, <2>2, <3>1 DEF Published
  <2>4. CASE h # "weights"
    <3>1. disk'["weights"] = disk["weights"]
      BY <1>10, <2>1, <2>4
    <3> QED  BY <1>1, <1>2, <1>3, <2>2, <3>1 DEF DiskInv, Published, Complete
  <2> QED  BY <2>3, <2>4
<1>23. Gained'
  <2>1. SUFFICES ASSUME trainer.gate = "gain", NEW f \in DOMAIN disk, Complete(f)',
                        disk'[f].eligible, disk'[f].run = run
        PROVE  disk'[f].weights = kept /\ \A p \in trainer.parts : kept[p] > 0
    BY <1>2, <1>10 DEF Gained
  <2>2. CASE f = h
    <3>1. Eligible /\ disk'[f].weights = weights
      BY <1>9, <1>10, <2>1, <2>2
    <3>2. weights = kept
      BY <1>3, <1>11, <2>1 DEF Program, ToPublish
    <3> QED  BY <2>1, <3>1, <3>2 DEF Eligible
  <2>3. CASE f # h
    <3>1. disk'[f] = disk[f]
      BY <1>10, <2>3
    <3>2. Complete(f)
      BY <2>1, <3>1 DEF Complete
    <3> QED  BY <1>1, <1>3, <2>1, <3>1, <3>2 DEF DiskInv, Gained
  <2> QED  BY <2>2, <2>3
<1>24. Summarised'
  <2>1. SUFFICES ASSUME trainer.root = "claim" PROVE Summarised'
    BY <1>2 DEF Summarised
  <2>2. \A f \in DOMAIN disk : f \in ToSet(unsaved) \/ Complete(f)
    BY <1>1, <1>2, <2>1 DEF DiskInv, Summarised
  <2>3. ~Complete("summary")
    BY <1>1, <1>2, <2>1 DEF DiskInv, Summarised, Working
  <2>4. /\ "summary" \in DOMAIN disk /\ "weights" \in DOMAIN disk
        /\ "summary" \notin trainer.latest
    BY <1>3, <2>1, FilesOfProgram
  <2>5. Complete(h)'
    BY <1>2, <1>3, <1>9, <1>10 DEF Complete
  <2>6. \A f \in DOMAIN disk : f \in ToSet(Tail(unsaved)) \/ Complete(f)'
    <3>1. \A f \in DOMAIN disk : f # h => (Complete(f)' <=> Complete(f))
      BY <1>10 DEF Complete
    <3> QED  BY <1>7, <2>2, <2>5, <3>1
  <2>7. CASE h # "summary"
    <3>1. ~Complete("summary")'
      BY <1>10, <2>3, <2>4, <2>7 DEF Complete
    <3> QED  BY <1>2, <1>10, <2>6, <3>1 DEF Summarised
  <2>8. CASE h = "summary"
    <3>1. n = 1
      <4>1. 1 \in DOMAIN unsaved
        BY <1>6
      <4> QED  BY <1>4, <1>5, <1>6, <2>8, <4>1
    <3>2. phase' = "over" /\ ToSet(Tail(unsaved)) = {}
      <4>1. DOMAIN Tail(unsaved) = {}
        BY <1>6, <3>1
      <4> QED  BY <1>2, <1>6, <3>1, <4>1 DEF ToSet
    <3>3. \A f \in DOMAIN disk : Complete(f)'
      BY <2>6, <3>2
    <3>4. disk'["weights"].weights = disk'["summary"].weights
      <4>1. disk'["summary"].weights = weights
        BY <1>9, <1>10, <2>4, <2>8
      <4>2. disk'["weights"] = disk["weights"]
        BY <1>10, <2>4, <2>8
      <4>3. Complete("weights")
        BY <2>4, <3>3, <4>2 DEF Complete
      <4>4. disk["weights"].run = run
        <5>1. run <= 1 /\ disk["weights"].run \in 0..run /\ disk["weights"].run > 0
          BY <1>1, <2>1, <2>4, <4>3 DEF Shape, Complete
        <5> QED  BY <1>3, <5>1
      <4> QED  BY <1>1, <1>3, <1>11, <4>1, <4>2, <4>3, <4>4 DEF DiskInv, Published
    <3> QED  BY <1>10, <3>2, <3>3, <3>4 DEF Summarised, Working
  <2> QED  BY <2>7, <2>8
<1> QED
  BY <1>13, <1>15, <1>16, <1>17, <1>18, <1>19, <1>20, <1>21, <1>22, <1>23, <1>24
     DEF SelectionInv, MemoryInv, DiskInv

(* The process dies, and leaves at most one torn file.                       *)
LEMMA SelectionCrashInv ==
  ASSUME SelectionInv, Crash
  PROVE  SelectionInv'
<1>1. Shape /\ Unsaved /\ DiskInv
  BY DEF SelectionInv, MemoryInv
<1>2. /\ Working /\ phase' = "over" /\ step' = 0 /\ stale' = 0 /\ weights' = <<>>
      /\ UNCHANGED trainer /\ UNCHANGED run
  BY DEF Crash, Working
<1>3. Program(trainer) /\ run \in Nat /\ run > 0 /\ DOMAIN disk = AllFiles(trainer)
  BY <1>1, <1>2 DEF Shape
<1>4. /\ DOMAIN disk' = DOMAIN disk
      /\ \A f \in DOMAIN disk :
           disk'[f] = disk[f] \/ (disk'[f].run = run /\ disk'[f].torn = TRUE)
  <2>1. ASSUME NEW f, disk' = [disk EXCEPT ![f] = [run |-> run, torn |-> TRUE]]
        PROVE  /\ DOMAIN disk' = DOMAIN disk
               /\ \A g \in DOMAIN disk :
                    disk'[g] = disk[g] \/ (disk'[g].run = run /\ disk'[g].torn = TRUE)
    BY <2>1
  <2>2. CASE UNCHANGED disk
    BY <2>2
  <2> QED  BY <2>1, <2>2 DEF Crash
<1>5. Shape'
  <2>1. 0 \in 0..Steps
    BY SelectionConstants
  <2>2. ASSUME NEW f \in DOMAIN disk PROVE disk'[f].run \in 0..run
    <3>1. disk[f].run \in 0..run
      BY <1>1 DEF Shape
    <3>2. CASE disk'[f] = disk[f]
      BY <3>1, <3>2
    <3>3. CASE disk'[f].run = run
      BY <1>3, <3>3
    <3> QED  BY <1>4, <3>2, <3>3
  <2> QED  BY <1>1, <1>2, <1>3, <1>4, <2>1, <2>2 DEF Shape, InMemory, Working
<1>6. ~InMemory' /\ ~Working'
  BY <1>2 DEF InMemory, Working
<1>7. Remembered' /\ Waited' /\ Loading' /\ Unsaved'
  BY <1>2, <1>6 DEF Remembered, Waited, Loading, Unsaved
<1>8. \A f \in DOMAIN disk : Complete(f)' => Complete(f) /\ disk'[f] = disk[f]
  BY <1>4 DEF Complete
<1>9. MetricsOfPublished'
  BY <1>1, <1>4, <1>8 DEF DiskInv, MetricsOfPublished
<1>10. NotYet' /\ EarlyWritten' /\ Published' /\ Gained'
  BY <1>2, <1>6 DEF NotYet, EarlyWritten, Published, Gained
<1>11. Summarised'
  <2>1. SUFFICES ASSUME trainer.root = "claim" PROVE ~Complete("summary")'
    BY <1>2 DEF Summarised
  <2>2. "summary" \in DOMAIN disk
    BY <1>3, <2>1, FilesOfProgram
  <2> QED  BY <1>1, <1>2, <1>8, <2>1, <2>2 DEF DiskInv, Summarised
<1> QED  BY <1>5, <1>7, <1>9, <1>10, <1>11 DEF SelectionInv, MemoryInv, DiskInv

LEMMA SelectionNext == SelectionInv /\ [Next]_vars => SelectionInv'
<1> SUFFICES ASSUME SelectionInv, [Next]_vars PROVE SelectionInv'
  OBVIOUS
<1>1. CASE UNCHANGED vars
  <2>1. /\ UNCHANGED trainer /\ UNCHANGED run /\ UNCHANGED phase /\ UNCHANGED step
        /\ UNCHANGED scores /\ UNCHANGED kept /\ UNCHANGED held /\ UNCHANGED stale
        /\ UNCHANGED weights /\ UNCHANGED metrics /\ UNCHANGED unsaved /\ UNCHANGED disk
    BY <1>1 DEF vars
  <2>2. Shape'
    BY <2>1 DEF SelectionInv, MemoryInv, Shape, InMemory, Working
  <2>3. Remembered'
    <3>1. Remembered
      BY DEF SelectionInv, MemoryInv
    <3> QED  BY <2>1, <3>1
         DEF Remembered, InMemory, KeptIsBest, FirstBest, Score, Candidates, Evaluated, None
  <2>4. Waited' /\ Loading' /\ Unsaved'
    <3>1. Waited /\ Loading /\ Unsaved
      BY DEF SelectionInv, MemoryInv
    <3>2. Waited'
      BY <2>1, <3>1 DEF Waited, StaleSince, Evaluated
    <3>3. Loading' /\ Unsaved'
      BY <2>1, <3>1 DEF Loading, Unsaved, InMemory, LastWeights, None
    <3> QED  BY <3>2, <3>3
  <2>5. NotYet' /\ EarlyWritten' /\ Published'
    BY <2>1 DEF SelectionInv, DiskInv, NotYet, EarlyWritten, Published, Working, Complete, InMemory,
       ToPublish, LastWeights, None
  <2>6. MetricsOfPublished' /\ Gained' /\ Summarised'
    BY <2>1 DEF SelectionInv, DiskInv, MetricsOfPublished, Gained, Summarised, Working, Complete,
       InMemory
  <2> QED  BY <2>2, <2>3, <2>4, <2>5, <2>6 DEF SelectionInv, MemoryInv, DiskInv
<1>2. CASE Next
  BY <1>2, BeginInv, SelectionTrainInv, EvaluateInv, LoadInv, SelectionSaveInv,
     SelectionCrashInv DEF Next
<1> QED  BY <1>1, <1>2

LEMMA SelectionAlwaysInv == Spec => []SelectionInv
  BY SelectionInit, SelectionNext, PTL DEF Spec
-----------------------------------------------------------------------------
LEMMA InvPublishedIsBest == SelectionInv => PublishedIsBest
<1> SUFFICES ASSUME SelectionInv PROVE PublishedIsBest
  OBVIOUS
<1>1. Shape /\ Remembered /\ Waited /\ Loading /\ DiskInv
  BY DEF SelectionInv, MemoryInv
<1>2. BestPublished
  <2>1. SUFFICES ASSUME Complete("weights"), disk["weights"].run = run, weights # <<>>,
                        NEW p \in trainer.parts
                 PROVE  IF trainer.keep = "best" THEN FirstBest(p, disk["weights"].weights[p])
                        ELSE disk["weights"].weights[p] = step
    BY DEF BestPublished
  <2>2. /\ disk["weights"].weights = ToPublish /\ disk["weights"].weights[p] # None
        /\ KeptIsBest(p)
    BY <1>1, <2>1 DEF DiskInv, Published, Remembered, InMemory
  <2> QED  BY <2>2 DEF ToPublish, KeptIsBest, LastWeights
<1>3. MetricsOfPublished
  BY <1>1 DEF DiskInv
<1>4. GivesUpOnlyStale
  <2>1. SUFFICES ASSUME phase = "load", step < Steps
                 PROVE  \E first \in Evaluated :
                          /\ Cardinality({s \in Evaluated : s > first}) = Patience
                          /\ \A p \in trainer.parts : kept[p] <= first /\ FirstBest(p, kept[p])
    BY DEF GivesUpOnlyStale
  <2>2. PICK first \in Evaluated :
          /\ Cardinality({s \in Evaluated : s > first}) = Patience
          /\ \A p \in trainer.parts : kept[p] <= first
    BY <1>1, <2>1 DEF Waited, StaleSince
  <2>3. InMemory /\ Evaluated \subseteq 0..step /\ step \in Nat /\ Steps \in Nat
        /\ \A p \in trainer.parts : KeptIsBest(p)
    BY <1>1, <2>1, SelectionConstants DEF Shape, Working, Remembered
  <2>4. first \in 0..step
    BY <2>3
  <2>5. \A p \in trainer.parts : kept[p] # None
    BY <2>1, <2>2, <2>3, <2>4 DEF None
  <2> QED  BY <2>2, <2>3, <2>5 DEF KeptIsBest
<1> QED  BY <1>2, <1>3, <1>4 DEF PublishedIsBest

LEMMA InvDirectoryTruthful == SelectionInv => DirectoryTruthful
<1> SUFFICES ASSUME SelectionInv PROVE DirectoryTruthful
  OBVIOUS
<1>1. Shape /\ Remembered /\ Loading /\ DiskInv
  BY DEF SelectionInv, MemoryInv
<1>2. RootCoherent
  <2>1. SUFFICES ASSUME trainer.root = "claim" PROVE RootCoherent
    BY DEF RootCoherent
  <2>2. ASSUME NEW f \in DOMAIN disk, Complete(f) PROVE disk[f].run = 1
    <3>1. run <= 1 /\ run \in Nat /\ disk[f].run \in 0..run /\ disk[f].run > 0
      BY <1>1, <2>1, <2>2 DEF Shape, Complete
    <3> QED  BY <3>1
  <2> QED  BY <1>1, <2>1, <2>2 DEF RootCoherent, DiskInv, Summarised
<1>3. EligibleIsGain
  <2>1. SUFFICES ASSUME NEW f \in DOMAIN disk, Complete(f), disk[f].eligible
        PROVE  /\ f = "summary" => disk["weights"].weights = disk[f].weights
               /\ trainer.gate = "gain" /\ disk[f].run = run /\ weights # <<>> =>
                    \A p \in trainer.parts : Score(p, disk[f].weights[p]) > Score(p, 0)
    BY DEF EligibleIsGain
  <2>2. Program(trainer) /\ DOMAIN disk = AllFiles(trainer)
    BY <1>1 DEF Shape
  <2>3. f = "summary" => disk["weights"].weights = disk[f].weights
    BY <1>1, <2>1, <2>2, FilesOfProgram DEF DiskInv, Summarised
  <2>4. ASSUME trainer.gate = "gain", disk[f].run = run, weights # <<>>, NEW p \in trainer.parts
        PROVE  Score(p, disk[f].weights[p]) > Score(p, 0)
    <3>1. disk[f].weights = kept /\ kept[p] > 0
      BY <1>1, <2>1, <2>4 DEF DiskInv, Gained, InMemory
    <3>2. KeptIsBest(p) /\ trainer.baseline
      BY <1>1, <2>2, <2>4 DEF Remembered, InMemory, Program
    <3>3. 0 \in Candidates(p) /\ FirstBest(p, kept[p])
      BY <3>2 DEF KeptIsBest
    <3>4. Score(p, 0) < Score(p, kept[p])
      BY <3>1, <3>3 DEF FirstBest
    <3>5. Score(p, 0) \in Nat /\ Score(p, kept[p]) \in Nat
      BY <1>1, <2>4, <3>3 DEF Remembered, InMemory, Score, FirstBest, Candidates
    <3> QED  BY <3>1, <3>4, <3>5
  <2> QED  BY <2>3, <2>4
<1> QED  BY <1>2, <1>3 DEF DirectoryTruthful

(* What a run publishes is, part by part, the first best of what it saw, with*)
(* the metrics of those very weights, and no run gives up while a part still *)
(* gets better: for any number of steps, scores and restarts.                *)
THEOREM PublishedAlwaysBest == Spec => []PublishedIsBest
  BY SelectionAlwaysInv, InvPublishedIsBest, PTL

(* A claimed directory is of one run, its summary stands beside all it speaks*)
(* of, and an eligible candidate beats the weights it started from.          *)
THEOREM DirectoryAlwaysTruthful == Spec => []DirectoryTruthful
  BY SelectionAlwaysInv, InvDirectoryTruthful, PTL
-----------------------------------------------------------------------------
(* The measures of version links.                                            *)
(* The best of numbers and of scores.                                        *)
LEMMA MinIs ==
  ASSUME NEW S \in SUBSET Nat, S # {}
  PROVE  Min(S) \in S /\ \A y \in S : Min(S) <= y
<1>1. \E x \in S : \A y \in S : x <= y
  BY Least
<1> QED  BY <1>1 DEF Min

LEMMA MaxIs ==
  ASSUME NEW n \in Nat, NEW S \in SUBSET (1..n), S # {}
  PROVE  Max(S) \in S /\ \A y \in S : y <= Max(S)
<1> DEFINE R == {m \in 0..n : n - m \in S}
<1>1. \A y \in S : n - y \in R
  <2>1. SUFFICES ASSUME NEW y \in S PROVE n - y \in 0..n /\ n - (n - y) = y
    OBVIOUS
  <2>2. y \in 1..n
    OBVIOUS
  <2> QED  BY <2>2
<1>2. R # {} /\ R \in SUBSET Nat
  <2>1. \A m \in 0..n : m \in Nat
    OBVIOUS
  <2>2. PICK y : y \in S
    OBVIOUS
  <2> QED  BY <1>1, <2>1, <2>2
<1>3. PICK m \in R : \A k \in R : m <= k
  BY <1>2, Least
<1>4. n - m \in S /\ \A y \in S : y <= n - m
  <2>1. n - m \in S
    OBVIOUS
  <2>2. ASSUME NEW y \in S PROVE y <= n - m
    <3>1. y \in 1..n /\ m \in 0..n /\ m <= n - y
      BY <1>1, <1>3
    <3> QED  BY <3>1
  <2> QED  BY <2>1, <2>2
<1>5. \E x \in S : \A y \in S : x >= y
  <2>1. \A y \in S : n - m >= y
    BY <1>4
  <2> QED  BY <1>4, <2>1
<1>6. Max(S) \in S /\ \A y \in S : Max(S) >= y
  BY <1>5 DEF Max
<1>7. \A y \in S : y <= Max(S)
  <2>1. Max(S) \in 1..n /\ \A y \in S : y \in 1..n
    BY <1>6
  <2> QED  BY <1>6, <2>1
<1> QED  BY <1>6, <1>7

LEMMA SomeTop ==
  ASSUME NEW score, NEW n \in Nat, NEW C \in SUBSET (1..n), C # {},
         \A j \in C : score[j] \in Int
  PROVE  TopScored(C, score) # {}
<1> DEFINE Tops(D) == D # {} /\ (\A j \in D : score[j] \in Int) => TopScored(D, score) # {}
           S == {k \in Nat : \A D \in SUBSET (1..k) : Tops(D)}
<1>1. 0 \in S
  <2>1. \A D \in SUBSET (1..0) : D = {}
    OBVIOUS
  <2> QED  BY <2>1
<1>2. ASSUME NEW k \in Nat, k \in S PROVE k + 1 \in S
  <2>1. SUFFICES ASSUME NEW D \in SUBSET (1..(k + 1)), D # {}, \A j \in D : score[j] \in Int
                 PROVE  TopScored(D, score) # {}
    OBVIOUS
  <2>2. D \ {k + 1} \in SUBSET (1..k)
    OBVIOUS
  <2>3. CASE k + 1 \notin D
    <3>1. D \in SUBSET (1..k)
      BY <2>2, <2>3
    <3> QED  BY <1>2, <2>1, <3>1
  <2>4. CASE k + 1 \in D /\ D \ {k + 1} = {}
    <3>1. D = {k + 1}
      BY <2>4
    <3>2. k + 1 \in TopScored(D, score)
      BY <2>1, <3>1 DEF TopScored
    <3> QED  BY <3>2
  <2>5. CASE k + 1 \in D /\ D \ {k + 1} # {}
    <3>1. TopScored(D \ {k + 1}, score) # {}
      BY <1>2, <2>1, <2>2, <2>5
    <3>2. PICK t \in D \ {k + 1} : \A j \in D \ {k + 1} : score[j] <= score[t]
      BY <3>1 DEF TopScored
    <3>3. score[k + 1] \in Int /\ score[t] \in Int
      BY <2>1, <2>5
    <3>4. CASE score[k + 1] <= score[t]
      <4>1. \A j \in D : score[j] <= score[t]
        BY <3>2, <3>4
      <4> QED  BY <4>1 DEF TopScored
    <3>5. CASE ~(score[k + 1] <= score[t])
      <4>1. ASSUME NEW j \in D PROVE score[j] <= score[k + 1]
        <5>1. CASE j = k + 1
          BY <3>3, <5>1
        <5>2. CASE j # k + 1
          <6>1. score[j] <= score[t] /\ score[j] \in Int
            BY <2>1, <3>2, <5>2
          <6> QED  BY <3>3, <3>5, <6>1
        <5> QED  BY <5>1, <5>2
      <4> QED  BY <2>5, <4>1 DEF TopScored
    <3> QED  BY <3>4, <3>5
  <2> QED  BY <2>3, <2>4, <2>5
<1>3. \A k \in Nat : k \in S
  <2> HIDE DEF S
  <2> QED  BY <1>1, <1>2, Induction
<1> QED  BY <1>3
-----------------------------------------------------------------------------
(* What a bank says of its events.                                           *)
Same(i) == {j \in 1..(i - 1) : Key(Bank[j]) = Key(Bank[i])}
MeasuredOK == measured \in [bank : LinkBanks, by : Measures]

LEMMA BankSays ==
  ASSUME MeasuredOK
  PROVE  /\ Len(Bank) \in Nat
         /\ \A i \in 1..Len(Bank) :
              /\ Same(i) = {} => Bank[i].operation = "create" /\ Bank[i].previous = NoEpisode
              /\ Same(i) # {} =>
                   /\ Bank[i].operation = "update" /\ Bank[i].previous \in Same(i)
                   /\ \A j \in Same(i) : j <= Bank[i].previous
<1>1. Len(Bank) \in Nat /\ DOMAIN Bank = 1..Len(Bank) /\ Bank = Versioned(Bank)
  BY LinkAssumption DEF MeasuredOK, Bank
<1>2. ASSUME NEW i \in 1..Len(Bank)
      PROVE  /\ Bank[i].operation = IF Same(i) = {} THEN "create" ELSE "update"
             /\ Bank[i].previous = Before(Same(i))
  <2>1. Bank[i] = Versioned(Bank)[i]
    BY <1>1
  <2>2. /\ Versioned(Bank)[i].operation = IF Same(i) = {} THEN "create" ELSE "update"
        /\ Versioned(Bank)[i].previous = Before(Same(i))
    BY <1>1 DEF Versioned, Same
  <2> QED  BY <2>1, <2>2
<1>3. ASSUME NEW i \in 1..Len(Bank), Same(i) # {}
      PROVE  Before(Same(i)) \in Same(i) /\ \A j \in Same(i) : j <= Before(Same(i))
  <2>1. i - 1 \in Nat /\ Same(i) \in SUBSET (1..(i - 1))
    BY <1>1 DEF Same
  <2> QED  BY <1>3, <2>1, MaxIs DEF Before
<1> QED  BY <1>1, <1>2, <1>3 DEF Before

LEMMA PreviousIs ==
  ASSUME MeasuredOK, NEW i \in 1..Len(Bank)
  PROVE  Bank[i].previous \in Nat /\ Bank[i].operation \in {"create", "update"}
<1>1. CASE Same(i) = {}
  BY <1>1, BankSays DEF NoEpisode
<1>2. CASE Same(i) # {}
  <2>1. Bank[i].previous \in Same(i)
    BY <1>2, BankSays
  <2> QED  BY <1>2, <2>1, BankSays DEF Same
<1> QED  BY <1>1, <1>2

(* What is active before an event is what no event before it replaces.       *)
LEMMA ActiveIs ==
  ASSUME MeasuredOK, NEW n \in Nat, n <= Len(Bank)
  PROVE  ActiveBefore(Bank, n + 1) = (1..n) \ {Bank[k].previous : k \in 1..n}
<1>1. (n + 1) - 1 = n /\ Len(Bank) \in Nat
  BY BankSays
<1>2. ASSUME NEW j \in 1..n, NEW k \in (j + 1)..n, Key(Bank[k]) = Key(Bank[j])
      PROVE  \E m \in 1..n : Bank[m].previous = j
  <2> DEFINE S == {m \in (j + 1)..n : Key(Bank[m]) = Key(Bank[j])}
  <2>1. S \in SUBSET Nat /\ k \in S
    BY <1>2
  <2>2. PICK m \in S : \A l \in S : m <= l
    BY <2>1, Least
  <2>3. m \in (j + 1)..n /\ Key(Bank[m]) = Key(Bank[j]) /\ m \in 1..Len(Bank) /\ m \in 1..n
    BY <1>1
  <2>4. j \in Same(m)
    BY <2>3 DEF Same
  <2>5. Bank[m].previous \in Same(m) /\ j <= Bank[m].previous
    BY <2>3, <2>4, BankSays
  <2>6. /\ Bank[m].previous \in 1..(m - 1)
        /\ Key(Bank[Bank[m].previous]) = Key(Bank[m])
    BY <2>5 DEF Same
  <2>7. ~(j < Bank[m].previous)
    <3>1. SUFFICES ASSUME j < Bank[m].previous PROVE FALSE
      OBVIOUS
    <3>2. Bank[m].previous \in S
      BY <2>3, <2>6, <3>1
    <3>3. m <= Bank[m].previous
      BY <2>2, <3>2
    <3> QED  BY <2>3, <2>6, <3>3
  <2> QED  BY <2>3, <2>5, <2>6, <2>7
<1>3. ASSUME NEW k \in 1..n, Bank[k].previous \in 1..n
      PROVE  /\ k \in (Bank[k].previous + 1)..n
             /\ Key(Bank[k]) = Key(Bank[Bank[k].previous])
  <2>1. k \in 1..Len(Bank)
    BY <1>1
  <2>2. Same(k) # {}
    BY <1>3, <2>1, BankSays DEF NoEpisode
  <2>3. Bank[k].previous \in Same(k)
    BY <2>1, <2>2, BankSays
  <2> QED  BY <2>3 DEF Same
<1>4. ActiveBefore(Bank, n + 1)
        = {j \in 1..n : \A k \in (j + 1)..n : Key(Bank[k]) # Key(Bank[j])}
  BY <1>1 DEF ActiveBefore
<1>5. ASSUME NEW j \in 1..n
      PROVE  (\A k \in (j + 1)..n : Key(Bank[k]) # Key(Bank[j]))
               <=> j \notin {Bank[k].previous : k \in 1..n}
  <2>1. ASSUME NEW k \in 1..n, j = Bank[k].previous
        PROVE  \E m \in (j + 1)..n : Key(Bank[m]) = Key(Bank[j])
    BY <1>3, <2>1
  <2> QED  BY <1>2, <2>1
<1> QED  BY <1>4, <1>5
-----------------------------------------------------------------------------
(* The measure and the memory.                                               *)
Named(j, name) == j \in DOMAIN named /\ named[j] = name
FiledOK ==
  /\ \A name \in DOMAIN filed :
       /\ name # NoName /\ Named(filed[name], name)
       /\ \A j \in DOMAIN named : named[j] = name => j <= filed[name]
  /\ \A j \in DOMAIN named : named[j] # NoName => named[j] \in DOMAIN filed
TallyOK ==
  /\ tally \in [Outcomes -> Nat]
  /\ tally["right"] + tally["operation"] + tally["none"] + tally["wrong"] = Len(store)
LinkOK ==
  /\ MeasuredOK /\ TallyOK /\ FiledOK
  /\ store \in Seq(Int) /\ named \in Seq(Names \union {NoName})
  /\ Len(named) = Len(store) /\ Len(store) <= Len(Bank)
StoreRight == \A k \in DOMAIN store : store[k] = Bank[k].previous

LEMMA LinkInitOK == LinkInit => LinkOK /\ StoreRight /\ tally["right"] = 0
<1> SUFFICES ASSUME LinkInit PROVE LinkOK /\ StoreRight /\ tally["right"] = 0
  OBVIOUS
<1>1. MeasuredOK /\ Len(Bank) \in Nat
  BY BankSays DEF LinkInit, MeasuredOK
<1>2. store = <<>> /\ named = <<>> /\ filed = <<>>
  BY DEF LinkInit
<1>3. tally \in [Outcomes -> Nat] /\ \A o \in Outcomes : tally[o] = 0
  BY DEF LinkInit
<1>4. TallyOK
  BY <1>2, <1>3 DEF TallyOK, Outcomes
<1>5. FiledOK
  BY <1>2 DEF FiledOK
<1> QED  BY <1>1, <1>2, <1>3, <1>4, <1>5 DEF LinkOK, StoreRight, Outcomes

(* An answer: its scores are integers, and only keys have names.             *)
LEMMA AnswerIs ==
  ASSUME NEW i, NEW answer \in Answers(i)
  PROVE  /\ answer.operation \in {"create", "update"}
         /\ answer.name \in Names \union {NoName}
         /\ measure # "keys" => answer.name = NoName
         /\ \A j \in 1..(i - 1) : answer.score[j] \in Int
<1>1. CASE measure = "keys"
  <2>1. answer.score = [j \in 1..(i - 1) |-> 0]
    BY <1>1 DEF Answers
  <2>2. \A j \in 1..(i - 1) : answer.score[j] = 0
    BY <2>1
  <2> QED  BY <1>1, <2>2 DEF Answers
<1>2. CASE measure # "keys"
  <2>1. answer.score \in [1..(i - 1) -> Scores]
    BY <1>2 DEF Answers
  <2> QED  BY <1>2, <2>1, LinkAssumption DEF Answers
<1> QED  BY <1>1, <1>2

(* What the memory selects is an event it stored, or none.                   *)
LEMMA StoredIs ==
  ASSUME LinkOK, NEW answer \in Answers(ThisEvent)
  PROVE  StoredAs(ThisEvent, answer) \in Int
<1> DEFINE n == Len(store)
<1>1. /\ n \in Nat /\ ThisEvent - 1 = n /\ DOMAIN store = 1..n /\ DOMAIN named = 1..n
      /\ measure \in {"set", "joint", "threshold", "keys"}
  <2>1. measure \in Measures
    BY DEF LinkOK, MeasuredOK, measure
  <2> QED  BY <2>1, LinkAssumption DEF LinkOK, ThisEvent
<1>2. Stored \in SUBSET (1..n) /\ Live \in SUBSET (1..n)
  BY <1>1 DEF Stored, Live
<1>3. \A j \in 1..n : answer.score[j] \in Int
  BY <1>1, AnswerIs
<1>4. \A C \in SUBSET (1..n) : C # {} => Max(C) \in Int /\ Min(C) \in Int
  <2>1. SUFFICES ASSUME NEW C \in SUBSET (1..n), C # {} PROVE Max(C) \in 1..n /\ Min(C) \in 1..n
    OBVIOUS
  <2>2. C \in SUBSET Nat
    OBVIOUS
  <2> QED  BY <1>1, <2>1, <2>2, MaxIs, MinIs
<1>5. \A C \in SUBSET (1..n) :
        TopScored(C, answer.score) \in SUBSET (1..n) /\ (C # {} => TopScored(C, answer.score) # {})
  <2>1. \A C \in SUBSET (1..n) : TopScored(C, answer.score) \in SUBSET (1..n)
    BY DEF TopScored
  <2> QED  BY <1>1, <1>3, <2>1, SomeTop
<1>6. NoEpisode \in Int /\ Unstored \in Int
  BY DEF NoEpisode, Unstored
<1>7. ServerSelects(ThisEvent, answer) \in Int
  BY <1>2, <1>4, <1>5, <1>6 DEF ServerSelects
<1>8. MemorySelects(ThisEvent, answer) \in Int
  <2> DEFINE above == {j \in Stored : answer.score[j] > 0}
             latest(set) == IF set = {} THEN NoEpisode ELSE Max(set)
  <2>1. above \in SUBSET (1..n) /\ above \intersect Live \in SUBSET (1..n)
        /\ {j \in Stored : named[j] = answer.name} \in SUBSET (1..n)
    BY <1>2
  <2>2. \A C \in SUBSET (1..n) : latest(C) \in Int
    BY <1>4, <1>6
  <2>3. /\ latest(above) \in Int
        /\ latest(TopScored(above \intersect Live, answer.score)) \in Int
        /\ latest({j \in Stored : named[j] = answer.name}) \in Int
    BY <1>5, <2>1, <2>2
  <2> QED  BY <1>1, <1>7, <2>3 DEF MemorySelects
<1> QED  BY <1>6, <1>8 DEF StoredAs

(* Of an update read as one, the trainer and the memory find the predecessor *)
(* or both do not, while the memory is right so far and there is no tie.     *)
LEMMA LinksAgree ==
  ASSUME LinkOK, StoreRight, ThisEvent <= Len(Bank), NEW answer \in Answers(ThisEvent),
         Bank[ThisEvent].operation = "update", measure = "keys" => answer.name # NoName,
         measure = "set" =>
           ~(Cardinality(TopScored(ActiveBefore(Bank, ThisEvent), answer.score)) > 1)
  PROVE  LinkOf(ThisEvent, answer) = Bank[ThisEvent].previous
           <=> MemorySelects(ThisEvent, answer) = Bank[ThisEvent].previous
<1> DEFINE n == Len(store)
           i == ThisEvent
           previous == Bank[ThisEvent].previous
           above == {j \in Stored : answer.score[j] > 0}
           latest(set) == IF set = {} THEN NoEpisode ELSE Max(set)
<1>1. /\ n \in Nat /\ i = n + 1 /\ i - 1 = n /\ DOMAIN store = 1..n /\ DOMAIN named = 1..n
      /\ Len(Bank) \in Nat /\ n <= Len(Bank) /\ i \in 1..Len(Bank)
      /\ measure \in {"set", "joint", "threshold", "keys"}
  <2>1. measure \in Measures
    BY DEF LinkOK, MeasuredOK, measure
  <2> QED  BY <2>1, LinkAssumption, BankSays DEF LinkOK, ThisEvent
<1>2. previous \in 1..n /\ previous # NoEpisode
  <2>1. Same(i) # {}
    BY <1>1, BankSays DEF LinkOK
  <2>2. previous \in Same(i)
    BY <1>1, <2>1, BankSays DEF LinkOK
  <2> QED  BY <1>1, <2>2 DEF Same, NoEpisode
<1>3. Stored = 1..n /\ \A k \in 1..n : store[k] = Bank[k].previous
  <2>1. \A k \in 1..n : store[k] = Bank[k].previous
    BY <1>1 DEF StoreRight
  <2>2. ASSUME NEW k \in 1..n PROVE store[k] # Unstored
    <3>1. k \in 1..Len(Bank)
      BY <1>1
    <3>2. Bank[k].previous \in Nat
      BY <3>1, PreviousIs DEF LinkOK
    <3> QED  BY <2>1, <3>2 DEF Unstored
  <2> QED  BY <1>1, <2>1, <2>2 DEF Stored
<1>4. Live = ActiveBefore(Bank, i)
  <2>1. ActiveBefore(Bank, n + 1) = (1..n) \ {Bank[k].previous : k \in 1..n}
    BY <1>1, ActiveIs DEF LinkOK
  <2>2. {store[k] : k \in 1..n} = {Bank[k].previous : k \in 1..n}
    BY <1>3
  <2> QED  BY <1>1, <1>3, <2>1, <2>2 DEF Live
<1>5. previous \in Live /\ Live \in SUBSET (1..n)
  <2>1. i \in 1..Len(Bank)
    BY <1>1
  <2>2. \A k \in (previous + 1)..n : Key(Bank[k]) # Key(Bank[previous])
    <3>1. SUFFICES ASSUME NEW k \in (previous + 1)..n, Key(Bank[k]) = Key(Bank[previous])
                   PROVE  FALSE
      OBVIOUS
    <3>2. previous \in Same(i) /\ \A j \in Same(i) : j <= previous
      BY <1>1, <1>2, BankSays DEF LinkOK
    <3>3. k \in Same(i)
      BY <1>1, <1>2, <3>1, <3>2 DEF Same
    <3> QED  BY <1>1, <1>2, <3>1, <3>2, <3>3
  <2> QED  BY <1>1, <1>2, <1>3, <1>4, <2>2 DEF ActiveBefore, Live
<1>6. \A j \in 1..n : answer.score[j] \in Int
  BY <1>1, AnswerIs
<1>7. \A C \in SUBSET (1..n) :
        TopScored(C, answer.score) \in SUBSET C /\ (C # {} => TopScored(C, answer.score) # {})
  <2>1. \A C \in SUBSET (1..n) : TopScored(C, answer.score) \in SUBSET C
    BY DEF TopScored
  <2> QED  BY <1>1, <1>6, <2>1, SomeTop
<1>8. \A C \in SUBSET (1..n) : C # {} => Max(C) \in C /\ \A y \in C : y <= Max(C)
  BY <1>1, MaxIs
<1>9. CASE measure = "set"
  <2> DEFINE T == TopScored(Live, answer.score)
  <2>1. T # {} /\ T \in SUBSET (1..n) /\ ~(Cardinality(T) > 1)
    BY <1>4, <1>5, <1>7, <1>9
  <2>2. PICK t : T = {t}
    <3>1. IsFiniteSet(T)
      <4>1. IsFiniteSet(1..n)
        BY <1>1, FS_Interval
      <4> QED  BY <2>1, <4>1, FS_Subset
    <3>2. Cardinality(T) \in Nat /\ Cardinality(T) # 0
      BY <2>1, <3>1, FS_CardinalityType, FS_EmptySet
    <3>3. Cardinality(T) = 1
      BY <2>1, <3>2
    <3> QED  BY <3>1, <3>3, FS_Singleton
  <2>3. Max(T) = t /\ Min(T) = t
    <3>1. T \in SUBSET Nat
      BY <2>1
    <3> QED  BY <1>8, <2>1, <2>2, <3>1, MinIs
  <2>4. {j \in ActiveBefore(Bank, i) : measure = "set" \/ answer.score[j] > 0} = Live
    BY <1>4, <1>9
  <2>5. LinkOf(i, answer) = IF answer.exists THEN t ELSE NoEpisode
    BY <1>9, <2>3, <2>4 DEF LinkOf, SelectedPair, AcceptsPredecessor
  <2>6. MemorySelects(i, answer) = IF answer.exists THEN t ELSE NoEpisode
    BY <1>4, <1>5, <1>9, <2>3 DEF MemorySelects, ServerSelects
  <2> QED  BY <2>5, <2>6
<1>10. CASE measure = "joint"
  <2> DEFINE C == above \intersect Live
             T == TopScored(C, answer.score)
  <2>1. C \in SUBSET (1..n) /\ (previous \in C <=> answer.score[previous] > 0)
    BY <1>3, <1>5
  <2>2. {j \in ActiveBefore(Bank, i) : measure = "set" \/ answer.score[j] > 0} = C
    BY <1>3, <1>4, <1>5, <1>10
  <2>3. LinkOf(i, answer) = IF answer.score[previous] > 0 THEN Max(T) ELSE NoEpisode
    BY <1>10, <2>2 DEF LinkOf, SelectedPair, AcceptsPredecessor
  <2>4. MemorySelects(i, answer) = latest(T)
    BY <1>10 DEF MemorySelects
  <2>5. T \in SUBSET C /\ T \in SUBSET (1..n) /\ (C # {} => T # {})
    BY <1>7, <2>1
  <2>6. CASE answer.score[previous] > 0
    BY <2>1, <2>3, <2>4, <2>5, <2>6
  <2>7. CASE ~(answer.score[previous] > 0)
    <3>1. previous \notin T
      BY <2>1, <2>5, <2>7
    <3>2. latest(T) # previous
      BY <1>2, <1>8, <2>5, <3>1
    <3> QED  BY <1>2, <2>3, <2>4, <2>7, <3>2
  <2> QED  BY <2>6, <2>7
<1>11. CASE measure = "threshold"
  <2>1. /\ LinkOf(i, answer) = IF WithinInterval(i, answer) THEN previous ELSE NoEpisode
        /\ MemorySelects(i, answer) = latest(above)
    BY <1>11 DEF LinkOf, MemorySelects
  <2>2. WithinInterval(i, answer)
          <=> answer.score[previous] > 0 /\ \A j \in (previous + 1)..n : ~(answer.score[j] > 0)
    <3>1. \A j \in (previous + 1)..n : answer.score[j] \in Int
      BY <1>1, <1>2, <1>6
    <3>2. answer.score[previous] \in Int
      BY <1>2, <1>6
    <3>3. 0 < answer.score[previous] <=> answer.score[previous] > 0
      BY <3>2
    <3>4. \A j \in (previous + 1)..n : 0 >= answer.score[j] <=> ~(answer.score[j] > 0)
      BY <3>1
    <3> QED  BY <1>1, <3>3, <3>4 DEF WithinInterval
  <2>3. above \in SUBSET (1..n) /\ \A j \in 1..n : j \in above <=> answer.score[j] > 0
    BY <1>3
  <2>4. latest(above) = previous <=> previous \in above /\ \A j \in (previous + 1)..n : j \notin above
    <3>1. ASSUME latest(above) = previous
          PROVE  previous \in above /\ \A j \in (previous + 1)..n : j \notin above
      <4>1. above # {} /\ Max(above) = previous
        BY <1>2, <3>1
      <4>2. previous \in above /\ \A y \in above : y <= previous
        BY <1>8, <2>3, <4>1
      <4> QED  BY <1>2, <4>2
    <3>2. ASSUME previous \in above, \A j \in (previous + 1)..n : j \notin above
          PROVE  latest(above) = previous
      <4>1. Max(above) \in above /\ previous <= Max(above) /\ Max(above) \in 1..n
        BY <1>8, <2>3, <3>2
      <4>2. ~(previous < Max(above))
        <5>1. previous < Max(above) => Max(above) \in (previous + 1)..n
          BY <1>2, <4>1
        <5> QED  BY <3>2, <4>1, <5>1
      <4> QED  BY <1>2, <3>2, <4>1, <4>2
    <3> QED  BY <3>1, <3>2
  <2> QED  BY <1>1, <1>2, <2>1, <2>2, <2>3, <2>4
<1>12. CASE measure = "keys"
  <2> DEFINE N == {j \in Stored : named[j] = answer.name}
  <2>1. /\ LinkOf(i, answer) = FiledUnder(answer.name)
        /\ MemorySelects(i, answer) = latest(N)
    BY <1>12 DEF LinkOf, MemorySelects
  <2>2. N \in SUBSET (1..n) /\ answer.name # NoName
    BY <1>3, <1>12
  <2>3. CASE answer.name \in DOMAIN filed
    <3>1. filed[answer.name] \in N /\ \A j \in N : j <= filed[answer.name]
      BY <1>1, <1>3, <2>3 DEF LinkOK, FiledOK, Named
    <3>2. Max(N) \in N /\ filed[answer.name] <= Max(N)
      BY <1>8, <2>2, <3>1
    <3>3. Max(N) = filed[answer.name]
      BY <2>2, <3>1, <3>2
    <3> QED  BY <2>1, <2>3, <3>1, <3>3 DEF FiledUnder
  <2>4. CASE answer.name \notin DOMAIN filed
    <3>1. N = {}
      BY <1>1, <1>3, <2>2, <2>4 DEF LinkOK, FiledOK
    <3> QED  BY <2>1, <2>4, <3>1 DEF FiledUnder
  <2> QED  BY <2>3, <2>4
<1> QED  BY <1>1, <1>9, <1>10, <1>11, <1>12

(* An event comes out right exactly if it is read right and stored right.    *)
LEMMA OutcomeTells ==
  ASSUME LinkOK, StoreRight, ThisEvent <= Len(Bank), NEW answer \in Answers(ThisEvent),
         measure = "set" =>
           ~(Cardinality(TopScored(ActiveBefore(Bank, ThisEvent), answer.score)) > 1)
  PROVE  Outcome(ThisEvent, answer) = "right"
           <=> /\ Outcome(ThisEvent, answer) # "operation"
               /\ StoredAs(ThisEvent, answer) = Bank[ThisEvent].previous
<1> DEFINE event == Bank[ThisEvent]
<1>1. ThisEvent \in 1..Len(Bank)
  BY BankSays DEF LinkOK, ThisEvent
<1>2. /\ event.previous \in Nat /\ event.operation \in {"create", "update"}
      /\ event.operation = "create" <=> event.previous = NoEpisode
  <2>1. event.operation = "create" => event.previous = NoEpisode
    BY <1>1, BankSays DEF LinkOK
  <2>2. event.operation = "update" => event.previous # NoEpisode
    <3>1. event.operation = "update" => event.previous \in Same(ThisEvent)
      BY <1>1, BankSays DEF LinkOK
    <3> QED  BY <3>1 DEF Same, NoEpisode
  <2> QED  BY <1>1, <2>1, <2>2, PreviousIs DEF LinkOK
<1>3. CASE measure = "keys" /\ answer.name = NoName
  <2>1. Outcome(ThisEvent, answer) = "none"
    BY <1>3 DEF Outcome
  <2>2. StoredAs(ThisEvent, answer) = -1
    BY <1>3 DEF StoredAs, Unstored
  <2> QED  BY <1>2, <2>1, <2>2
<1>4. CASE ~(measure = "keys" /\ answer.name = NoName) /\ answer.operation # event.operation
  BY <1>4 DEF Outcome
<1>5. CASE /\ ~(measure = "keys" /\ answer.name = NoName)
           /\ answer.operation = event.operation /\ event.operation = "create"
  BY <1>2, <1>5 DEF Outcome, StoredAs
<1>6. CASE /\ ~(measure = "keys" /\ answer.name = NoName)
           /\ answer.operation = event.operation /\ event.operation = "update"
  <2>1. /\ Outcome(ThisEvent, answer) = LinkOutcome(LinkOf(ThisEvent, answer), event.previous)
        /\ StoredAs(ThisEvent, answer) = MemorySelects(ThisEvent, answer)
    BY <1>6 DEF Outcome, StoredAs
  <2>2. LinkOf(ThisEvent, answer) = event.previous
          <=> MemorySelects(ThisEvent, answer) = event.previous
    BY <1>6, LinksAgree
  <2> QED  BY <1>2, <1>6, <2>1, <2>2 DEF LinkOutcome
<1> QED  BY <1>2, <1>3, <1>4, <1>5, <1>6

LEMMA LinkStep ==
  ASSUME LinkOK, MeasureTellsMemory, LinkNext
  PROVE  LinkOK' /\ MeasureTellsMemory'
<1> DEFINE n == Len(store)
<1>1. /\ MeasuredOK /\ n \in Nat /\ ThisEvent = n + 1 /\ ThisEvent <= Len(Bank)
      /\ Len(Bank) \in Nat /\ DOMAIN store = 1..n /\ DOMAIN named = 1..n
      /\ measured' = measured
  BY BankSays DEF LinkOK, LinkNext, ReadEvent, ThisEvent
<1> PICK answer \in Answers(ThisEvent) :
       /\ tally' = [tally EXCEPT ![Outcome(ThisEvent, answer)] = @ + 1]
       /\ filed' = Filing(answer.name)
       /\ store' = Append(store, StoredAs(ThisEvent, answer))
       /\ named' = Append(named, answer.name)
       /\ tied' = (tied \/ Cardinality(TopScored(ActiveBefore(Bank, ThisEvent), answer.score)) > 1)
  BY DEF LinkNext, ReadEvent
<1> PICK o : o = Outcome(ThisEvent, answer)
  OBVIOUS
<1>2. MeasuredOK' /\ Bank' = Bank /\ measure' = measure
  BY <1>1 DEF MeasuredOK, Bank, measure
<1>3. /\ store' \in Seq(Int) /\ Len(store') = n + 1 /\ DOMAIN store' = 1..(n + 1)
      /\ store'[n + 1] = StoredAs(ThisEvent, answer) /\ \A k \in 1..n : store'[k] = store[k]
  <2>1. store \in Seq(Int) /\ StoredAs(ThisEvent, answer) \in Int
    BY StoredIs DEF LinkOK
  <2> QED  BY <2>1
<1>4. /\ named' \in Seq(Names \union {NoName}) /\ Len(named') = n + 1
      /\ DOMAIN named' = 1..(n + 1)
      /\ named'[n + 1] = answer.name /\ \A k \in 1..n : named'[k] = named[k]
  <2>1. named \in Seq(Names \union {NoName}) /\ answer.name \in Names \union {NoName}
        /\ Len(named) = n
    BY AnswerIs DEF LinkOK
  <2> QED  BY <2>1
<1>5. FiledOK'
  <2>1. CASE answer.name = NoName
    <3>1. DOMAIN filed' = DOMAIN filed /\ \A x \in DOMAIN filed : filed'[x] = filed[x]
      <4>1. NoName \notin DOMAIN filed
        BY DEF LinkOK, FiledOK, Named
      <4> QED  BY <2>1, <4>1 DEF Filing
    <3> QED  BY <1>1, <1>4, <2>1, <3>1 DEF FiledOK, Named, LinkOK
  <2>2. CASE answer.name # NoName
    <3>1. /\ DOMAIN filed' = DOMAIN filed \union {answer.name}
          /\ filed'[answer.name] = n + 1
          /\ \A x \in DOMAIN filed : x # answer.name => filed'[x] = filed[x]
      BY <1>1, <2>2 DEF Filing
    <3>2. ASSUME NEW name \in DOMAIN filed'
          PROVE  /\ name # NoName /\ filed'[name] \in DOMAIN named' /\ named'[filed'[name]] = name
                 /\ \A j \in DOMAIN named' : named'[j] = name => j <= filed'[name]
      <4>1. CASE name = answer.name
        BY <1>1, <1>4, <2>2, <3>1, <4>1
      <4>2. CASE name # answer.name
        <5>1. /\ name \in DOMAIN filed /\ filed'[name] = filed[name]
              /\ filed[name] \in 1..n /\ named[filed[name]] = name /\ name # NoName
              /\ \A j \in 1..n : named[j] = name => j <= filed[name]
          BY <1>1, <3>1, <3>2, <4>2 DEF LinkOK, FiledOK, Named
        <5>2. \A j \in 1..(n + 1) : named'[j] = name => j \in 1..n
          BY <1>1, <1>4, <4>2
        <5> QED  BY <1>1, <1>4, <5>1, <5>2
      <4> QED  BY <4>1, <4>2
    <3>3. ASSUME NEW j \in DOMAIN named', named'[j] # NoName PROVE named'[j] \in DOMAIN filed'
      <4>1. CASE j = n + 1
        BY <1>4, <3>1, <4>1
      <4>2. CASE j \in 1..n
        <5>1. named[j] \in DOMAIN filed
          BY <1>1, <1>4, <3>3, <4>2 DEF LinkOK, FiledOK
        <5> QED  BY <1>4, <3>1, <4>2, <5>1
      <4> QED  BY <1>1, <1>4, <3>3, <4>1, <4>2
    <3> QED  BY <3>2, <3>3 DEF FiledOK, Named
  <2> QED  BY <2>1, <2>2
<1>6. /\ tally \in [Outcomes -> Nat]
      /\ tally["right"] + tally["operation"] + tally["none"] + tally["wrong"] = n
  BY DEF LinkOK, TallyOK
<1>7. o \in Outcomes
  BY DEF Outcome, LinkOutcome, Outcomes
<1>8. tally' \in [Outcomes -> Nat] /\ tally'[o] = tally[o] + 1
      /\ \A x \in Outcomes : x # o => tally'[x] = tally[x]
  <2>1. tally[o] + 1 \in Nat
    BY <1>6, <1>7
  <2> QED  BY <1>6, <1>7, <2>1
<1>9. tally'["right"] + tally'["operation"] + tally'["none"] + tally'["wrong"] = n + 1
  <2>1. /\ tally["right"] \in Nat /\ tally["operation"] \in Nat
        /\ tally["none"] \in Nat /\ tally["wrong"] \in Nat
    BY <1>6 DEF Outcomes
  <2> QED  BY <1>1, <1>6, <1>7, <1>8, <2>1 DEF Outcomes
<1>10. LinkOK'
  BY <1>1, <1>2, <1>3, <1>4, <1>5, <1>8, <1>9 DEF LinkOK, TallyOK
<1>11. MeasureTellsMemory'
  <2>1. SUFFICES ASSUME measure = "set" => ~tied'
                 PROVE  tally'["right"] = n + 1 <=> tally'["operation"] = 0 /\ StoreRight'
    BY <1>2, <1>3 DEF MeasureTellsMemory, StoreRight
  <2>2. /\ measure = "set" => ~tied
        /\ measure = "set" =>
             ~(Cardinality(TopScored(ActiveBefore(Bank, ThisEvent), answer.score)) > 1)
    BY <2>1
  <2>3. tally["right"] = n <=> tally["operation"] = 0 /\ StoreRight
    BY <2>2 DEF MeasureTellsMemory, StoreRight
  <2>4. /\ StoreRight' <=> StoreRight /\ StoredAs(ThisEvent, answer) = Bank[ThisEvent].previous
    <3>1. StoreRight' <=> \A k \in 1..(n + 1) : store'[k] = Bank[k].previous
      BY <1>2, <1>3 DEF StoreRight
    <3>2. StoreRight <=> \A k \in 1..n : store[k] = Bank[k].previous
      BY <1>1 DEF StoreRight
    <3>3. \A k \in 1..(n + 1) : k \in 1..n \/ k = n + 1
      BY <1>1
    <3>4. \A k \in 1..n : k \in 1..(n + 1)
      BY <1>1
    <3>5. n + 1 \in 1..(n + 1)
      BY <1>1
    <3> QED  BY <1>1, <1>3, <3>1, <3>2, <3>3, <3>4, <3>5
  <2>5. /\ tally["right"] \in Nat /\ tally["operation"] \in Nat
        /\ tally["none"] \in Nat /\ tally["wrong"] \in Nat
        /\ "right" \in Outcomes /\ "operation" \in Outcomes
    BY <1>6 DEF Outcomes
  <2>6. CASE tally["right"] = n
    <3>1. o = "right" <=> o # "operation" /\ StoredAs(ThisEvent, answer) = Bank[ThisEvent].previous
      BY <1>1, <2>2, <2>3, <2>6, OutcomeTells
    <3>2. CASE o = "right"
      BY <1>8, <2>3, <2>4, <2>5, <2>6, <3>1, <3>2
    <3>3. CASE o = "operation"
      BY <1>1, <1>8, <2>3, <2>5, <2>6, <3>3
    <3>4. CASE o # "right" /\ o # "operation"
      <4>1. tally'["right"] = n /\ ~StoreRight'
        BY <1>8, <2>4, <2>5, <2>6, <3>1, <3>4
      <4> QED  BY <1>1, <4>1
    <3> QED  BY <3>2, <3>3, <3>4
  <2>7. CASE tally["right"] # n
    <3>1. tally["right"] < n
      BY <1>1, <1>6, <2>5, <2>7
    <3>2. tally'["right"] <= tally["right"] + 1 /\ tally'["right"] \in Nat
      <4>1. tally'["right"] \in {tally["right"], tally["right"] + 1}
        BY <1>8, <2>5
      <4> QED  BY <2>5, <4>1
    <3>3. tally'["right"] # n + 1
      BY <1>1, <2>5, <3>1, <3>2
    <3>4. tally'["operation"] = 0 => tally["operation"] = 0
      BY <1>8, <2>5
    <3> QED  BY <2>3, <2>4, <2>7, <3>3, <3>4
  <2> QED  BY <2>6, <2>7
<1> QED  BY <1>10, <1>11

LEMMA LinkAlways == DataSpec => [](LinkOK /\ MeasureTellsMemory)
<1>1. DataInit => LinkOK /\ MeasureTellsMemory
  BY LinkInitOK DEF DataInit, MeasureTellsMemory, LinkOK, TallyOK, StoreRight, LinkInit, Outcomes
<1>2. LinkOK /\ MeasureTellsMemory /\ [DataNext]_dataVars => (LinkOK /\ MeasureTellsMemory)'
  <2> SUFFICES ASSUME LinkOK, MeasureTellsMemory, [DataNext]_dataVars
               PROVE  (LinkOK /\ MeasureTellsMemory)'
    OBVIOUS
  <2>1. CASE Measuring
    BY <2>1, LinkStep DEF Measuring
  <2>2. CASE UNCHANGED linkVars
    BY <2>2 DEF linkVars, LinkOK, MeasureTellsMemory, MeasuredOK, TallyOK, FiledOK, Named, Bank, measure
  <2>3. Measuring \/ UNCHANGED linkVars
    BY DEF DataNext, Generating, dataVars
  <2> QED  BY <2>1, <2>2, <2>3
<1> QED  BY <1>1, <1>2, PTL DEF DataSpec

(* A measure tells the memory: all events of a world are counted as right    *)
(* exactly if every operation was read right and the memory that went by the *)
(* same answers holds the predecessors of the bank, for every measure, any   *)
(* scores and any banks, ties of the set measure left out.                   *)
THEOREM MeasureAlwaysTells == DataSpec => []MeasureTellsMemory
  BY LinkAlways, PTL
-----------------------------------------------------------------------------
(* The corpora.                                                              *)

(* What the rest of a generator's files can be: it writes them in order.     *)
Rests(c) ==
  CASE c.kind = "repeated" ->
         {<<"train", "dev", "test">>, <<"dev", "test">>, <<"test">>, <<>>}
    [] c.kind \in {"protocol", "pilot"} ->
         {<<"train", "dev", "manifest">>, <<"dev", "manifest">>, <<"manifest">>, <<>>}
    [] OTHER ->
         {<<"train", "dev", "test", "manifest">>, <<"dev", "test", "manifest">>,
          <<"test", "manifest">>, <<"manifest">>, <<>>}
Shaped ==
  /\ process = [stage |-> process.stage, salt |-> process.salt,
                rows |-> process.rows, files |-> process.files]
  /\ DOMAIN written = CorpusFiles
(* A generator that is past its first file found nothing there, and has      *)
(* written what it is past of.                                               *)
Halfway(files, salt) ==
  \A f \in ToSet(FilesOf(corpus, FALSE)) :
    written[f] = IF f \in ToSet(files) THEN Unwritten ELSE Content(corpus, salt)
WritingOK ==
  process.stage = "write" =>
    /\ process.files \in Rests(corpus)
    /\ (corpus.kind # "repeated" /\ "train" \notin ToSet(process.files)) =>
         Halfway(process.files, process.salt)
FrozenOK ==
  IF corpus.kind = "repeated" THEN written["manifest"] = Unwritten
  ELSE written["manifest"] \notin {Unwritten, Torn} =>
         \A f \in ToSet(FilesOf(corpus, FALSE)) : written[f] = written["manifest"]
CorpusOK == Shaped /\ (corpus.kind # "natural" => WritingOK /\ FrozenOK)

(* The members of the short lists the files of a corpus are.                 *)
LEMMA ShortLists ==
  /\ ToSet(<<>>) = {}
  /\ \A a : ToSet(<<a>>) = {a}
  /\ \A a, b : ToSet(<<a, b>>) = {a, b}
  /\ \A a, b, c : ToSet(<<a, b, c>>) = {a, b, c}
  /\ \A a, b, c, d : ToSet(<<a, b, c, d>>) = {a, b, c, d}
<1>1. ToSet(<<>>) = {}
  BY DEF ToSet
<1>2. ASSUME NEW a PROVE ToSet(<<a>>) = {a}
  <2>1. DOMAIN <<a>> = 1..1
    OBVIOUS
  <2>2. DOMAIN <<a>> = {1}
    BY <2>1
  <2>3. ToSet(<<a>>) = {<<a>>[1]}
    BY <2>2 DEF ToSet
  <2> QED  BY <2>3
<1>3. ASSUME NEW a, NEW b PROVE ToSet(<<a, b>>) = {a, b}
  <2>1. DOMAIN <<a, b>> = 1..2
    OBVIOUS
  <2>2. DOMAIN <<a, b>> = {1, 2}
    BY <2>1
  <2>3. ToSet(<<a, b>>) = {<<a, b>>[1], <<a, b>>[2]}
    BY <2>2 DEF ToSet
  <2> QED  BY <2>3
<1>4. ASSUME NEW a, NEW b, NEW c PROVE ToSet(<<a, b, c>>) = {a, b, c}
  <2>1. DOMAIN <<a, b, c>> = 1..3
    OBVIOUS
  <2>2. DOMAIN <<a, b, c>> = {1, 2, 3}
    BY <2>1
  <2>3. ToSet(<<a, b, c>>) = {<<a, b, c>>[1], <<a, b, c>>[2], <<a, b, c>>[3]}
    BY <2>2 DEF ToSet
  <2> QED  BY <2>3
<1>5. ASSUME NEW a, NEW b, NEW c, NEW d PROVE ToSet(<<a, b, c, d>>) = {a, b, c, d}
  <2>1. DOMAIN <<a, b, c, d>> = 1..4
    OBVIOUS
  <2>2. DOMAIN <<a, b, c, d>> = {1, 2, 3, 4}
    BY <2>1
  <2>3. ToSet(<<a, b, c, d>>) = {<<a, b, c, d>>[i] : i \in {1, 2, 3, 4}}
    BY <2>2 DEF ToSet
  <2>4. /\ <<a, b, c, d>>[1] = a /\ <<a, b, c, d>>[2] = b
        /\ <<a, b, c, d>>[3] = c /\ <<a, b, c, d>>[4] = d
    OBVIOUS
  <2> QED  BY <2>3, <2>4
<1> QED  BY <1>1, <1>2, <1>3, <1>4, <1>5

LEMMA LongerList ==
  ASSUME NEW a, NEW b, NEW c, NEW d
  PROVE  Append(<<a, b>>, c) = <<a, b, c>> /\ Append(<<a, b, c>>, d) = <<a, b, c, d>>
<1>1. Append(<<a, b>>, c) = <<a, b, c>>
  <2>1. <<a, b>> \in Seq({a, b, c}) /\ Len(<<a, b>>) = 2 /\ <<a, b>>[1] = a /\ <<a, b>>[2] = b
    OBVIOUS
  <2>2. /\ Append(<<a, b>>, c) \in Seq({a, b, c}) /\ Len(Append(<<a, b>>, c)) = 3
        /\ \A i \in 1..3 : Append(<<a, b>>, c)[i] = IF i = 3 THEN c ELSE <<a, b>>[i]
    BY <2>1
  <2>3. /\ <<a, b, c>> \in Seq({a, b, c}) /\ Len(<<a, b, c>>) = 3
        /\ <<a, b, c>>[1] = a /\ <<a, b, c>>[2] = b /\ <<a, b, c>>[3] = c
    OBVIOUS
  <2>4. \A i \in 1..3 : i = 1 \/ i = 2 \/ i = 3
    OBVIOUS
  <2>5. \A i \in 1..3 : Append(<<a, b>>, c)[i] = <<a, b, c>>[i]
    BY <2>1, <2>2, <2>3, <2>4
  <2> QED  BY <2>2, <2>3, <2>5, SeqEqual
<1>2. Append(<<a, b, c>>, d) = <<a, b, c, d>>
  <2>1. /\ <<a, b, c>> \in Seq({a, b, c, d}) /\ Len(<<a, b, c>>) = 3
        /\ <<a, b, c>>[1] = a /\ <<a, b, c>>[2] = b /\ <<a, b, c>>[3] = c
    OBVIOUS
  <2>2. /\ Append(<<a, b, c>>, d) \in Seq({a, b, c, d}) /\ Len(Append(<<a, b, c>>, d)) = 4
        /\ \A i \in 1..4 : Append(<<a, b, c>>, d)[i] = IF i = 4 THEN d ELSE <<a, b, c>>[i]
    BY <2>1
  <2>3. /\ <<a, b, c, d>> \in Seq({a, b, c, d}) /\ Len(<<a, b, c, d>>) = 4
        /\ <<a, b, c, d>>[1] = a /\ <<a, b, c, d>>[2] = b
        /\ <<a, b, c, d>>[3] = c /\ <<a, b, c, d>>[4] = d
    OBVIOUS
  <2>4. \A i \in 1..4 : i = 1 \/ i = 2 \/ i = 3 \/ i = 4
    OBVIOUS
  <2>5. \A i \in 1..4 : Append(<<a, b, c>>, d)[i] = <<a, b, c, d>>[i]
    BY <2>1, <2>2, <2>3, <2>4
  <2> QED  BY <2>2, <2>3, <2>5, SeqEqual
<1> QED  BY <1>1, <1>2

(* What a generator has to write, file by file.                              *)
LEMMA FilesAre ==
  ASSUME NEW c
  PROVE  /\ c.kind = "repeated" => FilesOf(c, FALSE) = <<"train", "dev", "test">>
         /\ c.kind \in {"protocol", "pilot"} => FilesOf(c, FALSE) = <<"train", "dev", "manifest">>
         /\ c.kind \notin {"repeated", "protocol", "pilot"} =>
              FilesOf(c, FALSE) = <<"train", "dev", "test", "manifest">>
         /\ FilesOf(c, FALSE) \in Rests(c)
<1>1. CASE c.kind = "repeated"
  BY <1>1 DEF FilesOf, Splits, Rests
<1>2. CASE c.kind \in {"protocol", "pilot"}
  <2>1. FilesOf(c, FALSE) = Append(<<"train", "dev">>, "manifest")
    BY <1>2 DEF FilesOf, Splits
  <2>2. Append(<<"train", "dev">>, "manifest") = <<"train", "dev", "manifest">>
    BY LongerList
  <2>3. FilesOf(c, FALSE) = <<"train", "dev", "manifest">>
    BY <2>1, <2>2
  <2> QED  BY <1>2, <2>3 DEF Rests
<1>3. CASE c.kind \notin {"repeated", "protocol", "pilot"}
  <2>1. FilesOf(c, FALSE) = Append(<<"train", "dev", "test">>, "manifest")
    BY <1>3 DEF FilesOf, Splits
  <2>2. Append(<<"train", "dev", "test">>, "manifest") = <<"train", "dev", "test", "manifest">>
    BY LongerList
  <2>3. FilesOf(c, FALSE) = <<"train", "dev", "test", "manifest">>
    BY <2>1, <2>2
  <2> QED  BY <1>3, <2>3 DEF Rests
<1> QED  BY <1>1, <1>2, <1>3

(* What a generator writes is neither nothing nor half a file.               *)
LEMMA ContentIsWhole == \A c, salt : Content(c, salt) \notin {Unwritten, Torn}
  BY DEF Content, Unwritten, Torn

(* The next file and the rest after it, of each corpus but the repeated one. *)
LEMMA RestsAre ==
  ASSUME NEW c, c.kind # "repeated", NEW files \in Rests(c), files # <<>>
  PROVE  /\ Tail(files) \in Rests(c)
         /\ Head(files) \in ToSet(files)
         /\ ToSet(Tail(files)) = ToSet(files) \ {Head(files)}
         /\ "train" \in ToSet(files) => Head(files) = "train" /\ ToSet(files) = ToSet(FilesOf(c, FALSE))
         /\ "train" \notin ToSet(Tail(files))
         /\ Head(files) = "manifest" => ToSet(files) = {"manifest"}
         /\ ToSet(files) \subseteq ToSet(FilesOf(c, FALSE))
         /\ ToSet(FilesOf(c, FALSE)) \subseteq CorpusFiles
         /\ "manifest" \in ToSet(files)
<1>1. CASE c.kind \in {"protocol", "pilot"}
  <2>1. FilesOf(c, FALSE) = <<"train", "dev", "manifest">>
        /\ ToSet(<<"train", "dev", "manifest">>) = {"train", "dev", "manifest"}
    <3>1. FilesOf(c, FALSE) = <<"train", "dev", "manifest">>
      BY <1>1, FilesAre
    <3>2. ToSet(<<"train", "dev", "manifest">>) = {"train", "dev", "manifest"}
      BY ShortLists
    <3> QED  BY <3>1, <3>2
  <2>2. \/ files = <<"train", "dev", "manifest">>
        \/ files = <<"dev", "manifest">>
        \/ files = <<"manifest">>
    BY <1>1 DEF Rests
  <2>3. CASE files = <<"train", "dev", "manifest">>
    <3>1. Head(files) = "train" /\ Tail(files) = <<"dev", "manifest">>
      BY <2>3
    <3>2. ToSet(files) = {"train", "dev", "manifest"} /\ ToSet(Tail(files)) = {"dev", "manifest"}
      <4>1. ToSet(<<"train", "dev", "manifest">>) = {"train", "dev", "manifest"}
        BY ShortLists
      <4>2. ToSet(<<"dev", "manifest">>) = {"dev", "manifest"}
        BY ShortLists
      <4> QED  BY <2>3, <3>1, <4>1, <4>2
    <3>3. Tail(files) \in Rests(c)
      BY <1>1, <3>1 DEF Rests
    <3> QED  BY <2>1, <3>1, <3>2, <3>3 DEF CorpusFiles
  <2>4. CASE files = <<"dev", "manifest">>
    <3>1. Head(files) = "dev" /\ Tail(files) = <<"manifest">>
      BY <2>4
    <3>2. ToSet(files) = {"dev", "manifest"} /\ ToSet(Tail(files)) = {"manifest"}
      <4>1. ToSet(<<"dev", "manifest">>) = {"dev", "manifest"}
        BY ShortLists
      <4>2. ToSet(<<"manifest">>) = {"manifest"}
        BY ShortLists
      <4> QED  BY <2>4, <3>1, <4>1, <4>2
    <3>3. Tail(files) \in Rests(c)
      BY <1>1, <3>1 DEF Rests
    <3> QED  BY <2>1, <3>1, <3>2, <3>3 DEF CorpusFiles
  <2>5. CASE files = <<"manifest">>
    <3>1. Head(files) = "manifest" /\ Tail(files) = <<>>
      BY <2>5
    <3>2. ToSet(files) = {"manifest"} /\ ToSet(Tail(files)) = {}
      <4>1. ToSet(<<"manifest">>) = {"manifest"}
        BY ShortLists
      <4>2. ToSet(<<>>) = {}
        BY ShortLists
      <4> QED  BY <2>5, <3>1, <4>1, <4>2
    <3>3. Tail(files) \in Rests(c)
      BY <1>1, <3>1 DEF Rests
    <3> QED  BY <2>1, <3>1, <3>2, <3>3 DEF CorpusFiles
  <2> QED  BY <2>2, <2>3, <2>4, <2>5
<1>2. CASE c.kind \notin {"protocol", "pilot"}
  <2>1. FilesOf(c, FALSE) = <<"train", "dev", "test", "manifest">>
        /\ ToSet(<<"train", "dev", "test", "manifest">>) = {"train", "dev", "test", "manifest"}
    <3>1. FilesOf(c, FALSE) = <<"train", "dev", "test", "manifest">>
      BY <1>2, FilesAre
    <3>2. ToSet(<<"train", "dev", "test", "manifest">>) = {"train", "dev", "test", "manifest"}
      BY ShortLists
    <3> QED  BY <3>1, <3>2
  <2>2. \/ files = <<"train", "dev", "test", "manifest">>
        \/ files = <<"dev", "test", "manifest">>
        \/ files = <<"test", "manifest">>
        \/ files = <<"manifest">>
    BY <1>2 DEF Rests
  <2>3. CASE files = <<"train", "dev", "test", "manifest">>
    <3>1. Head(files) = "train" /\ Tail(files) = <<"dev", "test", "manifest">>
      BY <2>3
    <3>2. ToSet(files) = {"train", "dev", "test", "manifest"} /\ ToSet(Tail(files)) = {"dev", "test", "manifest"}
      <4>1. ToSet(<<"train", "dev", "test", "manifest">>) = {"train", "dev", "test", "manifest"}
        BY ShortLists
      <4>2. ToSet(<<"dev", "test", "manifest">>) = {"dev", "test", "manifest"}
        BY ShortLists
      <4> QED  BY <2>3, <3>1, <4>1, <4>2
    <3>3. Tail(files) \in Rests(c)
      BY <1>2, <3>1 DEF Rests
    <3> QED  BY <2>1, <3>1, <3>2, <3>3 DEF CorpusFiles
  <2>4. CASE files = <<"dev", "test", "manifest">>
    <3>1. Head(files) = "dev" /\ Tail(files) = <<"test", "manifest">>
      BY <2>4
    <3>2. ToSet(files) = {"dev", "test", "manifest"} /\ ToSet(Tail(files)) = {"test", "manifest"}
      <4>1. ToSet(<<"dev", "test", "manifest">>) = {"dev", "test", "manifest"}
        BY ShortLists
      <4>2. ToSet(<<"test", "manifest">>) = {"test", "manifest"}
        BY ShortLists
      <4> QED  BY <2>4, <3>1, <4>1, <4>2
    <3>3. Tail(files) \in Rests(c)
      BY <1>2, <3>1 DEF Rests
    <3> QED  BY <2>1, <3>1, <3>2, <3>3 DEF CorpusFiles
  <2>5. CASE files = <<"test", "manifest">>
    <3>1. Head(files) = "test" /\ Tail(files) = <<"manifest">>
      BY <2>5
    <3>2. ToSet(files) = {"test", "manifest"} /\ ToSet(Tail(files)) = {"manifest"}
      <4>1. ToSet(<<"test", "manifest">>) = {"test", "manifest"}
        BY ShortLists
      <4>2. ToSet(<<"manifest">>) = {"manifest"}
        BY ShortLists
      <4> QED  BY <2>5, <3>1, <4>1, <4>2
    <3>3. Tail(files) \in Rests(c)
      BY <1>2, <3>1 DEF Rests
    <3> QED  BY <2>1, <3>1, <3>2, <3>3 DEF CorpusFiles
  <2>6. CASE files = <<"manifest">>
    <3>1. Head(files) = "manifest" /\ Tail(files) = <<>>
      BY <2>6
    <3>2. ToSet(files) = {"manifest"} /\ ToSet(Tail(files)) = {}
      <4>1. ToSet(<<"manifest">>) = {"manifest"}
        BY ShortLists
      <4>2. ToSet(<<>>) = {}
        BY ShortLists
      <4> QED  BY <2>6, <3>1, <4>1, <4>2
    <3>3. Tail(files) \in Rests(c)
      BY <1>2, <3>1 DEF Rests
    <3> QED  BY <2>1, <3>1, <3>2, <3>3 DEF CorpusFiles
  <2> QED  BY <2>2, <2>3, <2>4, <2>5, <2>6
<1> QED  BY <1>1, <1>2

(* A generator that ends, or that only looks, changes nothing here.          *)
LEMMA NothingWritten ==
  ASSUME CorpusOK, UNCHANGED <<corpus, written>>,
         process' = NoProcess \/ process' = [process EXCEPT !.rows = RowsOf(corpus)]
  PROVE  CorpusOK'
<1>1. Shaped'
  BY DEF CorpusOK, Shaped, NoProcess
<1>2. process'.stage = "write" =>
        /\ process.stage = "write" /\ process'.files = process.files /\ process'.salt = process.salt
  BY DEF CorpusOK, Shaped, NoProcess
<1>3. ASSUME corpus.kind # "natural" PROVE WritingOK' /\ FrozenOK'
  <2>1. WritingOK'
    BY <1>2, <1>3 DEF CorpusOK, WritingOK, Halfway
  <2>2. FrozenOK'
    BY <1>3 DEF CorpusOK, FrozenOK
  <2> QED  BY <2>1, <2>2
<1> QED  BY <1>1, <1>3 DEF CorpusOK

LEMMA CorpusStep ==
  ASSUME CorpusOK, CurriculaNext
  PROVE  CorpusOK'
<1>1. ASSUME NEW salt \in Salts, Start(salt) PROVE CorpusOK'
  <2> PICK testOnly \in (IF corpus.kind = "natural" THEN BOOLEAN ELSE {FALSE}),
           verify \in (IF corpus.kind \in Verifiable THEN BOOLEAN ELSE {FALSE}) :
        process' = [stage |-> IF verify THEN "verify" ELSE "write", rows |-> <<>>,
                    salt |-> IF corpus.kind = "dialogue" THEN salt ELSE 0,
                    files |-> FilesOf(corpus, testOnly)]
    BY <1>1 DEF Start
  <2>1. Shaped' /\ corpus' = corpus /\ written' = written
    BY <1>1 DEF Start, Shaped, CorpusOK
  <2>2. ASSUME corpus.kind # "natural" PROVE WritingOK' /\ FrozenOK'
    <3>1. process'.files = FilesOf(corpus, FALSE)
      BY <2>2
    <3>2. corpus.kind # "repeated" => "train" \in ToSet(FilesOf(corpus, FALSE))
      <4>1. CASE corpus.kind \in {"protocol", "pilot"}
        <5>1. ToSet(<<"train", "dev", "manifest">>) = {"train", "dev", "manifest"}
          BY ShortLists
        <5> QED  BY <4>1, <5>1, FilesAre
      <4>2. CASE corpus.kind \notin {"repeated", "protocol", "pilot"}
        <5>1. ToSet(<<"train", "dev", "test", "manifest">>) = {"train", "dev", "test", "manifest"}
          BY ShortLists
        <5> QED  BY <4>2, <5>1, FilesAre
      <4> QED  BY <4>1, <4>2
    <3>3. WritingOK'
      BY <2>1, <3>1, <3>2, FilesAre DEF WritingOK
    <3>4. FrozenOK'
      BY <2>1, <2>2 DEF CorpusOK, FrozenOK
    <3> QED  BY <3>3, <3>4
  <2> QED  BY <2>1, <2>2 DEF CorpusOK
<1>2. CASE Build
  BY <1>2, NothingWritten DEF Build
<1>3. CASE Verify
  BY <1>3, NothingWritten DEF Verify
<1>4. CASE Write /\ process' = NoProcess /\ UNCHANGED written
  BY <1>4, NothingWritten DEF Write
<1>5. ASSUME process.stage = "write", process.files # <<>>, Fresh(Head(process.files)),
             corpus' = corpus, NEW text,
             written' = [written EXCEPT ![Head(process.files)] = text],
             \/ process' = NoProcess /\ text = Torn
             \/ process' = [process EXCEPT !.files = Tail(@)] /\ text = Content(corpus, process.salt)
      PROVE  CorpusOK'
  <2> DEFINE files == process.files
  <2> DEFINE salt == process.salt
  <2>1. Shaped'
    BY <1>5 DEF CorpusOK, Shaped, NoProcess
  <2>2. process'.stage = "write" =>
          process'.files = Tail(files) /\ process'.salt = salt /\ text = Content(corpus, salt)
    BY <1>5 DEF CorpusOK, Shaped, NoProcess
  <2>3. \A f : f \in CorpusFiles => written'[f] = IF f = Head(files) THEN text ELSE written[f]
    BY <1>5 DEF CorpusOK, Shaped
  <2>4. CASE corpus.kind = "repeated"
    <3>1. /\ files \in {<<"train", "dev", "test">>, <<"dev", "test">>, <<"test">>, <<>>}
          /\ FrozenOK
      BY <1>5, <2>4 DEF CorpusOK, WritingOK, Rests
    <3>2. /\ Tail(files) \in {<<"train", "dev", "test">>, <<"dev", "test">>, <<"test">>, <<>>}
          /\ Head(files) \in {"train", "dev", "test"}
      <4>1. CASE files = <<"train", "dev", "test">>
        BY <4>1
      <4>2. CASE files = <<"dev", "test">>
        BY <4>2
      <4>3. CASE files = <<"test">>
        BY <4>3
      <4> QED  BY <1>5, <3>1, <4>1, <4>2, <4>3
    <3>3. WritingOK'
      BY <1>5, <2>2, <2>4, <3>2 DEF WritingOK, Rests
    <3>4. FrozenOK'
      BY <1>5, <2>3, <2>4, <3>1, <3>2 DEF FrozenOK, CorpusFiles
    <3> QED  BY <1>5, <2>1, <3>3, <3>4 DEF CorpusOK
  <2>5. CASE corpus.kind \notin {"repeated", "natural"}
    <3> DEFINE all == ToSet(FilesOf(corpus, FALSE))
    <3>1. files \in Rests(corpus) /\ FrozenOK
          /\ ("train" \notin ToSet(files) => Halfway(files, salt))
      BY <1>5, <2>5 DEF CorpusOK, WritingOK
    <3>2. /\ Tail(files) \in Rests(corpus)
          /\ Head(files) \in ToSet(files)
          /\ ToSet(Tail(files)) = ToSet(files) \ {Head(files)}
          /\ "train" \in ToSet(files) => Head(files) = "train" /\ ToSet(files) = all
          /\ "train" \notin ToSet(Tail(files))
          /\ Head(files) = "manifest" => ToSet(files) = {"manifest"}
          /\ ToSet(files) \subseteq all /\ all \subseteq CorpusFiles /\ "manifest" \in ToSet(files)
      BY <1>5, <2>5, <3>1, RestsAre
    <3>3. \A f \in all : written[f] = IF f \in ToSet(files) THEN Unwritten ELSE Content(corpus, salt)
      <4>1. CASE "train" \in ToSet(files)
        BY <1>5, <2>5, <3>2, <4>1 DEF Fresh
      <4>2. CASE "train" \notin ToSet(files)
        BY <3>1, <4>2 DEF Halfway
      <4> QED  BY <4>1, <4>2
    <3>4. \A f \in all :
            written'[f] = IF f = Head(files) THEN text
                          ELSE IF f \in ToSet(files) THEN Unwritten ELSE Content(corpus, salt)
      BY <2>3, <3>2, <3>3
    <3>5. WritingOK'
      <4>1. process'.stage = "write" =>
              \A f \in all :
                written'[f] = IF f \in ToSet(process'.files) THEN Unwritten
                              ELSE Content(corpus, process'.salt)
        BY <2>2, <3>2, <3>4
      <4> QED  BY <1>5, <2>2, <3>2, <4>1 DEF WritingOK, Halfway
    <3>6. FrozenOK'
      <4>1. CASE Head(files) = "manifest"
        <5>1. \A f \in all : written'[f] = IF f = "manifest" THEN text ELSE Content(corpus, salt)
          BY <3>2, <3>4, <4>1
        <5>2. text = Torn \/ text = Content(corpus, salt)
          BY <1>5
        <5> QED  BY <1>5, <2>5, <3>2, <5>1, <5>2 DEF FrozenOK
      <4>2. CASE Head(files) # "manifest"
        <5>1. written'["manifest"] = Unwritten
          BY <3>2, <3>4, <4>2
        <5> QED  BY <1>5, <2>5, <5>1 DEF FrozenOK
      <4> QED  BY <4>1, <4>2
    <3> QED  BY <1>5, <2>1, <3>5, <3>6 DEF CorpusOK
  <2>6. CASE corpus.kind = "natural"
    BY <1>5, <2>1, <2>6 DEF CorpusOK
  <2> QED  BY <2>4, <2>5, <2>6
<1>6. CASE Write /\ ~(process' = NoProcess /\ UNCHANGED written)
  <2>1. /\ process.stage = "write" /\ process.files # <<>> /\ Fresh(Head(process.files))
        /\ corpus' = corpus
        /\ written' = [written EXCEPT ![Head(process.files)] = Content(corpus, process.salt)]
        /\ process' = [process EXCEPT !.files = Tail(@)]
    BY <1>6 DEF Write
  <2> QED  BY <1>5, <2>1
<1>7. CASE Kill
  BY <1>5, <1>7 DEF Kill
<1> QED  BY <1>1, <1>2, <1>3, <1>4, <1>6, <1>7 DEF CurriculaNext

LEMMA CorpusAlways == DataSpec => []CorpusOK
<1>1. DataInit => CorpusOK
  BY DEF DataInit, CurriculaInit, CorpusOK, Shaped, NoProcess, WritingOK, FrozenOK, Unwritten, CorpusFiles
<1>2. CorpusOK /\ [DataNext]_dataVars => CorpusOK'
  <2> SUFFICES ASSUME CorpusOK, [DataNext]_dataVars PROVE CorpusOK'
    OBVIOUS
  <2>1. CASE Generating
    BY <2>1, CorpusStep DEF Generating
  <2>2. CASE UNCHANGED curriculaVars
    <3>1. process' = process /\ corpus' = corpus /\ written' = written
      BY <2>2 DEF curriculaVars
    <3> QED  BY <3>1 DEF CorpusOK, Shaped, WritingOK, Halfway, FrozenOK
  <2> QED  BY <2>1, <2>2 DEF DataNext, Measuring, dataVars
<1> QED  BY <1>1, <1>2, PTL DEF DataSpec

(* A manifest speaks for whole files: once the manifest of a corpus is whole, *)
(* every file of it is what the same generator has written, whichever runs were *)
(* killed before it.                                                         *)
THEOREM FrozenAlwaysWhole == DataSpec => []FrozenIsWhole
<1>1. CorpusOK => FrozenIsWhole
  BY DEF CorpusOK, FrozenOK, FrozenIsWhole
<1> QED  BY <1>1, CorpusAlways, PTL

\* The facts that answer an item where no alias is told.
Direct(q, S) ==
  {f \in S : f.status = "actual" /\ f.relation = q.relation /\ f.time = q.time /\ f.subject = q.subject}

LEMMA NoAlias ==
  ASSUME NEW q, NEW S, q.subject # "who", \A f \in S : f.relation # "alias"
  PROVE  AnswersTo(q, S) = Direct(q, S)
  BY DEF AnswersTo, Direct, Namesakes

\* The facts of up to three texts.
LEMMA ToldIs ==
  /\ FactsIn(<<>>) = {}
  /\ \A d, st : FactsIn(<<Text(d, st)>>) = ToSet(d)
  /\ \A d, e, st, su : FactsIn(<<Text(d, st), Text(e, su)>>) = ToSet(d) \union ToSet(e)
  /\ \A d, e, f, st, su, sv :
       FactsIn(<<Text(d, st), Text(e, su), Text(f, sv)>>) = ToSet(d) \union ToSet(e) \union ToSet(f)
<1>1. \A d, st : Text(d, st).facts = d
  BY DEF Text
<1>2. FactsIn(<<>>) = {}
  BY ShortLists DEF FactsIn
<1>3. ASSUME NEW d, NEW st PROVE FactsIn(<<Text(d, st)>>) = ToSet(d)
  <2>1. ToSet(<<Text(d, st)>>) = {Text(d, st)}
    BY ShortLists
  <2> QED  BY <1>1, <2>1 DEF FactsIn
<1>4. ASSUME NEW d, NEW e, NEW st, NEW su
      PROVE  FactsIn(<<Text(d, st), Text(e, su)>>) = ToSet(d) \union ToSet(e)
  <2>1. ToSet(<<Text(d, st), Text(e, su)>>) = {Text(d, st), Text(e, su)}
    BY ShortLists
  <2> QED  BY <1>1, <2>1 DEF FactsIn
<1>5. ASSUME NEW d, NEW e, NEW f, NEW st, NEW su, NEW sv
      PROVE  FactsIn(<<Text(d, st), Text(e, su), Text(f, sv)>>) = ToSet(d) \union ToSet(e) \union ToSet(f)
  <2>1. ToSet(<<Text(d, st), Text(e, su), Text(f, sv)>>) = {Text(d, st), Text(e, su), Text(f, sv)}
    BY ShortLists
  <2> QED  BY <1>1, <2>1 DEF FactsIn
<1> QED  BY <1>2, <1>3, <1>4, <1>5

\* What a case says of itself, and what its episodes say.
Tells(c, s, ask, episodes, known) ==
  /\ c.scenario = s /\ c.context = <<"asked", ask>> /\ c.ask = ask /\ c.needed = TRUE
  /\ c.episodes = episodes
  /\ Known(ask, FactsIn(episodes)) = known
  /\ LabelFollows(c)

\* A question about one item that one fact of one episode answers.
Found(c, s, q, episodes, k, f) ==
  /\ c.scenario = s /\ c.context = <<"asked", {q}>> /\ c.ask = {q} /\ c.needed = TRUE
  /\ c.episodes = episodes /\ c.missing = FALSE /\ c.targets = {k} /\ c.required = {f}
  /\ AnswersTo(q, FactsIn(episodes)) = {f}
  /\ AnswersTo(q, ToSet(episodes[k].facts)) = {f}
\* One that the episodes do not answer.
NotFound(c, s, q, episodes) ==
  /\ c.scenario = s /\ c.context = <<"asked", {q}>> /\ c.ask = {q} /\ c.needed = TRUE
  /\ c.episodes = episodes /\ c.missing = TRUE /\ c.required = {}
  /\ AnswersTo(q, FactsIn(episodes)) = {}

LEMMA FoundTells ==
  ASSUME NEW c, NEW s, NEW q, NEW e, NEW k, NEW f, Found(c, s, q, e, k, f)
  PROVE  Tells(c, s, {q}, e, {f})
<1>1. Known({q}, FactsIn(e)) = {f}
  BY DEF Found, Known
<1>2. Answered({q}, FactsIn(e))
  <2>1. {g.value : g \in AnswersTo(q, FactsIn(e))} = {f.value}
    BY DEF Found
  <2>2. Cardinality({f.value}) = 1
    BY FS_Singleton
  <2> QED  BY <2>1, <2>2 DEF Answered
<1>3. ASSUME NEW some \in SUBSET {k}
      PROVE  (AnswersTo(q, UNION {ToSet(e[i].facts) : i \in some}) = {f}) <=> (some = {k})
  <2>1. CASE some = {k}
    <3>1. UNION {ToSet(e[i].facts) : i \in some} = ToSet(e[k].facts)
      BY <2>1
    <3> QED  BY <2>1, <3>1 DEF Found
  <2>2. CASE some = {}
    <3>1. UNION {ToSet(e[i].facts) : i \in some} = {}
      BY <2>2
    <3>2. AnswersTo(q, {}) = {}
      BY DEF AnswersTo
    <3> QED  BY <2>2, <3>1, <3>2
  <2> QED  BY <2>1, <2>2
<1>4. LabelFollows(c)
  <2>1. /\ c.ask = {q} /\ c.episodes = e /\ c.missing = FALSE /\ c.targets = {k} /\ c.required = {f}
        /\ AnswersTo(q, FactsIn(e)) = {f}
    BY DEF Found
  <2>2. ASSUME NEW some \in SUBSET c.targets
        PROVE  (\A p \in c.ask : AnswersTo(p, UNION {ToSet(c.episodes[i].facts) : i \in some})
                                   = AnswersTo(p, FactsIn(c.episodes))) <=> some = c.targets
    <3>1. some \in SUBSET {k}
      BY <2>1
    <3>2. (AnswersTo(q, UNION {ToSet(e[i].facts) : i \in some}) = {f}) <=> (some = {k})
      BY <1>3, <3>1
    <3>3. UNION {ToSet(c.episodes[i].facts) : i \in some} = UNION {ToSet(e[i].facts) : i \in some}
      BY <2>1
    <3>4. \A p : p \in c.ask <=> p = q
      BY <2>1
    <3>5. AnswersTo(q, FactsIn(c.episodes)) = {f}
      BY <2>1
    <3>6. (AnswersTo(q, UNION {ToSet(c.episodes[i].facts) : i \in some}) = {f}) <=> (some = c.targets)
      BY <3>2, <3>3, <2>1
    <3> HIDE <2>1
    <3> DEFINE U == UNION {ToSet(c.episodes[i].facts) : i \in some}
               V == FactsIn(c.episodes)
    <3>7. (AnswersTo(q, U) = {f}) <=> (some = c.targets)
      BY <3>6
    <3>8. AnswersTo(q, V) = {f}
      BY <3>5
    <3> HIDE DEF U, V
    <3>9. (\A p \in c.ask : AnswersTo(p, U) = AnswersTo(p, V)) <=> some = c.targets
      BY <3>4, <3>7, <3>8
    <3> QED  BY <3>9 DEF U, V
  <2>3. c.missing <=> ~Answered(c.ask, FactsIn(c.episodes))
    BY <1>2, <2>1
  <2>4. c.required = IF c.missing THEN {} ELSE Known(c.ask, FactsIn(c.episodes))
    BY <1>1, <2>1
  <2> QED  BY <2>2, <2>3, <2>4 DEF LabelFollows
<1> QED  BY <1>1, <1>4 DEF Tells, Found

LEMMA NotFoundTells ==
  ASSUME NEW c, NEW s, NEW q, NEW e, NotFound(c, s, q, e)
  PROVE  Tells(c, s, {q}, e, {})
<1>1. Known({q}, FactsIn(e)) = {}
  BY DEF NotFound, Known
<1>2. ~Answered({q}, FactsIn(e))
  <2>1. {g.value : g \in AnswersTo(q, FactsIn(e))} = {}
    BY DEF NotFound
  <2>2. Cardinality({}) = 0
    BY FS_EmptySet
  <2> QED  BY <2>1, <2>2 DEF Answered
<1>3. LabelFollows(c)
  BY <1>1, <1>2 DEF LabelFollows, NotFound
<1> QED  BY <1>1, <1>3 DEF Tells, NotFound

\* Two cases that ask the same: with other answers, or the same answer in
\* other words.
LEMMA PairDiffers ==
  ASSUME NEW c, NEW d, NEW s, NEW t, NEW ask, NEW e1, NEW e2, NEW k1, NEW k2,
         Tells(c, s, ask, e1, k1), Tells(d, t, ask, e2, k2), k1 # k2
  PROVE  /\ PairShows(c, d, "any")
         /\ k2 = {} => PairShows(c, d, "missing")
         /\ k1 # {} /\ k2 # {} => PairShows(c, d, "change")
  BY DEF Tells, PairShows
LEMMA PairSame ==
  ASSUME NEW c, NEW d, NEW s, NEW t, NEW ask, NEW e1, NEW e2, NEW k,
         Tells(c, s, ask, e1, k), Tells(d, t, ask, e2, k), e1 # e2, k # {}
  PROVE  PairShows(c, d, "any") /\ PairShows(c, d, "invariant")
  BY DEF Tells, PairShows

\* The fields of the three sorts of cases.
LEMMA CaseFields ==
  ASSUME NEW s, NEW ask, NEW e, NEW t
  PROVE  /\ Case(s, ask, e, t).scenario = s /\ Case(s, ask, e, t).context = <<"asked", ask>>
         /\ Case(s, ask, e, t).ask = ask /\ Case(s, ask, e, t).needed = TRUE
         /\ Case(s, ask, e, t).episodes = e /\ Case(s, ask, e, t).missing = FALSE
         /\ Case(s, ask, e, t).targets = t
         /\ Case(s, ask, e, t).required = UNION {ToSet(e[i].facts) : i \in t}
  BY DEF Case
LEMMA MissingFields ==
  ASSUME NEW s, NEW ask, NEW e, NEW t, NEW allowed
  PROVE  /\ Missing(s, ask, e, t, allowed).scenario = s
         /\ Missing(s, ask, e, t, allowed).context = <<"asked", ask>>
         /\ Missing(s, ask, e, t, allowed).ask = ask /\ Missing(s, ask, e, t, allowed).needed = TRUE
         /\ Missing(s, ask, e, t, allowed).episodes = e /\ Missing(s, ask, e, t, allowed).missing = TRUE
         /\ Missing(s, ask, e, t, allowed).required = {}
  BY DEF Case, Missing
LEMMA OrdinaryFields ==
  ASSUME NEW s, NEW e
  PROVE  /\ Ordinary(s, e).scenario = s /\ Ordinary(s, e).context = <<"sum", {}>>
         /\ Ordinary(s, e).ask = {} /\ Ordinary(s, e).needed = FALSE /\ Ordinary(s, e).episodes = e
         /\ LabelFollows(Ordinary(s, e))
  BY DEF Case, Ordinary, LabelFollows

\* The binding cases: a question about one item over one text.
Questioned(q) ==
  /\ q.person # "who" /\ q.person # q.bystander /\ q.city # q.alternate /\ q.relation # q.aside
  /\ q.relation \in {"home_city", "work_city"} /\ q.aside \in {"home_city", "work_city"}

LEMMA OneTextTells ==
  ASSUME NEW facts, NEW s
  PROVE  /\ FactsIn(OneText(facts, s)) = ToSet(facts)
         /\ facts # <<>> => ToSet(OneText(facts, s)[1].facts) = ToSet(facts)
<1>1. CASE facts = <<>>
  <2>1. OneText(facts, s) = <<>>
    BY <1>1 DEF OneText
  <2> QED  BY <2>1, <1>1, ToldIs, ShortLists
<1>2. CASE facts # <<>>
  <2>1. OneText(facts, s) = <<Text(facts, Style(s))>>
    BY <1>2 DEF OneText
  <2>2. OneText(facts, s)[1] = Text(facts, Style(s))
    BY <2>1
  <2>3. OneText(facts, s)[1].facts = facts
    BY <2>2 DEF Text
  <2> QED  BY <2>1, <2>3, ToldIs
<1> QED  BY <1>1, <1>2

LEMMA TextsDiffer ==
  ASSUME NEW d, NEW e, NEW s, NEW t, d # e \/ (d # <<>> /\ Style(s) # Style(t))
  PROVE  OneText(d, s) # OneText(e, t)
<1>1. ASSUME NEW f, NEW u, f # <<>> PROVE OneText(f, u) # <<>> /\ OneText(f, u)[1].facts = f
                                         /\ OneText(f, u)[1].style = Style(u)
  <2>1. OneText(f, u) = <<Text(f, Style(u))>>
    BY <1>1 DEF OneText
  <2>2. OneText(f, u)[1] = Text(f, Style(u))
    BY <2>1
  <2>3. Len(OneText(f, u)) = 1 /\ Len(<<>>) = 0
    BY <2>1
  <2>4. OneText(f, u) # <<>>
    BY <2>3
  <2> QED  BY <2>2, <2>4 DEF Text
<1>2. \A u : OneText(<<>>, u) = <<>>
  BY DEF OneText
<1>3. CASE d = <<>> /\ e # <<>>
  BY <1>1, <1>2, <1>3
<1>4. CASE d # <<>> /\ e = <<>>
  BY <1>1, <1>2, <1>4
<1>5. CASE d # <<>> /\ e # <<>>
  <2>1. OneText(d, s)[1].facts = d /\ OneText(d, s)[1].style = Style(s)
    BY <1>1, <1>5
  <2>2. OneText(e, t)[1].facts = e /\ OneText(e, t)[1].style = Style(t)
    BY <1>1, <1>5
  <2> QED  BY <2>1, <2>2
<1> QED  BY <1>3, <1>4, <1>5

LEMMA AskedIs ==
  ASSUME NEW p, NEW r, NEW t
  PROVE  Asked(p, r, t).subject = p /\ Asked(p, r, t).relation = r /\ Asked(p, r, t).time = t
  BY DEF Asked
LEMMA StatedIs ==
  ASSUME NEW p, NEW r, NEW v, NEW t, NEW st
  PROVE  /\ Stated(p, r, v, t, st).subject = p /\ Stated(p, r, v, t, st).relation = r
         /\ Stated(p, r, v, t, st).value = v /\ Stated(p, r, v, t, st).time = t
         /\ Stated(p, r, v, t, st).status = st
  BY DEF Stated
LEMMA FactIs ==
  ASSUME NEW p, NEW r, NEW v
  PROVE  /\ Fact(p, r, v).subject = p /\ Fact(p, r, v).relation = r
         /\ Fact(p, r, v).value = v /\ Fact(p, r, v).time = "current"
         /\ Fact(p, r, v).status = "actual"
  BY StatedIs DEF Fact

\* The facts of a text that answer, where none is an alias.
Answering(p, r, t, facts) ==
  {f \in ToSet(facts) : f.subject = p /\ f.relation = r /\ f.time = t /\ f.status = "actual"}
Plain(facts) == \A f \in ToSet(facts) : f.relation # "alias"

LEMMA OneTextAnswers ==
  ASSUME NEW p, NEW r, NEW t, NEW facts, p # "who", Plain(facts)
  PROVE  AnswersTo(Asked(p, r, t), ToSet(facts)) = Answering(p, r, t, facts)
<1>1. AnswersTo(Asked(p, r, t), ToSet(facts)) = Direct(Asked(p, r, t), ToSet(facts))
  BY NoAlias, AskedIs DEF Plain
<1>2. Direct(Asked(p, r, t), ToSet(facts)) = Answering(p, r, t, facts)
  BY AskedIs DEF Direct, Answering
<1> QED  BY <1>1, <1>2

LEMMA OneTextFound ==
  ASSUME NEW p, NEW r, NEW t, NEW facts, NEW s, NEW f, p # "who", Plain(facts), facts # <<>>,
         Answering(p, r, t, facts) = {f}
  PROVE  Tells([Case(s, {Asked(p, r, t)}, OneText(facts, s), {1}) EXCEPT !.required = {f}],
               s, {Asked(p, r, t)}, OneText(facts, s), {f})
<1> DEFINE c == [Case(s, {Asked(p, r, t)}, OneText(facts, s), {1}) EXCEPT !.required = {f}]
<1>1. AnswersTo(Asked(p, r, t), FactsIn(OneText(facts, s))) = {f}
  BY OneTextAnswers, OneTextTells
<1>2. AnswersTo(Asked(p, r, t), ToSet(OneText(facts, s)[1].facts)) = {f}
  BY OneTextAnswers, OneTextTells
<1>3. /\ c.scenario = s /\ c.context = <<"asked", {Asked(p, r, t)}>> /\ c.ask = {Asked(p, r, t)}
      /\ c.needed = TRUE /\ c.episodes = OneText(facts, s) /\ c.missing = FALSE
      /\ c.targets = {1} /\ c.required = {f}
  BY DEF Case
<1>4. Found(c, s, Asked(p, r, t), OneText(facts, s), 1, f)
  BY <1>1, <1>2, <1>3 DEF Found
<1> QED  BY <1>4, FoundTells

LEMMA OneTextNotFound ==
  ASSUME NEW p, NEW r, NEW t, NEW facts, NEW s, NEW targets, NEW allowed, p # "who", Plain(facts),
         Answering(p, r, t, facts) = {}
  PROVE  Tells(Missing(s, {Asked(p, r, t)}, OneText(facts, s), targets, allowed),
               s, {Asked(p, r, t)}, OneText(facts, s), {})
<1> DEFINE c == Missing(s, {Asked(p, r, t)}, OneText(facts, s), targets, allowed)
<1>1. AnswersTo(Asked(p, r, t), FactsIn(OneText(facts, s))) = {}
  BY OneTextAnswers, OneTextTells
<1>2. /\ c.scenario = s /\ c.context = <<"asked", {Asked(p, r, t)}>> /\ c.ask = {Asked(p, r, t)}
      /\ c.needed = TRUE /\ c.episodes = OneText(facts, s) /\ c.missing = TRUE /\ c.required = {}
  BY DEF Case, Missing
<1>3. NotFound(c, s, Asked(p, r, t), OneText(facts, s))
  BY <1>1, <1>2 DEF NotFound
<1> QED  BY <1>3, NotFoundTells

LEMMA BindingTells ==
  ASSUME NEW q, NEW s, NEW t, NEW facts, NEW supported \in BOOLEAN, NEW known,
         q.person # "who", Plain(facts),
         Answering(q.person, q.relation, t, facts) = known,
         IF supported THEN \E f : known = {f} ELSE known = {}
  PROVE  Tells(BindingCase(q, s, t, facts, supported), s, {Asked(q.person, q.relation, t)},
               OneText(facts, s), known)
<1>1. Joint(q, t, facts) = known
  BY DEF Joint, Answering
<1>2. CASE supported
  <2>1. PICK f : known = {f}
    BY <1>2
  <2>4. facts # <<>>
    BY <2>1, ShortLists DEF Answering
  <2>2. BindingCase(q, s, t, facts, supported)
          = [Case(s, {Asked(q.person, q.relation, t)}, OneText(facts, s), {1}) EXCEPT !.required = {f}]
    BY <1>1, <1>2, <2>1 DEF BindingCase
  <2>3. Tells([Case(s, {Asked(q.person, q.relation, t)}, OneText(facts, s), {1}) EXCEPT !.required = {f}],
              s, {Asked(q.person, q.relation, t)}, OneText(facts, s), {f})
    BY <1>2, <2>1, <2>4, OneTextFound
  <2> QED  BY <2>1, <2>2, <2>3
<1>3. CASE ~supported
  <2>1. BindingCase(q, s, t, facts, supported)
          = Missing(s, {Asked(q.person, q.relation, t)}, OneText(facts, s), {}, ToSet(facts))
    BY <1>3 DEF BindingCase
  <2>2. known = {}
    BY <1>3
  <2> QED  BY <2>1, <2>2, OneTextNotFound
<1> QED  BY <1>2, <1>3

\* A text that states no alias and answers the question with `known`.
Says(facts, q, t, known) == Plain(facts) /\ Answering(q.person, q.relation, t, facts) = known

LEMMA SaysNothing ==
  ASSUME NEW q, NEW t
  PROVE  Says(<<>>, q, t, {})
  BY ShortLists DEF Says, Plain, Answering

LEMMA JointTexts ==
  ASSUME NEW q
  PROVE  /\ JointFacts(q, "correct") = <<Fact(q.person, q.relation, q.city), Fact(q.bystander, q.aside, q.alternate)>>
         /\ JointFacts(q, "paraphrase") = <<Fact(q.person, q.relation, q.city), Fact(q.bystander, q.aside, q.alternate)>>
         /\ JointFacts(q, "role_swap") = <<Fact(q.bystander, q.relation, q.city), Fact(q.person, q.aside, q.alternate)>>
         /\ JointFacts(q, "value_swap") = <<Fact(q.person, q.relation, q.alternate), Fact(q.bystander, q.aside, q.city)>>
         /\ JointFacts(q, "clause_reorder") = <<Fact(q.bystander, q.aside, q.alternate), Fact(q.person, q.relation, q.city)>>
         /\ JointFacts(q, "wrong_subject") = <<Fact(q.bystander, q.relation, q.city)>>
         /\ JointFacts(q, "wrong_relation") = <<Fact(q.person, q.aside, q.city)>>
         /\ JointFacts(q, "negated") = <<Stated(q.person, q.relation, q.city, "current", "negated")>>
         /\ JointFacts(q, "historical") = <<Stated(q.person, q.relation, q.city, "2020", "actual")>>
         /\ JointFacts(q, "empty") = <<>>
  BY DEF JointFacts, Crossed, Target, Distractor, ThreeFacts, Fact, Stated

LEMMA ExpandedTexts ==
  ASSUME NEW q
  PROVE  /\ ExpandedFacts(q, "correct") = <<Fact(q.person, q.relation, q.city), Fact(q.bystander, q.aside, q.alternate)>>
         /\ ExpandedFacts(q, "wrong_time") = <<Fact(q.person, q.relation, q.city), Fact(q.bystander, q.aside, q.alternate)>>
         /\ ExpandedFacts(q, "role_swap") = <<Fact(q.bystander, q.relation, q.city), Fact(q.person, q.aside, q.alternate)>>
         /\ ExpandedFacts(q, "empty") = <<>>
         /\ ExpandedFacts(q, "historical_stated") = <<Fact(q.person, q.relation, q.city), Stated(q.person, q.relation, q.alternate, "2020", "actual"), Fact(q.bystander, q.aside, q.alternate)>>
         /\ ExpandedFacts(q, "multi_fact") = <<Fact(q.person, q.relation, q.city), Fact(q.bystander, q.aside, q.alternate), Fact(q.person, q.aside, q.alternate)>>
         /\ ExpandedFacts(q, "hypothetical") = <<Stated(q.person, q.relation, q.city, "current", "hypothetical"), Fact(q.bystander, q.aside, q.alternate)>>
         /\ ExpandedFacts(q, "quoted") = <<Stated(q.person, q.relation, q.city, "current", "quoted"), Fact(q.bystander, q.aside, q.alternate)>>
  BY DEF ExpandedFacts, Crossed, Target, Distractor, ThreeFacts, Fact, Stated

LEMMA DialogueTexts ==
  ASSUME NEW q
  PROVE  /\ DialogueFacts(q, "correct") = <<Fact(q.person, q.relation, q.city), Fact(q.bystander, q.aside, q.alternate)>>
         /\ DialogueFacts(q, "role_swap") = <<Fact(q.bystander, q.relation, q.city), Fact(q.person, q.aside, q.alternate)>>
         /\ DialogueFacts(q, "empty") = <<>>
         /\ DialogueFacts(q, "multi_fact") = <<Fact(q.person, q.relation, q.city), Fact(q.bystander, q.aside, q.alternate), Fact(q.person, q.aside, q.alternate)>>
  BY DEF DialogueFacts, Crossed, Target, Distractor, ThreeFacts, Fact, Stated

LEMMA Says1 ==
  ASSUME NEW q, Questioned(q)
  PROVE  Says(<<Fact(q.person, q.relation, q.city), Fact(q.bystander, q.aside, q.alternate)>>, q, "current", {Fact(q.person, q.relation, q.city)})
<1>1. ToSet(<<Fact(q.person, q.relation, q.city), Fact(q.bystander, q.aside, q.alternate)>>) = {Fact(q.person, q.relation, q.city), Fact(q.bystander, q.aside, q.alternate)}
  BY ShortLists
<1>2. Plain(<<Fact(q.person, q.relation, q.city), Fact(q.bystander, q.aside, q.alternate)>>)
  BY <1>1, StatedIs, FactIs DEF Plain, Questioned
<1>3. Answering(q.person, q.relation, "current", <<Fact(q.person, q.relation, q.city), Fact(q.bystander, q.aside, q.alternate)>>) = {Fact(q.person, q.relation, q.city)}
  BY <1>1, StatedIs, FactIs DEF Answering, Questioned
<1> QED  BY <1>2, <1>3 DEF Says

LEMMA Says2 ==
  ASSUME NEW q, Questioned(q)
  PROVE  Says(<<Fact(q.bystander, q.relation, q.city), Fact(q.person, q.aside, q.alternate)>>, q, "current", {})
<1>1. ToSet(<<Fact(q.bystander, q.relation, q.city), Fact(q.person, q.aside, q.alternate)>>) = {Fact(q.bystander, q.relation, q.city), Fact(q.person, q.aside, q.alternate)}
  BY ShortLists
<1>2. Plain(<<Fact(q.bystander, q.relation, q.city), Fact(q.person, q.aside, q.alternate)>>)
  BY <1>1, StatedIs, FactIs DEF Plain, Questioned
<1>3. Answering(q.person, q.relation, "current", <<Fact(q.bystander, q.relation, q.city), Fact(q.person, q.aside, q.alternate)>>) = {}
  BY <1>1, StatedIs, FactIs DEF Answering, Questioned
<1> QED  BY <1>2, <1>3 DEF Says

LEMMA Says3 ==
  ASSUME NEW q, Questioned(q)
  PROVE  Says(<<Fact(q.person, q.relation, q.alternate), Fact(q.bystander, q.aside, q.city)>>, q, "current", {Fact(q.person, q.relation, q.alternate)})
<1>1. ToSet(<<Fact(q.person, q.relation, q.alternate), Fact(q.bystander, q.aside, q.city)>>) = {Fact(q.person, q.relation, q.alternate), Fact(q.bystander, q.aside, q.city)}
  BY ShortLists
<1>2. Plain(<<Fact(q.person, q.relation, q.alternate), Fact(q.bystander, q.aside, q.city)>>)
  BY <1>1, StatedIs, FactIs DEF Plain, Questioned
<1>3. Answering(q.person, q.relation, "current", <<Fact(q.person, q.relation, q.alternate), Fact(q.bystander, q.aside, q.city)>>) = {Fact(q.person, q.relation, q.alternate)}
  BY <1>1, StatedIs, FactIs DEF Answering, Questioned
<1> QED  BY <1>2, <1>3 DEF Says

LEMMA Says4 ==
  ASSUME NEW q, Questioned(q)
  PROVE  Says(<<Fact(q.bystander, q.aside, q.alternate), Fact(q.person, q.relation, q.city)>>, q, "current", {Fact(q.person, q.relation, q.city)})
<1>1. ToSet(<<Fact(q.bystander, q.aside, q.alternate), Fact(q.person, q.relation, q.city)>>) = {Fact(q.bystander, q.aside, q.alternate), Fact(q.person, q.relation, q.city)}
  BY ShortLists
<1>2. Plain(<<Fact(q.bystander, q.aside, q.alternate), Fact(q.person, q.relation, q.city)>>)
  BY <1>1, StatedIs, FactIs DEF Plain, Questioned
<1>3. Answering(q.person, q.relation, "current", <<Fact(q.bystander, q.aside, q.alternate), Fact(q.person, q.relation, q.city)>>) = {Fact(q.person, q.relation, q.city)}
  BY <1>1, StatedIs, FactIs DEF Answering, Questioned
<1> QED  BY <1>2, <1>3 DEF Says

LEMMA Says5 ==
  ASSUME NEW q, Questioned(q)
  PROVE  Says(<<Fact(q.bystander, q.relation, q.city)>>, q, "current", {})
<1>1. ToSet(<<Fact(q.bystander, q.relation, q.city)>>) = {Fact(q.bystander, q.relation, q.city)}
  BY ShortLists
<1>2. Plain(<<Fact(q.bystander, q.relation, q.city)>>)
  BY <1>1, StatedIs, FactIs DEF Plain, Questioned
<1>3. Answering(q.person, q.relation, "current", <<Fact(q.bystander, q.relation, q.city)>>) = {}
  BY <1>1, StatedIs, FactIs DEF Answering, Questioned
<1> QED  BY <1>2, <1>3 DEF Says

LEMMA Says6 ==
  ASSUME NEW q, Questioned(q)
  PROVE  Says(<<Fact(q.person, q.aside, q.city)>>, q, "current", {})
<1>1. ToSet(<<Fact(q.person, q.aside, q.city)>>) = {Fact(q.person, q.aside, q.city)}
  BY ShortLists
<1>2. Plain(<<Fact(q.person, q.aside, q.city)>>)
  BY <1>1, StatedIs, FactIs DEF Plain, Questioned
<1>3. Answering(q.person, q.relation, "current", <<Fact(q.person, q.aside, q.city)>>) = {}
  BY <1>1, StatedIs, FactIs DEF Answering, Questioned
<1> QED  BY <1>2, <1>3 DEF Says

LEMMA Says7 ==
  ASSUME NEW q, Questioned(q)
  PROVE  Says(<<Stated(q.person, q.relation, q.city, "current", "negated")>>, q, "current", {})
<1>1. ToSet(<<Stated(q.person, q.relation, q.city, "current", "negated")>>) = {Stated(q.person, q.relation, q.city, "current", "negated")}
  BY ShortLists
<1>2. Plain(<<Stated(q.person, q.relation, q.city, "current", "negated")>>)
  BY <1>1, StatedIs, FactIs DEF Plain, Questioned
<1>3. Answering(q.person, q.relation, "current", <<Stated(q.person, q.relation, q.city, "current", "negated")>>) = {}
  BY <1>1, StatedIs, FactIs DEF Answering, Questioned
<1> QED  BY <1>2, <1>3 DEF Says

LEMMA Says8 ==
  ASSUME NEW q, Questioned(q)
  PROVE  Says(<<Stated(q.person, q.relation, q.city, "2020", "actual")>>, q, "current", {})
<1>1. ToSet(<<Stated(q.person, q.relation, q.city, "2020", "actual")>>) = {Stated(q.person, q.relation, q.city, "2020", "actual")}
  BY ShortLists
<1>2. Plain(<<Stated(q.person, q.relation, q.city, "2020", "actual")>>)
  BY <1>1, StatedIs, FactIs DEF Plain, Questioned
<1>3. Answering(q.person, q.relation, "current", <<Stated(q.person, q.relation, q.city, "2020", "actual")>>) = {}
  BY <1>1, StatedIs, FactIs DEF Answering, Questioned
<1> QED  BY <1>2, <1>3 DEF Says

LEMMA Says9 ==
  ASSUME NEW q, Questioned(q)
  PROVE  Says(<<Fact(q.person, q.relation, q.city), Fact(q.bystander, q.aside, q.alternate)>>, q, "2020", {})
<1>1. ToSet(<<Fact(q.person, q.relation, q.city), Fact(q.bystander, q.aside, q.alternate)>>) = {Fact(q.person, q.relation, q.city), Fact(q.bystander, q.aside, q.alternate)}
  BY ShortLists
<1>2. Plain(<<Fact(q.person, q.relation, q.city), Fact(q.bystander, q.aside, q.alternate)>>)
  BY <1>1, StatedIs, FactIs DEF Plain, Questioned
<1>3. Answering(q.person, q.relation, "2020", <<Fact(q.person, q.relation, q.city), Fact(q.bystander, q.aside, q.alternate)>>) = {}
  BY <1>1, StatedIs, FactIs DEF Answering, Questioned
<1> QED  BY <1>2, <1>3 DEF Says

LEMMA Says10 ==
  ASSUME NEW q, Questioned(q)
  PROVE  Says(<<Fact(q.person, q.relation, q.city), Stated(q.person, q.relation, q.alternate, "2020", "actual"), Fact(q.bystander, q.aside, q.alternate)>>, q, "2020", {Stated(q.person, q.relation, q.alternate, "2020", "actual")})
<1>1. ToSet(<<Fact(q.person, q.relation, q.city), Stated(q.person, q.relation, q.alternate, "2020", "actual"), Fact(q.bystander, q.aside, q.alternate)>>) = {Fact(q.person, q.relation, q.city), Stated(q.person, q.relation, q.alternate, "2020", "actual"), Fact(q.bystander, q.aside, q.alternate)}
  BY ShortLists
<1>2. Plain(<<Fact(q.person, q.relation, q.city), Stated(q.person, q.relation, q.alternate, "2020", "actual"), Fact(q.bystander, q.aside, q.alternate)>>)
  BY <1>1, StatedIs, FactIs DEF Plain, Questioned
<1>3. Answering(q.person, q.relation, "2020", <<Fact(q.person, q.relation, q.city), Stated(q.person, q.relation, q.alternate, "2020", "actual"), Fact(q.bystander, q.aside, q.alternate)>>) = {Stated(q.person, q.relation, q.alternate, "2020", "actual")}
  BY <1>1, StatedIs, FactIs DEF Answering, Questioned
<1> QED  BY <1>2, <1>3 DEF Says

LEMMA Says11 ==
  ASSUME NEW q, Questioned(q)
  PROVE  Says(<<Fact(q.person, q.relation, q.city), Fact(q.bystander, q.aside, q.alternate), Fact(q.person, q.aside, q.alternate)>>, q, "current", {Fact(q.person, q.relation, q.city)})
<1>1. ToSet(<<Fact(q.person, q.relation, q.city), Fact(q.bystander, q.aside, q.alternate), Fact(q.person, q.aside, q.alternate)>>) = {Fact(q.person, q.relation, q.city), Fact(q.bystander, q.aside, q.alternate), Fact(q.person, q.aside, q.alternate)}
  BY ShortLists
<1>2. Plain(<<Fact(q.person, q.relation, q.city), Fact(q.bystander, q.aside, q.alternate), Fact(q.person, q.aside, q.alternate)>>)
  BY <1>1, StatedIs, FactIs DEF Plain, Questioned
<1>3. Answering(q.person, q.relation, "current", <<Fact(q.person, q.relation, q.city), Fact(q.bystander, q.aside, q.alternate), Fact(q.person, q.aside, q.alternate)>>) = {Fact(q.person, q.relation, q.city)}
  BY <1>1, StatedIs, FactIs DEF Answering, Questioned
<1> QED  BY <1>2, <1>3 DEF Says

LEMMA Says12 ==
  ASSUME NEW q, Questioned(q)
  PROVE  Says(<<Stated(q.person, q.relation, q.city, "current", "hypothetical"), Fact(q.bystander, q.aside, q.alternate)>>, q, "current", {})
<1>1. ToSet(<<Stated(q.person, q.relation, q.city, "current", "hypothetical"), Fact(q.bystander, q.aside, q.alternate)>>) = {Stated(q.person, q.relation, q.city, "current", "hypothetical"), Fact(q.bystander, q.aside, q.alternate)}
  BY ShortLists
<1>2. Plain(<<Stated(q.person, q.relation, q.city, "current", "hypothetical"), Fact(q.bystander, q.aside, q.alternate)>>)
  BY <1>1, StatedIs, FactIs DEF Plain, Questioned
<1>3. Answering(q.person, q.relation, "current", <<Stated(q.person, q.relation, q.city, "current", "hypothetical"), Fact(q.bystander, q.aside, q.alternate)>>) = {}
  BY <1>1, StatedIs, FactIs DEF Answering, Questioned
<1> QED  BY <1>2, <1>3 DEF Says

LEMMA Says13 ==
  ASSUME NEW q, Questioned(q)
  PROVE  Says(<<Stated(q.person, q.relation, q.city, "current", "quoted"), Fact(q.bystander, q.aside, q.alternate)>>, q, "current", {})
<1>1. ToSet(<<Stated(q.person, q.relation, q.city, "current", "quoted"), Fact(q.bystander, q.aside, q.alternate)>>) = {Stated(q.person, q.relation, q.city, "current", "quoted"), Fact(q.bystander, q.aside, q.alternate)}
  BY ShortLists
<1>2. Plain(<<Stated(q.person, q.relation, q.city, "current", "quoted"), Fact(q.bystander, q.aside, q.alternate)>>)
  BY <1>1, StatedIs, FactIs DEF Plain, Questioned
<1>3. Answering(q.person, q.relation, "current", <<Stated(q.person, q.relation, q.city, "current", "quoted"), Fact(q.bystander, q.aside, q.alternate)>>) = {}
  BY <1>1, StatedIs, FactIs DEF Answering, Questioned
<1> QED  BY <1>2, <1>3 DEF Says

LEMMA JointSays ==
  ASSUME NEW q, Questioned(q)
  PROVE  /\ Says(JointFacts(q, "correct"), q, "current", {Fact(q.person, q.relation, q.city)})
         /\ Says(JointFacts(q, "paraphrase"), q, "current", {Fact(q.person, q.relation, q.city)})
         /\ Says(JointFacts(q, "role_swap"), q, "current", {})
         /\ Says(JointFacts(q, "value_swap"), q, "current", {Fact(q.person, q.relation, q.alternate)})
         /\ Says(JointFacts(q, "clause_reorder"), q, "current", {Fact(q.person, q.relation, q.city)})
         /\ Says(JointFacts(q, "wrong_subject"), q, "current", {})
         /\ Says(JointFacts(q, "wrong_relation"), q, "current", {})
         /\ Says(JointFacts(q, "negated"), q, "current", {})
         /\ Says(JointFacts(q, "historical"), q, "current", {})
         /\ Says(JointFacts(q, "empty"), q, "current", {})
  BY JointTexts, Says1, Says2, Says3, Says4, Says5, Says6, Says7, Says8, SaysNothing

LEMMA ExpandedSays ==
  ASSUME NEW q, Questioned(q)
  PROVE  /\ Says(ExpandedFacts(q, "correct"), q, "current", {Fact(q.person, q.relation, q.city)})
         /\ Says(ExpandedFacts(q, "wrong_time"), q, "2020", {})
         /\ Says(ExpandedFacts(q, "role_swap"), q, "current", {})
         /\ Says(ExpandedFacts(q, "empty"), q, "current", {})
         /\ Says(ExpandedFacts(q, "historical_stated"), q, "2020", {Stated(q.person, q.relation, q.alternate, "2020", "actual")})
         /\ Says(ExpandedFacts(q, "multi_fact"), q, "current", {Fact(q.person, q.relation, q.city)})
         /\ Says(ExpandedFacts(q, "hypothetical"), q, "current", {})
         /\ Says(ExpandedFacts(q, "quoted"), q, "current", {})
  BY ExpandedTexts, Says1, Says2, Says9, Says10, Says11, Says12, Says13, SaysNothing

LEMMA DialogueSays ==
  ASSUME NEW q, Questioned(q)
  PROVE  /\ Says(DialogueFacts(q, "correct"), q, "current", {Fact(q.person, q.relation, q.city)})
         /\ Says(DialogueFacts(q, "role_swap"), q, "current", {})
         /\ Says(DialogueFacts(q, "empty"), q, "current", {})
         /\ Says(DialogueFacts(q, "multi_fact"), q, "current", {Fact(q.person, q.relation, q.city)})
  BY DialogueTexts, Says1, Says2, Says11, SaysNothing

\* What the binding cases tell.
LEMMA JointTells ==
  ASSUME NEW q, Questioned(q)
  PROVE  /\ Tells(JointCase(q, "correct"), "correct", {Asked(q.person, q.relation, "current")}, OneText(JointFacts(q, "correct"), "correct"), {Fact(q.person, q.relation, q.city)})
         /\ Tells(JointCase(q, "paraphrase"), "paraphrase", {Asked(q.person, q.relation, "current")}, OneText(JointFacts(q, "paraphrase"), "paraphrase"), {Fact(q.person, q.relation, q.city)})
         /\ Tells(JointCase(q, "role_swap"), "role_swap", {Asked(q.person, q.relation, "current")}, OneText(JointFacts(q, "role_swap"), "role_swap"), {})
         /\ Tells(JointCase(q, "value_swap"), "value_swap", {Asked(q.person, q.relation, "current")}, OneText(JointFacts(q, "value_swap"), "value_swap"), {Fact(q.person, q.relation, q.alternate)})
         /\ Tells(JointCase(q, "clause_reorder"), "clause_reorder", {Asked(q.person, q.relation, "current")}, OneText(JointFacts(q, "clause_reorder"), "clause_reorder"), {Fact(q.person, q.relation, q.city)})
         /\ Tells(JointCase(q, "wrong_subject"), "wrong_subject", {Asked(q.person, q.relation, "current")}, OneText(JointFacts(q, "wrong_subject"), "wrong_subject"), {})
         /\ Tells(JointCase(q, "wrong_relation"), "wrong_relation", {Asked(q.person, q.relation, "current")}, OneText(JointFacts(q, "wrong_relation"), "wrong_relation"), {})
         /\ Tells(JointCase(q, "negated"), "negated", {Asked(q.person, q.relation, "current")}, OneText(JointFacts(q, "negated"), "negated"), {})
         /\ Tells(JointCase(q, "historical"), "historical", {Asked(q.person, q.relation, "current")}, OneText(JointFacts(q, "historical"), "historical"), {})
         /\ Tells(JointCase(q, "empty"), "empty", {Asked(q.person, q.relation, "current")}, OneText(JointFacts(q, "empty"), "empty"), {})
<1>1. Tells(JointCase(q, "correct"), "correct", {Asked(q.person, q.relation, "current")}, OneText(JointFacts(q, "correct"), "correct"), {Fact(q.person, q.relation, q.city)})
  <2>1. JointCase(q, "correct") = BindingCase(q, "correct", "current", JointFacts(q, "correct"), TRUE)
    <3>1. ("correct" \in JointSupported) = TRUE
      BY DEF JointSupported
    <3> QED  BY <3>1 DEF JointCase
  <2>2. Says(JointFacts(q, "correct"), q, "current", {Fact(q.person, q.relation, q.city)})
    BY JointSays
  <2> QED  BY <2>1, <2>2, BindingTells DEF Says, Questioned
<1>2. Tells(JointCase(q, "paraphrase"), "paraphrase", {Asked(q.person, q.relation, "current")}, OneText(JointFacts(q, "paraphrase"), "paraphrase"), {Fact(q.person, q.relation, q.city)})
  <2>1. JointCase(q, "paraphrase") = BindingCase(q, "paraphrase", "current", JointFacts(q, "paraphrase"), TRUE)
    <3>1. ("paraphrase" \in JointSupported) = TRUE
      BY DEF JointSupported
    <3> QED  BY <3>1 DEF JointCase
  <2>2. Says(JointFacts(q, "paraphrase"), q, "current", {Fact(q.person, q.relation, q.city)})
    BY JointSays
  <2> QED  BY <2>1, <2>2, BindingTells DEF Says, Questioned
<1>3. Tells(JointCase(q, "role_swap"), "role_swap", {Asked(q.person, q.relation, "current")}, OneText(JointFacts(q, "role_swap"), "role_swap"), {})
  <2>1. JointCase(q, "role_swap") = BindingCase(q, "role_swap", "current", JointFacts(q, "role_swap"), FALSE)
    <3>1. ("role_swap" \in JointSupported) = FALSE
      BY DEF JointSupported
    <3> QED  BY <3>1 DEF JointCase
  <2>2. Says(JointFacts(q, "role_swap"), q, "current", {})
    BY JointSays
  <2> QED  BY <2>1, <2>2, BindingTells DEF Says, Questioned
<1>4. Tells(JointCase(q, "value_swap"), "value_swap", {Asked(q.person, q.relation, "current")}, OneText(JointFacts(q, "value_swap"), "value_swap"), {Fact(q.person, q.relation, q.alternate)})
  <2>1. JointCase(q, "value_swap") = BindingCase(q, "value_swap", "current", JointFacts(q, "value_swap"), TRUE)
    <3>1. ("value_swap" \in JointSupported) = TRUE
      BY DEF JointSupported
    <3> QED  BY <3>1 DEF JointCase
  <2>2. Says(JointFacts(q, "value_swap"), q, "current", {Fact(q.person, q.relation, q.alternate)})
    BY JointSays
  <2> QED  BY <2>1, <2>2, BindingTells DEF Says, Questioned
<1>5. Tells(JointCase(q, "clause_reorder"), "clause_reorder", {Asked(q.person, q.relation, "current")}, OneText(JointFacts(q, "clause_reorder"), "clause_reorder"), {Fact(q.person, q.relation, q.city)})
  <2>1. JointCase(q, "clause_reorder") = BindingCase(q, "clause_reorder", "current", JointFacts(q, "clause_reorder"), TRUE)
    <3>1. ("clause_reorder" \in JointSupported) = TRUE
      BY DEF JointSupported
    <3> QED  BY <3>1 DEF JointCase
  <2>2. Says(JointFacts(q, "clause_reorder"), q, "current", {Fact(q.person, q.relation, q.city)})
    BY JointSays
  <2> QED  BY <2>1, <2>2, BindingTells DEF Says, Questioned
<1>6. Tells(JointCase(q, "wrong_subject"), "wrong_subject", {Asked(q.person, q.relation, "current")}, OneText(JointFacts(q, "wrong_subject"), "wrong_subject"), {})
  <2>1. JointCase(q, "wrong_subject") = BindingCase(q, "wrong_subject", "current", JointFacts(q, "wrong_subject"), FALSE)
    <3>1. ("wrong_subject" \in JointSupported) = FALSE
      BY DEF JointSupported
    <3> QED  BY <3>1 DEF JointCase
  <2>2. Says(JointFacts(q, "wrong_subject"), q, "current", {})
    BY JointSays
  <2> QED  BY <2>1, <2>2, BindingTells DEF Says, Questioned
<1>7. Tells(JointCase(q, "wrong_relation"), "wrong_relation", {Asked(q.person, q.relation, "current")}, OneText(JointFacts(q, "wrong_relation"), "wrong_relation"), {})
  <2>1. JointCase(q, "wrong_relation") = BindingCase(q, "wrong_relation", "current", JointFacts(q, "wrong_relation"), FALSE)
    <3>1. ("wrong_relation" \in JointSupported) = FALSE
      BY DEF JointSupported
    <3> QED  BY <3>1 DEF JointCase
  <2>2. Says(JointFacts(q, "wrong_relation"), q, "current", {})
    BY JointSays
  <2> QED  BY <2>1, <2>2, BindingTells DEF Says, Questioned
<1>8. Tells(JointCase(q, "negated"), "negated", {Asked(q.person, q.relation, "current")}, OneText(JointFacts(q, "negated"), "negated"), {})
  <2>1. JointCase(q, "negated") = BindingCase(q, "negated", "current", JointFacts(q, "negated"), FALSE)
    <3>1. ("negated" \in JointSupported) = FALSE
      BY DEF JointSupported
    <3> QED  BY <3>1 DEF JointCase
  <2>2. Says(JointFacts(q, "negated"), q, "current", {})
    BY JointSays
  <2> QED  BY <2>1, <2>2, BindingTells DEF Says, Questioned
<1>9. Tells(JointCase(q, "historical"), "historical", {Asked(q.person, q.relation, "current")}, OneText(JointFacts(q, "historical"), "historical"), {})
  <2>1. JointCase(q, "historical") = BindingCase(q, "historical", "current", JointFacts(q, "historical"), FALSE)
    <3>1. ("historical" \in JointSupported) = FALSE
      BY DEF JointSupported
    <3> QED  BY <3>1 DEF JointCase
  <2>2. Says(JointFacts(q, "historical"), q, "current", {})
    BY JointSays
  <2> QED  BY <2>1, <2>2, BindingTells DEF Says, Questioned
<1>10. Tells(JointCase(q, "empty"), "empty", {Asked(q.person, q.relation, "current")}, OneText(JointFacts(q, "empty"), "empty"), {})
  <2>1. JointCase(q, "empty") = BindingCase(q, "empty", "current", JointFacts(q, "empty"), FALSE)
    <3>1. ("empty" \in JointSupported) = FALSE
      BY DEF JointSupported
    <3> QED  BY <3>1 DEF JointCase
  <2>2. Says(JointFacts(q, "empty"), q, "current", {})
    BY JointSays
  <2> QED  BY <2>1, <2>2, BindingTells DEF Says, Questioned
<1> QED  BY <1>1, <1>2, <1>3, <1>4, <1>5, <1>6, <1>7, <1>8, <1>9, <1>10

LEMMA ExpandedTells ==
  ASSUME NEW q, Questioned(q)
  PROVE  /\ Tells(ExpandedCase(q, "correct"), "correct", {Asked(q.person, q.relation, "current")}, OneText(ExpandedFacts(q, "correct"), "correct"), {Fact(q.person, q.relation, q.city)})
         /\ Tells(ExpandedCase(q, "wrong_time"), "wrong_time", {Asked(q.person, q.relation, "2020")}, OneText(ExpandedFacts(q, "wrong_time"), "wrong_time"), {})
         /\ Tells(ExpandedCase(q, "role_swap"), "role_swap", {Asked(q.person, q.relation, "current")}, OneText(ExpandedFacts(q, "role_swap"), "role_swap"), {})
         /\ Tells(ExpandedCase(q, "empty"), "empty", {Asked(q.person, q.relation, "current")}, OneText(ExpandedFacts(q, "empty"), "empty"), {})
         /\ Tells(ExpandedCase(q, "historical_stated"), "historical_stated", {Asked(q.person, q.relation, "2020")}, OneText(ExpandedFacts(q, "historical_stated"), "historical_stated"), {Stated(q.person, q.relation, q.alternate, "2020", "actual")})
         /\ Tells(ExpandedCase(q, "multi_fact"), "multi_fact", {Asked(q.person, q.relation, "current")}, OneText(ExpandedFacts(q, "multi_fact"), "multi_fact"), {Fact(q.person, q.relation, q.city)})
         /\ Tells(ExpandedCase(q, "hypothetical"), "hypothetical", {Asked(q.person, q.relation, "current")}, OneText(ExpandedFacts(q, "hypothetical"), "hypothetical"), {})
         /\ Tells(ExpandedCase(q, "quoted"), "quoted", {Asked(q.person, q.relation, "current")}, OneText(ExpandedFacts(q, "quoted"), "quoted"), {})
<1>1. Tells(ExpandedCase(q, "correct"), "correct", {Asked(q.person, q.relation, "current")}, OneText(ExpandedFacts(q, "correct"), "correct"), {Fact(q.person, q.relation, q.city)})
  <2>1. ExpandedCase(q, "correct") = BindingCase(q, "correct", "current", ExpandedFacts(q, "correct"), TRUE)
    <3>1. ("correct" \in ExpandedSupported) = TRUE
      BY DEF ExpandedSupported
    <3> QED  BY <3>1 DEF ExpandedCase, AskedTime
  <2>2. Says(ExpandedFacts(q, "correct"), q, "current", {Fact(q.person, q.relation, q.city)})
    BY ExpandedSays
  <2> QED  BY <2>1, <2>2, BindingTells DEF Says, Questioned
<1>2. Tells(ExpandedCase(q, "wrong_time"), "wrong_time", {Asked(q.person, q.relation, "2020")}, OneText(ExpandedFacts(q, "wrong_time"), "wrong_time"), {})
  <2>1. ExpandedCase(q, "wrong_time") = BindingCase(q, "wrong_time", "2020", ExpandedFacts(q, "wrong_time"), FALSE)
    <3>1. ("wrong_time" \in ExpandedSupported) = FALSE
      BY DEF ExpandedSupported
    <3> QED  BY <3>1 DEF ExpandedCase, AskedTime
  <2>2. Says(ExpandedFacts(q, "wrong_time"), q, "2020", {})
    BY ExpandedSays
  <2> QED  BY <2>1, <2>2, BindingTells DEF Says, Questioned
<1>3. Tells(ExpandedCase(q, "role_swap"), "role_swap", {Asked(q.person, q.relation, "current")}, OneText(ExpandedFacts(q, "role_swap"), "role_swap"), {})
  <2>1. ExpandedCase(q, "role_swap") = BindingCase(q, "role_swap", "current", ExpandedFacts(q, "role_swap"), FALSE)
    <3>1. ("role_swap" \in ExpandedSupported) = FALSE
      BY DEF ExpandedSupported
    <3> QED  BY <3>1 DEF ExpandedCase, AskedTime
  <2>2. Says(ExpandedFacts(q, "role_swap"), q, "current", {})
    BY ExpandedSays
  <2> QED  BY <2>1, <2>2, BindingTells DEF Says, Questioned
<1>4. Tells(ExpandedCase(q, "empty"), "empty", {Asked(q.person, q.relation, "current")}, OneText(ExpandedFacts(q, "empty"), "empty"), {})
  <2>1. ExpandedCase(q, "empty") = BindingCase(q, "empty", "current", ExpandedFacts(q, "empty"), FALSE)
    <3>1. ("empty" \in ExpandedSupported) = FALSE
      BY DEF ExpandedSupported
    <3> QED  BY <3>1 DEF ExpandedCase, AskedTime
  <2>2. Says(ExpandedFacts(q, "empty"), q, "current", {})
    BY ExpandedSays
  <2> QED  BY <2>1, <2>2, BindingTells DEF Says, Questioned
<1>5. Tells(ExpandedCase(q, "historical_stated"), "historical_stated", {Asked(q.person, q.relation, "2020")}, OneText(ExpandedFacts(q, "historical_stated"), "historical_stated"), {Stated(q.person, q.relation, q.alternate, "2020", "actual")})
  <2>1. ExpandedCase(q, "historical_stated") = BindingCase(q, "historical_stated", "2020", ExpandedFacts(q, "historical_stated"), TRUE)
    <3>1. ("historical_stated" \in ExpandedSupported) = TRUE
      BY DEF ExpandedSupported
    <3> QED  BY <3>1 DEF ExpandedCase, AskedTime
  <2>2. Says(ExpandedFacts(q, "historical_stated"), q, "2020", {Stated(q.person, q.relation, q.alternate, "2020", "actual")})
    BY ExpandedSays
  <2> QED  BY <2>1, <2>2, BindingTells DEF Says, Questioned
<1>6. Tells(ExpandedCase(q, "multi_fact"), "multi_fact", {Asked(q.person, q.relation, "current")}, OneText(ExpandedFacts(q, "multi_fact"), "multi_fact"), {Fact(q.person, q.relation, q.city)})
  <2>1. ExpandedCase(q, "multi_fact") = BindingCase(q, "multi_fact", "current", ExpandedFacts(q, "multi_fact"), TRUE)
    <3>1. ("multi_fact" \in ExpandedSupported) = TRUE
      BY DEF ExpandedSupported
    <3> QED  BY <3>1 DEF ExpandedCase, AskedTime
  <2>2. Says(ExpandedFacts(q, "multi_fact"), q, "current", {Fact(q.person, q.relation, q.city)})
    BY ExpandedSays
  <2> QED  BY <2>1, <2>2, BindingTells DEF Says, Questioned
<1>7. Tells(ExpandedCase(q, "hypothetical"), "hypothetical", {Asked(q.person, q.relation, "current")}, OneText(ExpandedFacts(q, "hypothetical"), "hypothetical"), {})
  <2>1. ExpandedCase(q, "hypothetical") = BindingCase(q, "hypothetical", "current", ExpandedFacts(q, "hypothetical"), FALSE)
    <3>1. ("hypothetical" \in ExpandedSupported) = FALSE
      BY DEF ExpandedSupported
    <3> QED  BY <3>1 DEF ExpandedCase, AskedTime
  <2>2. Says(ExpandedFacts(q, "hypothetical"), q, "current", {})
    BY ExpandedSays
  <2> QED  BY <2>1, <2>2, BindingTells DEF Says, Questioned
<1>8. Tells(ExpandedCase(q, "quoted"), "quoted", {Asked(q.person, q.relation, "current")}, OneText(ExpandedFacts(q, "quoted"), "quoted"), {})
  <2>1. ExpandedCase(q, "quoted") = BindingCase(q, "quoted", "current", ExpandedFacts(q, "quoted"), FALSE)
    <3>1. ("quoted" \in ExpandedSupported) = FALSE
      BY DEF ExpandedSupported
    <3> QED  BY <3>1 DEF ExpandedCase, AskedTime
  <2>2. Says(ExpandedFacts(q, "quoted"), q, "current", {})
    BY ExpandedSays
  <2> QED  BY <2>1, <2>2, BindingTells DEF Says, Questioned
<1> QED  BY <1>1, <1>2, <1>3, <1>4, <1>5, <1>6, <1>7, <1>8

LEMMA DialogueTells ==
  ASSUME NEW q, Questioned(q)
  PROVE  /\ Tells(DialogueCase(q, "correct"), "correct", {Asked(q.person, q.relation, "current")}, OneText(DialogueFacts(q, "correct"), "correct"), {Fact(q.person, q.relation, q.city)})
         /\ Tells(DialogueCase(q, "role_swap"), "role_swap", {Asked(q.person, q.relation, "current")}, OneText(DialogueFacts(q, "role_swap"), "role_swap"), {})
         /\ Tells(DialogueCase(q, "empty"), "empty", {Asked(q.person, q.relation, "current")}, OneText(DialogueFacts(q, "empty"), "empty"), {})
         /\ Tells(DialogueCase(q, "multi_fact"), "multi_fact", {Asked(q.person, q.relation, "current")}, OneText(DialogueFacts(q, "multi_fact"), "multi_fact"), {Fact(q.person, q.relation, q.city)})
<1>1. Tells(DialogueCase(q, "correct"), "correct", {Asked(q.person, q.relation, "current")}, OneText(DialogueFacts(q, "correct"), "correct"), {Fact(q.person, q.relation, q.city)})
  <2>1. DialogueCase(q, "correct") = BindingCase(q, "correct", "current", DialogueFacts(q, "correct"), TRUE)
    <3>1. ("correct" \in DialogueSupported) = TRUE
      BY DEF DialogueSupported
    <3> QED  BY <3>1 DEF DialogueCase
  <2>2. Says(DialogueFacts(q, "correct"), q, "current", {Fact(q.person, q.relation, q.city)})
    BY DialogueSays
  <2> QED  BY <2>1, <2>2, BindingTells DEF Says, Questioned
<1>2. Tells(DialogueCase(q, "role_swap"), "role_swap", {Asked(q.person, q.relation, "current")}, OneText(DialogueFacts(q, "role_swap"), "role_swap"), {})
  <2>1. DialogueCase(q, "role_swap") = BindingCase(q, "role_swap", "current", DialogueFacts(q, "role_swap"), FALSE)
    <3>1. ("role_swap" \in DialogueSupported) = FALSE
      BY DEF DialogueSupported
    <3> QED  BY <3>1 DEF DialogueCase
  <2>2. Says(DialogueFacts(q, "role_swap"), q, "current", {})
    BY DialogueSays
  <2> QED  BY <2>1, <2>2, BindingTells DEF Says, Questioned
<1>3. Tells(DialogueCase(q, "empty"), "empty", {Asked(q.person, q.relation, "current")}, OneText(DialogueFacts(q, "empty"), "empty"), {})
  <2>1. DialogueCase(q, "empty") = BindingCase(q, "empty", "current", DialogueFacts(q, "empty"), FALSE)
    <3>1. ("empty" \in DialogueSupported) = FALSE
      BY DEF DialogueSupported
    <3> QED  BY <3>1 DEF DialogueCase
  <2>2. Says(DialogueFacts(q, "empty"), q, "current", {})
    BY DialogueSays
  <2> QED  BY <2>1, <2>2, BindingTells DEF Says, Questioned
<1>4. Tells(DialogueCase(q, "multi_fact"), "multi_fact", {Asked(q.person, q.relation, "current")}, OneText(DialogueFacts(q, "multi_fact"), "multi_fact"), {Fact(q.person, q.relation, q.city)})
  <2>1. DialogueCase(q, "multi_fact") = BindingCase(q, "multi_fact", "current", DialogueFacts(q, "multi_fact"), TRUE)
    <3>1. ("multi_fact" \in DialogueSupported) = TRUE
      BY DEF DialogueSupported
    <3> QED  BY <3>1 DEF DialogueCase
  <2>2. Says(DialogueFacts(q, "multi_fact"), q, "current", {Fact(q.person, q.relation, q.city)})
    BY DialogueSays
  <2> QED  BY <2>1, <2>2, BindingTells DEF Says, Questioned
<1> QED  BY <1>1, <1>2, <1>3, <1>4

\* Labels that follow, and pairs that show what they are made for.
LabelsTrue(cases) == \A c \in cases : LabelFollows(c)
PairsTrue(cases, pairs) ==
  \A c, d \in cases : \A p \in pairs :
    (c.scenario = p[1] /\ d.scenario = p[2]
       /\ {q.relation : q \in c.ask} = {q.relation : q \in d.ask}) => PairShows(c, d, p[3])

BindingWorld(w) ==
  /\ w.number \in Nat /\ w.people[1] # w.people[2] /\ w.cities[1] # w.cities[2]
  /\ w.people[1] # "who" /\ w.people[2] # "who"

LEMMA AskingIs ==
  ASSUME NEW w, BindingWorld(w), NEW r \in 1..2
  PROVE  /\ Questioned(Asking(w, r)) /\ Asking(w, r).relation = Relations[r]
         /\ Asking(w, r).person \in {w.people[1], w.people[2]}
         /\ Asking(w, r).bystander \in {w.people[1], w.people[2]}
<1> DEFINE target == (w.number % 2) + 1
<1>1. target \in {1, 2} /\ 3 - target \in {1, 2} /\ target # 3 - target
  BY DEF BindingWorld
<1>2. r \in {1, 2} /\ 3 - r \in {1, 2} /\ r # 3 - r
  OBVIOUS
<1>3. Relations[1] = "home_city" /\ Relations[2] = "work_city"
  BY DEF Relations
<1>4. Asking(w, r) = [person |-> w.people[target], bystander |-> w.people[3 - target],
                      relation |-> Relations[r], aside |-> Relations[3 - r],
                      city |-> w.cities[r], alternate |-> w.cities[3 - r]]
  BY DEF Asking
<1> HIDE DEF target
<1>5. w.people[target] # w.people[3 - target]
  BY <1>1 DEF BindingWorld
<1>6. w.cities[r] # w.cities[3 - r] /\ Relations[r] # Relations[3 - r]
  BY <1>2, <1>3 DEF BindingWorld
<1>7. Relations[r] \in {"home_city", "work_city"} /\ Relations[3 - r] \in {"home_city", "work_city"}
  BY <1>2, <1>3
<1>8. w.people[target] # "who"
  BY <1>1 DEF BindingWorld
<1>9. w.people[target] \in {w.people[1], w.people[2]} /\ w.people[3 - target] \in {w.people[1], w.people[2]}
  BY <1>1
<1> QED  BY <1>4, <1>5, <1>6, <1>7, <1>8, <1>9 DEF Questioned

\* The facts of a binding case are about the two people of its question.
About(q, facts) == \A f \in ToSet(facts) : f.subject \in {q.person, q.bystander}

LEMMA JointAbout ==
  ASSUME NEW q
  PROVE  /\ About(q, JointFacts(q, "correct"))
         /\ About(q, JointFacts(q, "paraphrase"))
         /\ About(q, JointFacts(q, "role_swap"))
         /\ About(q, JointFacts(q, "value_swap"))
         /\ About(q, JointFacts(q, "clause_reorder"))
         /\ About(q, JointFacts(q, "wrong_subject"))
         /\ About(q, JointFacts(q, "wrong_relation"))
         /\ About(q, JointFacts(q, "negated"))
         /\ About(q, JointFacts(q, "historical"))
         /\ About(q, JointFacts(q, "empty"))
<1>1. About(q, JointFacts(q, "correct"))
  <2>1. ToSet(JointFacts(q, "correct")) = {Fact(q.person, q.relation, q.city), Fact(q.bystander, q.aside, q.alternate)}
    <3>1. JointFacts(q, "correct") = <<Fact(q.person, q.relation, q.city), Fact(q.bystander, q.aside, q.alternate)>>
      BY JointTexts
    <3>2. ToSet(<<Fact(q.person, q.relation, q.city), Fact(q.bystander, q.aside, q.alternate)>>) = {Fact(q.person, q.relation, q.city), Fact(q.bystander, q.aside, q.alternate)}
      BY ShortLists
    <3> QED  BY <3>1, <3>2
  <2> QED  BY <2>1, StatedIs, FactIs DEF About
<1>2. About(q, JointFacts(q, "paraphrase"))
  <2>1. ToSet(JointFacts(q, "paraphrase")) = {Fact(q.person, q.relation, q.city), Fact(q.bystander, q.aside, q.alternate)}
    <3>1. JointFacts(q, "paraphrase") = <<Fact(q.person, q.relation, q.city), Fact(q.bystander, q.aside, q.alternate)>>
      BY JointTexts
    <3>2. ToSet(<<Fact(q.person, q.relation, q.city), Fact(q.bystander, q.aside, q.alternate)>>) = {Fact(q.person, q.relation, q.city), Fact(q.bystander, q.aside, q.alternate)}
      BY ShortLists
    <3> QED  BY <3>1, <3>2
  <2> QED  BY <2>1, StatedIs, FactIs DEF About
<1>3. About(q, JointFacts(q, "role_swap"))
  <2>1. ToSet(JointFacts(q, "role_swap")) = {Fact(q.bystander, q.relation, q.city), Fact(q.person, q.aside, q.alternate)}
    <3>1. JointFacts(q, "role_swap") = <<Fact(q.bystander, q.relation, q.city), Fact(q.person, q.aside, q.alternate)>>
      BY JointTexts
    <3>2. ToSet(<<Fact(q.bystander, q.relation, q.city), Fact(q.person, q.aside, q.alternate)>>) = {Fact(q.bystander, q.relation, q.city), Fact(q.person, q.aside, q.alternate)}
      BY ShortLists
    <3> QED  BY <3>1, <3>2
  <2> QED  BY <2>1, StatedIs, FactIs DEF About
<1>4. About(q, JointFacts(q, "value_swap"))
  <2>1. ToSet(JointFacts(q, "value_swap")) = {Fact(q.person, q.relation, q.alternate), Fact(q.bystander, q.aside, q.city)}
    <3>1. JointFacts(q, "value_swap") = <<Fact(q.person, q.relation, q.alternate), Fact(q.bystander, q.aside, q.city)>>
      BY JointTexts
    <3>2. ToSet(<<Fact(q.person, q.relation, q.alternate), Fact(q.bystander, q.aside, q.city)>>) = {Fact(q.person, q.relation, q.alternate), Fact(q.bystander, q.aside, q.city)}
      BY ShortLists
    <3> QED  BY <3>1, <3>2
  <2> QED  BY <2>1, StatedIs, FactIs DEF About
<1>5. About(q, JointFacts(q, "clause_reorder"))
  <2>1. ToSet(JointFacts(q, "clause_reorder")) = {Fact(q.bystander, q.aside, q.alternate), Fact(q.person, q.relation, q.city)}
    <3>1. JointFacts(q, "clause_reorder") = <<Fact(q.bystander, q.aside, q.alternate), Fact(q.person, q.relation, q.city)>>
      BY JointTexts
    <3>2. ToSet(<<Fact(q.bystander, q.aside, q.alternate), Fact(q.person, q.relation, q.city)>>) = {Fact(q.bystander, q.aside, q.alternate), Fact(q.person, q.relation, q.city)}
      BY ShortLists
    <3> QED  BY <3>1, <3>2
  <2> QED  BY <2>1, StatedIs, FactIs DEF About
<1>6. About(q, JointFacts(q, "wrong_subject"))
  <2>1. ToSet(JointFacts(q, "wrong_subject")) = {Fact(q.bystander, q.relation, q.city)}
    <3>1. JointFacts(q, "wrong_subject") = <<Fact(q.bystander, q.relation, q.city)>>
      BY JointTexts
    <3>2. ToSet(<<Fact(q.bystander, q.relation, q.city)>>) = {Fact(q.bystander, q.relation, q.city)}
      BY ShortLists
    <3> QED  BY <3>1, <3>2
  <2> QED  BY <2>1, StatedIs, FactIs DEF About
<1>7. About(q, JointFacts(q, "wrong_relation"))
  <2>1. ToSet(JointFacts(q, "wrong_relation")) = {Fact(q.person, q.aside, q.city)}
    <3>1. JointFacts(q, "wrong_relation") = <<Fact(q.person, q.aside, q.city)>>
      BY JointTexts
    <3>2. ToSet(<<Fact(q.person, q.aside, q.city)>>) = {Fact(q.person, q.aside, q.city)}
      BY ShortLists
    <3> QED  BY <3>1, <3>2
  <2> QED  BY <2>1, StatedIs, FactIs DEF About
<1>8. About(q, JointFacts(q, "negated"))
  <2>1. ToSet(JointFacts(q, "negated")) = {Stated(q.person, q.relation, q.city, "current", "negated")}
    <3>1. JointFacts(q, "negated") = <<Stated(q.person, q.relation, q.city, "current", "negated")>>
      BY JointTexts
    <3>2. ToSet(<<Stated(q.person, q.relation, q.city, "current", "negated")>>) = {Stated(q.person, q.relation, q.city, "current", "negated")}
      BY ShortLists
    <3> QED  BY <3>1, <3>2
  <2> QED  BY <2>1, StatedIs, FactIs DEF About
<1>9. About(q, JointFacts(q, "historical"))
  <2>1. ToSet(JointFacts(q, "historical")) = {Stated(q.person, q.relation, q.city, "2020", "actual")}
    <3>1. JointFacts(q, "historical") = <<Stated(q.person, q.relation, q.city, "2020", "actual")>>
      BY JointTexts
    <3>2. ToSet(<<Stated(q.person, q.relation, q.city, "2020", "actual")>>) = {Stated(q.person, q.relation, q.city, "2020", "actual")}
      BY ShortLists
    <3> QED  BY <3>1, <3>2
  <2> QED  BY <2>1, StatedIs, FactIs DEF About
<1>10. About(q, JointFacts(q, "empty"))
  <2>1. ToSet(JointFacts(q, "empty")) = {}
    <3>1. JointFacts(q, "empty") = <<>>
      BY JointTexts
    <3>2. ToSet(<<>>) = {}
      BY ShortLists
    <3> QED  BY <3>1, <3>2
  <2> QED  BY <2>1, StatedIs, FactIs DEF About
<1> QED  BY <1>1, <1>2, <1>3, <1>4, <1>5, <1>6, <1>7, <1>8, <1>9, <1>10

LEMMA ExpandedAbout ==
  ASSUME NEW q
  PROVE  /\ About(q, ExpandedFacts(q, "correct"))
         /\ About(q, ExpandedFacts(q, "wrong_time"))
         /\ About(q, ExpandedFacts(q, "role_swap"))
         /\ About(q, ExpandedFacts(q, "empty"))
         /\ About(q, ExpandedFacts(q, "historical_stated"))
         /\ About(q, ExpandedFacts(q, "multi_fact"))
         /\ About(q, ExpandedFacts(q, "hypothetical"))
         /\ About(q, ExpandedFacts(q, "quoted"))
<1>1. About(q, ExpandedFacts(q, "correct"))
  <2>1. ToSet(ExpandedFacts(q, "correct")) = {Fact(q.person, q.relation, q.city), Fact(q.bystander, q.aside, q.alternate)}
    <3>1. ExpandedFacts(q, "correct") = <<Fact(q.person, q.relation, q.city), Fact(q.bystander, q.aside, q.alternate)>>
      BY ExpandedTexts
    <3>2. ToSet(<<Fact(q.person, q.relation, q.city), Fact(q.bystander, q.aside, q.alternate)>>) = {Fact(q.person, q.relation, q.city), Fact(q.bystander, q.aside, q.alternate)}
      BY ShortLists
    <3> QED  BY <3>1, <3>2
  <2> QED  BY <2>1, StatedIs, FactIs DEF About
<1>2. About(q, ExpandedFacts(q, "wrong_time"))
  <2>1. ToSet(ExpandedFacts(q, "wrong_time")) = {Fact(q.person, q.relation, q.city), Fact(q.bystander, q.aside, q.alternate)}
    <3>1. ExpandedFacts(q, "wrong_time") = <<Fact(q.person, q.relation, q.city), Fact(q.bystander, q.aside, q.alternate)>>
      BY ExpandedTexts
    <3>2. ToSet(<<Fact(q.person, q.relation, q.city), Fact(q.bystander, q.aside, q.alternate)>>) = {Fact(q.person, q.relation, q.city), Fact(q.bystander, q.aside, q.alternate)}
      BY ShortLists
    <3> QED  BY <3>1, <3>2
  <2> QED  BY <2>1, StatedIs, FactIs DEF About
<1>3. About(q, ExpandedFacts(q, "role_swap"))
  <2>1. ToSet(ExpandedFacts(q, "role_swap")) = {Fact(q.bystander, q.relation, q.city), Fact(q.person, q.aside, q.alternate)}
    <3>1. ExpandedFacts(q, "role_swap") = <<Fact(q.bystander, q.relation, q.city), Fact(q.person, q.aside, q.alternate)>>
      BY ExpandedTexts
    <3>2. ToSet(<<Fact(q.bystander, q.relation, q.city), Fact(q.person, q.aside, q.alternate)>>) = {Fact(q.bystander, q.relation, q.city), Fact(q.person, q.aside, q.alternate)}
      BY ShortLists
    <3> QED  BY <3>1, <3>2
  <2> QED  BY <2>1, StatedIs, FactIs DEF About
<1>4. About(q, ExpandedFacts(q, "empty"))
  <2>1. ToSet(ExpandedFacts(q, "empty")) = {}
    <3>1. ExpandedFacts(q, "empty") = <<>>
      BY ExpandedTexts
    <3>2. ToSet(<<>>) = {}
      BY ShortLists
    <3> QED  BY <3>1, <3>2
  <2> QED  BY <2>1, StatedIs, FactIs DEF About
<1>5. About(q, ExpandedFacts(q, "historical_stated"))
  <2>1. ToSet(ExpandedFacts(q, "historical_stated")) = {Fact(q.person, q.relation, q.city), Stated(q.person, q.relation, q.alternate, "2020", "actual"), Fact(q.bystander, q.aside, q.alternate)}
    <3>1. ExpandedFacts(q, "historical_stated") = <<Fact(q.person, q.relation, q.city), Stated(q.person, q.relation, q.alternate, "2020", "actual"), Fact(q.bystander, q.aside, q.alternate)>>
      BY ExpandedTexts
    <3>2. ToSet(<<Fact(q.person, q.relation, q.city), Stated(q.person, q.relation, q.alternate, "2020", "actual"), Fact(q.bystander, q.aside, q.alternate)>>) = {Fact(q.person, q.relation, q.city), Stated(q.person, q.relation, q.alternate, "2020", "actual"), Fact(q.bystander, q.aside, q.alternate)}
      BY ShortLists
    <3> QED  BY <3>1, <3>2
  <2> QED  BY <2>1, StatedIs, FactIs DEF About
<1>6. About(q, ExpandedFacts(q, "multi_fact"))
  <2>1. ToSet(ExpandedFacts(q, "multi_fact")) = {Fact(q.person, q.relation, q.city), Fact(q.bystander, q.aside, q.alternate), Fact(q.person, q.aside, q.alternate)}
    <3>1. ExpandedFacts(q, "multi_fact") = <<Fact(q.person, q.relation, q.city), Fact(q.bystander, q.aside, q.alternate), Fact(q.person, q.aside, q.alternate)>>
      BY ExpandedTexts
    <3>2. ToSet(<<Fact(q.person, q.relation, q.city), Fact(q.bystander, q.aside, q.alternate), Fact(q.person, q.aside, q.alternate)>>) = {Fact(q.person, q.relation, q.city), Fact(q.bystander, q.aside, q.alternate), Fact(q.person, q.aside, q.alternate)}
      BY ShortLists
    <3> QED  BY <3>1, <3>2
  <2> QED  BY <2>1, StatedIs, FactIs DEF About
<1>7. About(q, ExpandedFacts(q, "hypothetical"))
  <2>1. ToSet(ExpandedFacts(q, "hypothetical")) = {Stated(q.person, q.relation, q.city, "current", "hypothetical"), Fact(q.bystander, q.aside, q.alternate)}
    <3>1. ExpandedFacts(q, "hypothetical") = <<Stated(q.person, q.relation, q.city, "current", "hypothetical"), Fact(q.bystander, q.aside, q.alternate)>>
      BY ExpandedTexts
    <3>2. ToSet(<<Stated(q.person, q.relation, q.city, "current", "hypothetical"), Fact(q.bystander, q.aside, q.alternate)>>) = {Stated(q.person, q.relation, q.city, "current", "hypothetical"), Fact(q.bystander, q.aside, q.alternate)}
      BY ShortLists
    <3> QED  BY <3>1, <3>2
  <2> QED  BY <2>1, StatedIs, FactIs DEF About
<1>8. About(q, ExpandedFacts(q, "quoted"))
  <2>1. ToSet(ExpandedFacts(q, "quoted")) = {Stated(q.person, q.relation, q.city, "current", "quoted"), Fact(q.bystander, q.aside, q.alternate)}
    <3>1. ExpandedFacts(q, "quoted") = <<Stated(q.person, q.relation, q.city, "current", "quoted"), Fact(q.bystander, q.aside, q.alternate)>>
      BY ExpandedTexts
    <3>2. ToSet(<<Stated(q.person, q.relation, q.city, "current", "quoted"), Fact(q.bystander, q.aside, q.alternate)>>) = {Stated(q.person, q.relation, q.city, "current", "quoted"), Fact(q.bystander, q.aside, q.alternate)}
      BY ShortLists
    <3> QED  BY <3>1, <3>2
  <2> QED  BY <2>1, StatedIs, FactIs DEF About
<1> QED  BY <1>1, <1>2, <1>3, <1>4, <1>5, <1>6, <1>7, <1>8

LEMMA DialogueAbout ==
  ASSUME NEW q
  PROVE  /\ About(q, DialogueFacts(q, "correct"))
         /\ About(q, DialogueFacts(q, "role_swap"))
         /\ About(q, DialogueFacts(q, "empty"))
         /\ About(q, DialogueFacts(q, "multi_fact"))
<1>1. About(q, DialogueFacts(q, "correct"))
  <2>1. ToSet(DialogueFacts(q, "correct")) = {Fact(q.person, q.relation, q.city), Fact(q.bystander, q.aside, q.alternate)}
    <3>1. DialogueFacts(q, "correct") = <<Fact(q.person, q.relation, q.city), Fact(q.bystander, q.aside, q.alternate)>>
      BY DialogueTexts
    <3>2. ToSet(<<Fact(q.person, q.relation, q.city), Fact(q.bystander, q.aside, q.alternate)>>) = {Fact(q.person, q.relation, q.city), Fact(q.bystander, q.aside, q.alternate)}
      BY ShortLists
    <3> QED  BY <3>1, <3>2
  <2> QED  BY <2>1, StatedIs, FactIs DEF About
<1>2. About(q, DialogueFacts(q, "role_swap"))
  <2>1. ToSet(DialogueFacts(q, "role_swap")) = {Fact(q.bystander, q.relation, q.city), Fact(q.person, q.aside, q.alternate)}
    <3>1. DialogueFacts(q, "role_swap") = <<Fact(q.bystander, q.relation, q.city), Fact(q.person, q.aside, q.alternate)>>
      BY DialogueTexts
    <3>2. ToSet(<<Fact(q.bystander, q.relation, q.city), Fact(q.person, q.aside, q.alternate)>>) = {Fact(q.bystander, q.relation, q.city), Fact(q.person, q.aside, q.alternate)}
      BY ShortLists
    <3> QED  BY <3>1, <3>2
  <2> QED  BY <2>1, StatedIs, FactIs DEF About
<1>3. About(q, DialogueFacts(q, "empty"))
  <2>1. ToSet(DialogueFacts(q, "empty")) = {}
    <3>1. DialogueFacts(q, "empty") = <<>>
      BY DialogueTexts
    <3>2. ToSet(<<>>) = {}
      BY ShortLists
    <3> QED  BY <3>1, <3>2
  <2> QED  BY <2>1, StatedIs, FactIs DEF About
<1>4. About(q, DialogueFacts(q, "multi_fact"))
  <2>1. ToSet(DialogueFacts(q, "multi_fact")) = {Fact(q.person, q.relation, q.city), Fact(q.bystander, q.aside, q.alternate), Fact(q.person, q.aside, q.alternate)}
    <3>1. DialogueFacts(q, "multi_fact") = <<Fact(q.person, q.relation, q.city), Fact(q.bystander, q.aside, q.alternate), Fact(q.person, q.aside, q.alternate)>>
      BY DialogueTexts
    <3>2. ToSet(<<Fact(q.person, q.relation, q.city), Fact(q.bystander, q.aside, q.alternate), Fact(q.person, q.aside, q.alternate)>>) = {Fact(q.person, q.relation, q.city), Fact(q.bystander, q.aside, q.alternate), Fact(q.person, q.aside, q.alternate)}
      BY ShortLists
    <3> QED  BY <3>1, <3>2
  <2> QED  BY <2>1, StatedIs, FactIs DEF About
<1> QED  BY <1>1, <1>2, <1>3, <1>4

LEMMA JointShows ==
  ASSUME NEW q, Questioned(q)
  PROVE  /\ PairShows(JointCase(q, "correct"), JointCase(q, "paraphrase"), "any")
         /\ PairShows(JointCase(q, "correct"), JointCase(q, "role_swap"), "any")
         /\ PairShows(JointCase(q, "correct"), JointCase(q, "value_swap"), "any")
         /\ PairShows(JointCase(q, "correct"), JointCase(q, "clause_reorder"), "any")
         /\ PairShows(JointCase(q, "correct"), JointCase(q, "wrong_subject"), "any")
         /\ PairShows(JointCase(q, "correct"), JointCase(q, "wrong_relation"), "any")
         /\ PairShows(JointCase(q, "correct"), JointCase(q, "negated"), "any")
         /\ PairShows(JointCase(q, "correct"), JointCase(q, "historical"), "any")
         /\ PairShows(JointCase(q, "correct"), JointCase(q, "empty"), "any")
<1>1. PairShows(JointCase(q, "correct"), JointCase(q, "paraphrase"), "any")
  <2>1. JointFacts(q, "correct") # <<>>
    <3>1. Answering(q.person, q.relation, "current", JointFacts(q, "correct")) # {}
      BY JointSays DEF Says
    <3>2. ToSet(JointFacts(q, "correct")) # {}
      BY <3>1 DEF Answering
    <3> QED  BY <3>2, ShortLists
  <2>2. Style("correct") # Style("paraphrase")
    BY DEF Style
  <2>3. OneText(JointFacts(q, "correct"), "correct") # OneText(JointFacts(q, "paraphrase"), "paraphrase")
    BY <2>1, <2>2, TextsDiffer
  <2> QED  BY <2>3, JointTells, PairSame
<1>2. PairShows(JointCase(q, "correct"), JointCase(q, "role_swap"), "any")
  BY JointTells, PairDiffers
<1>3. PairShows(JointCase(q, "correct"), JointCase(q, "value_swap"), "any")
  <2>1. Fact(q.person, q.relation, q.city)
          # Fact(q.person, q.relation, q.alternate)
    BY StatedIs, FactIs DEF Questioned
  <2> QED  BY <2>1, JointTells, PairDiffers
<1>4. PairShows(JointCase(q, "correct"), JointCase(q, "clause_reorder"), "any")
  <2>1. JointFacts(q, "correct")[1].subject = q.person /\ JointFacts(q, "clause_reorder")[1].subject = q.bystander
    <3>1. JointFacts(q, "correct")[1] = Fact(q.person, q.relation, q.city)
      BY JointTexts
    <3>2. JointFacts(q, "clause_reorder")[1] = Fact(q.bystander, q.aside, q.alternate)
      BY JointTexts
    <3> QED  BY <3>1, <3>2, StatedIs, FactIs
  <2>2. JointFacts(q, "correct") # JointFacts(q, "clause_reorder")
    BY <2>1 DEF Questioned
  <2>3. OneText(JointFacts(q, "correct"), "correct") # OneText(JointFacts(q, "clause_reorder"), "clause_reorder")
    BY <2>2, TextsDiffer
  <2> QED  BY <2>3, JointTells, PairSame
<1>5. PairShows(JointCase(q, "correct"), JointCase(q, "wrong_subject"), "any")
  BY JointTells, PairDiffers
<1>6. PairShows(JointCase(q, "correct"), JointCase(q, "wrong_relation"), "any")
  BY JointTells, PairDiffers
<1>7. PairShows(JointCase(q, "correct"), JointCase(q, "negated"), "any")
  BY JointTells, PairDiffers
<1>8. PairShows(JointCase(q, "correct"), JointCase(q, "historical"), "any")
  BY JointTells, PairDiffers
<1>9. PairShows(JointCase(q, "correct"), JointCase(q, "empty"), "any")
  BY JointTells, PairDiffers
<1> QED  BY <1>1, <1>2, <1>3, <1>4, <1>5, <1>6, <1>7, <1>8, <1>9

LEMMA ExpandedShows ==
  ASSUME NEW q, Questioned(q)
  PROVE  /\ PairShows(ExpandedCase(q, "correct"), ExpandedCase(q, "role_swap"), "any")
         /\ PairShows(ExpandedCase(q, "correct"), ExpandedCase(q, "empty"), "any")
         /\ PairShows(ExpandedCase(q, "correct"), ExpandedCase(q, "hypothetical"), "any")
         /\ PairShows(ExpandedCase(q, "correct"), ExpandedCase(q, "quoted"), "any")
         /\ PairShows(ExpandedCase(q, "wrong_time"), ExpandedCase(q, "historical_stated"), "any")
<1>1. PairShows(ExpandedCase(q, "correct"), ExpandedCase(q, "role_swap"), "any")
  BY ExpandedTells, PairDiffers
<1>2. PairShows(ExpandedCase(q, "correct"), ExpandedCase(q, "empty"), "any")
  BY ExpandedTells, PairDiffers
<1>3. PairShows(ExpandedCase(q, "correct"), ExpandedCase(q, "hypothetical"), "any")
  BY ExpandedTells, PairDiffers
<1>4. PairShows(ExpandedCase(q, "correct"), ExpandedCase(q, "quoted"), "any")
  BY ExpandedTells, PairDiffers
<1>5. PairShows(ExpandedCase(q, "wrong_time"), ExpandedCase(q, "historical_stated"), "any")
  BY ExpandedTells, PairDiffers
<1> QED  BY <1>1, <1>2, <1>3, <1>4, <1>5

LEMMA DialogueShows ==
  ASSUME NEW q, Questioned(q)
  PROVE  /\ PairShows(DialogueCase(q, "correct"), DialogueCase(q, "role_swap"), "any")
         /\ PairShows(DialogueCase(q, "correct"), DialogueCase(q, "empty"), "any")
<1>1. PairShows(DialogueCase(q, "correct"), DialogueCase(q, "role_swap"), "any")
  BY DialogueTells, PairDiffers
<1>2. PairShows(DialogueCase(q, "correct"), DialogueCase(q, "empty"), "any")
  BY DialogueTells, PairDiffers
<1> QED  BY <1>1, <1>2

\* The ordinary cases of the joint corpus.
LEMMA JointOrdinary ==
  ASSUME NEW q
  PROVE  /\ JointCase(q, "ordinary_source").scenario = "ordinary_source"
         /\ JointCase(q, "ordinary_empty").scenario = "ordinary_empty"
         /\ LabelFollows(JointCase(q, "ordinary_source")) /\ LabelFollows(JointCase(q, "ordinary_empty"))
         /\ JointCase(q, "ordinary_source").episodes = OneText(<<Target(q), Distractor(q)>>, "ordinary_source")
         /\ JointCase(q, "ordinary_empty").episodes = OneText(<<>>, "ordinary_empty")
         /\ JointCase(q, "ordinary_source").context = <<"sum", {}>> /\ JointCase(q, "ordinary_source").ask = {}
         /\ JointCase(q, "ordinary_empty").context = <<"sum", {}>> /\ JointCase(q, "ordinary_empty").ask = {}
         /\ JointCase(q, "ordinary_source").needed = FALSE /\ JointCase(q, "ordinary_empty").needed = FALSE
<1>1. ASSUME NEW r
      PROVE  LET c == JointCase(r, "ordinary_source")
             IN /\ c.scenario = "ordinary_source" /\ c.context = <<"sum", {}>> /\ c.ask = {} /\ c.needed = FALSE
                /\ c.episodes = OneText(<<Target(r), Distractor(r)>>, "ordinary_source")
                /\ LabelFollows(c)
  <2> DEFINE e == OneText(<<Target(r), Distractor(r)>>, "ordinary_source")
  <2>1. JointCase(r, "ordinary_source") = Ordinary("ordinary_source", e)
    BY DEF JointCase, JointFacts
  <2> HIDE DEF e
  <2>2. LET c == Ordinary("ordinary_source", e)
        IN /\ c.scenario = "ordinary_source" /\ c.context = <<"sum", {}>> /\ c.ask = {} /\ c.needed = FALSE
           /\ c.episodes = e
    BY DEF Case, Ordinary
  <2>3. LabelFollows(Ordinary("ordinary_source", e))
    BY <2>2 DEF LabelFollows
  <2> QED  BY <2>1, <2>2, <2>3 DEF e
<1>2. ASSUME NEW r
      PROVE  LET c == JointCase(r, "ordinary_empty")
             IN /\ c.scenario = "ordinary_empty" /\ c.context = <<"sum", {}>> /\ c.ask = {} /\ c.needed = FALSE
                /\ c.episodes = OneText(<<>>, "ordinary_empty")
                /\ LabelFollows(c)
  <2> DEFINE e == OneText(<<>>, "ordinary_empty")
  <2>1. JointCase(r, "ordinary_empty") = Ordinary("ordinary_empty", e)
    BY DEF JointCase, JointFacts
  <2> HIDE DEF e
  <2>2. LET c == Ordinary("ordinary_empty", e)
        IN /\ c.scenario = "ordinary_empty" /\ c.context = <<"sum", {}>> /\ c.ask = {} /\ c.needed = FALSE
           /\ c.episodes = e
    BY DEF Case, Ordinary
  <2>3. LabelFollows(Ordinary("ordinary_empty", e))
    BY <2>2 DEF LabelFollows
  <2> QED  BY <2>1, <2>2, <2>3 DEF e
<1> QED  BY <1>1, <1>2

LEMMA JointOrdinaryPair ==
  ASSUME NEW q, NEW r
  PROVE  PairShows(JointCase(q, "ordinary_source"), JointCase(r, "ordinary_empty"), "any")
<1>1. ToSet(<<Target(q), Distractor(q)>>) # {} /\ ToSet(<<>>) = {}
    BY ShortLists
<1>2. OneText(<<Target(q), Distractor(q)>>, "ordinary_source") # OneText(<<>>, "ordinary_empty")
  <2> HIDE DEF Target, Distractor
  <2> QED  BY <1>1, TextsDiffer
<1>3. /\ JointCase(q, "ordinary_source").context = JointCase(r, "ordinary_empty").context
        /\ JointCase(q, "ordinary_source").ask = JointCase(r, "ordinary_empty").ask
        /\ JointCase(q, "ordinary_source").episodes # JointCase(r, "ordinary_empty").episodes
        /\ JointCase(q, "ordinary_source").needed = FALSE /\ JointCase(r, "ordinary_empty").needed = FALSE
  BY <1>2, JointOrdinary
<1> QED  BY <1>3 DEF PairShows

\* What a world of a binding corpus owes: true labels, true pairs, and facts
\* about its two people alone.
AboutWorld(w, cases) ==
  \A c \in cases : \A f \in FactsIn(c.episodes) : f.subject \in {w.people[1], w.people[2]}
AnyOf(pairs) == {<<p[1], p[2], "any">> : p \in pairs}

\* What each case of a binding corpus owes.
Owes(q, c, s, facts) ==
  /\ c.scenario = s /\ LabelFollows(c) /\ c.episodes = OneText(facts, s)
  /\ {p.relation : p \in c.ask} = {q.relation}
LEMMA TellsOwes ==
  ASSUME NEW q, NEW c, NEW s, NEW t, NEW facts, NEW known,
         Tells(c, s, {Asked(q.person, q.relation, t)}, OneText(facts, s), known)
  PROVE  Owes(q, c, s, facts)
<1>1. {p.relation : p \in {Asked(q.person, q.relation, t)}} = {q.relation}
  BY AskedIs
<1> QED  BY <1>1 DEF Tells, Owes

JointOwes(q, s) == Owes(q, JointCase(q, s), s, JointFacts(q, s)) /\ About(q, JointFacts(q, s))
LEMMA JointAllOwe ==
  ASSUME NEW q, Questioned(q), NEW s \in JointScenarios \ {"ordinary_source", "ordinary_empty"}
  PROVE  JointOwes(q, s)
<1>1. s \in {"correct", "role_swap", "value_swap", "clause_reorder", "paraphrase", "wrong_subject",
             "wrong_relation", "negated", "historical", "empty"}
  BY DEF JointScenarios
<1>2. \E known : Tells(JointCase(q, s), s, {Asked(q.person, q.relation, "current")},
                       OneText(JointFacts(q, s), s), known)
  BY <1>1, JointTells
<1>3. About(q, JointFacts(q, s))
  BY <1>1, JointAbout
<1> QED  BY <1>2, <1>3, TellsOwes DEF JointOwes
ExpandedOwes(q, s) == Owes(q, ExpandedCase(q, s), s, ExpandedFacts(q, s)) /\ About(q, ExpandedFacts(q, s))
LEMMA ExpandedAllOwe ==
  ASSUME NEW q, Questioned(q), NEW s \in ExpandedScenarios
  PROVE  ExpandedOwes(q, s)
<1>1. s \in {"correct", "role_swap", "empty", "wrong_time", "historical_stated", "multi_fact",
             "hypothetical", "quoted"}
  BY DEF ExpandedScenarios
<1>2. \E t, known : Tells(ExpandedCase(q, s), s, {Asked(q.person, q.relation, t)},
                       OneText(ExpandedFacts(q, s), s), known)
  BY <1>1, ExpandedTells
<1>3. About(q, ExpandedFacts(q, s))
  BY <1>1, ExpandedAbout
<1> QED  BY <1>2, <1>3, TellsOwes DEF ExpandedOwes
DialogueOwes(q, s) == Owes(q, DialogueCase(q, s), s, DialogueFacts(q, s)) /\ About(q, DialogueFacts(q, s))
LEMMA DialogueAllOwe ==
  ASSUME NEW q, Questioned(q), NEW s \in DialogueScenarios
  PROVE  DialogueOwes(q, s)
<1>1. s \in {"correct", "role_swap", "empty", "multi_fact"}
  BY DEF DialogueScenarios
<1>2. \E known : Tells(DialogueCase(q, s), s, {Asked(q.person, q.relation, "current")},
                       OneText(DialogueFacts(q, s), s), known)
  BY <1>1, DialogueTells
<1>3. About(q, DialogueFacts(q, s))
  BY <1>1, DialogueAbout
<1> QED  BY <1>2, <1>3, TellsOwes DEF DialogueOwes

\* The two relations of a world are different questions.
LEMMA SameRelation ==
  ASSUME NEW w, BindingWorld(w), NEW r \in 1..2, NEW u \in 1..2, {Asking(w, r).relation} = {Asking(w, u).relation}
  PROVE  r = u
<1>1. Relations[1] = "home_city" /\ Relations[2] = "work_city"
  BY DEF Relations
<1>2. Relations[r] = Relations[u]
  BY AskingIs
<1>3. r \in {1, 2} /\ u \in {1, 2}
  OBVIOUS
<1> QED  BY <1>1, <1>2, <1>3

LEMMA JointWorld ==
  ASSUME NEW w, BindingWorld(w)
  PROVE  LET cases == {JointCase(Asking(w, r), s) : r \in 1..2, s \in JointScenarios}
         IN LabelsTrue(cases) /\ PairsTrue(cases, AnyOf(JointPairs)) /\ AboutWorld(w, cases)
<1> DEFINE cases == {JointCase(Asking(w, r), s) : r \in 1..2, s \in JointScenarios}
<1>1. ASSUME NEW r \in 1..2, NEW s \in JointScenarios
      PROVE  LET c == JointCase(Asking(w, r), s)
             IN /\ c.scenario = s /\ LabelFollows(c)
                /\ \A f \in FactsIn(c.episodes) : f.subject \in {w.people[1], w.people[2]}
                /\ s \notin {"ordinary_source", "ordinary_empty"} =>
                     {p.relation : p \in c.ask} = {Asking(w, r).relation}
  <2> DEFINE q == Asking(w, r)
  <2>0. Questioned(q) /\ q.person \in {w.people[1], w.people[2]} /\ q.bystander \in {w.people[1], w.people[2]}
    BY AskingIs
  <2> HIDE DEF q
  <2>1. CASE s \notin {"ordinary_source", "ordinary_empty"}
    <3>1. JointOwes(q, s)
      BY <2>0, <2>1, JointAllOwe
    <3>2. FactsIn(JointCase(q, s).episodes) = ToSet(JointFacts(q, s))
      BY <3>1, OneTextTells DEF JointOwes, Owes
    <3> QED  BY <2>0, <3>1, <3>2 DEF JointOwes, Owes, About, q
  <2>2. CASE s = "ordinary_source"
    <3>1. FactsIn(JointCase(q, s).episodes) = ToSet(<<Target(q), Distractor(q)>>)
      BY <2>2, JointOrdinary, OneTextTells
    <3>2. \A f \in ToSet(<<Target(q), Distractor(q)>>) : f.subject \in {q.person, q.bystander}
      BY ShortLists, FactIs DEF Target, Distractor
    <3> QED  BY <2>0, <2>2, <3>1, <3>2, JointOrdinary DEF q
  <2>3. CASE s = "ordinary_empty"
    <3>1. FactsIn(JointCase(q, s).episodes) = {}
      <4>1. JointCase(q, s).episodes = OneText(<<>>, s)
        BY <2>3, JointOrdinary
      <4>2. FactsIn(OneText(<<>>, s)) = ToSet(<<>>)
        BY OneTextTells
      <4> QED  BY <4>1, <4>2, ShortLists
    <3> QED  BY <2>3, <3>1, JointOrdinary DEF q
  <2> QED  BY <2>1, <2>2, <2>3
<1>2. ASSUME NEW r \in 1..2, NEW u \in 1..2, NEW s, <<"correct", s>> \in JointPairs,
             {Asking(w, r).relation} = {Asking(w, u).relation}
      PROVE  PairShows(JointCase(Asking(w, r), "correct"), JointCase(Asking(w, u), s), "any")
  <2>1. r = u /\ Questioned(Asking(w, r))
    BY <1>2, SameRelation, AskingIs
  <2>2. s \in {"role_swap", "value_swap", "clause_reorder", "paraphrase", "wrong_subject",
               "wrong_relation", "negated", "historical", "empty"}
    BY <1>2 DEF JointPairs, JointScenarios
  <2> QED  BY <2>1, <2>2, JointShows
<1>3. PairsTrue(cases, AnyOf(JointPairs))
  <2> SUFFICES ASSUME NEW c \in cases, NEW d \in cases, NEW p \in AnyOf(JointPairs),
                      c.scenario = p[1], d.scenario = p[2],
                      {q.relation : q \in c.ask} = {q.relation : q \in d.ask}
               PROVE  PairShows(c, d, p[3])
    <3> HIDE DEF cases
    <3> QED  BY DEF PairsTrue
  <2>1. PICK r \in 1..2, s \in JointScenarios : c = JointCase(Asking(w, r), s)
    OBVIOUS
  <2>2. PICK u \in 1..2, t \in JointScenarios : d = JointCase(Asking(w, u), t)
    OBVIOUS
  <2>3. c.scenario = s /\ d.scenario = t
    BY <1>1, <2>1, <2>2
  <2>4. PICK x \in JointPairs : p = <<x[1], x[2], "any">>
    BY DEF AnyOf
  <2>5. x[1] = s /\ x[2] = t /\ p[3] = "any"
    <3>1. p[1] = x[1] /\ p[2] = x[2] /\ p[3] = "any"
      BY <2>4
    <3>2. c.scenario = p[1] /\ d.scenario = p[2]
      OBVIOUS
    <3>3. s = p[1] /\ t = p[2]
      <4> HIDE DEF cases
      <4> QED  BY <2>3, <3>2
    <3> QED  BY <3>1, <3>3
  <2>6. \/ s = "correct" /\ t \in JointScenarios \ {"correct", "ordinary_source", "ordinary_empty"}
        \/ s = "ordinary_source" /\ t = "ordinary_empty"
    BY <2>5 DEF JointPairs
  <2>7. CASE s = "ordinary_source" /\ t = "ordinary_empty"
    <3>1. PairShows(JointCase(Asking(w, r), "ordinary_source"), JointCase(Asking(w, u), "ordinary_empty"), "any")
      BY JointOrdinaryPair
    <3> QED  BY <2>1, <2>2, <2>5, <2>7, <3>1
  <2>8. CASE s = "correct" /\ t \in JointScenarios \ {"correct", "ordinary_source", "ordinary_empty"}
    <3>1. {Asking(w, r).relation} = {Asking(w, u).relation}
      BY <1>1, <2>1, <2>2, <2>8
    <3>2. <<"correct", t>> \in JointPairs
      BY <2>8 DEF JointPairs
    <3> QED  BY <1>2, <2>1, <2>2, <2>5, <2>8, <3>1, <3>2
  <2> QED  BY <2>6, <2>7, <2>8
<1>4. LabelsTrue(cases) /\ AboutWorld(w, cases)
  BY <1>1 DEF LabelsTrue, AboutWorld
<1> QED  BY <1>3, <1>4

LEMMA ExpandedWorld ==
  ASSUME NEW w, BindingWorld(w)
  PROVE  LET cases == {ExpandedCase(Asking(w, r), s) : r \in 1..2, s \in ExpandedScenarios}
         IN LabelsTrue(cases) /\ PairsTrue(cases, AnyOf(ExpandedPairs)) /\ AboutWorld(w, cases)
<1> DEFINE cases == {ExpandedCase(Asking(w, r), s) : r \in 1..2, s \in ExpandedScenarios}
<1>1. ASSUME NEW r \in 1..2, NEW s \in ExpandedScenarios
      PROVE  LET c == ExpandedCase(Asking(w, r), s)
             IN /\ c.scenario = s /\ LabelFollows(c)
                /\ \A f \in FactsIn(c.episodes) : f.subject \in {w.people[1], w.people[2]}
                /\ {p.relation : p \in c.ask} = {Asking(w, r).relation}
  <2> DEFINE q == Asking(w, r)
  <2>0. Questioned(q) /\ q.person \in {w.people[1], w.people[2]} /\ q.bystander \in {w.people[1], w.people[2]}
    BY AskingIs
  <2> HIDE DEF q
  <2>1. ExpandedOwes(q, s)
    BY <2>0, ExpandedAllOwe
  <2>2. FactsIn(ExpandedCase(q, s).episodes) = ToSet(ExpandedFacts(q, s))
    BY <2>1, OneTextTells DEF ExpandedOwes, Owes
  <2> QED  BY <2>0, <2>1, <2>2 DEF ExpandedOwes, Owes, About, q
<1>2. PairsTrue(cases, AnyOf(ExpandedPairs))
  <2> SUFFICES ASSUME NEW c \in cases, NEW d \in cases, NEW p \in AnyOf(ExpandedPairs),
                      c.scenario = p[1], d.scenario = p[2],
                      {q.relation : q \in c.ask} = {q.relation : q \in d.ask}
               PROVE  PairShows(c, d, p[3])
    <3> HIDE DEF cases
    <3> QED  BY DEF PairsTrue
  <2>1. PICK r \in 1..2, s \in ExpandedScenarios : c = ExpandedCase(Asking(w, r), s)
    OBVIOUS
  <2>2. PICK u \in 1..2, t \in ExpandedScenarios : d = ExpandedCase(Asking(w, u), t)
    OBVIOUS
  <2>3. c.scenario = s /\ d.scenario = t
    BY <1>1, <2>1, <2>2
  <2>4. PICK x \in ExpandedPairs : p = <<x[1], x[2], "any">>
    BY DEF AnyOf
  <2>5. x[1] = s /\ x[2] = t /\ p[3] = "any"
    <3>1. p[1] = x[1] /\ p[2] = x[2] /\ p[3] = "any"
      BY <2>4
    <3>2. c.scenario = p[1] /\ d.scenario = p[2]
      OBVIOUS
    <3>3. s = p[1] /\ t = p[2]
      <4> HIDE DEF cases
      <4> QED  BY <2>3, <3>2
    <3> QED  BY <3>1, <3>3
  <2>6. \/ s = "correct" /\ t \in {"role_swap", "empty", "hypothetical", "quoted"}
        \/ s = "wrong_time" /\ t \in {"historical_stated"}
    BY <2>5 DEF ExpandedPairs
  <2>7. {Asking(w, r).relation} = {Asking(w, u).relation}
    BY <1>1, <2>1, <2>2
  <2>8. r = u /\ Questioned(Asking(w, r))
    BY <2>7, SameRelation, AskingIs
  <2>9. PairShows(ExpandedCase(Asking(w, r), s), ExpandedCase(Asking(w, r), t), "any")
    BY <2>6, <2>8, ExpandedShows
  <2> QED  BY <2>1, <2>2, <2>5, <2>8, <2>9
<1>3. LabelsTrue(cases) /\ AboutWorld(w, cases)
  BY <1>1 DEF LabelsTrue, AboutWorld
<1> QED  BY <1>2, <1>3

LEMMA DialogueWorld ==
  ASSUME NEW w, BindingWorld(w)
  PROVE  LET cases == {DialogueCase(Asking(w, r), s) : r \in 1..2, s \in DialogueScenarios}
         IN LabelsTrue(cases) /\ PairsTrue(cases, AnyOf(DialoguePairs)) /\ AboutWorld(w, cases)
<1> DEFINE cases == {DialogueCase(Asking(w, r), s) : r \in 1..2, s \in DialogueScenarios}
<1>1. ASSUME NEW r \in 1..2, NEW s \in DialogueScenarios
      PROVE  LET c == DialogueCase(Asking(w, r), s)
             IN /\ c.scenario = s /\ LabelFollows(c)
                /\ \A f \in FactsIn(c.episodes) : f.subject \in {w.people[1], w.people[2]}
                /\ {p.relation : p \in c.ask} = {Asking(w, r).relation}
  <2> DEFINE q == Asking(w, r)
  <2>0. Questioned(q) /\ q.person \in {w.people[1], w.people[2]} /\ q.bystander \in {w.people[1], w.people[2]}
    BY AskingIs
  <2> HIDE DEF q
  <2>1. DialogueOwes(q, s)
    BY <2>0, DialogueAllOwe
  <2>2. FactsIn(DialogueCase(q, s).episodes) = ToSet(DialogueFacts(q, s))
    BY <2>1, OneTextTells DEF DialogueOwes, Owes
  <2> QED  BY <2>0, <2>1, <2>2 DEF DialogueOwes, Owes, About, q
<1>2. PairsTrue(cases, AnyOf(DialoguePairs))
  <2> SUFFICES ASSUME NEW c \in cases, NEW d \in cases, NEW p \in AnyOf(DialoguePairs),
                      c.scenario = p[1], d.scenario = p[2],
                      {q.relation : q \in c.ask} = {q.relation : q \in d.ask}
               PROVE  PairShows(c, d, p[3])
    <3> HIDE DEF cases
    <3> QED  BY DEF PairsTrue
  <2>1. PICK r \in 1..2, s \in DialogueScenarios : c = DialogueCase(Asking(w, r), s)
    OBVIOUS
  <2>2. PICK u \in 1..2, t \in DialogueScenarios : d = DialogueCase(Asking(w, u), t)
    OBVIOUS
  <2>3. c.scenario = s /\ d.scenario = t
    BY <1>1, <2>1, <2>2
  <2>4. PICK x \in DialoguePairs : p = <<x[1], x[2], "any">>
    BY DEF AnyOf
  <2>5. x[1] = s /\ x[2] = t /\ p[3] = "any"
    <3>1. p[1] = x[1] /\ p[2] = x[2] /\ p[3] = "any"
      BY <2>4
    <3>2. c.scenario = p[1] /\ d.scenario = p[2]
      OBVIOUS
    <3>3. s = p[1] /\ t = p[2]
      <4> HIDE DEF cases
      <4> QED  BY <2>3, <3>2
    <3> QED  BY <3>1, <3>3
  <2>6. \/ s = "correct" /\ t \in {"role_swap", "empty"}
    BY <2>5 DEF DialoguePairs
  <2>7. {Asking(w, r).relation} = {Asking(w, u).relation}
    BY <1>1, <2>1, <2>2
  <2>8. r = u /\ Questioned(Asking(w, r))
    BY <2>7, SameRelation, AskingIs
  <2>9. PairShows(DialogueCase(Asking(w, r), s), DialogueCase(Asking(w, r), t), "any")
    BY <2>6, <2>8, DialogueShows
  <2> QED  BY <2>1, <2>2, <2>5, <2>8, <2>9
<1>3. LabelsTrue(cases) /\ AboutWorld(w, cases)
  BY <1>1 DEF LabelsTrue, AboutWorld
<1> QED  BY <1>2, <1>3

\* The paraphrase corpus: what is left of a text is a part of it.
LEMMA ParaphrasedKeeps ==
  ASSUME NEW T, NEW facts \in Seq(T), NEW lost
  PROVE  ToSet(Paraphrased(facts, lost)) \subseteq ToSet(facts)
<1> DEFINE S == ToSet(facts)
           ss == [i \in DOMAIN facts |->
                    IF <<facts[i].subject, facts[i].relation>> \in lost THEN <<>> ELSE <<facts[i]>>]
<1>1. \A i \in DOMAIN facts : facts[i] \in S
  BY DEF ToSet
<1>2. PICK n \in Nat : DOMAIN facts = 1..n
  <2>1. Len(facts) \in Nat /\ DOMAIN facts = 1..Len(facts)
    OBVIOUS
  <2> QED  BY <2>1
<1>3. \A i \in DOMAIN facts : ss[i] \in Seq(S)
  <2> HIDE DEF S
  <2>1. <<>> \in Seq(S)
    OBVIOUS
  <2>2. \A x \in S : <<x>> \in Seq(S)
    OBVIOUS
  <2> QED  BY <1>1, <2>1, <2>2
<1>4. ss \in Seq(Seq(S))
  <2>1. ss \in [1..n -> Seq(S)]
    <3> HIDE DEF S
    <3> QED  BY <1>2, <1>3
  <2> HIDE DEF ss, S
  <2> QED  BY <2>1
<1>5. FlattenSeq(ss) \in Seq(S)
  <2> HIDE DEF ss, S
  <2> QED  BY <1>4, FlattenPlaces
<1>6. Paraphrased(facts, lost) = FlattenSeq(ss)
  BY DEF Paraphrased
<1>7. \A q \in Seq(S) : ToSet(q) \subseteq S
  <2> HIDE DEF S
  <2> QED  BY DEF ToSet
<1> QED  BY <1>5, <1>6, <1>7

LEMMA ParaphraseTells ==
  ASSUME NEW q, Questioned(q), NEW s \in DialogueScenarios, NEW lost, NEW left,
         ToSet(left) \subseteq ToSet(DialogueFacts(q, s)),
         s \in DialogueSupported =>
           Cardinality({f \in ToSet(left) : f.subject = q.person /\ f.value = q.city}) = 1
  PROVE  LET c == [DialogueCase(q, s) EXCEPT !.episodes = OneText(left, s)]
         IN /\ c.scenario = s /\ LabelFollows(c) /\ c.episodes = OneText(left, s)
            /\ FactsIn(c.episodes) = ToSet(left) /\ About(q, left)
<1> DEFINE facts == DialogueFacts(q, s)
           ask == {Asked(q.person, q.relation, "current")}
           told == Fact(q.person, q.relation, q.city)
<1>1. s \in {"correct", "role_swap", "empty", "multi_fact"}
  BY DEF DialogueScenarios
<1>2. About(q, left)
  <2>1. About(q, facts)
    BY <1>1, DialogueAbout
  <2> QED  BY <2>1 DEF About
<1>3. Plain(left) /\ Answering(q.person, q.relation, "current", left)
                       \subseteq Answering(q.person, q.relation, "current", facts)
  <2>1. Plain(facts)
    BY <1>1, DialogueSays DEF Says
  <2> QED  BY <2>1 DEF Plain, Answering
<1>4. CASE s \in DialogueSupported
  <2>1. s \in {"correct", "multi_fact"}
    BY <1>4 DEF DialogueSupported
  <2>2. Answering(q.person, q.relation, "current", facts) = {told}
    BY <2>1, DialogueSays DEF Says
  <2>3. \A f \in ToSet(facts) : f.subject = q.person /\ f.value = q.city => f = told
    <3>1. CASE s = "correct"
      <4>1. ToSet(facts) = {told, Fact(q.bystander, q.aside, q.alternate)}
        <5>1. facts = <<told, Fact(q.bystander, q.aside, q.alternate)>>
          BY <3>1, DialogueTexts
        <5> QED  BY <5>1, ShortLists
      <4> QED  BY <4>1, StatedIs, FactIs DEF Questioned
    <3>2. CASE s = "multi_fact"
      <4>1. ToSet(facts) = {told, Fact(q.bystander, q.aside, q.alternate),
                            Fact(q.person, q.aside, q.alternate)}
        <5>1. facts = <<told, Fact(q.bystander, q.aside, q.alternate),
                        Fact(q.person, q.aside, q.alternate)>>
          BY <3>2, DialogueTexts
        <5>2. ToSet(<<told, Fact(q.bystander, q.aside, q.alternate),
                        Fact(q.person, q.aside, q.alternate)>>)
                = {told, Fact(q.bystander, q.aside, q.alternate),
                            Fact(q.person, q.aside, q.alternate)}
          BY ShortLists
        <5> QED  BY <5>1, <5>2
      <4> QED  BY <4>1, StatedIs, FactIs DEF Questioned
    <3> QED  BY <2>1, <3>1, <3>2
  <2>4. told \in ToSet(left)
    <3>1. {f \in ToSet(left) : f.subject = q.person /\ f.value = q.city} # {}
      BY <1>4, FS_EmptySet
    <3> QED  BY <2>3, <3>1
  <2>5. Answering(q.person, q.relation, "current", left) = {told}
    <3>1. told \in Answering(q.person, q.relation, "current", left)
      BY <2>4, StatedIs, FactIs DEF Answering
    <3> QED  BY <1>3, <2>2, <3>1
  <2>6. DialogueCase(q, s) = [Case(s, ask, OneText(facts, s), {1}) EXCEPT !.required = {told}]
    <3>1. Joint(q, "current", facts) = {told}
      BY <2>2 DEF Joint, Answering
    <3>2. (s \in DialogueSupported) = TRUE
      BY <1>4
    <3> HIDE DEF told, facts
    <3> QED  BY <3>1, <3>2 DEF DialogueCase, BindingCase, facts
  <2>8. left # <<>>
    BY <2>4, ShortLists
  <2> DEFINE c == [DialogueCase(q, s) EXCEPT !.episodes = OneText(left, s)]
  <2>9. /\ c.scenario = s /\ c.context = <<"asked", ask>> /\ c.ask = ask
        /\ c.needed = TRUE /\ c.episodes = OneText(left, s) /\ c.missing = FALSE
        /\ c.targets = {1} /\ c.required = {told}
    <3> HIDE DEF ask, told, facts
    <3> QED  BY <2>6 DEF Case
  <2>10. AnswersTo(Asked(q.person, q.relation, "current"), FactsIn(OneText(left, s))) = {told}
    BY <1>3, <2>5, OneTextAnswers, OneTextTells DEF Questioned
  <2>11. AnswersTo(Asked(q.person, q.relation, "current"), ToSet(OneText(left, s)[1].facts)) = {told}
    BY <1>3, <2>5, <2>8, OneTextAnswers, OneTextTells DEF Questioned
  <2>12. Found(c, s, Asked(q.person, q.relation, "current"), OneText(left, s), 1, told)
    <3> HIDE DEF c, told
    <3> QED  BY <2>9, <2>10, <2>11 DEF Found
  <2>13. LabelFollows(c)
    <3> HIDE DEF c, told
    <3> QED  BY <2>12, FoundTells DEF Tells
  <2> QED  BY <1>2, <2>9, <2>13, OneTextTells
<1>5. CASE s \notin DialogueSupported
  <2>1. s \in {"role_swap", "empty"}
    BY <1>1, <1>5 DEF DialogueSupported
  <2>2. Answering(q.person, q.relation, "current", left) = {}
    <3>1. Answering(q.person, q.relation, "current", facts) = {}
      BY <2>1, DialogueSays DEF Says
    <3> QED  BY <1>3, <3>1
  <2>3. DialogueCase(q, s) = Missing(s, ask, OneText(facts, s), {}, ToSet(facts))
    <3>1. (s \in DialogueSupported) = FALSE
      BY <1>5
    <3> HIDE DEF facts
    <3> QED  BY <3>1 DEF DialogueCase, BindingCase, facts
  <2> DEFINE c == [DialogueCase(q, s) EXCEPT !.episodes = OneText(left, s)]
  <2>4. /\ c.scenario = s /\ c.context = <<"asked", ask>> /\ c.ask = ask
        /\ c.needed = TRUE /\ c.episodes = OneText(left, s) /\ c.missing = TRUE /\ c.required = {}
    <3> HIDE DEF ask, facts
    <3> QED  BY <2>3 DEF Case, Missing
  <2>5. AnswersTo(Asked(q.person, q.relation, "current"), FactsIn(OneText(left, s))) = {}
    BY <1>3, <2>2, OneTextAnswers, OneTextTells DEF Questioned
  <2>6. NotFound(c, s, Asked(q.person, q.relation, "current"), OneText(left, s))
    <3> HIDE DEF c
    <3> QED  BY <2>4, <2>5 DEF NotFound
  <2>7. LabelFollows(c)
    <3> HIDE DEF c
    <3> QED  BY <2>6, NotFoundTells DEF Tells
  <2> QED  BY <1>2, <2>4, <2>7, OneTextTells
<1> QED  BY <1>4, <1>5

LEMMA DialogueListed ==
  ASSUME NEW q, NEW s \in DialogueScenarios
  PROVE  \E T : DialogueFacts(q, s) \in Seq(T)
<1>1. s \in {"correct", "role_swap", "empty", "multi_fact"}
  BY DEF DialogueScenarios
<1> DEFINE a == Fact(q.person, q.relation, q.city)
           b == Fact(q.bystander, q.aside, q.alternate)
           d == Fact(q.person, q.aside, q.alternate)
           e == Fact(q.bystander, q.relation, q.city)
           T == {a, b, d, e}
<1>2. DialogueFacts(q, s) \in {<<a, b>>, <<e, d>>, <<>>, <<a, b, d>>}
  BY <1>1, DialogueTexts
<1>3. {<<a, b>>, <<e, d>>, <<>>, <<a, b, d>>} \subseteq Seq(T)
  <2>1. a \in T /\ b \in T /\ d \in T /\ e \in T
    OBVIOUS
  <2> HIDE DEF a, b, d, e, T
  <2> QED  BY <2>1
<1> QED  BY <1>2, <1>3

LEMMA ParaphraseWorld ==
  ASSUME NEW w, BindingWorld(w), NEW cache, NEW lost
  PROVE  LET cases == UNION {ParaphraseCases(Asking(w, r), cache, lost) : r \in 1..2}
         IN LabelsTrue(cases) /\ PairsTrue(cases, {}) /\ AboutWorld(w, cases)
<1> DEFINE cases == UNION {ParaphraseCases(Asking(w, r), cache, lost) : r \in 1..2}
<1>1. ASSUME NEW r \in 1..2, NEW c \in ParaphraseCases(Asking(w, r), cache, lost)
      PROVE  LabelFollows(c) /\ \A f \in FactsIn(c.episodes) : f.subject \in {w.people[1], w.people[2]}
  <2> DEFINE q == Asking(w, r)
  <2>0. Questioned(q) /\ q.person \in {w.people[1], w.people[2]} /\ q.bystander \in {w.people[1], w.people[2]}
    BY AskingIs
  <2> HIDE DEF q
  <2>1. c \in ParaphraseCases(q, cache, lost)
    BY DEF q
  <2>2. PICK s \in DialogueScenarios :
          /\ c = [DialogueCase(q, s) EXCEPT !.episodes = OneText(Paraphrased(DialogueFacts(q, s), lost), s)]
          /\ s \in DialogueSupported => Compiles(q, DialogueFacts(q, s), lost)
    BY <2>1 DEF ParaphraseCases
  <2>3. PICK left : left = Paraphrased(DialogueFacts(q, s), lost)
    OBVIOUS
  <2>4. ToSet(left) \subseteq ToSet(DialogueFacts(q, s))
    <3>1. PICK T : DialogueFacts(q, s) \in Seq(T)
      BY DialogueListed
    <3> QED  BY <2>3, <3>1, ParaphrasedKeeps
  <2>5. s \in DialogueSupported =>
          Cardinality({f \in ToSet(left) : f.subject = q.person /\ f.value = q.city}) = 1
    BY <2>2, <2>3 DEF Compiles
  <2>6. LabelFollows(c) /\ FactsIn(c.episodes) = ToSet(left) /\ About(q, left)
    BY <2>0, <2>2, <2>3, <2>4, <2>5, ParaphraseTells
  <2> QED  BY <2>0, <2>6 DEF About
<1>2. PairsTrue(cases, {})
  BY DEF PairsTrue
<1>3. \A c \in cases : LabelFollows(c) /\ \A f \in FactsIn(c.episodes) : f.subject \in {w.people[1], w.people[2]}
  BY <1>1
<1> QED  BY <1>2, <1>3 DEF LabelsTrue, AboutWorld

-----------------------------------------------------------------------------
\* The worlds of the binding corpora: two people and two cities each.
Binding == {"joint", "expanded", "dialogue", "paraphrase"}

LEMMA PairOf ==
  ASSUME NEW s, NEW i \in Nat, i >= 1
  PROVE  LET p == SubSeq(s, 2 * i - 1, 2 * i)
         IN p[1] = s[2 * i - 1] /\ p[2] = s[2 * i] /\ ToSet(p) = {p[1], p[2]}
<1> DEFINE p == SubSeq(s, 2 * i - 1, 2 * i)
<1>2. p = [k \in 1..((2 * i) - (2 * i - 1) + 1) |-> s[(2 * i - 1) + k - 1]]
  BY DEF SubSeq
<1>3. (2 * i) - (2 * i - 1) + 1 = 2 /\ (2 * i - 1) + 1 - 1 = 2 * i - 1 /\ (2 * i - 1) + 2 - 1 = 2 * i
  OBVIOUS
<1>4. DOMAIN p = 1..2
  BY <1>2, <1>3
<1>5. p[1] = s[2 * i - 1] /\ p[2] = s[2 * i]
  <2>1. 1 \in 1..2 /\ 2 \in 1..2
    OBVIOUS
  <2>2. p = [k \in 1..2 |-> s[(2 * i - 1) + k - 1]]
    BY <1>2, <1>3
  <2>3. p[1] = s[(2 * i - 1) + 1 - 1] /\ p[2] = s[(2 * i - 1) + 2 - 1]
    <3> HIDE DEF p
    <3> QED  BY <2>1, <2>2
  <2> QED  BY <1>3, <2>3
<1>6. ToSet(p) = {p[1], p[2]}
  <2>1. 1..2 = {1, 2}
    OBVIOUS
  <2>2. ToSet(p) = {p[k] : k \in {1, 2}}
    BY <1>4, <2>1 DEF ToSet
  <2> HIDE DEF p
  <2> QED  BY <2>2
<1> QED  BY <1>5, <1>6

LEMMA Taken ==
  ASSUME NEW list, Listed(list), IsInjective(list), NEW back \in BOOLEAN
  PROVE  LET s == IF back THEN Reverse(list) ELSE list
         IN /\ Len(s) = Len(list) /\ \A k \in 1..Len(list) : s[k] \in ToSet(list)
            /\ \A j, k \in 1..Len(list) : s[j] = s[k] => j = k
<1> DEFINE n == Len(list)
<1>1. n \in Nat /\ DOMAIN list = 1..n
  BY DEF Listed
<1>2. \A j, k \in 1..n : list[j] = list[k] => j = k
  BY <1>1 DEF IsInjective
<1>3. \A k \in 1..n : list[k] \in ToSet(list)
  BY <1>1 DEF ToSet
<1>4. CASE ~back
  BY <1>2, <1>3, <1>4
<1>5. CASE back
  <2> DEFINE s == Reverse(list)
  <2>1. s = [k \in 1..n |-> list[(n - k) + 1]]
    BY DEF Reverse
  <2>2. \A k \in 1..n : (n - k) + 1 \in 1..n
    BY <1>1
  <2>3. \A k \in 1..n : s[k] = list[(n - k) + 1]
    BY <2>1
  <2>4. Len(s) = n
    <3> HIDE DEF n
    <3> QED  BY <1>1, <2>1
  <2>5. \A k \in 1..n : s[k] \in ToSet(list)
    BY <1>3, <2>2, <2>3
  <2>6. ASSUME NEW j \in 1..n, NEW k \in 1..n, s[j] = s[k] PROVE j = k
    <3>1. (n - j) + 1 = (n - k) + 1
      BY <1>2, <2>2, <2>3, <2>6
    <3> HIDE DEF n
    <3> QED  BY <1>1, <3>1
  <2> HIDE DEF s
  <2> QED  BY <1>5, <2>4, <2>5, <2>6 DEF s
<1> QED  BY <1>4, <1>5

\* What a corpus owes: the labels and the pairs of each world, and splits that
\* share no fact and, but for the protocol, no person.
CorpusTrue(c) ==
  \A i \in DOMAIN WorldsOf(c) :
    LabelsTrue(CasesOf(c, WorldsOf(c)[i])) /\ PairsTrue(CasesOf(c, WorldsOf(c)[i]), PairsOf(c))
Told(cases) == UNION {FactsIn(d.episodes) : d \in cases}
SplitsApart(c) ==
  \A i, j \in DOMAIN WorldsOf(c) :
    c.splits[i] # c.splits[j] =>
      LET a == Told(CasesOf(c, WorldsOf(c)[i]))  b == Told(CasesOf(c, WorldsOf(c)[j]))
      IN /\ a \intersect b = {}
         /\ c.kind # "protocol" => {f.subject : f \in a} \intersect {f.subject : f \in b} = {}

LEMMA BindingWorldsAre ==
  ASSUME NEW c, PeopleFile(c), c.kind \in Binding, Inventoried(c.people, c.cities),
         NEW i \in DOMAIN BindingWorlds(c)
  PROVE  LET w == BindingWorlds(c)[i]
         IN BindingWorld(w) /\ ToSet(w.people) = {w.people[1], w.people[2]}
<1> DEFINE back == c.kind \in {"dialogue", "paraphrase"}
           taken(list) == IF back THEN Reverse(list) ELSE list
           first == IF back THEN 0 ELSE 3
           n == Len(c.people)
           p == taken(c.people)
           d == taken(c.cities)
           w == [id |-> i, number |-> i - 1 + first,
                 people |-> SubSeq(p, 2 * i - 1, 2 * i), cities |-> SubSeq(d, 2 * i - 1, 2 * i)]
<1>1. BindingWorlds(c)[i] = w /\ i \in 1..(n \div 2)
  BY DEF BindingWorlds
<1>2. /\ Listed(c.people) /\ Listed(c.cities) /\ "who" \notin ToSet(c.people)
      /\ Len(c.cities) = n /\ n \in Nat
  BY DEF PeopleFile, Binding, Listed
<1>3. IsInjective(c.people) /\ IsInjective(c.cities)
  BY DEF Inventoried
<1>4. i \in Nat /\ i >= 1 /\ 2 * i - 1 \in 1..n /\ 2 * i \in 1..n /\ 2 * i - 1 # 2 * i
  <2> HIDE DEF n
  <2> QED  BY <1>1, <1>2
<1>5. /\ \A k \in 1..n : p[k] \in ToSet(c.people)
      /\ \A j, k \in 1..n : p[j] = p[k] => j = k
  <2>1. back \in BOOLEAN
    OBVIOUS
  <2> HIDE DEF back
  <2> QED  BY <1>2, <1>3, <2>1, Taken
<1>6. \A j, k \in 1..n : d[j] = d[k] => j = k
  <2>1. back \in BOOLEAN
    OBVIOUS
  <2> HIDE DEF back
  <2> QED  BY <1>2, <1>3, <2>1, Taken
<1> HIDE DEF p, d, n, first
<1>7. w.number \in Nat
  BY <1>4 DEF first
<1>8. /\ w.people[1] = p[2 * i - 1] /\ w.people[2] = p[2 * i]
      /\ ToSet(w.people) = {w.people[1], w.people[2]}
  BY <1>4, PairOf
<1>9. w.cities[1] = d[2 * i - 1] /\ w.cities[2] = d[2 * i]
  BY <1>4, PairOf
<1>10. w.people[1] # w.people[2] /\ w.people[1] # "who" /\ w.people[2] # "who"
  BY <1>2, <1>4, <1>5, <1>8
<1>11. w.cities[1] # w.cities[2]
  BY <1>4, <1>6, <1>9
<1> HIDE DEF w
<1> QED  BY <1>1, <1>7, <1>8, <1>10, <1>11 DEF BindingWorld

LEMMA BindingTrue ==
  ASSUME NEW c, PeopleFile(c), c.kind \in Binding, ~Refused(c)
  PROVE  CorpusTrue(c) /\ SplitsApart(c)
<1>1. Inventoried(c.people, c.cities) /\ ~Leaks(c) /\ c.kind # "protocol" /\ c.kind # "pilot"
  BY DEF Refused, Configured, Binding, FactKinds
<1>2. WorldsOf(c) = BindingWorlds(c)
  BY <1>1 DEF WorldsOf
<1>3. ASSUME NEW i \in DOMAIN WorldsOf(c)
      PROVE  LET w == WorldsOf(c)[i]  cases == CasesOf(c, w)
             IN /\ LabelsTrue(cases) /\ PairsTrue(cases, PairsOf(c)) /\ AboutWorld(w, cases)
                /\ ToSet(w.people) = {w.people[1], w.people[2]}
  <2> DEFINE w == WorldsOf(c)[i]
  <2>1. BindingWorld(w) /\ ToSet(w.people) = {w.people[1], w.people[2]}
    BY <1>1, <1>2, BindingWorldsAre
  <2> HIDE DEF w
  <2>2. CASE c.kind = "joint"
    <3>1. CasesOf(c, w) = {JointCase(Asking(w, r), s) : r \in 1..2, s \in JointScenarios}
      BY <2>2 DEF CasesOf
    <3>2. PairsOf(c) = AnyOf(JointPairs)
      BY <2>2 DEF PairsOf, AnyOf
    <3> QED  BY <2>1, <3>1, <3>2, JointWorld DEF w
  <2>3. CASE c.kind = "expanded"
    <3>1. CasesOf(c, w) = {ExpandedCase(Asking(w, r), s) : r \in 1..2, s \in ExpandedScenarios}
      BY <2>3 DEF CasesOf
    <3>2. PairsOf(c) = AnyOf(ExpandedPairs)
      BY <2>3 DEF PairsOf, AnyOf
    <3> QED  BY <2>1, <3>1, <3>2, ExpandedWorld DEF w
  <2>4. CASE c.kind = "dialogue"
    <3>1. CasesOf(c, w) = {DialogueCase(Asking(w, r), s) : r \in 1..2, s \in DialogueScenarios}
      BY <2>4 DEF CasesOf
    <3>2. PairsOf(c) = AnyOf(DialoguePairs)
      BY <2>4 DEF PairsOf, AnyOf
    <3> QED  BY <2>1, <3>1, <3>2, DialogueWorld DEF w
  <2>5. CASE c.kind = "paraphrase"
    <3>1. CasesOf(c, w) = UNION {ParaphraseCases(Asking(w, r), c.cache, c.lost) : r \in 1..2}
      BY <2>5 DEF CasesOf
    <3>2. PairsOf(c) = {}
      BY <2>5 DEF PairsOf
    <3> QED  BY <2>1, <3>1, <3>2, ParaphraseWorld DEF w
  <2> QED  BY <2>2, <2>3, <2>4, <2>5 DEF Binding
<1>4. CorpusTrue(c)
  BY <1>3 DEF CorpusTrue
<1>5. ASSUME NEW i \in DOMAIN WorldsOf(c), NEW j \in DOMAIN WorldsOf(c), c.splits[i] # c.splits[j],
             NEW f \in Told(CasesOf(c, WorldsOf(c)[i])), NEW g \in Told(CasesOf(c, WorldsOf(c)[j]))
      PROVE  f.subject # g.subject
  <2>1. f.subject \in ToSet(WorldsOf(c)[i].people) /\ g.subject \in ToSet(WorldsOf(c)[j].people)
    BY <1>3 DEF AboutWorld, Told
  <2>2. KeysOf(c, WorldsOf(c)[i]) \intersect KeysOf(c, WorldsOf(c)[j]) = {}
    BY <1>1, <1>5 DEF Leaks
  <2>3. KeysOf(c, WorldsOf(c)[i]) = BindingKeys(WorldsOf(c)[i]) /\ KeysOf(c, WorldsOf(c)[j]) = BindingKeys(WorldsOf(c)[j])
    BY <1>1 DEF KeysOf
  <2>4. \A w : \A x \in ToSet(w.people) : <<"people", x>> \in BindingKeys(w)
    BY DEF BindingKeys
  <2> QED  BY <2>1, <2>2, <2>3, <2>4
<1>6. SplitsApart(c)
  BY <1>5 DEF SplitsApart
<1> QED  BY <1>4, <1>6

\* The worlds of the pilot.
PilotWorld(w) == w.a # w.b /\ w.city # w.other /\ w.a # "who" /\ w.b # "who"
AboutBoth(w, facts) == \A f \in ToSet(facts) : f.subject \in {w.a, w.b}

LEMMA LastOf ==
  /\ \A a : Last(<<a>>) = a
  /\ \A a, b : Last(<<a, b>>) = b
  BY DEF Last

LEMMA PilotTexts ==
  ASSUME NEW w
  PROVE  /\ PilotFacts(w, "original") = <<Fact(w.a, "home_city", w.city)>>
         /\ PilotFacts(w, "paraphrase") = <<Fact(w.a, "home_city", w.city)>>
         /\ PilotFacts(w, "swapped_values") = <<Fact(w.a, "home_city", w.other)>>
         /\ PilotFacts(w, "update_current") = <<Stated(w.a, "home_city", w.city, "2020", "actual"), Fact(w.a, "home_city", w.other)>>
         /\ PilotFacts(w, "empty") = <<>>
         /\ PilotFacts(w, "wrong_subject") = <<Fact(w.b, "home_city", w.other)>>
         /\ PilotFacts(w, "wrong_relation") = <<Fact(w.a, "likes_architecture_of", w.city)>>
         /\ PilotFacts(w, "conflict") = <<Stated(w.a, "home_city", w.city, "current", "quoted"), Stated(w.a, "home_city", w.other, "current", "quoted")>>
         /\ PilotFacts(w, "hypothetical") = <<Stated(w.a, "home_city", w.city, "current", "hypothetical")>>
         /\ PilotFacts(w, "negated") = <<Stated(w.a, "home_city", w.city, "current", "negated")>>
         /\ PilotFacts(w, "quoted") = <<Stated(w.a, "home_city", w.city, "current", "quoted")>>
         /\ PilotFacts(w, "historical_only") = <<Stated(w.a, "home_city", w.city, "2020", "actual")>>
         /\ PilotFacts(w, "ordinary_original") = <<Fact(w.a, "home_city", w.city)>>
         /\ PilotFacts(w, "ordinary_empty") = <<>>
         /\ PilotFacts(w, "ordinary_wrong_subject") = <<Fact(w.b, "home_city", w.other)>>
         /\ PilotFacts(w, "ordinary_conflict") = <<Stated(w.a, "home_city", w.city, "current", "quoted"), Stated(w.a, "home_city", w.other, "current", "quoted")>>
  BY DEF PilotFacts, Fact

LEMMA PilotSays ==
  ASSUME NEW w, PilotWorld(w)
  PROVE  /\ Plain(PilotFacts(w, "original")) /\ AboutBoth(w, PilotFacts(w, "original"))
         /\ Answering(w.a, "home_city", "current", PilotFacts(w, "original")) = {Fact(w.a, "home_city", w.city)}
         /\ Plain(PilotFacts(w, "paraphrase")) /\ AboutBoth(w, PilotFacts(w, "paraphrase"))
         /\ Answering(w.a, "home_city", "current", PilotFacts(w, "paraphrase")) = {Fact(w.a, "home_city", w.city)}
         /\ Plain(PilotFacts(w, "swapped_values")) /\ AboutBoth(w, PilotFacts(w, "swapped_values"))
         /\ Answering(w.a, "home_city", "current", PilotFacts(w, "swapped_values")) = {Fact(w.a, "home_city", w.other)}
         /\ Plain(PilotFacts(w, "update_current")) /\ AboutBoth(w, PilotFacts(w, "update_current"))
         /\ Answering(w.a, "home_city", "current", PilotFacts(w, "update_current")) = {Fact(w.a, "home_city", w.other)}
         /\ Plain(PilotFacts(w, "empty")) /\ AboutBoth(w, PilotFacts(w, "empty"))
         /\ Answering(w.a, "home_city", "current", PilotFacts(w, "empty")) = {}
         /\ Plain(PilotFacts(w, "wrong_subject")) /\ AboutBoth(w, PilotFacts(w, "wrong_subject"))
         /\ Answering(w.a, "home_city", "current", PilotFacts(w, "wrong_subject")) = {}
         /\ Plain(PilotFacts(w, "wrong_relation")) /\ AboutBoth(w, PilotFacts(w, "wrong_relation"))
         /\ Answering(w.a, "home_city", "current", PilotFacts(w, "wrong_relation")) = {}
         /\ Plain(PilotFacts(w, "conflict")) /\ AboutBoth(w, PilotFacts(w, "conflict"))
         /\ Answering(w.a, "home_city", "current", PilotFacts(w, "conflict")) = {}
         /\ Plain(PilotFacts(w, "hypothetical")) /\ AboutBoth(w, PilotFacts(w, "hypothetical"))
         /\ Answering(w.a, "home_city", "current", PilotFacts(w, "hypothetical")) = {}
         /\ Plain(PilotFacts(w, "negated")) /\ AboutBoth(w, PilotFacts(w, "negated"))
         /\ Answering(w.a, "home_city", "current", PilotFacts(w, "negated")) = {}
         /\ Plain(PilotFacts(w, "quoted")) /\ AboutBoth(w, PilotFacts(w, "quoted"))
         /\ Answering(w.a, "home_city", "current", PilotFacts(w, "quoted")) = {}
         /\ Plain(PilotFacts(w, "historical_only")) /\ AboutBoth(w, PilotFacts(w, "historical_only"))
         /\ Answering(w.a, "home_city", "current", PilotFacts(w, "historical_only")) = {}
         /\ Plain(PilotFacts(w, "ordinary_original")) /\ AboutBoth(w, PilotFacts(w, "ordinary_original"))
         /\ Answering(w.a, "home_city", "current", PilotFacts(w, "ordinary_original")) = {Fact(w.a, "home_city", w.city)}
         /\ Plain(PilotFacts(w, "ordinary_empty")) /\ AboutBoth(w, PilotFacts(w, "ordinary_empty"))
         /\ Answering(w.a, "home_city", "current", PilotFacts(w, "ordinary_empty")) = {}
         /\ Plain(PilotFacts(w, "ordinary_wrong_subject")) /\ AboutBoth(w, PilotFacts(w, "ordinary_wrong_subject"))
         /\ Answering(w.a, "home_city", "current", PilotFacts(w, "ordinary_wrong_subject")) = {}
         /\ Plain(PilotFacts(w, "ordinary_conflict")) /\ AboutBoth(w, PilotFacts(w, "ordinary_conflict"))
         /\ Answering(w.a, "home_city", "current", PilotFacts(w, "ordinary_conflict")) = {}
<1>1. /\ Plain(PilotFacts(w, "original")) /\ AboutBoth(w, PilotFacts(w, "original"))
      /\ Answering(w.a, "home_city", "current", PilotFacts(w, "original")) = {Fact(w.a, "home_city", w.city)}
  <2>1. PilotFacts(w, "original") = <<Fact(w.a, "home_city", w.city)>>
    BY PilotTexts
  <2>2. ToSet(<<Fact(w.a, "home_city", w.city)>>) = {Fact(w.a, "home_city", w.city)}
    BY ShortLists
  <2> QED  BY <2>1, <2>2, StatedIs, FactIs DEF Plain, AboutBoth, Answering, PilotWorld
<1>2. /\ Plain(PilotFacts(w, "paraphrase")) /\ AboutBoth(w, PilotFacts(w, "paraphrase"))
      /\ Answering(w.a, "home_city", "current", PilotFacts(w, "paraphrase")) = {Fact(w.a, "home_city", w.city)}
  <2>1. PilotFacts(w, "paraphrase") = <<Fact(w.a, "home_city", w.city)>>
    BY PilotTexts
  <2>2. ToSet(<<Fact(w.a, "home_city", w.city)>>) = {Fact(w.a, "home_city", w.city)}
    BY ShortLists
  <2> QED  BY <2>1, <2>2, StatedIs, FactIs DEF Plain, AboutBoth, Answering, PilotWorld
<1>3. /\ Plain(PilotFacts(w, "swapped_values")) /\ AboutBoth(w, PilotFacts(w, "swapped_values"))
      /\ Answering(w.a, "home_city", "current", PilotFacts(w, "swapped_values")) = {Fact(w.a, "home_city", w.other)}
  <2>1. PilotFacts(w, "swapped_values") = <<Fact(w.a, "home_city", w.other)>>
    BY PilotTexts
  <2>2. ToSet(<<Fact(w.a, "home_city", w.other)>>) = {Fact(w.a, "home_city", w.other)}
    BY ShortLists
  <2> QED  BY <2>1, <2>2, StatedIs, FactIs DEF Plain, AboutBoth, Answering, PilotWorld
<1>4. /\ Plain(PilotFacts(w, "update_current")) /\ AboutBoth(w, PilotFacts(w, "update_current"))
      /\ Answering(w.a, "home_city", "current", PilotFacts(w, "update_current")) = {Fact(w.a, "home_city", w.other)}
  <2>1. PilotFacts(w, "update_current") = <<Stated(w.a, "home_city", w.city, "2020", "actual"), Fact(w.a, "home_city", w.other)>>
    BY PilotTexts
  <2>2. ToSet(<<Stated(w.a, "home_city", w.city, "2020", "actual"), Fact(w.a, "home_city", w.other)>>) = {Stated(w.a, "home_city", w.city, "2020", "actual"), Fact(w.a, "home_city", w.other)}
    BY ShortLists
  <2> QED  BY <2>1, <2>2, StatedIs, FactIs DEF Plain, AboutBoth, Answering, PilotWorld
<1>5. /\ Plain(PilotFacts(w, "empty")) /\ AboutBoth(w, PilotFacts(w, "empty"))
      /\ Answering(w.a, "home_city", "current", PilotFacts(w, "empty")) = {}
  <2>1. PilotFacts(w, "empty") = <<>>
    BY PilotTexts
  <2>2. ToSet(<<>>) = {}
    BY ShortLists
  <2> QED  BY <2>1, <2>2, StatedIs, FactIs DEF Plain, AboutBoth, Answering, PilotWorld
<1>6. /\ Plain(PilotFacts(w, "wrong_subject")) /\ AboutBoth(w, PilotFacts(w, "wrong_subject"))
      /\ Answering(w.a, "home_city", "current", PilotFacts(w, "wrong_subject")) = {}
  <2>1. PilotFacts(w, "wrong_subject") = <<Fact(w.b, "home_city", w.other)>>
    BY PilotTexts
  <2>2. ToSet(<<Fact(w.b, "home_city", w.other)>>) = {Fact(w.b, "home_city", w.other)}
    BY ShortLists
  <2> QED  BY <2>1, <2>2, StatedIs, FactIs DEF Plain, AboutBoth, Answering, PilotWorld
<1>7. /\ Plain(PilotFacts(w, "wrong_relation")) /\ AboutBoth(w, PilotFacts(w, "wrong_relation"))
      /\ Answering(w.a, "home_city", "current", PilotFacts(w, "wrong_relation")) = {}
  <2>1. PilotFacts(w, "wrong_relation") = <<Fact(w.a, "likes_architecture_of", w.city)>>
    BY PilotTexts
  <2>2. ToSet(<<Fact(w.a, "likes_architecture_of", w.city)>>) = {Fact(w.a, "likes_architecture_of", w.city)}
    BY ShortLists
  <2> QED  BY <2>1, <2>2, StatedIs, FactIs DEF Plain, AboutBoth, Answering, PilotWorld
<1>8. /\ Plain(PilotFacts(w, "conflict")) /\ AboutBoth(w, PilotFacts(w, "conflict"))
      /\ Answering(w.a, "home_city", "current", PilotFacts(w, "conflict")) = {}
  <2>1. PilotFacts(w, "conflict") = <<Stated(w.a, "home_city", w.city, "current", "quoted"), Stated(w.a, "home_city", w.other, "current", "quoted")>>
    BY PilotTexts
  <2>2. ToSet(<<Stated(w.a, "home_city", w.city, "current", "quoted"), Stated(w.a, "home_city", w.other, "current", "quoted")>>) = {Stated(w.a, "home_city", w.city, "current", "quoted"), Stated(w.a, "home_city", w.other, "current", "quoted")}
    BY ShortLists
  <2> QED  BY <2>1, <2>2, StatedIs, FactIs DEF Plain, AboutBoth, Answering, PilotWorld
<1>9. /\ Plain(PilotFacts(w, "hypothetical")) /\ AboutBoth(w, PilotFacts(w, "hypothetical"))
      /\ Answering(w.a, "home_city", "current", PilotFacts(w, "hypothetical")) = {}
  <2>1. PilotFacts(w, "hypothetical") = <<Stated(w.a, "home_city", w.city, "current", "hypothetical")>>
    BY PilotTexts
  <2>2. ToSet(<<Stated(w.a, "home_city", w.city, "current", "hypothetical")>>) = {Stated(w.a, "home_city", w.city, "current", "hypothetical")}
    BY ShortLists
  <2> QED  BY <2>1, <2>2, StatedIs, FactIs DEF Plain, AboutBoth, Answering, PilotWorld
<1>10. /\ Plain(PilotFacts(w, "negated")) /\ AboutBoth(w, PilotFacts(w, "negated"))
      /\ Answering(w.a, "home_city", "current", PilotFacts(w, "negated")) = {}
  <2>1. PilotFacts(w, "negated") = <<Stated(w.a, "home_city", w.city, "current", "negated")>>
    BY PilotTexts
  <2>2. ToSet(<<Stated(w.a, "home_city", w.city, "current", "negated")>>) = {Stated(w.a, "home_city", w.city, "current", "negated")}
    BY ShortLists
  <2> QED  BY <2>1, <2>2, StatedIs, FactIs DEF Plain, AboutBoth, Answering, PilotWorld
<1>11. /\ Plain(PilotFacts(w, "quoted")) /\ AboutBoth(w, PilotFacts(w, "quoted"))
      /\ Answering(w.a, "home_city", "current", PilotFacts(w, "quoted")) = {}
  <2>1. PilotFacts(w, "quoted") = <<Stated(w.a, "home_city", w.city, "current", "quoted")>>
    BY PilotTexts
  <2>2. ToSet(<<Stated(w.a, "home_city", w.city, "current", "quoted")>>) = {Stated(w.a, "home_city", w.city, "current", "quoted")}
    BY ShortLists
  <2> QED  BY <2>1, <2>2, StatedIs, FactIs DEF Plain, AboutBoth, Answering, PilotWorld
<1>12. /\ Plain(PilotFacts(w, "historical_only")) /\ AboutBoth(w, PilotFacts(w, "historical_only"))
      /\ Answering(w.a, "home_city", "current", PilotFacts(w, "historical_only")) = {}
  <2>1. PilotFacts(w, "historical_only") = <<Stated(w.a, "home_city", w.city, "2020", "actual")>>
    BY PilotTexts
  <2>2. ToSet(<<Stated(w.a, "home_city", w.city, "2020", "actual")>>) = {Stated(w.a, "home_city", w.city, "2020", "actual")}
    BY ShortLists
  <2> QED  BY <2>1, <2>2, StatedIs, FactIs DEF Plain, AboutBoth, Answering, PilotWorld
<1>13. /\ Plain(PilotFacts(w, "ordinary_original")) /\ AboutBoth(w, PilotFacts(w, "ordinary_original"))
      /\ Answering(w.a, "home_city", "current", PilotFacts(w, "ordinary_original")) = {Fact(w.a, "home_city", w.city)}
  <2>1. PilotFacts(w, "ordinary_original") = <<Fact(w.a, "home_city", w.city)>>
    BY PilotTexts
  <2>2. ToSet(<<Fact(w.a, "home_city", w.city)>>) = {Fact(w.a, "home_city", w.city)}
    BY ShortLists
  <2> QED  BY <2>1, <2>2, StatedIs, FactIs DEF Plain, AboutBoth, Answering, PilotWorld
<1>14. /\ Plain(PilotFacts(w, "ordinary_empty")) /\ AboutBoth(w, PilotFacts(w, "ordinary_empty"))
      /\ Answering(w.a, "home_city", "current", PilotFacts(w, "ordinary_empty")) = {}
  <2>1. PilotFacts(w, "ordinary_empty") = <<>>
    BY PilotTexts
  <2>2. ToSet(<<>>) = {}
    BY ShortLists
  <2> QED  BY <2>1, <2>2, StatedIs, FactIs DEF Plain, AboutBoth, Answering, PilotWorld
<1>15. /\ Plain(PilotFacts(w, "ordinary_wrong_subject")) /\ AboutBoth(w, PilotFacts(w, "ordinary_wrong_subject"))
      /\ Answering(w.a, "home_city", "current", PilotFacts(w, "ordinary_wrong_subject")) = {}
  <2>1. PilotFacts(w, "ordinary_wrong_subject") = <<Fact(w.b, "home_city", w.other)>>
    BY PilotTexts
  <2>2. ToSet(<<Fact(w.b, "home_city", w.other)>>) = {Fact(w.b, "home_city", w.other)}
    BY ShortLists
  <2> QED  BY <2>1, <2>2, StatedIs, FactIs DEF Plain, AboutBoth, Answering, PilotWorld
<1>16. /\ Plain(PilotFacts(w, "ordinary_conflict")) /\ AboutBoth(w, PilotFacts(w, "ordinary_conflict"))
      /\ Answering(w.a, "home_city", "current", PilotFacts(w, "ordinary_conflict")) = {}
  <2>1. PilotFacts(w, "ordinary_conflict") = <<Stated(w.a, "home_city", w.city, "current", "quoted"), Stated(w.a, "home_city", w.other, "current", "quoted")>>
    BY PilotTexts
  <2>2. ToSet(<<Stated(w.a, "home_city", w.city, "current", "quoted"), Stated(w.a, "home_city", w.other, "current", "quoted")>>) = {Stated(w.a, "home_city", w.city, "current", "quoted"), Stated(w.a, "home_city", w.other, "current", "quoted")}
    BY ShortLists
  <2> QED  BY <2>1, <2>2, StatedIs, FactIs DEF Plain, AboutBoth, Answering, PilotWorld
<1> QED  BY <1>1, <1>2, <1>3, <1>4, <1>5, <1>6, <1>7, <1>8, <1>9, <1>10, <1>11, <1>12, <1>13, <1>14, <1>15, <1>16

LEMMA PilotCaseIs ==
  ASSUME NEW w, NEW s
  PROVE  /\ s \in PilotSupported =>
              PilotCase(w, s) = [Case(s, {Asked(w.a, "home_city", "current")}, OneText(PilotFacts(w, s), s), {1})
                                   EXCEPT !.required = {Last(PilotFacts(w, s))}]
         /\ s \in PilotMissing =>
              \E allowed : PilotCase(w, s) = Missing(s, {Asked(w.a, "home_city", "current")},
                                                     OneText(PilotFacts(w, s), s), {}, allowed)
         /\ s \in PilotNormal => PilotCase(w, s) = Ordinary(s, OneText(PilotFacts(w, s), s))
<1>1. /\ s \in PilotSupported => s \notin PilotMissing /\ s \notin PilotNormal
      /\ s \in PilotMissing => s \notin PilotNormal
  BY DEF PilotSupported, PilotMissing, PilotNormal
<1>2. CASE s \in PilotSupported
  BY <1>1, <1>2 DEF PilotCase
<1>3. CASE s \in PilotMissing
  BY <1>1, <1>3 DEF PilotCase
<1>4. CASE s \in PilotNormal
  BY <1>1, <1>4 DEF PilotCase
<1> QED  BY <1>1, <1>2, <1>3, <1>4

LEMMA PilotTells ==
  ASSUME NEW w, PilotWorld(w)
  PROVE  /\ Tells(PilotCase(w, "original"), "original", {Asked(w.a, "home_city", "current")}, OneText(PilotFacts(w, "original"), "original"), {Fact(w.a, "home_city", w.city)})
         /\ Tells(PilotCase(w, "swapped_values"), "swapped_values", {Asked(w.a, "home_city", "current")}, OneText(PilotFacts(w, "swapped_values"), "swapped_values"), {Fact(w.a, "home_city", w.other)})
         /\ Tells(PilotCase(w, "paraphrase"), "paraphrase", {Asked(w.a, "home_city", "current")}, OneText(PilotFacts(w, "paraphrase"), "paraphrase"), {Fact(w.a, "home_city", w.city)})
         /\ Tells(PilotCase(w, "update_current"), "update_current", {Asked(w.a, "home_city", "current")}, OneText(PilotFacts(w, "update_current"), "update_current"), {Fact(w.a, "home_city", w.other)})
         /\ Tells(PilotCase(w, "empty"), "empty", {Asked(w.a, "home_city", "current")}, OneText(PilotFacts(w, "empty"), "empty"), {})
         /\ Tells(PilotCase(w, "wrong_subject"), "wrong_subject", {Asked(w.a, "home_city", "current")}, OneText(PilotFacts(w, "wrong_subject"), "wrong_subject"), {})
         /\ Tells(PilotCase(w, "wrong_relation"), "wrong_relation", {Asked(w.a, "home_city", "current")}, OneText(PilotFacts(w, "wrong_relation"), "wrong_relation"), {})
         /\ Tells(PilotCase(w, "conflict"), "conflict", {Asked(w.a, "home_city", "current")}, OneText(PilotFacts(w, "conflict"), "conflict"), {})
         /\ Tells(PilotCase(w, "hypothetical"), "hypothetical", {Asked(w.a, "home_city", "current")}, OneText(PilotFacts(w, "hypothetical"), "hypothetical"), {})
         /\ Tells(PilotCase(w, "negated"), "negated", {Asked(w.a, "home_city", "current")}, OneText(PilotFacts(w, "negated"), "negated"), {})
         /\ Tells(PilotCase(w, "quoted"), "quoted", {Asked(w.a, "home_city", "current")}, OneText(PilotFacts(w, "quoted"), "quoted"), {})
         /\ Tells(PilotCase(w, "historical_only"), "historical_only", {Asked(w.a, "home_city", "current")}, OneText(PilotFacts(w, "historical_only"), "historical_only"), {})
<1>1. Tells(PilotCase(w, "original"), "original", {Asked(w.a, "home_city", "current")}, OneText(PilotFacts(w, "original"), "original"), {Fact(w.a, "home_city", w.city)})
  <2>1. Last(PilotFacts(w, "original")) = Fact(w.a, "home_city", w.city)
    <3>1. PilotFacts(w, "original") = <<Fact(w.a, "home_city", w.city)>>
      BY PilotTexts
    <3> QED  BY <3>1, LastOf
  <2>2. PilotFacts(w, "original") # <<>>
    <3>1. Answering(w.a, "home_city", "current", PilotFacts(w, "original")) # {}
      BY PilotSays
    <3> QED  BY <3>1, ShortLists DEF Answering
  <2>3. PilotCase(w, "original")
          = [Case("original", {Asked(w.a, "home_city", "current")}, OneText(PilotFacts(w, "original"), "original"), {1})
               EXCEPT !.required = {Fact(w.a, "home_city", w.city)}]
    <3>1. "original" \in PilotSupported
      BY DEF PilotSupported
    <3> QED  BY <2>1, <3>1, PilotCaseIs
  <2>4. Plain(PilotFacts(w, "original")) /\ Answering(w.a, "home_city", "current", PilotFacts(w, "original")) = {Fact(w.a, "home_city", w.city)}
    BY PilotSays
  <2>5. PICK facts : facts = PilotFacts(w, "original")
    OBVIOUS
  <2>6. PICK f : f = Fact(w.a, "home_city", w.city)
    OBVIOUS
  <2>7. Tells([Case("original", {Asked(w.a, "home_city", "current")}, OneText(facts, "original"), {1}) EXCEPT !.required = {f}],
              "original", {Asked(w.a, "home_city", "current")}, OneText(facts, "original"), {f})
    BY <2>2, <2>4, <2>5, <2>6, OneTextFound DEF PilotWorld
  <2> QED  BY <2>3, <2>5, <2>6, <2>7
<1>2. Tells(PilotCase(w, "swapped_values"), "swapped_values", {Asked(w.a, "home_city", "current")}, OneText(PilotFacts(w, "swapped_values"), "swapped_values"), {Fact(w.a, "home_city", w.other)})
  <2>1. Last(PilotFacts(w, "swapped_values")) = Fact(w.a, "home_city", w.other)
    <3>1. PilotFacts(w, "swapped_values") = <<Fact(w.a, "home_city", w.other)>>
      BY PilotTexts
    <3> QED  BY <3>1, LastOf
  <2>2. PilotFacts(w, "swapped_values") # <<>>
    <3>1. Answering(w.a, "home_city", "current", PilotFacts(w, "swapped_values")) # {}
      BY PilotSays
    <3> QED  BY <3>1, ShortLists DEF Answering
  <2>3. PilotCase(w, "swapped_values")
          = [Case("swapped_values", {Asked(w.a, "home_city", "current")}, OneText(PilotFacts(w, "swapped_values"), "swapped_values"), {1})
               EXCEPT !.required = {Fact(w.a, "home_city", w.other)}]
    <3>1. "swapped_values" \in PilotSupported
      BY DEF PilotSupported
    <3> QED  BY <2>1, <3>1, PilotCaseIs
  <2>4. Plain(PilotFacts(w, "swapped_values")) /\ Answering(w.a, "home_city", "current", PilotFacts(w, "swapped_values")) = {Fact(w.a, "home_city", w.other)}
    BY PilotSays
  <2>5. PICK facts : facts = PilotFacts(w, "swapped_values")
    OBVIOUS
  <2>6. PICK f : f = Fact(w.a, "home_city", w.other)
    OBVIOUS
  <2>7. Tells([Case("swapped_values", {Asked(w.a, "home_city", "current")}, OneText(facts, "swapped_values"), {1}) EXCEPT !.required = {f}],
              "swapped_values", {Asked(w.a, "home_city", "current")}, OneText(facts, "swapped_values"), {f})
    BY <2>2, <2>4, <2>5, <2>6, OneTextFound DEF PilotWorld
  <2> QED  BY <2>3, <2>5, <2>6, <2>7
<1>3. Tells(PilotCase(w, "paraphrase"), "paraphrase", {Asked(w.a, "home_city", "current")}, OneText(PilotFacts(w, "paraphrase"), "paraphrase"), {Fact(w.a, "home_city", w.city)})
  <2>1. Last(PilotFacts(w, "paraphrase")) = Fact(w.a, "home_city", w.city)
    <3>1. PilotFacts(w, "paraphrase") = <<Fact(w.a, "home_city", w.city)>>
      BY PilotTexts
    <3> QED  BY <3>1, LastOf
  <2>2. PilotFacts(w, "paraphrase") # <<>>
    <3>1. Answering(w.a, "home_city", "current", PilotFacts(w, "paraphrase")) # {}
      BY PilotSays
    <3> QED  BY <3>1, ShortLists DEF Answering
  <2>3. PilotCase(w, "paraphrase")
          = [Case("paraphrase", {Asked(w.a, "home_city", "current")}, OneText(PilotFacts(w, "paraphrase"), "paraphrase"), {1})
               EXCEPT !.required = {Fact(w.a, "home_city", w.city)}]
    <3>1. "paraphrase" \in PilotSupported
      BY DEF PilotSupported
    <3> QED  BY <2>1, <3>1, PilotCaseIs
  <2>4. Plain(PilotFacts(w, "paraphrase")) /\ Answering(w.a, "home_city", "current", PilotFacts(w, "paraphrase")) = {Fact(w.a, "home_city", w.city)}
    BY PilotSays
  <2>5. PICK facts : facts = PilotFacts(w, "paraphrase")
    OBVIOUS
  <2>6. PICK f : f = Fact(w.a, "home_city", w.city)
    OBVIOUS
  <2>7. Tells([Case("paraphrase", {Asked(w.a, "home_city", "current")}, OneText(facts, "paraphrase"), {1}) EXCEPT !.required = {f}],
              "paraphrase", {Asked(w.a, "home_city", "current")}, OneText(facts, "paraphrase"), {f})
    BY <2>2, <2>4, <2>5, <2>6, OneTextFound DEF PilotWorld
  <2> QED  BY <2>3, <2>5, <2>6, <2>7
<1>4. Tells(PilotCase(w, "update_current"), "update_current", {Asked(w.a, "home_city", "current")}, OneText(PilotFacts(w, "update_current"), "update_current"), {Fact(w.a, "home_city", w.other)})
  <2>1. Last(PilotFacts(w, "update_current")) = Fact(w.a, "home_city", w.other)
    <3>1. PilotFacts(w, "update_current") = <<Stated(w.a, "home_city", w.city, "2020", "actual"), Fact(w.a, "home_city", w.other)>>
      BY PilotTexts
    <3> QED  BY <3>1, LastOf
  <2>2. PilotFacts(w, "update_current") # <<>>
    <3>1. Answering(w.a, "home_city", "current", PilotFacts(w, "update_current")) # {}
      BY PilotSays
    <3> QED  BY <3>1, ShortLists DEF Answering
  <2>3. PilotCase(w, "update_current")
          = [Case("update_current", {Asked(w.a, "home_city", "current")}, OneText(PilotFacts(w, "update_current"), "update_current"), {1})
               EXCEPT !.required = {Fact(w.a, "home_city", w.other)}]
    <3>1. "update_current" \in PilotSupported
      BY DEF PilotSupported
    <3> QED  BY <2>1, <3>1, PilotCaseIs
  <2>4. Plain(PilotFacts(w, "update_current")) /\ Answering(w.a, "home_city", "current", PilotFacts(w, "update_current")) = {Fact(w.a, "home_city", w.other)}
    BY PilotSays
  <2>5. PICK facts : facts = PilotFacts(w, "update_current")
    OBVIOUS
  <2>6. PICK f : f = Fact(w.a, "home_city", w.other)
    OBVIOUS
  <2>7. Tells([Case("update_current", {Asked(w.a, "home_city", "current")}, OneText(facts, "update_current"), {1}) EXCEPT !.required = {f}],
              "update_current", {Asked(w.a, "home_city", "current")}, OneText(facts, "update_current"), {f})
    BY <2>2, <2>4, <2>5, <2>6, OneTextFound DEF PilotWorld
  <2> QED  BY <2>3, <2>5, <2>6, <2>7
<1>5. Tells(PilotCase(w, "empty"), "empty", {Asked(w.a, "home_city", "current")}, OneText(PilotFacts(w, "empty"), "empty"), {})
  <2>1. \E allowed : PilotCase(w, "empty")
          = Missing("empty", {Asked(w.a, "home_city", "current")}, OneText(PilotFacts(w, "empty"), "empty"), {}, allowed)
    <3>1. "empty" \in PilotMissing
      BY DEF PilotMissing
    <3> QED  BY <3>1, PilotCaseIs
  <2> QED  BY <2>1, PilotSays, OneTextNotFound DEF PilotWorld
<1>6. Tells(PilotCase(w, "wrong_subject"), "wrong_subject", {Asked(w.a, "home_city", "current")}, OneText(PilotFacts(w, "wrong_subject"), "wrong_subject"), {})
  <2>1. \E allowed : PilotCase(w, "wrong_subject")
          = Missing("wrong_subject", {Asked(w.a, "home_city", "current")}, OneText(PilotFacts(w, "wrong_subject"), "wrong_subject"), {}, allowed)
    <3>1. "wrong_subject" \in PilotMissing
      BY DEF PilotMissing
    <3> QED  BY <3>1, PilotCaseIs
  <2> QED  BY <2>1, PilotSays, OneTextNotFound DEF PilotWorld
<1>7. Tells(PilotCase(w, "wrong_relation"), "wrong_relation", {Asked(w.a, "home_city", "current")}, OneText(PilotFacts(w, "wrong_relation"), "wrong_relation"), {})
  <2>1. \E allowed : PilotCase(w, "wrong_relation")
          = Missing("wrong_relation", {Asked(w.a, "home_city", "current")}, OneText(PilotFacts(w, "wrong_relation"), "wrong_relation"), {}, allowed)
    <3>1. "wrong_relation" \in PilotMissing
      BY DEF PilotMissing
    <3> QED  BY <3>1, PilotCaseIs
  <2> QED  BY <2>1, PilotSays, OneTextNotFound DEF PilotWorld
<1>8. Tells(PilotCase(w, "conflict"), "conflict", {Asked(w.a, "home_city", "current")}, OneText(PilotFacts(w, "conflict"), "conflict"), {})
  <2>1. \E allowed : PilotCase(w, "conflict")
          = Missing("conflict", {Asked(w.a, "home_city", "current")}, OneText(PilotFacts(w, "conflict"), "conflict"), {}, allowed)
    <3>1. "conflict" \in PilotMissing
      BY DEF PilotMissing
    <3> QED  BY <3>1, PilotCaseIs
  <2> QED  BY <2>1, PilotSays, OneTextNotFound DEF PilotWorld
<1>9. Tells(PilotCase(w, "hypothetical"), "hypothetical", {Asked(w.a, "home_city", "current")}, OneText(PilotFacts(w, "hypothetical"), "hypothetical"), {})
  <2>1. \E allowed : PilotCase(w, "hypothetical")
          = Missing("hypothetical", {Asked(w.a, "home_city", "current")}, OneText(PilotFacts(w, "hypothetical"), "hypothetical"), {}, allowed)
    <3>1. "hypothetical" \in PilotMissing
      BY DEF PilotMissing
    <3> QED  BY <3>1, PilotCaseIs
  <2> QED  BY <2>1, PilotSays, OneTextNotFound DEF PilotWorld
<1>10. Tells(PilotCase(w, "negated"), "negated", {Asked(w.a, "home_city", "current")}, OneText(PilotFacts(w, "negated"), "negated"), {})
  <2>1. \E allowed : PilotCase(w, "negated")
          = Missing("negated", {Asked(w.a, "home_city", "current")}, OneText(PilotFacts(w, "negated"), "negated"), {}, allowed)
    <3>1. "negated" \in PilotMissing
      BY DEF PilotMissing
    <3> QED  BY <3>1, PilotCaseIs
  <2> QED  BY <2>1, PilotSays, OneTextNotFound DEF PilotWorld
<1>11. Tells(PilotCase(w, "quoted"), "quoted", {Asked(w.a, "home_city", "current")}, OneText(PilotFacts(w, "quoted"), "quoted"), {})
  <2>1. \E allowed : PilotCase(w, "quoted")
          = Missing("quoted", {Asked(w.a, "home_city", "current")}, OneText(PilotFacts(w, "quoted"), "quoted"), {}, allowed)
    <3>1. "quoted" \in PilotMissing
      BY DEF PilotMissing
    <3> QED  BY <3>1, PilotCaseIs
  <2> QED  BY <2>1, PilotSays, OneTextNotFound DEF PilotWorld
<1>12. Tells(PilotCase(w, "historical_only"), "historical_only", {Asked(w.a, "home_city", "current")}, OneText(PilotFacts(w, "historical_only"), "historical_only"), {})
  <2>1. \E allowed : PilotCase(w, "historical_only")
          = Missing("historical_only", {Asked(w.a, "home_city", "current")}, OneText(PilotFacts(w, "historical_only"), "historical_only"), {}, allowed)
    <3>1. "historical_only" \in PilotMissing
      BY DEF PilotMissing
    <3> QED  BY <3>1, PilotCaseIs
  <2> QED  BY <2>1, PilotSays, OneTextNotFound DEF PilotWorld
<1> QED  BY <1>1, <1>2, <1>3, <1>4, <1>5, <1>6, <1>7, <1>8, <1>9, <1>10, <1>11, <1>12

LEMMA PilotShows ==
  ASSUME NEW w, PilotWorld(w)
  PROVE  /\ PairShows(PilotCase(w, "original"), PilotCase(w, "swapped_values"), "any")
         /\ PairShows(PilotCase(w, "original"), PilotCase(w, "paraphrase"), "any")
         /\ PairShows(PilotCase(w, "original"), PilotCase(w, "update_current"), "any")
         /\ PairShows(PilotCase(w, "original"), PilotCase(w, "empty"), "any")
         /\ PairShows(PilotCase(w, "original"), PilotCase(w, "wrong_subject"), "any")
         /\ PairShows(PilotCase(w, "original"), PilotCase(w, "wrong_relation"), "any")
         /\ PairShows(PilotCase(w, "original"), PilotCase(w, "conflict"), "any")
         /\ PairShows(PilotCase(w, "original"), PilotCase(w, "hypothetical"), "any")
         /\ PairShows(PilotCase(w, "original"), PilotCase(w, "negated"), "any")
         /\ PairShows(PilotCase(w, "original"), PilotCase(w, "quoted"), "any")
         /\ PairShows(PilotCase(w, "original"), PilotCase(w, "historical_only"), "any")
<1>1. PairShows(PilotCase(w, "original"), PilotCase(w, "swapped_values"), "any")
  <2>1. Fact(w.a, "home_city", w.city) # Fact(w.a, "home_city", w.other)
    BY StatedIs, FactIs DEF PilotWorld
  <2> QED  BY <2>1, PilotTells, PairDiffers
<1>2. PairShows(PilotCase(w, "original"), PilotCase(w, "paraphrase"), "any")
  <2>1. PilotFacts(w, "original") # <<>>
    <3>1. Answering(w.a, "home_city", "current", PilotFacts(w, "original")) # {}
      BY PilotSays
    <3> QED  BY <3>1, ShortLists DEF Answering
  <2>2. Style("original") # Style("paraphrase")
    BY DEF Style
  <2>3. OneText(PilotFacts(w, "original"), "original") # OneText(PilotFacts(w, "paraphrase"), "paraphrase")
    BY <2>1, <2>2, TextsDiffer
  <2> QED  BY <2>3, PilotTells, PairSame
<1>3. PairShows(PilotCase(w, "original"), PilotCase(w, "update_current"), "any")
  <2>1. Fact(w.a, "home_city", w.city) # Fact(w.a, "home_city", w.other)
    BY StatedIs, FactIs DEF PilotWorld
  <2> QED  BY <2>1, PilotTells, PairDiffers
<1>4. PairShows(PilotCase(w, "original"), PilotCase(w, "empty"), "any")
  BY PilotTells, PairDiffers
<1>5. PairShows(PilotCase(w, "original"), PilotCase(w, "wrong_subject"), "any")
  BY PilotTells, PairDiffers
<1>6. PairShows(PilotCase(w, "original"), PilotCase(w, "wrong_relation"), "any")
  BY PilotTells, PairDiffers
<1>7. PairShows(PilotCase(w, "original"), PilotCase(w, "conflict"), "any")
  BY PilotTells, PairDiffers
<1>8. PairShows(PilotCase(w, "original"), PilotCase(w, "hypothetical"), "any")
  BY PilotTells, PairDiffers
<1>9. PairShows(PilotCase(w, "original"), PilotCase(w, "negated"), "any")
  BY PilotTells, PairDiffers
<1>10. PairShows(PilotCase(w, "original"), PilotCase(w, "quoted"), "any")
  BY PilotTells, PairDiffers
<1>11. PairShows(PilotCase(w, "original"), PilotCase(w, "historical_only"), "any")
  BY PilotTells, PairDiffers
<1> QED  BY <1>1, <1>2, <1>3, <1>4, <1>5, <1>6, <1>7, <1>8, <1>9, <1>10, <1>11

LEMMA PilotOrdinary ==
  ASSUME NEW w, NEW s \in PilotNormal
  PROVE  LET c == PilotCase(w, s)
         IN /\ c.scenario = s /\ c.context = <<"sum", {}>> /\ c.ask = {} /\ c.needed = FALSE
            /\ c.episodes = OneText(PilotFacts(w, s), s) /\ LabelFollows(c)
<1> DEFINE e == OneText(PilotFacts(w, s), s)
<1>1. PilotCase(w, s) = Ordinary(s, e)
  BY PilotCaseIs
<1> HIDE DEF e
<1>2. LET c == Ordinary(s, e)
      IN /\ c.scenario = s /\ c.context = <<"sum", {}>> /\ c.ask = {} /\ c.needed = FALSE /\ c.episodes = e
  BY DEF Case, Ordinary
<1>3. LabelFollows(Ordinary(s, e))
  BY <1>2 DEF LabelFollows
<1> QED  BY <1>1, <1>2, <1>3 DEF e

LEMMA PilotOrdinaryPair ==
  ASSUME NEW w, PilotWorld(w), NEW s \in PilotNormal \ {"ordinary_empty"}
  PROVE  PairShows(PilotCase(w, "ordinary_empty"), PilotCase(w, s), "any")
<1>1. s \in {"ordinary_original", "ordinary_wrong_subject", "ordinary_conflict"}
  BY DEF PilotNormal
<1>2. ToSet(PilotFacts(w, s)) # {}
  <2>1. CASE s = "ordinary_original"
    <3>1. PilotFacts(w, s) = <<Fact(w.a, "home_city", w.city)>>
      BY <2>1, PilotTexts
    <3> QED  BY <3>1, ShortLists
  <2>2. CASE s = "ordinary_wrong_subject"
    <3>1. PilotFacts(w, s) = <<Fact(w.b, "home_city", w.other)>>
      BY <2>2, PilotTexts
    <3> QED  BY <3>1, ShortLists
  <2>3. CASE s = "ordinary_conflict"
    <3>1. PilotFacts(w, s) = <<Stated(w.a, "home_city", w.city, "current", "quoted"), Stated(w.a, "home_city", w.other, "current", "quoted")>>
      BY <2>3, PilotTexts
    <3> QED  BY <3>1, ShortLists
  <2> QED  BY <1>1, <2>1, <2>2, <2>3
<1>3. PilotFacts(w, "ordinary_empty") = <<>>
  BY PilotTexts
<1>4. OneText(PilotFacts(w, "ordinary_empty"), "ordinary_empty") # OneText(PilotFacts(w, s), s)
  BY <1>2, <1>3, ShortLists, TextsDiffer
<1>5. "ordinary_empty" \in PilotNormal
  BY DEF PilotNormal
<1>6. /\ PilotCase(w, "ordinary_empty").context = PilotCase(w, s).context
      /\ PilotCase(w, "ordinary_empty").ask = PilotCase(w, s).ask
      /\ PilotCase(w, "ordinary_empty").episodes # PilotCase(w, s).episodes
      /\ PilotCase(w, "ordinary_empty").needed = FALSE /\ PilotCase(w, s).needed = FALSE
  <2>1. LET c == PilotCase(w, "ordinary_empty")
        IN /\ c.context = <<"sum", {}>> /\ c.ask = {} /\ c.needed = FALSE
           /\ c.episodes = OneText(PilotFacts(w, "ordinary_empty"), "ordinary_empty")
    BY <1>5, PilotOrdinary
  <2>2. LET c == PilotCase(w, s)
        IN /\ c.context = <<"sum", {}>> /\ c.ask = {} /\ c.needed = FALSE
           /\ c.episodes = OneText(PilotFacts(w, s), s)
    BY PilotOrdinary
  <2> QED  BY <1>4, <2>1, <2>2
<1> QED  BY <1>6 DEF PairShows

LEMMA PilotWorldTrue ==
  ASSUME NEW w, PilotWorld(w)
  PROVE  /\ LabelsTrue(PilotCases(w)) /\ PairsTrue(PilotCases(w), AnyOf(PilotPairs))
         /\ \A f \in Told(PilotCases(w)) : f.subject \in {w.a, w.b}
<1>1. ASSUME NEW s \in PilotSupported \union PilotMissing \union PilotNormal
      PROVE  LET c == PilotCase(w, s)
             IN /\ c.scenario = s /\ LabelFollows(c) /\ c.episodes = OneText(PilotFacts(w, s), s)
                /\ AboutBoth(w, PilotFacts(w, s))
  <2>1. CASE s \in PilotNormal
    <3>1. s \in {"ordinary_empty", "ordinary_original", "ordinary_wrong_subject", "ordinary_conflict"}
      BY <2>1 DEF PilotNormal
    <3>2. AboutBoth(w, PilotFacts(w, s))
      BY <3>1, PilotSays
    <3> QED  BY <2>1, <3>2, PilotOrdinary
  <2>2. CASE s \in PilotSupported \union PilotMissing
    <3>1. s \in {"original", "swapped_values", "paraphrase", "update_current", "empty", "wrong_subject",
                 "wrong_relation", "conflict", "hypothetical", "negated", "quoted", "historical_only"}
      BY <2>2 DEF PilotSupported, PilotMissing
    <3>2. AboutBoth(w, PilotFacts(w, s))
      BY <3>1, PilotSays
    <3>3. \E known : Tells(PilotCase(w, s), s, {Asked(w.a, "home_city", "current")}, OneText(PilotFacts(w, s), s), known)
      BY <3>1, PilotTells
    <3> QED  BY <3>2, <3>3 DEF Tells
  <2> QED  BY <2>1, <2>2
<1>2. LabelsTrue(PilotCases(w))
  BY <1>1 DEF LabelsTrue, PilotCases
<1>3. PairsTrue(PilotCases(w), AnyOf(PilotPairs))
  <2> SUFFICES ASSUME NEW c \in PilotCases(w), NEW d \in PilotCases(w), NEW p \in AnyOf(PilotPairs),
                      c.scenario = p[1], d.scenario = p[2]
               PROVE  PairShows(c, d, p[3])
    BY DEF PairsTrue
  <2>1. PICK s \in PilotSupported \union PilotMissing \union PilotNormal : c = PilotCase(w, s)
    BY DEF PilotCases
  <2>2. PICK t \in PilotSupported \union PilotMissing \union PilotNormal : d = PilotCase(w, t)
    BY DEF PilotCases
  <2>3. c.scenario = s /\ d.scenario = t
    BY <1>1, <2>1, <2>2
  <2>4. PICK x \in PilotPairs : p = <<x[1], x[2], "any">>
    BY DEF AnyOf
  <2>5. x[1] = s /\ x[2] = t /\ p[3] = "any"
    <3>1. p[1] = x[1] /\ p[2] = x[2] /\ p[3] = "any"
      BY <2>4
    <3> QED  BY <2>3, <3>1
  <2>6. \/ s = "original" /\ t \in {"swapped_values", "paraphrase", "update_current", "empty", "wrong_subject",
                 "wrong_relation", "conflict", "hypothetical", "negated", "quoted", "historical_only"}
        \/ s = "ordinary_empty" /\ t \in PilotNormal \ {"ordinary_empty"}
    BY <2>5 DEF PilotPairs, PilotSupported, PilotMissing
  <2>7. PairShows(PilotCase(w, s), PilotCase(w, t), "any")
    <3>1. CASE s = "ordinary_empty" /\ t \in PilotNormal \ {"ordinary_empty"}
      BY <3>1, PilotOrdinaryPair
    <3>2. CASE ~(s = "ordinary_empty" /\ t \in PilotNormal \ {"ordinary_empty"})
      BY <2>6, <3>2, PilotShows
    <3> QED  BY <3>1, <3>2
  <2> QED  BY <2>1, <2>2, <2>5, <2>7
<1>4. ASSUME NEW f \in Told(PilotCases(w)) PROVE f.subject \in {w.a, w.b}
  <2>1. PICK s \in PilotSupported \union PilotMissing \union PilotNormal : f \in FactsIn(PilotCase(w, s).episodes)
    BY DEF Told, PilotCases
  <2>2. FactsIn(PilotCase(w, s).episodes) = ToSet(PilotFacts(w, s))
    BY <1>1, OneTextTells
  <2> QED  BY <1>1, <2>1, <2>2 DEF AboutBoth
<1> QED  BY <1>2, <1>3, <1>4

\* Two neighbouring places of a list that comes round are different.
LEMMA Neighbours ==
  ASSUME NEW n \in Nat, n >= 2, NEW i \in Nat, i >= 1
  PROVE  /\ ((i - 1) % n) + 1 \in 1..n /\ (i % n) + 1 \in 1..n
         /\ ((i - 1) % n) + 1 # (i % n) + 1
<1>1. (i - 1) % n \in 0..(n - 1) /\ i % n \in 0..(n - 1)
  OBVIOUS
<1>2. i - 1 = n * ((i - 1) \div n) + ((i - 1) % n) /\ i = n * (i \div n) + (i % n)
  OBVIOUS
<1>3. ASSUME (i - 1) % n = i % n PROVE FALSE
  <2>1. PICK a \in Int, b \in Int, r \in Int : i - 1 = n * b + r /\ i = n * a + r
    <3>1. (i - 1) \div n \in Int /\ i \div n \in Int /\ i % n \in Int
      OBVIOUS
    <3> QED  BY <1>2, <1>3, <3>1
  <2>2. n * a - n * b = 1
    BY <2>1
  <2>3. n * (a - b) = 1 /\ a - b \in Int
    BY <2>2
  <2> QED  BY <2>3
<1> QED  BY <1>1, <1>3

LEMMA PilotTrue ==
  ASSUME NEW c, PeopleFile(c), c.kind = "pilot", ~Refused(c)
  PROVE  CorpusTrue(c) /\ SplitsApart(c)
<1>1. /\ IsInjective(c.people) /\ IsInjective(c.cities) /\ Len(c.cities) >= 2 /\ ~Leaks(c)
  BY DEF Refused, Configured, FactKinds, PilotConfigured
<1>2. /\ WorldsOf(c) = PilotWorlds(c.people, c.cities)
      /\ PairsOf(c) = AnyOf(PilotPairs)
      /\ \A w : CasesOf(c, w) = PilotCases(w) /\ KeysOf(c, w) = PilotKeys(w)
  BY DEF WorldsOf, PairsOf, AnyOf, CasesOf, KeysOf
<1>3. ASSUME NEW i \in DOMAIN WorldsOf(c) PROVE PilotWorld(WorldsOf(c)[i])
  <2> DEFINE n == Len(c.people)  m == Len(c.cities)
  <2>1. i \in 1..(n \div 2)
    BY <1>2 DEF PilotWorlds
  <2>2. /\ n \in Nat /\ m \in Nat /\ DOMAIN c.people = 1..n /\ DOMAIN c.cities = 1..m
        /\ "who" \notin ToSet(c.people)
    BY DEF PeopleFile, Listed
  <2>3. i \in Nat /\ i >= 1 /\ 2 * i - 1 \in 1..n /\ 2 * i \in 1..n /\ 2 * i - 1 # 2 * i
    <3> HIDE DEF n
    <3> QED  BY <2>1, <2>2
  <2>4. ((i - 1) % m) + 1 \in 1..m /\ (i % m) + 1 \in 1..m /\ ((i - 1) % m) + 1 # (i % m) + 1
    BY <1>1, <2>2, <2>3, Neighbours
  <2>5. WorldsOf(c)[i] = [id |-> i, a |-> c.people[2 * i - 1], b |-> c.people[2 * i],
                          city |-> c.cities[((i - 1) % m) + 1], other |-> c.cities[(i % m) + 1]]
    BY <1>2, <2>1 DEF PilotWorlds
  <2>6. c.people[2 * i - 1] # c.people[2 * i] /\ c.people[2 * i - 1] # "who" /\ c.people[2 * i] # "who"
    BY <1>1, <2>2, <2>3 DEF IsInjective, ToSet
  <2>7. c.cities[((i - 1) % m) + 1] # c.cities[(i % m) + 1]
    BY <1>1, <2>2, <2>4 DEF IsInjective
  <2> QED  BY <2>5, <2>6, <2>7 DEF PilotWorld
<1>4. CorpusTrue(c)
  BY <1>2, <1>3, PilotWorldTrue DEF CorpusTrue
<1>5. ASSUME NEW i \in DOMAIN WorldsOf(c), NEW j \in DOMAIN WorldsOf(c), c.splits[i] # c.splits[j],
             NEW f \in Told(CasesOf(c, WorldsOf(c)[i])), NEW g \in Told(CasesOf(c, WorldsOf(c)[j]))
      PROVE  f.subject # g.subject
  <2>1. PICK u, v : u = WorldsOf(c)[i] /\ v = WorldsOf(c)[j]
    OBVIOUS
  <2>2. f.subject \in {u.a, u.b} /\ g.subject \in {v.a, v.b}
    BY <1>2, <1>3, <2>1, PilotWorldTrue
  <2>3. KeysOf(c, u) \intersect KeysOf(c, v) = {}
    BY <1>1, <1>5, <2>1 DEF Leaks
  <2>4. \A w : \A x \in {w.a, w.b} : <<"subject", x>> \in PilotKeys(w)
    BY DEF PilotKeys
  <2> QED  BY <1>2, <2>2, <2>3, <2>4
<1>6. SplitsApart(c)
  BY <1>5 DEF SplitsApart
<1> QED  BY <1>4, <1>6

\* The worlds of the protocol.
ProtocolWorld(w) ==
  /\ w.a # w.b /\ w.city # w.other /\ w.alias \notin {w.a, w.b, "who"} /\ w.a # "who" /\ w.b # "who"

\* What a set of facts, none of them an alias, answers.
Asserted(p, r, t, S) ==
  {f \in S : f.subject = p /\ f.relation = r /\ f.time = t /\ f.status = "actual"}

LEMMA EpisodesFound ==
  ASSUME NEW s, NEW p, NEW r, NEW t, NEW e, NEW k, NEW f, NEW c, c = Case(s, {Asked(p, r, t)}, e, {k}), p # "who",
         \A g \in FactsIn(e) : g.relation # "alias",
         Asserted(p, r, t, FactsIn(e)) = {f}, ToSet(e[k].facts) = {f}
  PROVE  Tells(c, s, {Asked(p, r, t)}, e, {f})
<1> DEFINE q == Asked(p, r, t)
<1>1. \A S : Direct(q, S) = Asserted(p, r, t, S)
  BY AskedIs DEF Direct, Asserted
<1>2. q.subject # "who"
  BY AskedIs
<1>3. AnswersTo(q, FactsIn(e)) = {f}
  <2> HIDE DEF q
  <2> QED  BY <1>1, <1>2, NoAlias
<1>4. f \in Asserted(p, r, t, FactsIn(e))
  OBVIOUS
<1>5. f \in FactsIn(e) /\ Asserted(p, r, t, {f}) = {f}
  BY <1>4 DEF Asserted
<1>6. AnswersTo(q, {f}) = {f}
  <2> HIDE DEF q
  <2> QED  BY <1>1, <1>2, <1>5, NoAlias
<1> HIDE DEF q
<1> DEFINE d == Case(s, {q}, e, {k})
<1>c. c = d
  BY DEF q
<1>7. d.required = {f}
  <2>1. UNION {ToSet(e[i].facts) : i \in {k}} = ToSet(e[k].facts)
    OBVIOUS
  <2> QED  BY <2>1 DEF Case
<1>8. /\ d.scenario = s /\ d.context = <<"asked", {q}>> /\ d.ask = {q}
      /\ d.needed = TRUE /\ d.episodes = e /\ d.missing = FALSE /\ d.targets = {k}
  BY DEF Case
<1> HIDE DEF d
<1>9. Found(c, s, q, e, k, f)
  BY <1>c, <1>3, <1>6, <1>7, <1>8 DEF Found
<1> QED  BY <1>9, FoundTells DEF q

\* The case of a scenario that its episodes do not answer.
Lacks(c, s, asks, e) == \E targets, allowed : c = Missing(s, asks, e, targets, allowed)
LEMMA EpisodesNotFound ==
  ASSUME NEW s, NEW p, NEW r, NEW t, NEW e, NEW c, Lacks(c, s, {Asked(p, r, t)}, e), p # "who",
         \A g \in FactsIn(e) : g.relation # "alias",
         Asserted(p, r, t, FactsIn(e)) = {}
  PROVE  Tells(c, s, {Asked(p, r, t)}, e, {})
<1> DEFINE q == Asked(p, r, t)
<1>1. \A S : Direct(q, S) = Asserted(p, r, t, S)
  BY AskedIs DEF Direct, Asserted
<1>2. q.subject # "who"
  BY AskedIs
<1> HIDE DEF q
<1>3. AnswersTo(q, FactsIn(e)) = {}
  BY <1>1, <1>2, NoAlias
<1>t. PICK targets, allowed : c = Missing(s, {q}, e, targets, allowed)
  BY DEF Lacks, q
<1> DEFINE d == Missing(s, {q}, e, targets, allowed)
<1>d. c = d
  BY <1>t
<1>4. /\ d.scenario = s /\ d.context = <<"asked", {q}>> /\ d.ask = {q}
      /\ d.needed = TRUE /\ d.episodes = e /\ d.missing = TRUE /\ d.required = {}
  BY DEF Case, Missing
<1> HIDE DEF d
<1>5. NotFound(c, s, q, e)
  BY <1>3, <1>4, <1>d DEF NotFound
<1> QED  BY <1>5, NotFoundTells DEF q

LEMMA TextIs == \A d, st : Text(d, st).facts = d /\ Text(d, st).style = st
  BY DEF Text
LEMMA Joined ==
  ASSUME NEW a, NEW b, NEW c
  PROVE  <<a, b>> \o <<c>> = <<a, b, c>>
<1> DEFINE T == {a, b, c}
<1>1. <<a, b>> \in Seq(T) /\ <<c>> \in Seq(T) /\ <<a, b, c>> \in Seq(T)
  OBVIOUS
<1>2. <<a, b>> \o <<c>> \in Seq(T) /\ Len(<<a, b>> \o <<c>>) = 3
  BY <1>1
<1>3. \A i \in 1..3 : (<<a, b>> \o <<c>>)[i] = <<a, b, c>>[i]
  OBVIOUS
<1> HIDE DEF T
<1> QED  BY <1>1, <1>2, <1>3, SeqEqual

LEMMA OriginalIs ==
  ASSUME NEW w
  PROVE  ProtocolCase(w, "original")
           = Case("original", {Asked(w.a, "home_city", "current")},
                  <<Text(<<Fact(w.a, "home_city", w.city)>>, "plain"),
                    Text(<<Fact(w.b, "home_city", w.other)>>, "plain")>>, {1})
  BY DEF ProtocolCase, Fact, Text

LEMMA ProtocolTells ==
  ASSUME NEW w, ProtocolWorld(w)
  PROVE  /\ Tells(ProtocolCase(w, "original"), "original", {Asked(w.a, "home_city", "current")}, <<Text(<<Fact(w.a, "home_city", w.city)>>, "plain"), Text(<<Fact(w.b, "home_city", w.other)>>, "plain")>>, {Fact(w.a, "home_city", w.city)})
         /\ Tells(ProtocolCase(w, "paraphrase"), "paraphrase", {Asked(w.a, "home_city", "current")}, <<Text(<<Fact(w.a, "home_city", w.city)>>, "paraphrase"), Text(<<Fact(w.b, "home_city", w.other)>>, "plain")>>, {Fact(w.a, "home_city", w.city)})
         /\ Tells(ProtocolCase(w, "swapped_values"), "swapped_values", {Asked(w.a, "home_city", "current")}, <<Text(<<Fact(w.a, "home_city", w.other)>>, "plain"), Text(<<Fact(w.b, "home_city", w.city)>>, "plain")>>, {Fact(w.a, "home_city", w.other)})
         /\ Tells(ProtocolCase(w, "same_value_other_person"), "same_value_other_person", {Asked(w.a, "home_city", "current")}, <<Text(<<Fact(w.a, "home_city", w.city)>>, "plain"), Text(<<Fact(w.b, "home_city", w.city)>>, "plain")>>, {Fact(w.a, "home_city", w.city)})
         /\ Tells(ProtocolCase(w, "wrong_subject"), "wrong_subject", {Asked(w.a, "home_city", "current")}, <<Text(<<Fact(w.b, "home_city", w.other)>>, "plain")>>, {})
         /\ Tells(ProtocolCase(w, "target_removed"), "target_removed", {Asked(w.a, "home_city", "current")}, <<Text(<<Fact(w.b, "home_city", w.other)>>, "plain")>>, {})
         /\ Tells(ProtocolCase(w, "all_irrelevant"), "all_irrelevant", {Asked(w.a, "home_city", "current")}, <<Text(<<Fact(w.b, "home_city", w.other)>>, "plain"), Text(<<Fact(w.b, "drink", w.drink)>>, "plain")>>, {})
         /\ Tells(ProtocolCase(w, "wrong_relation"), "wrong_relation", {Asked(w.a, "home_city", "current")}, <<Text(<<Fact(w.a, "drink", w.drink)>>, "plain")>>, {})
         /\ Tells(ProtocolCase(w, "distractor_added"), "distractor_added", {Asked(w.a, "home_city", "current")}, <<Text(<<Fact(w.a, "home_city", w.city)>>, "plain"), Text(<<Fact(w.b, "home_city", w.other)>>, "plain"), Text(<<Fact(w.a, "drink", w.drink)>>, "plain")>>, {Fact(w.a, "home_city", w.city)})
         /\ Tells(ProtocolCase(w, "distractor_reordered"), "distractor_reordered", {Asked(w.a, "home_city", "current")}, <<Text(<<Fact(w.a, "drink", w.drink)>>, "plain"), Text(<<Fact(w.b, "home_city", w.other)>>, "plain"), Text(<<Fact(w.a, "home_city", w.city)>>, "plain")>>, {Fact(w.a, "home_city", w.city)})
         /\ Tells(ProtocolCase(w, "hypothetical"), "hypothetical", {Asked(w.a, "home_city", "current")}, <<Text(<<Stated(w.a, "home_city", w.city, "current", "hypothetical")>>, "plain")>>, {})
         /\ Tells(ProtocolCase(w, "negated"), "negated", {Asked(w.a, "home_city", "current")}, <<Text(<<Stated(w.a, "home_city", w.city, "current", "negated")>>, "plain")>>, {})
         /\ Tells(ProtocolCase(w, "quoted"), "quoted", {Asked(w.a, "home_city", "current")}, <<Text(<<Stated(w.a, "home_city", w.city, "current", "quoted")>>, "plain")>>, {})
         /\ Tells(ProtocolCase(w, "update_current"), "update_current", {Asked(w.a, "home_city", "current")}, <<Text(<<Stated(w.a, "home_city", w.city, "2020", "actual")>>, "plain"), Text(<<Fact(w.a, "home_city", w.other)>>, "plain")>>, {Fact(w.a, "home_city", w.other)})
         /\ Tells(ProtocolCase(w, "update_history"), "update_history", {Asked(w.a, "home_city", "2020")}, <<Text(<<Stated(w.a, "home_city", w.city, "2020", "actual")>>, "plain"), Text(<<Fact(w.a, "home_city", w.other)>>, "plain")>>, {Stated(w.a, "home_city", w.city, "2020", "actual")})
         /\ Tells(ProtocolCase(w, "empty"), "empty", {Asked(w.a, "home_city", "current")}, <<>>, {})
<1>1. Tells(ProtocolCase(w, "original"), "original", {Asked(w.a, "home_city", "current")}, <<Text(<<Fact(w.a, "home_city", w.city)>>, "plain"), Text(<<Fact(w.b, "home_city", w.other)>>, "plain")>>, {Fact(w.a, "home_city", w.city)})
  <2>1. PICK e : e = <<Text(<<Fact(w.a, "home_city", w.city)>>, "plain"), Text(<<Fact(w.b, "home_city", w.other)>>, "plain")>>
    OBVIOUS
  <2>2. FactsIn(e) = {Fact(w.a, "home_city", w.city), Fact(w.b, "home_city", w.other)}
    BY <2>1, ToldIs, ShortLists
  <2>3. \A g \in FactsIn(e) : g.relation # "alias"
    BY <2>2, StatedIs, FactIs
  <2>4. Asserted(w.a, "home_city", "current", FactsIn(e)) = {Fact(w.a, "home_city", w.city)}
    BY <2>2, StatedIs, FactIs DEF Asserted, ProtocolWorld
  <2>5. ToSet(e[1].facts) = {Fact(w.a, "home_city", w.city)}
    <3>1. e[1] = Text(<<Fact(w.a, "home_city", w.city)>>, "plain")
      BY <2>1
    <3> QED  BY <3>1, TextIs, ShortLists
  <2>6. ProtocolCase(w, "original") = Case("original", {Asked(w.a, "home_city", "current")}, e, {1})
    BY <2>1, Joined DEF ProtocolCase, Fact, Text
  <2>7. PICK f : f = Fact(w.a, "home_city", w.city)
    OBVIOUS
  <2>8. Tells(ProtocolCase(w, "original"), "original", {Asked(w.a, "home_city", "current")}, e, {f})
    BY <2>3, <2>4, <2>5, <2>6, <2>7, EpisodesFound DEF ProtocolWorld
  <2> QED  BY <2>1, <2>7, <2>8
<1>2. Tells(ProtocolCase(w, "paraphrase"), "paraphrase", {Asked(w.a, "home_city", "current")}, <<Text(<<Fact(w.a, "home_city", w.city)>>, "paraphrase"), Text(<<Fact(w.b, "home_city", w.other)>>, "plain")>>, {Fact(w.a, "home_city", w.city)})
  <2>1. PICK e : e = <<Text(<<Fact(w.a, "home_city", w.city)>>, "paraphrase"), Text(<<Fact(w.b, "home_city", w.other)>>, "plain")>>
    OBVIOUS
  <2>2. FactsIn(e) = {Fact(w.a, "home_city", w.city), Fact(w.b, "home_city", w.other)}
    BY <2>1, ToldIs, ShortLists
  <2>3. \A g \in FactsIn(e) : g.relation # "alias"
    BY <2>2, StatedIs, FactIs
  <2>4. Asserted(w.a, "home_city", "current", FactsIn(e)) = {Fact(w.a, "home_city", w.city)}
    BY <2>2, StatedIs, FactIs DEF Asserted, ProtocolWorld
  <2>5. ToSet(e[1].facts) = {Fact(w.a, "home_city", w.city)}
    <3>1. e[1] = Text(<<Fact(w.a, "home_city", w.city)>>, "paraphrase")
      BY <2>1
    <3> QED  BY <3>1, TextIs, ShortLists
  <2>6. ProtocolCase(w, "paraphrase") = Case("paraphrase", {Asked(w.a, "home_city", "current")}, e, {1})
    BY <2>1, Joined DEF ProtocolCase, Fact, Text
  <2>7. PICK f : f = Fact(w.a, "home_city", w.city)
    OBVIOUS
  <2>8. Tells(ProtocolCase(w, "paraphrase"), "paraphrase", {Asked(w.a, "home_city", "current")}, e, {f})
    BY <2>3, <2>4, <2>5, <2>6, <2>7, EpisodesFound DEF ProtocolWorld
  <2> QED  BY <2>1, <2>7, <2>8
<1>3. Tells(ProtocolCase(w, "swapped_values"), "swapped_values", {Asked(w.a, "home_city", "current")}, <<Text(<<Fact(w.a, "home_city", w.other)>>, "plain"), Text(<<Fact(w.b, "home_city", w.city)>>, "plain")>>, {Fact(w.a, "home_city", w.other)})
  <2>1. PICK e : e = <<Text(<<Fact(w.a, "home_city", w.other)>>, "plain"), Text(<<Fact(w.b, "home_city", w.city)>>, "plain")>>
    OBVIOUS
  <2>2. FactsIn(e) = {Fact(w.a, "home_city", w.other), Fact(w.b, "home_city", w.city)}
    BY <2>1, ToldIs, ShortLists
  <2>3. \A g \in FactsIn(e) : g.relation # "alias"
    BY <2>2, StatedIs, FactIs
  <2>4. Asserted(w.a, "home_city", "current", FactsIn(e)) = {Fact(w.a, "home_city", w.other)}
    BY <2>2, StatedIs, FactIs DEF Asserted, ProtocolWorld
  <2>5. ToSet(e[1].facts) = {Fact(w.a, "home_city", w.other)}
    <3>1. e[1] = Text(<<Fact(w.a, "home_city", w.other)>>, "plain")
      BY <2>1
    <3> QED  BY <3>1, TextIs, ShortLists
  <2>6. ProtocolCase(w, "swapped_values") = Case("swapped_values", {Asked(w.a, "home_city", "current")}, e, {1})
    BY <2>1, Joined DEF ProtocolCase, Fact, Text
  <2>7. PICK f : f = Fact(w.a, "home_city", w.other)
    OBVIOUS
  <2>8. Tells(ProtocolCase(w, "swapped_values"), "swapped_values", {Asked(w.a, "home_city", "current")}, e, {f})
    BY <2>3, <2>4, <2>5, <2>6, <2>7, EpisodesFound DEF ProtocolWorld
  <2> QED  BY <2>1, <2>7, <2>8
<1>4. Tells(ProtocolCase(w, "same_value_other_person"), "same_value_other_person", {Asked(w.a, "home_city", "current")}, <<Text(<<Fact(w.a, "home_city", w.city)>>, "plain"), Text(<<Fact(w.b, "home_city", w.city)>>, "plain")>>, {Fact(w.a, "home_city", w.city)})
  <2>1. PICK e : e = <<Text(<<Fact(w.a, "home_city", w.city)>>, "plain"), Text(<<Fact(w.b, "home_city", w.city)>>, "plain")>>
    OBVIOUS
  <2>2. FactsIn(e) = {Fact(w.a, "home_city", w.city), Fact(w.b, "home_city", w.city)}
    BY <2>1, ToldIs, ShortLists
  <2>3. \A g \in FactsIn(e) : g.relation # "alias"
    BY <2>2, StatedIs, FactIs
  <2>4. Asserted(w.a, "home_city", "current", FactsIn(e)) = {Fact(w.a, "home_city", w.city)}
    BY <2>2, StatedIs, FactIs DEF Asserted, ProtocolWorld
  <2>5. ToSet(e[1].facts) = {Fact(w.a, "home_city", w.city)}
    <3>1. e[1] = Text(<<Fact(w.a, "home_city", w.city)>>, "plain")
      BY <2>1
    <3> QED  BY <3>1, TextIs, ShortLists
  <2>6. ProtocolCase(w, "same_value_other_person") = Case("same_value_other_person", {Asked(w.a, "home_city", "current")}, e, {1})
    BY <2>1, Joined DEF ProtocolCase, Fact, Text
  <2>7. PICK f : f = Fact(w.a, "home_city", w.city)
    OBVIOUS
  <2>8. Tells(ProtocolCase(w, "same_value_other_person"), "same_value_other_person", {Asked(w.a, "home_city", "current")}, e, {f})
    BY <2>3, <2>4, <2>5, <2>6, <2>7, EpisodesFound DEF ProtocolWorld
  <2> QED  BY <2>1, <2>7, <2>8
<1>5. Tells(ProtocolCase(w, "wrong_subject"), "wrong_subject", {Asked(w.a, "home_city", "current")}, <<Text(<<Fact(w.b, "home_city", w.other)>>, "plain")>>, {})
  <2>1. PICK e : e = <<Text(<<Fact(w.b, "home_city", w.other)>>, "plain")>>
    OBVIOUS
  <2>2. FactsIn(e) = {Fact(w.b, "home_city", w.other)}
    BY <2>1, ToldIs, ShortLists
  <2>3. \A g \in FactsIn(e) : g.relation # "alias"
    BY <2>2, StatedIs, FactIs
  <2>4. Asserted(w.a, "home_city", "current", FactsIn(e)) = {}
    BY <2>2, StatedIs, FactIs DEF Asserted, ProtocolWorld
  <2>5. Lacks(ProtocolCase(w, "wrong_subject"), "wrong_subject", {Asked(w.a, "home_city", "current")}, e)
    BY <2>1, Joined DEF ProtocolCase, Fact, Text, Lacks
  <2>6. Tells(ProtocolCase(w, "wrong_subject"), "wrong_subject", {Asked(w.a, "home_city", "current")}, e, {})
    BY <2>3, <2>4, <2>5, EpisodesNotFound DEF ProtocolWorld
  <2> QED  BY <2>1, <2>6
<1>6. Tells(ProtocolCase(w, "target_removed"), "target_removed", {Asked(w.a, "home_city", "current")}, <<Text(<<Fact(w.b, "home_city", w.other)>>, "plain")>>, {})
  <2>1. PICK e : e = <<Text(<<Fact(w.b, "home_city", w.other)>>, "plain")>>
    OBVIOUS
  <2>2. FactsIn(e) = {Fact(w.b, "home_city", w.other)}
    BY <2>1, ToldIs, ShortLists
  <2>3. \A g \in FactsIn(e) : g.relation # "alias"
    BY <2>2, StatedIs, FactIs
  <2>4. Asserted(w.a, "home_city", "current", FactsIn(e)) = {}
    BY <2>2, StatedIs, FactIs DEF Asserted, ProtocolWorld
  <2>5. Lacks(ProtocolCase(w, "target_removed"), "target_removed", {Asked(w.a, "home_city", "current")}, e)
    BY <2>1, Joined DEF ProtocolCase, Fact, Text, Lacks
  <2>6. Tells(ProtocolCase(w, "target_removed"), "target_removed", {Asked(w.a, "home_city", "current")}, e, {})
    BY <2>3, <2>4, <2>5, EpisodesNotFound DEF ProtocolWorld
  <2> QED  BY <2>1, <2>6
<1>7. Tells(ProtocolCase(w, "all_irrelevant"), "all_irrelevant", {Asked(w.a, "home_city", "current")}, <<Text(<<Fact(w.b, "home_city", w.other)>>, "plain"), Text(<<Fact(w.b, "drink", w.drink)>>, "plain")>>, {})
  <2>1. PICK e : e = <<Text(<<Fact(w.b, "home_city", w.other)>>, "plain"), Text(<<Fact(w.b, "drink", w.drink)>>, "plain")>>
    OBVIOUS
  <2>2. FactsIn(e) = {Fact(w.b, "home_city", w.other), Fact(w.b, "drink", w.drink)}
    BY <2>1, ToldIs, ShortLists
  <2>3. \A g \in FactsIn(e) : g.relation # "alias"
    BY <2>2, StatedIs, FactIs
  <2>4. Asserted(w.a, "home_city", "current", FactsIn(e)) = {}
    BY <2>2, StatedIs, FactIs DEF Asserted, ProtocolWorld
  <2>5. Lacks(ProtocolCase(w, "all_irrelevant"), "all_irrelevant", {Asked(w.a, "home_city", "current")}, e)
    BY <2>1, Joined DEF ProtocolCase, Fact, Text, Lacks
  <2>6. Tells(ProtocolCase(w, "all_irrelevant"), "all_irrelevant", {Asked(w.a, "home_city", "current")}, e, {})
    BY <2>3, <2>4, <2>5, EpisodesNotFound DEF ProtocolWorld
  <2> QED  BY <2>1, <2>6
<1>8. Tells(ProtocolCase(w, "wrong_relation"), "wrong_relation", {Asked(w.a, "home_city", "current")}, <<Text(<<Fact(w.a, "drink", w.drink)>>, "plain")>>, {})
  <2>1. PICK e : e = <<Text(<<Fact(w.a, "drink", w.drink)>>, "plain")>>
    OBVIOUS
  <2>2. FactsIn(e) = {Fact(w.a, "drink", w.drink)}
    BY <2>1, ToldIs, ShortLists
  <2>3. \A g \in FactsIn(e) : g.relation # "alias"
    BY <2>2, StatedIs, FactIs
  <2>4. Asserted(w.a, "home_city", "current", FactsIn(e)) = {}
    BY <2>2, StatedIs, FactIs DEF Asserted, ProtocolWorld
  <2>5. Lacks(ProtocolCase(w, "wrong_relation"), "wrong_relation", {Asked(w.a, "home_city", "current")}, e)
    BY <2>1, Joined DEF ProtocolCase, Fact, Text, Lacks
  <2>6. Tells(ProtocolCase(w, "wrong_relation"), "wrong_relation", {Asked(w.a, "home_city", "current")}, e, {})
    BY <2>3, <2>4, <2>5, EpisodesNotFound DEF ProtocolWorld
  <2> QED  BY <2>1, <2>6
<1>9. Tells(ProtocolCase(w, "distractor_added"), "distractor_added", {Asked(w.a, "home_city", "current")}, <<Text(<<Fact(w.a, "home_city", w.city)>>, "plain"), Text(<<Fact(w.b, "home_city", w.other)>>, "plain"), Text(<<Fact(w.a, "drink", w.drink)>>, "plain")>>, {Fact(w.a, "home_city", w.city)})
  <2>1. PICK e : e = <<Text(<<Fact(w.a, "home_city", w.city)>>, "plain"), Text(<<Fact(w.b, "home_city", w.other)>>, "plain"), Text(<<Fact(w.a, "drink", w.drink)>>, "plain")>>
    OBVIOUS
  <2>2. FactsIn(e) = {Fact(w.a, "home_city", w.city), Fact(w.b, "home_city", w.other), Fact(w.a, "drink", w.drink)}
    BY <2>1, ToldIs, ShortLists
  <2>3. \A g \in FactsIn(e) : g.relation # "alias"
    BY <2>2, StatedIs, FactIs
  <2>4. Asserted(w.a, "home_city", "current", FactsIn(e)) = {Fact(w.a, "home_city", w.city)}
    BY <2>2, StatedIs, FactIs DEF Asserted, ProtocolWorld
  <2>5. ToSet(e[1].facts) = {Fact(w.a, "home_city", w.city)}
    <3>1. e[1] = Text(<<Fact(w.a, "home_city", w.city)>>, "plain")
      BY <2>1
    <3> QED  BY <3>1, TextIs, ShortLists
  <2>6. ProtocolCase(w, "distractor_added") = Case("distractor_added", {Asked(w.a, "home_city", "current")}, e, {1})
    BY <2>1, Joined DEF ProtocolCase, Fact, Text
  <2>7. PICK f : f = Fact(w.a, "home_city", w.city)
    OBVIOUS
  <2>8. Tells(ProtocolCase(w, "distractor_added"), "distractor_added", {Asked(w.a, "home_city", "current")}, e, {f})
    BY <2>3, <2>4, <2>5, <2>6, <2>7, EpisodesFound DEF ProtocolWorld
  <2> QED  BY <2>1, <2>7, <2>8
<1>10. Tells(ProtocolCase(w, "distractor_reordered"), "distractor_reordered", {Asked(w.a, "home_city", "current")}, <<Text(<<Fact(w.a, "drink", w.drink)>>, "plain"), Text(<<Fact(w.b, "home_city", w.other)>>, "plain"), Text(<<Fact(w.a, "home_city", w.city)>>, "plain")>>, {Fact(w.a, "home_city", w.city)})
  <2>1. PICK e : e = <<Text(<<Fact(w.a, "drink", w.drink)>>, "plain"), Text(<<Fact(w.b, "home_city", w.other)>>, "plain"), Text(<<Fact(w.a, "home_city", w.city)>>, "plain")>>
    OBVIOUS
  <2>2. FactsIn(e) = {Fact(w.a, "drink", w.drink), Fact(w.b, "home_city", w.other), Fact(w.a, "home_city", w.city)}
    BY <2>1, ToldIs, ShortLists
  <2>3. \A g \in FactsIn(e) : g.relation # "alias"
    BY <2>2, StatedIs, FactIs
  <2>4. Asserted(w.a, "home_city", "current", FactsIn(e)) = {Fact(w.a, "home_city", w.city)}
    BY <2>2, StatedIs, FactIs DEF Asserted, ProtocolWorld
  <2>5. ToSet(e[3].facts) = {Fact(w.a, "home_city", w.city)}
    <3>1. e[3] = Text(<<Fact(w.a, "home_city", w.city)>>, "plain")
      BY <2>1
    <3> QED  BY <3>1, TextIs, ShortLists
  <2>6. ProtocolCase(w, "distractor_reordered") = Case("distractor_reordered", {Asked(w.a, "home_city", "current")}, e, {3})
    BY <2>1, Joined DEF ProtocolCase, Fact, Text
  <2>7. PICK f : f = Fact(w.a, "home_city", w.city)
    OBVIOUS
  <2>8. Tells(ProtocolCase(w, "distractor_reordered"), "distractor_reordered", {Asked(w.a, "home_city", "current")}, e, {f})
    BY <2>3, <2>4, <2>5, <2>6, <2>7, EpisodesFound DEF ProtocolWorld
  <2> QED  BY <2>1, <2>7, <2>8
<1>11. Tells(ProtocolCase(w, "hypothetical"), "hypothetical", {Asked(w.a, "home_city", "current")}, <<Text(<<Stated(w.a, "home_city", w.city, "current", "hypothetical")>>, "plain")>>, {})
  <2>1. PICK e : e = <<Text(<<Stated(w.a, "home_city", w.city, "current", "hypothetical")>>, "plain")>>
    OBVIOUS
  <2>2. FactsIn(e) = {Stated(w.a, "home_city", w.city, "current", "hypothetical")}
    BY <2>1, ToldIs, ShortLists
  <2>3. \A g \in FactsIn(e) : g.relation # "alias"
    BY <2>2, StatedIs, FactIs
  <2>4. Asserted(w.a, "home_city", "current", FactsIn(e)) = {}
    BY <2>2, StatedIs, FactIs DEF Asserted, ProtocolWorld
  <2>5. Lacks(ProtocolCase(w, "hypothetical"), "hypothetical", {Asked(w.a, "home_city", "current")}, e)
    BY <2>1, Joined DEF ProtocolCase, Fact, Text, Lacks
  <2>6. Tells(ProtocolCase(w, "hypothetical"), "hypothetical", {Asked(w.a, "home_city", "current")}, e, {})
    BY <2>3, <2>4, <2>5, EpisodesNotFound DEF ProtocolWorld
  <2> QED  BY <2>1, <2>6
<1>12. Tells(ProtocolCase(w, "negated"), "negated", {Asked(w.a, "home_city", "current")}, <<Text(<<Stated(w.a, "home_city", w.city, "current", "negated")>>, "plain")>>, {})
  <2>1. PICK e : e = <<Text(<<Stated(w.a, "home_city", w.city, "current", "negated")>>, "plain")>>
    OBVIOUS
  <2>2. FactsIn(e) = {Stated(w.a, "home_city", w.city, "current", "negated")}
    BY <2>1, ToldIs, ShortLists
  <2>3. \A g \in FactsIn(e) : g.relation # "alias"
    BY <2>2, StatedIs, FactIs
  <2>4. Asserted(w.a, "home_city", "current", FactsIn(e)) = {}
    BY <2>2, StatedIs, FactIs DEF Asserted, ProtocolWorld
  <2>5. Lacks(ProtocolCase(w, "negated"), "negated", {Asked(w.a, "home_city", "current")}, e)
    BY <2>1, Joined DEF ProtocolCase, Fact, Text, Lacks
  <2>6. Tells(ProtocolCase(w, "negated"), "negated", {Asked(w.a, "home_city", "current")}, e, {})
    BY <2>3, <2>4, <2>5, EpisodesNotFound DEF ProtocolWorld
  <2> QED  BY <2>1, <2>6
<1>13. Tells(ProtocolCase(w, "quoted"), "quoted", {Asked(w.a, "home_city", "current")}, <<Text(<<Stated(w.a, "home_city", w.city, "current", "quoted")>>, "plain")>>, {})
  <2>1. PICK e : e = <<Text(<<Stated(w.a, "home_city", w.city, "current", "quoted")>>, "plain")>>
    OBVIOUS
  <2>2. FactsIn(e) = {Stated(w.a, "home_city", w.city, "current", "quoted")}
    BY <2>1, ToldIs, ShortLists
  <2>3. \A g \in FactsIn(e) : g.relation # "alias"
    BY <2>2, StatedIs, FactIs
  <2>4. Asserted(w.a, "home_city", "current", FactsIn(e)) = {}
    BY <2>2, StatedIs, FactIs DEF Asserted, ProtocolWorld
  <2>5. Lacks(ProtocolCase(w, "quoted"), "quoted", {Asked(w.a, "home_city", "current")}, e)
    BY <2>1, Joined DEF ProtocolCase, Fact, Text, Lacks
  <2>6. Tells(ProtocolCase(w, "quoted"), "quoted", {Asked(w.a, "home_city", "current")}, e, {})
    BY <2>3, <2>4, <2>5, EpisodesNotFound DEF ProtocolWorld
  <2> QED  BY <2>1, <2>6
<1>14. Tells(ProtocolCase(w, "update_current"), "update_current", {Asked(w.a, "home_city", "current")}, <<Text(<<Stated(w.a, "home_city", w.city, "2020", "actual")>>, "plain"), Text(<<Fact(w.a, "home_city", w.other)>>, "plain")>>, {Fact(w.a, "home_city", w.other)})
  <2>1. PICK e : e = <<Text(<<Stated(w.a, "home_city", w.city, "2020", "actual")>>, "plain"), Text(<<Fact(w.a, "home_city", w.other)>>, "plain")>>
    OBVIOUS
  <2>2. FactsIn(e) = {Stated(w.a, "home_city", w.city, "2020", "actual"), Fact(w.a, "home_city", w.other)}
    BY <2>1, ToldIs, ShortLists
  <2>3. \A g \in FactsIn(e) : g.relation # "alias"
    BY <2>2, StatedIs, FactIs
  <2>4. Asserted(w.a, "home_city", "current", FactsIn(e)) = {Fact(w.a, "home_city", w.other)}
    BY <2>2, StatedIs, FactIs DEF Asserted, ProtocolWorld
  <2>5. ToSet(e[2].facts) = {Fact(w.a, "home_city", w.other)}
    <3>1. e[2] = Text(<<Fact(w.a, "home_city", w.other)>>, "plain")
      BY <2>1
    <3> QED  BY <3>1, TextIs, ShortLists
  <2>6. ProtocolCase(w, "update_current") = Case("update_current", {Asked(w.a, "home_city", "current")}, e, {2})
    BY <2>1, Joined DEF ProtocolCase, Fact, Text
  <2>7. PICK f : f = Fact(w.a, "home_city", w.other)
    OBVIOUS
  <2>8. Tells(ProtocolCase(w, "update_current"), "update_current", {Asked(w.a, "home_city", "current")}, e, {f})
    BY <2>3, <2>4, <2>5, <2>6, <2>7, EpisodesFound DEF ProtocolWorld
  <2> QED  BY <2>1, <2>7, <2>8
<1>15. Tells(ProtocolCase(w, "update_history"), "update_history", {Asked(w.a, "home_city", "2020")}, <<Text(<<Stated(w.a, "home_city", w.city, "2020", "actual")>>, "plain"), Text(<<Fact(w.a, "home_city", w.other)>>, "plain")>>, {Stated(w.a, "home_city", w.city, "2020", "actual")})
  <2>1. PICK e : e = <<Text(<<Stated(w.a, "home_city", w.city, "2020", "actual")>>, "plain"), Text(<<Fact(w.a, "home_city", w.other)>>, "plain")>>
    OBVIOUS
  <2>2. FactsIn(e) = {Stated(w.a, "home_city", w.city, "2020", "actual"), Fact(w.a, "home_city", w.other)}
    BY <2>1, ToldIs, ShortLists
  <2>3. \A g \in FactsIn(e) : g.relation # "alias"
    BY <2>2, StatedIs, FactIs
  <2>4. Asserted(w.a, "home_city", "2020", FactsIn(e)) = {Stated(w.a, "home_city", w.city, "2020", "actual")}
    BY <2>2, StatedIs, FactIs DEF Asserted, ProtocolWorld
  <2>5. ToSet(e[1].facts) = {Stated(w.a, "home_city", w.city, "2020", "actual")}
    <3>1. e[1] = Text(<<Stated(w.a, "home_city", w.city, "2020", "actual")>>, "plain")
      BY <2>1
    <3> QED  BY <3>1, TextIs, ShortLists
  <2>6. ProtocolCase(w, "update_history") = Case("update_history", {Asked(w.a, "home_city", "2020")}, e, {1})
    BY <2>1, Joined DEF ProtocolCase, Fact, Text
  <2>7. PICK f : f = Stated(w.a, "home_city", w.city, "2020", "actual")
    OBVIOUS
  <2>8. Tells(ProtocolCase(w, "update_history"), "update_history", {Asked(w.a, "home_city", "2020")}, e, {f})
    BY <2>3, <2>4, <2>5, <2>6, <2>7, EpisodesFound DEF ProtocolWorld
  <2> QED  BY <2>1, <2>7, <2>8
<1>16. Tells(ProtocolCase(w, "empty"), "empty", {Asked(w.a, "home_city", "current")}, <<>>, {})
  <2>1. PICK e : e = <<>>
    OBVIOUS
  <2>2. FactsIn(e) = {}
    BY <2>1, ToldIs, ShortLists
  <2>3. \A g \in FactsIn(e) : g.relation # "alias"
    BY <2>2, StatedIs, FactIs
  <2>4. Asserted(w.a, "home_city", "current", FactsIn(e)) = {}
    BY <2>2, StatedIs, FactIs DEF Asserted, ProtocolWorld
  <2>5. Lacks(ProtocolCase(w, "empty"), "empty", {Asked(w.a, "home_city", "current")}, e)
    BY <2>1, Joined DEF ProtocolCase, Fact, Text, Lacks
  <2>6. Tells(ProtocolCase(w, "empty"), "empty", {Asked(w.a, "home_city", "current")}, e, {})
    BY <2>3, <2>4, <2>5, EpisodesNotFound DEF ProtocolWorld
  <2> QED  BY <2>1, <2>6
<1> QED  BY <1>1, <1>2, <1>3, <1>4, <1>5, <1>6, <1>7, <1>8, <1>9, <1>10, <1>11, <1>12, <1>13, <1>14, <1>15, <1>16

LEMMA SameLabel ==
  ASSUME NEW c, NEW d, LabelFollows(c), c.needed = d.needed, c.missing = d.missing, c.ask = d.ask,
         c.episodes = d.episodes, c.targets = d.targets, c.required = d.required
  PROVE  LabelFollows(d)
  BY DEF LabelFollows

Labelled(c, ask, e, F, targets, required) ==
  /\ c.ask = ask /\ c.episodes = e /\ c.missing = FALSE /\ c.targets = targets /\ c.required = required
  /\ FactsIn(e) = F /\ Answered(ask, F) /\ Known(ask, F) = required
  /\ \A some \in SUBSET targets :
       (\A p \in ask : AnswersTo(p, UNION {ToSet(e[i].facts) : i \in some}) = AnswersTo(p, F))
         <=> some = targets
LEMMA LabelHolds ==
  ASSUME NEW c, NEW ask, NEW e, NEW F, NEW targets, NEW required,
         Labelled(c, ask, e, F, targets, required)
  PROVE  LabelFollows(c)
<1> USE DEF Labelled
<1>1. c.missing <=> ~Answered(c.ask, FactsIn(c.episodes))
  OBVIOUS
<1>2. c.required = IF c.missing THEN {} ELSE Known(c.ask, FactsIn(c.episodes))
  OBVIOUS
<1>3. ASSUME NEW some \in SUBSET c.targets
      PROVE  (\A p \in c.ask : AnswersTo(p, UNION {ToSet(c.episodes[i].facts) : i \in some})
                               = AnswersTo(p, FactsIn(c.episodes))) <=> some = c.targets
  <2>1. (\A p \in ask : AnswersTo(p, UNION {ToSet(e[i].facts) : i \in some}) = AnswersTo(p, F))
          <=> some = targets
    OBVIOUS
  <2>2. PICK U : U = UNION {ToSet(e[i].facts) : i \in some}
    OBVIOUS
  <2>3. UNION {ToSet(c.episodes[i].facts) : i \in some} = U
    BY <2>2
  <2>4. (\A p \in ask : AnswersTo(p, U) = AnswersTo(p, F)) <=> some = targets
    BY <2>1, <2>2
  <2>5. c.ask = ask /\ FactsIn(c.episodes) = F /\ c.targets = targets
    OBVIOUS
  <2> QED  BY <2>3, <2>4, <2>5
<1> QED  BY <1>1, <1>2, <1>3 DEF LabelFollows

LEMMA ToldTwo ==
  ASSUME NEW f, NEW g
  PROVE  FactsIn(<<Text(<<f>>, "plain"), Text(<<g>>, "plain")>>) = {f, g}
<1>1. PICK a, b : a = Text(<<f>>, "plain") /\ b = Text(<<g>>, "plain")
  OBVIOUS
<1>2. ToSet(a.facts) = {f} /\ ToSet(b.facts) = {g}
  BY <1>1, TextIs, ShortLists
<1>3. ToSet(<<a, b>>) = {a, b}
  BY ShortLists
<1>4. FactsIn(<<a, b>>) = {f, g}
  BY <1>2, <1>3 DEF FactsIn
<1> QED  BY <1>1, <1>4
LEMMA ToldThree ==
  ASSUME NEW f, NEW g, NEW h
  PROVE  FactsIn(<<Text(<<f>>, "plain"), Text(<<g>>, "plain"), Text(<<h>>, "plain")>>) = {f, g, h}
<1>1. PICK a, b, c : a = Text(<<f>>, "plain") /\ b = Text(<<g>>, "plain") /\ c = Text(<<h>>, "plain")
  OBVIOUS
<1>2. ToSet(a.facts) = {f} /\ ToSet(b.facts) = {g} /\ ToSet(c.facts) = {h}
  BY <1>1, TextIs, ShortLists
<1>3. ToSet(<<a, b, c>>) = {a, b, c}
  BY ShortLists
<1>4. FactsIn(<<a, b, c>>) = {f, g, h}
  BY <1>2, <1>3 DEF FactsIn
<1> QED  BY <1>1, <1>4

LEMMA PronounTrue ==
  ASSUME NEW w, ProtocolWorld(w)
  PROVE  ProtocolCase(w, "pronoun").scenario = "pronoun" /\ LabelFollows(ProtocolCase(w, "pronoun"))
<1> DEFINE q == Asked(w.a, "home_city", "current")
           e == <<Text(<<Fact(w.a, "home_city", w.city)>>, "plain"), Text(<<Fact(w.b, "home_city", w.other)>>, "plain")>>
           c == Case("original", {q}, e, {1})
           d == [Case("pronoun", {q}, e, {1}) EXCEPT !.context = <<"this person", {q}>>]
<1>1. ProtocolCase(w, "pronoun") = d
  BY DEF ProtocolCase, Fact, Text
<1>2. LabelFollows(c)
  <2>1. ProtocolCase(w, "original") = c
    BY OriginalIs
  <2>2. Tells(ProtocolCase(w, "original"), "original", {q}, e, {Fact(w.a, "home_city", w.city)})
    BY ProtocolTells
  <2> HIDE DEF c, q, e
  <2> QED  BY <2>1, <2>2 DEF Tells
<1> HIDE DEF q, e
<1>3. /\ c.needed = d.needed /\ c.missing = d.missing /\ c.ask = d.ask /\ d.scenario = "pronoun"
      /\ c.episodes = d.episodes /\ c.targets = d.targets /\ c.required = d.required
  BY DEF Case
<1> HIDE DEF c, d
<1> QED  BY <1>1, <1>2, <1>3, SameLabel

LEMMA LentTrue ==
  ASSUME NEW s, NEW p, NEW v
  PROVE  LET e == <<Text(<<Stated(p, "lent_book_to", v, "yesterday", "actual")>>, "plain")>>
             c == Case(s, {Asked("who", "lent_book_to", "yesterday")}, e, {1})
         IN c.scenario = s /\ LabelFollows(c)
<1> DEFINE f == Stated(p, "lent_book_to", v, "yesterday", "actual")
           q == Asked("who", "lent_book_to", "yesterday")
           e == <<Text(<<f>>, "plain")>>
           c == Case(s, {q}, e, {1})
<1>1. AnswersTo(q, {f}) = {f}
  BY AskedIs, StatedIs, FactIs DEF AnswersTo
<1> HIDE DEF f, q
<1>2. FactsIn(e) = {f} /\ ToSet(e[1].facts) = {f}
  <2>1. FactsIn(e) = ToSet(<<f>>)
    BY ToldIs
  <2>2. e[1].facts = <<f>>
    BY TextIs
  <2> QED  BY <2>1, <2>2, ShortLists
<1> HIDE DEF e
<1>3. c.required = {f}
  <2>1. UNION {ToSet(e[i].facts) : i \in {1}} = ToSet(e[1].facts)
    OBVIOUS
  <2> QED  BY <1>2, <2>1 DEF Case
<1>4. /\ c.scenario = s /\ c.context = <<"asked", {q}>> /\ c.ask = {q}
      /\ c.needed = TRUE /\ c.episodes = e /\ c.missing = FALSE /\ c.targets = {1}
  BY DEF Case
<1> HIDE DEF c
<1>5. Found(c, s, q, e, 1, f)
  BY <1>1, <1>2, <1>3, <1>4 DEF Found
<1> QED  BY <1>4, <1>5, FoundTells DEF Tells, c, e, q, f

LEMMA RolesTrue ==
  ASSUME NEW w
  PROVE  /\ ProtocolCase(w, "role_forward").scenario = "role_forward" /\ LabelFollows(ProtocolCase(w, "role_forward"))
         /\ ProtocolCase(w, "role_reverse").scenario = "role_reverse" /\ LabelFollows(ProtocolCase(w, "role_reverse"))
<1>1. ProtocolCase(w, "role_forward")
        = Case("role_forward", {Asked("who", "lent_book_to", "yesterday")},
               <<Text(<<Stated(w.a, "lent_book_to", w.b, "yesterday", "actual")>>, "plain")>>, {1})
  BY DEF ProtocolCase
<1>2. ProtocolCase(w, "role_reverse")
        = Case("role_reverse", {Asked("who", "lent_book_to", "yesterday")},
               <<Text(<<Stated(w.b, "lent_book_to", w.a, "yesterday", "actual")>>, "plain")>>, {1})
  BY DEF ProtocolCase
<1> QED  BY <1>1, <1>2, LentTrue

LEMMA SubsetsOfTwo ==
  ASSUME NEW a, NEW b, NEW some \in SUBSET {a, b}
  PROVE  some \in {{}, {a}, {b}, {a, b}}
  OBVIOUS

LEMMA MultipleTrue ==
  ASSUME NEW w, ProtocolWorld(w)
  PROVE  ProtocolCase(w, "multiple_targets").scenario = "multiple_targets"
         /\ LabelFollows(ProtocolCase(w, "multiple_targets"))
<1> DEFINE f == Fact(w.a, "home_city", w.city)
           g == Fact(w.b, "home_city", w.other)
           q == Asked(w.a, "home_city", "current")
           r == Asked(w.b, "home_city", "current")
           e == <<Text(<<f>>, "plain"), Text(<<g>>, "plain")>>
           c == Case("multiple_targets", {q, r}, e, {1, 2})
<1>1. ProtocolCase(w, "multiple_targets") = c
  <2>1. {q} \union {r} = {q, r}
    OBVIOUS
  <2> QED  BY <2>1 DEF ProtocolCase, Fact, Text
<1>2. FactsIn(e) = {f, g} /\ ToSet(e[1].facts) = {f} /\ ToSet(e[2].facts) = {g}
  <2> HIDE DEF f, g
  <2>1. FactsIn(e) = {f, g}
    BY ToldTwo
  <2>2. e[1].facts = <<f>> /\ e[2].facts = <<g>>
    BY TextIs
  <2> QED  BY <2>1, <2>2, ShortLists
<1>3. f # g /\ q # r
  BY StatedIs, FactIs, AskedIs DEF ProtocolWorld
<1>4. /\ AnswersTo(q, {f, g}) = {f} /\ AnswersTo(r, {f, g}) = {g}
      /\ AnswersTo(q, {}) = {} /\ AnswersTo(q, {g}) = {} /\ AnswersTo(r, {f}) = {}
  <2>1. q.subject # "who" /\ r.subject # "who"
    BY AskedIs DEF ProtocolWorld
  <2>2. \A S : S \subseteq {f, g} => AnswersTo(q, S) = Direct(q, S) /\ AnswersTo(r, S) = Direct(r, S)
    <3>1. \A h \in {f, g} : h.relation # "alias"
      BY StatedIs, FactIs
    <3> HIDE DEF f, g, q, r
    <3> QED  BY <2>1, <3>1, NoAlias
  <2>3. /\ Direct(q, {f, g}) = {f} /\ Direct(r, {f, g}) = {g}
        /\ Direct(q, {}) = {} /\ Direct(q, {g}) = {} /\ Direct(r, {f}) = {}
    BY StatedIs, FactIs, AskedIs DEF Direct, ProtocolWorld
  <2> HIDE DEF f, g, q, r
  <2> QED  BY <2>2, <2>3
<1> HIDE DEF f, g, q, r
<1>5. /\ c.scenario = "multiple_targets" /\ c.ask = {q, r} /\ c.needed = TRUE /\ c.episodes = e
      /\ c.missing = FALSE /\ c.targets = {1, 2}
      /\ c.required = UNION {ToSet(e[i].facts) : i \in {1, 2}}
  <2> HIDE DEF e
  <2> QED  BY DEF Case
<1>6. /\ UNION {ToSet(e[i].facts) : i \in {}} = {} /\ UNION {ToSet(e[i].facts) : i \in {1}} = {f}
      /\ UNION {ToSet(e[i].facts) : i \in {2}} = {g} /\ UNION {ToSet(e[i].facts) : i \in {1, 2}} = {f, g}
  <2> HIDE DEF e
  <2> QED  BY <1>2
<1> HIDE DEF e, c
<1>7. Answered({q, r}, {f, g}) /\ Known({q, r}, {f, g}) = {f, g}
  <2>1. {x.value : x \in AnswersTo(q, {f, g})} = {f.value} /\ {x.value : x \in AnswersTo(r, {f, g})} = {g.value}
    BY <1>4
  <2>2. Cardinality({f.value}) = 1 /\ Cardinality({g.value}) = 1
    BY FS_Singleton
  <2> QED  BY <1>4, <2>1, <2>2 DEF Answered, Known
<1>8. ASSUME NEW some \in SUBSET {1, 2}
      PROVE  (\A p \in {q, r} : AnswersTo(p, UNION {ToSet(e[i].facts) : i \in some}) = AnswersTo(p, {f, g}))
               <=> some = {1, 2}
  <2>1. some \in {{}, {1}, {2}, {1, 2}}
    BY SubsetsOfTwo
  <2>2. CASE some = {}
    BY <1>4, <1>6, <2>2
  <2>3. CASE some = {1}
    <3>1. AnswersTo(r, UNION {ToSet(e[i].facts) : i \in some}) # AnswersTo(r, {f, g})
      BY <1>4, <1>6, <2>3
    <3>2. some # {1, 2}
      BY <2>3
    <3> QED  BY <3>1, <3>2
  <2>4. CASE some = {2}
    <3>1. AnswersTo(q, UNION {ToSet(e[i].facts) : i \in some}) # AnswersTo(q, {f, g})
      BY <1>4, <1>6, <2>4
    <3>2. some # {1, 2}
      BY <2>4
    <3> QED  BY <3>1, <3>2
  <2>5. CASE some = {1, 2}
    BY <1>6, <2>5
  <2> QED  BY <2>1, <2>2, <2>3, <2>4, <2>5
<1>9. LabelFollows(c)
  <2>1. c.required = {f, g}
    BY <1>5, <1>6
  <2>2. Labelled(c, {q, r}, e, {f, g}, {1, 2}, {f, g})
    BY <1>2, <1>5, <1>7, <1>8, <2>1 DEF Labelled
  <2> QED  BY <2>2, LabelHolds
<1> QED  BY <1>1, <1>5, <1>9

LEMMA AliasTrue ==
  ASSUME NEW w, ProtocolWorld(w)
  PROVE  ProtocolCase(w, "alias").scenario = "alias" /\ LabelFollows(ProtocolCase(w, "alias"))
<1> DEFINE f == Fact(w.a, "home_city", w.city)
           g == Fact(w.b, "home_city", w.other)
           h == Fact(w.a, "alias", w.alias)
           q == Asked(w.alias, "home_city", "current")
           e == <<Text(<<f>>, "plain"), Text(<<g>>, "plain"), Text(<<h>>, "plain")>>
           c == [Case("alias", {q}, e, {1, 3}) EXCEPT !.required = {f}, !.allowed = {f}]
<1>1. ProtocolCase(w, "alias") = c
  BY Joined DEF ProtocolCase, Fact, Text
<1>2. /\ FactsIn(e) = {f, g, h} /\ ToSet(e[1].facts) = {f} /\ ToSet(e[3].facts) = {h}
  <2> HIDE DEF f, g, h
  <2>1. FactsIn(e) = {f, g, h}
    BY ToldThree
  <2>2. e[1].facts = <<f>> /\ e[3].facts = <<h>>
    BY TextIs
  <2> QED  BY <2>1, <2>2, ShortLists
<1>3. /\ f.subject = w.a /\ f.relation = "home_city" /\ f.time = "current" /\ f.status = "actual"
      /\ g.subject = w.b /\ g.relation = "home_city"
      /\ h.subject = w.a /\ h.relation = "alias" /\ h.value = w.alias
      /\ q.subject = w.alias /\ q.relation = "home_city" /\ q.time = "current"
  BY StatedIs, FactIs, AskedIs
<1> HIDE DEF f, g, h, q
<1>4. /\ Namesakes(w.alias, {f, g, h}) = {w.alias, w.a} /\ Namesakes(w.alias, {f, h}) = {w.alias, w.a}
      /\ Namesakes(w.alias, {f}) = {w.alias} /\ Namesakes(w.alias, {}) = {w.alias}
  BY <1>3 DEF Namesakes
<1>5. /\ AnswersTo(q, {f, g, h}) = {f} /\ AnswersTo(q, {f, h}) = {f}
      /\ AnswersTo(q, {f}) = {} /\ AnswersTo(q, {h}) = {} /\ AnswersTo(q, {}) = {}
  <2>1. w.alias # "who" /\ w.alias # w.a /\ w.alias # w.b /\ w.a # w.b
    BY DEF ProtocolWorld
  <2>2. AnswersTo(q, {f, g, h}) = {f}
    BY <1>3, <1>4, <2>1 DEF AnswersTo
  <2>3. AnswersTo(q, {f, h}) = {f}
    BY <1>3, <1>4, <2>1 DEF AnswersTo
  <2>4. AnswersTo(q, {f}) = {}
    BY <1>3, <1>4, <2>1 DEF AnswersTo
  <2>5. AnswersTo(q, {h}) = {} /\ AnswersTo(q, {}) = {}
    BY <1>3 DEF AnswersTo
  <2> QED  BY <2>2, <2>3, <2>4, <2>5
<1>6. /\ UNION {ToSet(e[i].facts) : i \in {}} = {} /\ UNION {ToSet(e[i].facts) : i \in {1}} = {f}
      /\ UNION {ToSet(e[i].facts) : i \in {3}} = {h} /\ UNION {ToSet(e[i].facts) : i \in {1, 3}} = {f, h}
  <2> HIDE DEF e
  <2> QED  BY <1>2
<1>7. /\ c.scenario = "alias" /\ c.ask = {q} /\ c.needed = TRUE /\ c.episodes = e
      /\ c.missing = FALSE /\ c.targets = {1, 3} /\ c.required = {f}
  <2> HIDE DEF e
  <2> QED  BY DEF Case
<1> HIDE DEF e, c
<1>8. Answered({q}, {f, g, h}) /\ Known({q}, {f, g, h}) = {f}
  <2>1. {x.value : x \in AnswersTo(q, {f, g, h})} = {f.value}
    BY <1>5
  <2>2. Cardinality({f.value}) = 1
    BY FS_Singleton
  <2> QED  BY <1>5, <2>1, <2>2 DEF Answered, Known
<1>9. ASSUME NEW some \in SUBSET {1, 3}
      PROVE  (AnswersTo(q, UNION {ToSet(e[i].facts) : i \in some}) = AnswersTo(q, {f, g, h}))
               <=> some = {1, 3}
  <2>1. some \in {{}, {1}, {3}, {1, 3}}
    BY SubsetsOfTwo
  <2>2. CASE some # {1, 3}
    <3>1. AnswersTo(q, UNION {ToSet(e[i].facts) : i \in some}) = {}
      BY <1>5, <1>6, <2>1, <2>2
    <3> QED  BY <1>5, <2>2, <3>1
  <2>3. CASE some = {1, 3}
    BY <1>5, <1>6, <2>3
  <2> QED  BY <2>2, <2>3
<1>10. LabelFollows(c)
  <2>1. \A some \in SUBSET {1, 3} :
          (\A p \in {q} : AnswersTo(p, UNION {ToSet(e[i].facts) : i \in some}) = AnswersTo(p, {f, g, h}))
            <=> some = {1, 3}
    BY <1>9
  <2>2. Labelled(c, {q}, e, {f, g, h}, {1, 3}, {f})
    BY <1>2, <1>7, <1>8, <2>1 DEF Labelled
  <2> QED  BY <2>2, LabelHolds
<1> QED  BY <1>1, <1>7, <1>10

LEMMA ChatTrue ==
  ASSUME NEW w
  PROVE  ProtocolCase(w, "ordinary_chat").scenario = "ordinary_chat"
         /\ LabelFollows(ProtocolCase(w, "ordinary_chat"))
<1>1. PICK e : ProtocolCase(w, "ordinary_chat") = Ordinary("ordinary_chat", e)
  BY DEF ProtocolCase
<1>2. Ordinary("ordinary_chat", e).scenario = "ordinary_chat" /\ Ordinary("ordinary_chat", e).needed = FALSE
  BY DEF Case, Ordinary
<1> QED  BY <1>1, <1>2 DEF LabelFollows


LEMMA ProtocolShows ==
  ASSUME NEW w, ProtocolWorld(w)
  PROVE  /\ PairShows(ProtocolCase(w, "original"), ProtocolCase(w, "swapped_values"), "change")
         /\ PairShows(ProtocolCase(w, "original"), ProtocolCase(w, "update_current"), "change")
         /\ PairShows(ProtocolCase(w, "original"), ProtocolCase(w, "target_removed"), "missing")
         /\ PairShows(ProtocolCase(w, "original"), ProtocolCase(w, "wrong_subject"), "missing")
         /\ PairShows(ProtocolCase(w, "original"), ProtocolCase(w, "wrong_relation"), "missing")
         /\ PairShows(ProtocolCase(w, "original"), ProtocolCase(w, "all_irrelevant"), "missing")
         /\ PairShows(ProtocolCase(w, "original"), ProtocolCase(w, "empty"), "missing")
         /\ PairShows(ProtocolCase(w, "original"), ProtocolCase(w, "hypothetical"), "missing")
         /\ PairShows(ProtocolCase(w, "original"), ProtocolCase(w, "negated"), "missing")
         /\ PairShows(ProtocolCase(w, "original"), ProtocolCase(w, "quoted"), "missing")
         /\ PairShows(ProtocolCase(w, "original"), ProtocolCase(w, "distractor_added"), "invariant")
         /\ PairShows(ProtocolCase(w, "distractor_added"), ProtocolCase(w, "distractor_reordered"), "invariant")
         /\ PairShows(ProtocolCase(w, "original"), ProtocolCase(w, "same_value_other_person"), "invariant")
<1>1. PairShows(ProtocolCase(w, "original"), ProtocolCase(w, "swapped_values"), "change")
  <2>1. PICK f, g : f = Fact(w.a, "home_city", w.city) /\ g = Fact(w.a, "home_city", w.other)
    OBVIOUS
  <2>2. f # g
    BY <2>1, StatedIs, FactIs DEF ProtocolWorld
  <2>3. Tells(ProtocolCase(w, "original"), "original", {Asked(w.a, "home_city", "current")}, <<Text(<<Fact(w.a, "home_city", w.city)>>, "plain"), Text(<<Fact(w.b, "home_city", w.other)>>, "plain")>>, {f})
    BY <2>1, ProtocolTells
  <2>4. Tells(ProtocolCase(w, "swapped_values"), "swapped_values", {Asked(w.a, "home_city", "current")}, <<Text(<<Fact(w.a, "home_city", w.other)>>, "plain"), Text(<<Fact(w.b, "home_city", w.city)>>, "plain")>>, {g})
    BY <2>1, ProtocolTells
  <2>5. {f} # {g} /\ {f} # {} /\ {g} # {}
    BY <2>2
  <2> QED  BY <2>3, <2>4, <2>5, PairDiffers
<1>2. PairShows(ProtocolCase(w, "original"), ProtocolCase(w, "update_current"), "change")
  <2>1. PICK f, g : f = Fact(w.a, "home_city", w.city) /\ g = Fact(w.a, "home_city", w.other)
    OBVIOUS
  <2>2. f # g
    BY <2>1, StatedIs, FactIs DEF ProtocolWorld
  <2>3. Tells(ProtocolCase(w, "original"), "original", {Asked(w.a, "home_city", "current")}, <<Text(<<Fact(w.a, "home_city", w.city)>>, "plain"), Text(<<Fact(w.b, "home_city", w.other)>>, "plain")>>, {f})
    BY <2>1, ProtocolTells
  <2>4. Tells(ProtocolCase(w, "update_current"), "update_current", {Asked(w.a, "home_city", "current")}, <<Text(<<Stated(w.a, "home_city", w.city, "2020", "actual")>>, "plain"), Text(<<Fact(w.a, "home_city", w.other)>>, "plain")>>, {g})
    BY <2>1, ProtocolTells
  <2>5. {f} # {g} /\ {f} # {} /\ {g} # {}
    BY <2>2
  <2> QED  BY <2>3, <2>4, <2>5, PairDiffers
<1>3. PairShows(ProtocolCase(w, "original"), ProtocolCase(w, "target_removed"), "missing")
  BY ProtocolTells, PairDiffers
<1>4. PairShows(ProtocolCase(w, "original"), ProtocolCase(w, "wrong_subject"), "missing")
  BY ProtocolTells, PairDiffers
<1>5. PairShows(ProtocolCase(w, "original"), ProtocolCase(w, "wrong_relation"), "missing")
  BY ProtocolTells, PairDiffers
<1>6. PairShows(ProtocolCase(w, "original"), ProtocolCase(w, "all_irrelevant"), "missing")
  BY ProtocolTells, PairDiffers
<1>7. PairShows(ProtocolCase(w, "original"), ProtocolCase(w, "empty"), "missing")
  BY ProtocolTells, PairDiffers
<1>8. PairShows(ProtocolCase(w, "original"), ProtocolCase(w, "hypothetical"), "missing")
  BY ProtocolTells, PairDiffers
<1>9. PairShows(ProtocolCase(w, "original"), ProtocolCase(w, "negated"), "missing")
  BY ProtocolTells, PairDiffers
<1>10. PairShows(ProtocolCase(w, "original"), ProtocolCase(w, "quoted"), "missing")
  BY ProtocolTells, PairDiffers
<1>11. PairShows(ProtocolCase(w, "original"), ProtocolCase(w, "distractor_added"), "invariant")
  <2>1. <<Text(<<Fact(w.a, "home_city", w.city)>>, "plain"), Text(<<Fact(w.b, "home_city", w.other)>>, "plain")>> # <<Text(<<Fact(w.a, "home_city", w.city)>>, "plain"), Text(<<Fact(w.b, "home_city", w.other)>>, "plain"), Text(<<Fact(w.a, "drink", w.drink)>>, "plain")>>
    <3>1. Len(<<Text(<<Fact(w.a, "home_city", w.city)>>, "plain"), Text(<<Fact(w.b, "home_city", w.other)>>, "plain")>>) = 2 /\ Len(<<Text(<<Fact(w.a, "home_city", w.city)>>, "plain"), Text(<<Fact(w.b, "home_city", w.other)>>, "plain"), Text(<<Fact(w.a, "drink", w.drink)>>, "plain")>>) = 3
      OBVIOUS
    <3> QED  BY <3>1
  <2> QED  BY <2>1, ProtocolTells, PairSame
<1>12. PairShows(ProtocolCase(w, "distractor_added"), ProtocolCase(w, "distractor_reordered"), "invariant")
  <2>1. <<Text(<<Fact(w.a, "home_city", w.city)>>, "plain"), Text(<<Fact(w.b, "home_city", w.other)>>, "plain"), Text(<<Fact(w.a, "drink", w.drink)>>, "plain")>> # <<Text(<<Fact(w.a, "drink", w.drink)>>, "plain"), Text(<<Fact(w.b, "home_city", w.other)>>, "plain"), Text(<<Fact(w.a, "home_city", w.city)>>, "plain")>>
    <3>1. Fact(w.a, "home_city", w.city) # Fact(w.a, "drink", w.drink)
      BY StatedIs, FactIs DEF ProtocolWorld
    <3>2. ToSet(<<Fact(w.a, "home_city", w.city)>>) # ToSet(<<Fact(w.a, "drink", w.drink)>>)
      BY <3>1, ShortLists
    <3>3. Text(<<Fact(w.a, "home_city", w.city)>>, "plain") # Text(<<Fact(w.a, "drink", w.drink)>>, "plain")
      BY <3>2, TextIs
    <3> QED  BY <3>3
  <2> QED  BY <2>1, ProtocolTells, PairSame
<1>13. PairShows(ProtocolCase(w, "original"), ProtocolCase(w, "same_value_other_person"), "invariant")
  <2>1. <<Text(<<Fact(w.a, "home_city", w.city)>>, "plain"), Text(<<Fact(w.b, "home_city", w.other)>>, "plain")>> # <<Text(<<Fact(w.a, "home_city", w.city)>>, "plain"), Text(<<Fact(w.b, "home_city", w.city)>>, "plain")>>
    <3>1. Fact(w.b, "home_city", w.other) # Fact(w.b, "home_city", w.city)
      BY StatedIs, FactIs DEF ProtocolWorld
    <3>2. ToSet(<<Fact(w.b, "home_city", w.other)>>) # ToSet(<<Fact(w.b, "home_city", w.city)>>)
      BY <3>1, ShortLists
    <3>3. Text(<<Fact(w.b, "home_city", w.other)>>, "plain") # Text(<<Fact(w.b, "home_city", w.city)>>, "plain")
      BY <3>2, TextIs
    <3> QED  BY <3>3
  <2> QED  BY <2>1, ProtocolTells, PairSame
<1> QED  BY <1>1, <1>2, <1>3, <1>4, <1>5, <1>6, <1>7, <1>8, <1>9, <1>10, <1>11, <1>12, <1>13

\* Every scenario of the protocol names its case and tells the truth.
LEMMA ProtocolLabels ==
  ASSUME NEW w, ProtocolWorld(w), NEW s \in ProtocolScenarios
  PROVE  ProtocolCase(w, s).scenario = s /\ LabelFollows(ProtocolCase(w, s))
<1>1. CASE s \in {"original", "paraphrase", "swapped_values", "same_value_other_person", "wrong_subject",
                  "target_removed", "all_irrelevant", "wrong_relation", "distractor_added",
                  "distractor_reordered", "hypothetical", "negated", "quoted", "update_current",
                  "update_history", "empty"}
  <2>1. ProtocolCase(w, "original").scenario = "original" /\ LabelFollows(ProtocolCase(w, "original"))
    BY ProtocolTells DEF Tells
  <2>2. ProtocolCase(w, "paraphrase").scenario = "paraphrase" /\ LabelFollows(ProtocolCase(w, "paraphrase"))
    BY ProtocolTells DEF Tells
  <2>3. ProtocolCase(w, "swapped_values").scenario = "swapped_values" /\ LabelFollows(ProtocolCase(w, "swapped_values"))
    BY ProtocolTells DEF Tells
  <2>4. ProtocolCase(w, "same_value_other_person").scenario = "same_value_other_person" /\ LabelFollows(ProtocolCase(w, "same_value_other_person"))
    BY ProtocolTells DEF Tells
  <2>5. ProtocolCase(w, "wrong_subject").scenario = "wrong_subject" /\ LabelFollows(ProtocolCase(w, "wrong_subject"))
    BY ProtocolTells DEF Tells
  <2>6. ProtocolCase(w, "target_removed").scenario = "target_removed" /\ LabelFollows(ProtocolCase(w, "target_removed"))
    BY ProtocolTells DEF Tells
  <2>7. ProtocolCase(w, "all_irrelevant").scenario = "all_irrelevant" /\ LabelFollows(ProtocolCase(w, "all_irrelevant"))
    BY ProtocolTells DEF Tells
  <2>8. ProtocolCase(w, "wrong_relation").scenario = "wrong_relation" /\ LabelFollows(ProtocolCase(w, "wrong_relation"))
    BY ProtocolTells DEF Tells
  <2>9. ProtocolCase(w, "distractor_added").scenario = "distractor_added" /\ LabelFollows(ProtocolCase(w, "distractor_added"))
    BY ProtocolTells DEF Tells
  <2>10. ProtocolCase(w, "distractor_reordered").scenario = "distractor_reordered" /\ LabelFollows(ProtocolCase(w, "distractor_reordered"))
    BY ProtocolTells DEF Tells
  <2>11. ProtocolCase(w, "hypothetical").scenario = "hypothetical" /\ LabelFollows(ProtocolCase(w, "hypothetical"))
    BY ProtocolTells DEF Tells
  <2>12. ProtocolCase(w, "negated").scenario = "negated" /\ LabelFollows(ProtocolCase(w, "negated"))
    BY ProtocolTells DEF Tells
  <2>13. ProtocolCase(w, "quoted").scenario = "quoted" /\ LabelFollows(ProtocolCase(w, "quoted"))
    BY ProtocolTells DEF Tells
  <2>14. ProtocolCase(w, "update_current").scenario = "update_current" /\ LabelFollows(ProtocolCase(w, "update_current"))
    BY ProtocolTells DEF Tells
  <2>15. ProtocolCase(w, "update_history").scenario = "update_history" /\ LabelFollows(ProtocolCase(w, "update_history"))
    BY ProtocolTells DEF Tells
  <2>16. ProtocolCase(w, "empty").scenario = "empty" /\ LabelFollows(ProtocolCase(w, "empty"))
    BY ProtocolTells DEF Tells
  <2> QED  BY <1>1, <2>1, <2>2, <2>3, <2>4, <2>5, <2>6, <2>7, <2>8, <2>9, <2>10, <2>11, <2>12, <2>13, <2>14, <2>15, <2>16
<1>2. CASE s \in {"multiple_targets", "role_forward", "role_reverse", "pronoun", "alias", "ordinary_chat"}
  BY <1>2, MultipleTrue, RolesTrue, PronounTrue, AliasTrue, ChatTrue
<1> QED  BY <1>1, <1>2 DEF ProtocolScenarios

LEMMA ProtocolWorldTrue ==
  ASSUME NEW w, ProtocolWorld(w)
  PROVE  LabelsTrue(ProtocolCases(w)) /\ PairsTrue(ProtocolCases(w), Controls)
<1>1. LabelsTrue(ProtocolCases(w))
  BY ProtocolLabels DEF LabelsTrue, ProtocolCases
<1>2. PairsTrue(ProtocolCases(w), Controls)
  <2> SUFFICES ASSUME NEW c \in ProtocolCases(w), NEW d \in ProtocolCases(w), NEW p \in Controls,
                      c.scenario = p[1], d.scenario = p[2]
               PROVE  PairShows(c, d, p[3])
    BY DEF PairsTrue
  <2>1. c = ProtocolCase(w, p[1]) /\ d = ProtocolCase(w, p[2])
    <3>1. PICK s \in ProtocolScenarios, t \in ProtocolScenarios : c = ProtocolCase(w, s) /\ d = ProtocolCase(w, t)
      BY DEF ProtocolCases
    <3> QED  BY <3>1, ProtocolLabels
  <2>2. p \in {<<"original", "swapped_values", "change">>, <<"original", "update_current", "change">>,
               <<"original", "target_removed", "missing">>, <<"original", "wrong_subject", "missing">>,
               <<"original", "wrong_relation", "missing">>, <<"original", "all_irrelevant", "missing">>,
               <<"original", "empty", "missing">>, <<"original", "hypothetical", "missing">>,
               <<"original", "negated", "missing">>, <<"original", "quoted", "missing">>,
               <<"original", "distractor_added", "invariant">>,
               <<"distractor_added", "distractor_reordered", "invariant">>,
               <<"original", "same_value_other_person", "invariant">>}
    BY DEF Controls
  <2>3. PairShows(ProtocolCase(w, p[1]), ProtocolCase(w, p[2]), p[3])
    BY <2>2, ProtocolShows
  <2> QED  BY <2>1, <2>3
<1> QED  BY <1>1, <1>2

LEMMA ProtocolTrue ==
  ASSUME NEW c, ProtocolFile(c), c.kind = "protocol", ~Refused(c)
  PROVE  CorpusTrue(c) /\ SplitsApart(c)
<1>1. ~Leaks(c) /\ ProtocolConfigured(c.worlds)
  BY DEF Refused, Configured, FactKinds
<1>2. /\ WorldsOf(c) = c.worlds /\ PairsOf(c) = Controls
      /\ \A w : CasesOf(c, w) = ProtocolCases(w) /\ KeysOf(c, w) = ProtocolKeys(w)
  BY DEF WorldsOf, PairsOf, CasesOf, KeysOf
<1>3. ASSUME NEW i \in DOMAIN WorldsOf(c) PROVE ProtocolWorld(WorldsOf(c)[i])
  <2>1. WorldsOf(c)[i] \in ToSet(c.worlds)
    BY <1>2 DEF ToSet
  <2> QED  BY <1>1, <2>1 DEF ProtocolFile, ProtocolConfigured, ProtocolWorld
<1>4. CorpusTrue(c)
  BY <1>2, <1>3, ProtocolWorldTrue DEF CorpusTrue
<1>5. ASSUME NEW i \in DOMAIN WorldsOf(c), NEW j \in DOMAIN WorldsOf(c), c.splits[i] # c.splits[j]
      PROVE  Told(CasesOf(c, WorldsOf(c)[i])) \intersect Told(CasesOf(c, WorldsOf(c)[j])) = {}
  <2>1. PICK u, v : u = WorldsOf(c)[i] /\ v = WorldsOf(c)[j]
    OBVIOUS
  <2>2. ProtocolKeys(u) \intersect ProtocolKeys(v) = {}
    BY <1>1, <1>2, <1>5, <2>1 DEF Leaks
  <2>3. \A w : \A f \in Told(ProtocolCases(w)) : <<"fact", f>> \in ProtocolKeys(w)
    BY DEF ProtocolKeys, Told
  <2> QED  BY <1>2, <2>1, <2>2, <2>3
<1>6. SplitsApart(c)
  BY <1>5 DEF SplitsApart
<1> QED  BY <1>4, <1>6

\* Every corpus of facts that is not refused.
LEMMA FactCorpusTrue ==
  ASSUME NEW c \in Inventories, c.kind \in FactKinds, ~Refused(c)
  PROVE  CorpusTrue(c) /\ SplitsApart(c)
<1>1. CASE c.kind = "protocol"
  BY <1>1, InventoryAssumption, ProtocolTrue
<1>2. CASE c.kind = "pilot"
  BY <1>2, InventoryAssumption, PilotTrue
<1>3. CASE c.kind \in Binding
  BY <1>3, InventoryAssumption, BindingTrue DEF Binding
<1> QED  BY <1>1, <1>2, <1>3 DEF FactKinds, Binding

-----------------------------------------------------------------------------
\* What a generator has in memory is what its configuration comes to.
RowsOK ==
  /\ corpus \in Inventories
  /\ process = [stage |-> process.stage, salt |-> process.salt,
                rows |-> process.rows, files |-> process.files]
  /\ process.rows # <<>> => process.rows = RowsOf(corpus) /\ ~Refused(corpus)

LEMMA RowsAlways == DataSpec => []RowsOK
<1>1. DataInit => RowsOK
  BY DEF DataInit, CurriculaInit, RowsOK, NoProcess
<1>2. RowsOK /\ [DataNext]_dataVars => RowsOK'
  <2> SUFFICES ASSUME RowsOK, [DataNext]_dataVars PROVE RowsOK'
    OBVIOUS
  <2>1. CASE UNCHANGED curriculaVars
    <3>1. process' = process /\ corpus' = corpus
      BY <2>1 DEF curriculaVars
    <3> QED  BY <3>1 DEF RowsOK
  <2>2. ASSUME corpus' = corpus, process' = NoProcess PROVE RowsOK'
    BY <2>2 DEF RowsOK, NoProcess
  <2>3. ASSUME NEW salt \in Salts, Start(salt) PROVE RowsOK'
    BY <2>3 DEF Start, RowsOK
  <2>4. CASE Build
    <3>1. CASE Refused(corpus)
      BY <2>2, <2>4, <3>1 DEF Build
    <3>2. CASE ~Refused(corpus)
      <4>1. corpus' = corpus /\ process' = [process EXCEPT !.rows = RowsOf(corpus)]
        BY <2>4, <3>2 DEF Build
      <4>2. /\ process'.stage = process.stage /\ process'.salt = process.salt
            /\ process'.rows = RowsOf(corpus) /\ process'.files = process.files
        BY <4>1 DEF RowsOK
      <4>3. process' = [stage |-> process.stage, salt |-> process.salt,
                        rows |-> RowsOf(corpus), files |-> process.files]
        BY <4>1 DEF RowsOK
      <4>4. process' = [stage |-> process'.stage, salt |-> process'.salt,
                        rows |-> process'.rows, files |-> process'.files]
        BY <4>2, <4>3
      <4> QED  BY <3>2, <4>1, <4>2, <4>4 DEF RowsOK
    <3> QED  BY <3>1, <3>2
  <2>5. CASE Write
    <3>1. CASE process' = NoProcess
      BY <2>2, <2>5, <3>1 DEF Write
    <3>2. CASE process' = [process EXCEPT !.files = Tail(@)]
      <4>1. corpus' = corpus
        BY <2>5 DEF Write
      <4>2. /\ process'.stage = process.stage /\ process'.salt = process.salt
            /\ process'.rows = process.rows /\ process'.files = Tail(process.files)
        BY <3>2 DEF RowsOK
      <4>3. process' = [stage |-> process.stage, salt |-> process.salt,
                        rows |-> process.rows, files |-> Tail(process.files)]
        BY <3>2 DEF RowsOK
      <4>4. process' = [stage |-> process'.stage, salt |-> process'.salt,
                        rows |-> process'.rows, files |-> process'.files]
        BY <4>2, <4>3
      <4> QED  BY <4>1, <4>2, <4>4 DEF RowsOK
    <3> QED  BY <2>5, <3>1, <3>2 DEF Write
  <2>6. CASE Kill \/ Verify
    BY <2>2, <2>6 DEF Kill, Verify
  <2> QED  BY <2>1, <2>3, <2>4, <2>5, <2>6 DEF DataNext, Generating, Measuring, CurriculaNext, dataVars
<1> QED  BY <1>1, <1>2, PTL DEF DataSpec

LEMMA RowsAreTrue ==
  ASSUME NEW c \in Inventories, c.kind \in FactKinds, ~Refused(c), corpus = c,
         NEW rows, rows = RowsOf(c)
  PROVE  /\ NothingLeaks(rows)
         /\ \A i \in DOMAIN rows : LabelsTrue(rows[i].cases) /\ PairsTrue(rows[i].cases, PairsOf(c))
<1>1. rows = [i \in DOMAIN WorldsOf(c) |-> [split |-> c.splits[i], cases |-> CasesOf(c, WorldsOf(c)[i])]]
  BY DEF RowsOf
<1>2. DOMAIN rows = DOMAIN WorldsOf(c)
  BY <1>1
<1>3. \A i \in DOMAIN rows : rows[i].split = c.splits[i] /\ rows[i].cases = CasesOf(c, WorldsOf(c)[i])
  BY <1>1
<1>4. CorpusTrue(c) /\ SplitsApart(c)
  BY FactCorpusTrue
<1>5. NothingLeaks(rows)
  <2> SUFFICES ASSUME NEW i \in DOMAIN rows, NEW j \in DOMAIN rows, rows[i].split # rows[j].split
               PROVE  LET told(n) == UNION {FactsIn(d.episodes) : d \in rows[n].cases}
                      IN /\ told(i) \intersect told(j) = {}
                         /\ corpus.kind # "protocol" =>
                              {f.subject : f \in told(i)} \intersect {f.subject : f \in told(j)} = {}
    BY DEF NothingLeaks
  <2>1. c.splits[i] # c.splits[j]
    BY <1>3
  <2>2. /\ UNION {FactsIn(d.episodes) : d \in rows[i].cases} = Told(CasesOf(c, WorldsOf(c)[i]))
        /\ UNION {FactsIn(d.episodes) : d \in rows[j].cases} = Told(CasesOf(c, WorldsOf(c)[j]))
    BY <1>3 DEF Told
  <2> QED  BY <1>2, <1>4, <2>1, <2>2 DEF SplitsApart
<1>6. \A i \in DOMAIN rows : LabelsTrue(rows[i].cases) /\ PairsTrue(rows[i].cases, PairsOf(c))
  BY <1>2, <1>3, <1>4 DEF CorpusTrue
<1> QED  BY <1>5, <1>6

\* Supervision is true: of whatever a generator has built, every label says what
\* the episodes of its case say, every pair changes the memory alone and shows
\* the change it is made for, and no fact is in two splits - for any people,
\* cities and worlds, any paraphrases that are cached or lost, any splits, and
\* however often generators were killed and started again.
THEOREM SupervisionAlwaysTrue == DataSpec => []SupervisionIsTrue
<1>1. RowsOK => SupervisionIsTrue
  <2> SUFFICES ASSUME RowsOK PROVE SupervisionIsTrue
    OBVIOUS
  <2>1. CASE FactRows = <<>>
    <3>1. DOMAIN FactRows = {}
      BY <2>1
    <3> QED  BY <3>1 DEF SupervisionIsTrue, NothingLeaks
  <2>2. CASE FactRows # <<>>
    <3>1. FactRows = process.rows /\ corpus.kind \in FactKinds
      BY <2>2 DEF FactRows, Rows
    <3>2. FactRows = RowsOf(corpus) /\ ~Refused(corpus) /\ corpus \in Inventories
      BY <2>2, <3>1 DEF RowsOK
    <3>3. /\ NothingLeaks(FactRows)
          /\ \A i \in DOMAIN FactRows : LabelsTrue(FactRows[i].cases) /\ PairsTrue(FactRows[i].cases, PairsOf(corpus))
      BY <3>1, <3>2, RowsAreTrue
    <3> QED  BY <3>3 DEF SupervisionIsTrue, LabelsTrue, PairsTrue
  <2> QED  BY <2>1, <2>2
<1> QED  BY <1>1, RowsAlways, PTL

(* Numbers in order.                                                         *)
Rank(S, i) == Cardinality({j \in S : j < i})
Ordered(s, S) ==
  /\ s \in Seq(S) /\ Len(s) = Cardinality(S) /\ DOMAIN s = 1..Len(s)
  /\ \A k \in DOMAIN s : s[k] \in S /\ Rank(S, s[k]) = k - 1
  /\ \A i \in S : Rank(S, i) + 1 \in DOMAIN s /\ s[Rank(S, i) + 1] = i
  /\ \A k, l \in DOMAIN s : k < l <=> s[k] < s[l]

LEMMA RankLess ==
  ASSUME NEW n \in Nat, NEW S \in SUBSET (1..n), NEW i \in S
  PROVE  /\ IsFiniteSet(S) /\ Cardinality(S) \in Nat
         /\ Rank(S, i) \in Nat /\ Rank(S, i) < Cardinality(S)
         /\ \A k \in S : i < k => Rank(S, i) < Rank(S, k)
<1>1. IsFiniteSet(S)
  <2>1. IsFiniteSet(1..n)
    BY FS_Interval
  <2> QED  BY <2>1, FS_Subset
<1>2. ASSUME NEW T \in SUBSET S, NEW U \in SUBSET T, NEW x \in T, x \notin U
      PROVE  /\ Cardinality(U) \in Nat /\ Cardinality(T) \in Nat /\ Cardinality(U) < Cardinality(T)
  <2>1. IsFiniteSet(T) /\ IsFiniteSet(U)
    BY <1>1, FS_Subset
  <2>2. Cardinality(U) <= Cardinality(T) /\ Cardinality(U) # Cardinality(T)
    BY <1>2, <2>1, FS_Subset
  <2> QED  BY <2>1, <2>2, FS_CardinalityType
<1>3. /\ {j \in S : j < i} \in SUBSET S /\ i \notin {j \in S : j < i}
  OBVIOUS
<1>4. ASSUME NEW k \in S, i < k PROVE Rank(S, i) < Rank(S, k)
  <2>1. {j \in S : j < k} \in SUBSET S
    OBVIOUS
  <2>2. {j \in S : j < i} \in SUBSET {j \in S : j < k}
    <3>1. ASSUME NEW j \in S, j < i PROVE j < k
      <4>1. j \in 1..n /\ i \in 1..n /\ k \in 1..n
        OBVIOUS
      <4> QED  BY <1>4, <3>1, <4>1
    <3> QED  BY <3>1
  <2>3. i \in {j \in S : j < k}
    BY <1>4
  <2> QED  BY <1>2, <1>3, <2>1, <2>2, <2>3 DEF Rank
<1>5. Rank(S, i) \in Nat /\ Cardinality(S) \in Nat /\ Rank(S, i) < Cardinality(S)
  <2>1. S \in SUBSET S
    OBVIOUS
  <2> QED  BY <1>2, <1>3, <2>1 DEF Rank
<1> QED  BY <1>1, <1>4, <1>5

LEMMA InOrderIs ==
  ASSUME NEW n \in Nat, NEW S \in SUBSET (1..n)
  PROVE  Ordered(InOrder(S), S)
<1> DEFINE c == Cardinality(S)
           r == [i \in S |-> Rank(S, i)]
<1>1. IsFiniteSet(S) /\ c \in Nat /\ S \subseteq 1..n
  <2>1. IsFiniteSet(1..n)
    BY FS_Interval
  <2> QED  BY <2>1, FS_Subset, FS_CardinalityType
<1>2. r \in [S -> 0..(c - 1)]
  <2>1. ASSUME NEW i \in S PROVE Rank(S, i) \in 0..(c - 1)
    <3>1. Rank(S, i) \in Nat /\ Rank(S, i) < c
      BY RankLess
    <3> QED  BY <1>1, <3>1
  <2> QED  BY <2>1
<1>3. \A i, k \in S : i < k <=> Rank(S, i) < Rank(S, k)
  <2>1. SUFFICES ASSUME NEW i \in S, NEW k \in S PROVE i < k <=> Rank(S, i) < Rank(S, k)
    OBVIOUS
  <2>2. i \in 1..n /\ k \in 1..n /\ Rank(S, i) \in Nat /\ Rank(S, k) \in Nat
    BY RankLess
  <2>3. /\ i < k => Rank(S, i) < Rank(S, k)
        /\ k < i => Rank(S, k) < Rank(S, i)
    BY RankLess
  <2>4. i = k => Rank(S, i) = Rank(S, k)
    OBVIOUS
  <2> QED  BY <2>2, <2>3, <2>4
<1>4. \A i, k \in S : Rank(S, i) = Rank(S, k) => i = k
  <2>1. SUFFICES ASSUME NEW i \in S, NEW k \in S, Rank(S, i) = Rank(S, k) PROVE i = k
    OBVIOUS
  <2>2. i \in 1..n /\ k \in 1..n /\ Rank(S, i) \in Nat
    BY RankLess
  <2>3. ~(i < k) /\ ~(k < i)
    BY <1>3, <2>1, <2>2
  <2> QED  BY <2>2, <2>3
<1>5. \A m \in 0..(c - 1) : \E i \in S : Rank(S, i) = m
  <2>1. r \in Injection(S, 0..(c - 1))
    BY <1>2, <1>4 DEF Injection, IsInjective
  <2>2. IsFiniteSet(0..(c - 1)) /\ Cardinality(0..(c - 1)) = c
    BY <1>1, FS_Interval
  <2>3. r \in Surjection(S, 0..(c - 1))
    BY <2>1, <2>2, FS_Injection
  <2> QED  BY <2>3 DEF Surjection
<1> DEFINE s == InOrder(S)
<1>6. ASSUME NEW k \in 1..c PROVE s[k] \in S /\ Rank(S, s[k]) = k - 1
  <2>1. k - 1 \in 0..(c - 1)
    BY <1>1
  <2>2. PICK i \in S : Rank(S, i) = k - 1
    BY <1>5, <2>1
  <2>3. s[k] = CHOOSE h \in S : Cardinality({j \in S : j < h}) = k - 1
    BY DEF InOrder
  <2>4. \E h \in S : Cardinality({j \in S : j < h}) = k - 1
    BY <2>2 DEF Rank
  <2> QED  BY <2>3, <2>4 DEF Rank
<1>7. s \in Seq(S) /\ Len(s) = c /\ DOMAIN s = 1..c
  <2>1. s = [k \in 1..c |-> CHOOSE i \in S : Cardinality({j \in S : j < i}) = k - 1]
    BY DEF InOrder
  <2>2. s \in [1..c -> S]
    <3> HIDE DEF s
    <3> QED  BY <1>6, <2>1
  <2> HIDE DEF s
  <2> QED  BY <1>1, <2>2
<1> HIDE DEF s
<1>8. ASSUME NEW i \in S PROVE Rank(S, i) + 1 \in 1..c /\ s[Rank(S, i) + 1] = i
  <2>1. Rank(S, i) \in Nat /\ Rank(S, i) < c
    BY RankLess
  <2>2. Rank(S, i) + 1 \in 1..c
    BY <1>1, <2>1
  <2>3. s[Rank(S, i) + 1] \in S /\ Rank(S, s[Rank(S, i) + 1]) = Rank(S, i)
    BY <1>6, <2>1, <2>2
  <2> QED  BY <1>4, <2>2, <2>3
<1>9. ASSUME NEW k \in 1..c, NEW l \in 1..c PROVE k < l <=> s[k] < s[l]
  <2>1. /\ s[k] \in S /\ Rank(S, s[k]) = k - 1
        /\ s[l] \in S /\ Rank(S, s[l]) = l - 1
    BY <1>6
  <2>2. s[k] < s[l] <=> k - 1 < l - 1
    <3>1. s[k] < s[l] <=> Rank(S, s[k]) < Rank(S, s[l])
      BY <1>3, <2>1
    <3> QED  BY <2>1, <3>1
  <2> QED  BY <1>1, <2>2
<1>10. Ordered(s, S)
  BY <1>6, <1>7, <1>8, <1>9 DEF Ordered
<1> QED  BY <1>10 DEF s

\* The first, the last and what comes before another.
LEMMA OrderedEnds ==
  ASSUME NEW n \in Nat, NEW S \in SUBSET (1..n), S # {}, NEW s, Ordered(s, S)
  PROVE  /\ s # <<>> /\ Len(s) \in Nat /\ Len(s) >= 1 /\ ToSet(s) = S
         /\ Head(s) = s[1] /\ Last(s) = s[Len(s)]
         /\ Head(s) \in S /\ \A i \in S : Head(s) <= i
         /\ Last(s) \in S /\ \A i \in S : i <= Last(s)
<1>1. /\ s \in Seq(S) /\ DOMAIN s = 1..Len(s) /\ Len(s) \in Nat
      /\ \A k \in DOMAIN s : s[k] \in S
      /\ \A k, l \in DOMAIN s : k < l <=> s[k] < s[l]
  BY DEF Ordered
<1>2. \A i \in S : \E k \in DOMAIN s : s[k] = i
  BY DEF Ordered
<1>3. Len(s) >= 1
  <2>1. \E k : k \in 1..Len(s)
    BY <1>1, <1>2
  <2> QED  BY <1>1, <2>1
<1>4. s # <<>> /\ Head(s) = s[1] /\ Last(s) = s[Len(s)]
  BY <1>1, <1>3 DEF Last
<1>5. ToSet(s) = S
  BY <1>1, <1>2 DEF ToSet
<1>6. 1 \in DOMAIN s /\ Len(s) \in DOMAIN s
  BY <1>1, <1>3
<1>7. ASSUME NEW i \in S PROVE s[1] <= i /\ i <= s[Len(s)]
  <2>1. PICK k \in DOMAIN s : s[k] = i
    BY <1>2
  <2>2. k \in 1..Len(s) /\ s[1] \in 1..n /\ s[Len(s)] \in 1..n /\ s[k] \in 1..n
    <3>1. s[1] \in S /\ s[Len(s)] \in S /\ s[k] \in S
      BY <1>1, <1>6
    <3> QED  BY <1>1, <3>1
  <2>3. /\ 1 < k => s[1] < s[k]
        /\ k < Len(s) => s[k] < s[Len(s)]
    BY <1>1, <1>6
  <2> QED  BY <1>1, <2>1, <2>2, <2>3
<1> QED  BY <1>1, <1>3, <1>4, <1>5, <1>6, <1>7

(* Banks that record what a replay of their events gives.                    *)
Sooner(b, i) == {j \in SameKey(b, i) : j < i}
Replayed(b) ==
  /\ Len(b) \in Nat /\ DOMAIN b = 1..Len(b)
  /\ \A i \in DOMAIN b :
       /\ b[i].version = Cardinality(Sooner(b, i))
       /\ b[i].operation = IF Sooner(b, i) = {} THEN "create" ELSE "update"
       /\ b[i].previous = Before(Sooner(b, i))
       /\ b[i].active <=> \A j \in SameKey(b, i) : j <= i

LEMMA VersionedIs ==
  ASSUME NEW events, Listed(events)
  PROVE  /\ Replayed(Versioned(events)) /\ DOMAIN Versioned(events) = DOMAIN events
         /\ Len(Versioned(events)) = Len(events)
         /\ \A i \in DOMAIN events :
              /\ Versioned(events)[i].entity = events[i].entity
              /\ Versioned(events)[i].predicate = events[i].predicate
              /\ Versioned(events)[i].value = events[i].value
              /\ Versioned(events)[i].time = events[i].time
<1> DEFINE b == Versioned(events)
           n == Len(events)
<1>1. n \in Nat /\ DOMAIN events = 1..n
  BY DEF Listed
<1>2. DOMAIN b = 1..n
  BY <1>1 DEF Versioned
<1>3. Len(b) = n
  <2>1. b = [i \in 1..n |-> b[i]]
    BY <1>1 DEF Versioned
  <2> HIDE DEF b
  <2>2. b \in [1..n -> {b[i] : i \in 1..n}]
    BY <2>1
  <2>3. b \in Seq({b[i] : i \in 1..n})
    BY <1>1, <2>2
  <2> QED  BY <1>1, <1>2, <2>3
<1>4. ASSUME NEW i \in 1..n
      PROVE  LET sooner == {j \in 1..(i - 1) : Key(events[j]) = Key(events[i])}
                 later == {j \in DOMAIN events : j > i /\ Key(events[j]) = Key(events[i])}
             IN /\ b[i].entity = events[i].entity /\ b[i].predicate = events[i].predicate
                /\ b[i].value = events[i].value /\ b[i].time = events[i].time
                /\ b[i].version = Cardinality(sooner) /\ b[i].previous = Before(sooner)
                /\ b[i].operation = (IF sooner = {} THEN "create" ELSE "update")
                /\ b[i].active = (later = {})
  BY <1>1 DEF Versioned
<1> HIDE DEF b
<1>5. \A i \in 1..n : Key(b[i]) = Key(events[i])
  BY <1>4 DEF Key
<1>6. ASSUME NEW i \in 1..n
      PROVE  /\ {j \in 1..(i - 1) : Key(events[j]) = Key(events[i])} = Sooner(b, i)
             /\ ({j \in DOMAIN events : j > i /\ Key(events[j]) = Key(events[i])} = {})
                  <=> \A j \in SameKey(b, i) : j <= i
  <2>1. SameKey(b, i) = {j \in 1..n : Key(events[j]) = Key(events[i])}
    BY <1>2, <1>5 DEF SameKey
  <2>2. {j \in 1..(i - 1) : Key(events[j]) = Key(events[i])} = Sooner(b, i)
    BY <1>1, <2>1 DEF Sooner
  <2>3. \A j \in 1..n : ~(j > i) <=> j <= i
    BY <1>1
  <2> QED  BY <1>1, <2>1, <2>2, <2>3
<1>7. Replayed(b)
  <2>1. ASSUME NEW i \in 1..n
        PROVE  /\ b[i].version = Cardinality(Sooner(b, i))
               /\ b[i].operation = IF Sooner(b, i) = {} THEN "create" ELSE "update"
               /\ b[i].previous = Before(Sooner(b, i))
               /\ b[i].active <=> \A j \in SameKey(b, i) : j <= i
    <3>1. /\ b[i].version = Cardinality(Sooner(b, i)) /\ b[i].previous = Before(Sooner(b, i))
          /\ b[i].operation = IF Sooner(b, i) = {} THEN "create" ELSE "update"
      BY <1>4, <1>6
    <3>2. b[i].active = ({j \in DOMAIN events : j > i /\ Key(events[j]) = Key(events[i])} = {})
      BY <1>4
    <3> QED  BY <1>6, <3>1, <3>2
  <2> QED  BY <1>1, <1>2, <1>3, <2>1 DEF Replayed
<1> QED  BY <1>1, <1>2, <1>3, <1>4, <1>7 DEF b

\* The versions of the event at i in order.
LEMMA ChainIs ==
  ASSUME NEW b, Replayed(b), NEW i \in DOMAIN b
  PROVE  /\ SameKey(b, i) \in SUBSET (1..Len(b)) /\ i \in SameKey(b, i)
         /\ Ordered(Chain(b, Key(b[i])), SameKey(b, i))
<1>1. Len(b) \in Nat /\ DOMAIN b = 1..Len(b)
  BY DEF Replayed
<1>2. SameKey(b, i) \in SUBSET (1..Len(b)) /\ i \in SameKey(b, i)
  BY <1>1 DEF SameKey
<1>3. Chain(b, Key(b[i])) = InOrder(SameKey(b, i))
  BY DEF Chain, SameKey
<1> QED  BY <1>1, <1>2, <1>3, InOrderIs

LEMMA ChainsAre ==
  ASSUME NEW b, Replayed(b), NEW m \in DOMAIN Chains(b)
  PROVE  \E i \in DOMAIN b : Chains(b)[m] = Chain(b, Key(b[i]))
<1> DEFINE O == {i \in DOMAIN b : \A j \in 1..(i - 1) : Key(b[j]) # Key(b[i])}
<1>1. Len(b) \in Nat /\ DOMAIN b = 1..Len(b)
  BY DEF Replayed
<1>2. Ordered(Openings(b), O)
  <2>1. O \in SUBSET (1..Len(b))
    BY <1>1
  <2> QED  BY <1>1, <2>1, InOrderIs DEF Openings
<1>3. m \in DOMAIN Openings(b) /\ Chains(b)[m] = Chain(b, Key(b[Openings(b)[m]]))
  BY DEF Chains
<1>4. Openings(b)[m] \in O
  BY <1>2, <1>3 DEF Ordered
<1> QED  BY <1>3, <1>4

\* What is recorded of the event at i that is the k-th about its key.
LEMMA PlaceIs ==
  ASSUME NEW b, Replayed(b), NEW i \in DOMAIN b, NEW s, Ordered(s, SameKey(b, i)),
         NEW k \in DOMAIN s
  PROVE  /\ s[k] \in DOMAIN b /\ k \in Nat /\ Len(s) \in Nat
         /\ b[s[k]].version = k - 1
         /\ b[s[k]].previous = IF k = 1 THEN NoEpisode ELSE s[k - 1]
         /\ b[s[k]].operation = IF k = 1 THEN "create" ELSE "update"
         /\ b[s[k]].active <=> s[k] = Last(s)
<1> DEFINE S == SameKey(b, i)
<1>1. Len(b) \in Nat /\ DOMAIN b = 1..Len(b) /\ S \in SUBSET (1..Len(b)) /\ S # {}
  <2>1. S \in SUBSET (1..Len(b)) /\ i \in S
    BY ChainIs
  <2> QED  BY <2>1 DEF Replayed
<1>2. /\ s[k] \in S /\ Rank(S, s[k]) = k - 1 /\ DOMAIN s = 1..Len(s) /\ Len(s) \in Nat
      /\ \A l \in DOMAIN s : s[l] \in S
      /\ \A l, m \in DOMAIN s : l < m <=> s[l] < s[m]
      /\ \A j \in S : \E l \in DOMAIN s : s[l] = j
  <2> HIDE DEF S
  <2> QED  BY <1>1, OrderedEnds DEF Ordered, S
<1>3. s[k] \in DOMAIN b /\ SameKey(b, s[k]) = S
  BY <1>2 DEF SameKey
<1>4. Sooner(b, s[k]) = {j \in S : j < s[k]}
  BY <1>3 DEF Sooner
<1> HIDE DEF S
<1>5. b[s[k]].version = k - 1
  BY <1>2, <1>3, <1>4 DEF Replayed, Rank
<1>6. ASSUME k = 1 PROVE b[s[k]].previous = NoEpisode /\ b[s[k]].operation = "create"
  <2>1. Sooner(b, s[k]) = {}
    <3>1. \A j \in S : ~(j < s[1])
      <4>1. SUFFICES ASSUME NEW j \in S, j < s[1] PROVE FALSE
        OBVIOUS
      <4>2. PICK l \in DOMAIN s : s[l] = j
        BY <1>2
      <4>3. l < 1 /\ l \in 1..Len(s)
        BY <1>2, <1>6, <4>1, <4>2
      <4> QED  BY <1>2, <4>3
    <3> QED  BY <1>4, <1>6, <3>1
  <2> QED  BY <1>3, <1>6, <2>1 DEF Replayed, Before
<1>7. ASSUME k # 1 PROVE b[s[k]].previous = s[k - 1] /\ b[s[k]].operation = "update"
  <2>1. k - 1 \in DOMAIN s /\ k - 1 < k
    BY <1>2, <1>7
  <2>2. s[k - 1] \in Sooner(b, s[k])
    BY <1>2, <1>4, <2>1
  <2>3. \A j \in Sooner(b, s[k]) : j <= s[k - 1]
    <3>1. SUFFICES ASSUME NEW j \in S, j < s[k] PROVE j <= s[k - 1]
      BY <1>4
    <3>2. PICK l \in DOMAIN s : s[l] = j
      BY <1>2
    <3>3. l < k /\ l \in 1..Len(s) /\ k \in 1..Len(s)
      BY <1>2, <3>1, <3>2
    <3>4. l = k - 1 \/ l < k - 1
      BY <1>2, <3>3
    <3>5. s[l] = s[k - 1] \/ s[l] < s[k - 1]
      BY <1>2, <2>1, <3>4
    <3>6. s[l] \in 1..Len(b) /\ s[k - 1] \in 1..Len(b)
      BY <1>1, <1>2, <2>1
    <3> QED  BY <3>2, <3>5, <3>6
  <2>4. Max(Sooner(b, s[k])) = s[k - 1]
    <3>1. Sooner(b, s[k]) \in SUBSET (1..Len(b)) /\ Sooner(b, s[k]) # {}
      BY <1>1, <1>4, <2>2
    <3>2. /\ Max(Sooner(b, s[k])) \in Sooner(b, s[k])
          /\ \A y \in Sooner(b, s[k]) : y <= Max(Sooner(b, s[k]))
      BY <1>1, <3>1, MaxIs
    <3>3. Max(Sooner(b, s[k])) \in 1..Len(b) /\ s[k - 1] \in 1..Len(b)
      BY <2>2, <3>1, <3>2
    <3> QED  BY <2>2, <2>3, <3>2, <3>3
  <2>5. /\ b[s[k]].previous = s[k - 1] /\ b[s[k]].operation = "update"
    BY <1>3, <2>2, <2>4 DEF Replayed, Before
  <2> QED  BY <1>7, <2>5
<1>8. b[s[k]].active <=> s[k] = Last(s)
  <2>1. b[s[k]].active <=> \A j \in S : j <= s[k]
    BY <1>3 DEF Replayed
  <2>2. Last(s) \in S /\ \A j \in S : j <= Last(s)
    BY <1>1, OrderedEnds DEF S
  <2>3. Last(s) \in 1..Len(b) /\ s[k] \in 1..Len(b)
    BY <1>1, <1>2, <2>2
  <2> QED  BY <1>2, <2>1, <2>2, <2>3
<1> QED  BY <1>2, <1>3, <1>5, <1>6, <1>7, <1>8

LEMMA ReplayedValid ==
  ASSUME NEW b, Replayed(b)
  PROVE  /\ GraphValid(b)
         /\ \A i \in DOMAIN b : b[i].operation = "update" => Cardinality(Predecessors(b, i)) = 1
<1>1. GraphValid(b)
  <2>1. SUFFICES ASSUME NEW m \in DOMAIN Chains(b), NEW s, s = Chains(b)[m]
                 PROVE  /\ \A v \in DOMAIN s :
                             /\ b[s[v]].version = v - 1
                             /\ b[s[v]].previous = IF v = 1 THEN NoEpisode ELSE s[v - 1]
                             /\ b[s[v]].operation = IF v = 1 THEN "create" ELSE "update"
                        /\ {i \in ToSet(s) : b[i].active} = {Last(s)}
    BY DEF GraphValid
  <2>2. PICK i \in DOMAIN b : s = Chain(b, Key(b[i]))
    BY <2>1, ChainsAre
  <2>3. Ordered(s, SameKey(b, i)) /\ SameKey(b, i) \in SUBSET (1..Len(b)) /\ i \in SameKey(b, i)
    BY <2>2, ChainIs
  <2>4. Len(b) \in Nat /\ SameKey(b, i) # {}
    BY <2>3 DEF Replayed
  <2>5. ToSet(s) = SameKey(b, i) /\ Last(s) \in SameKey(b, i)
    BY <2>3, <2>4, OrderedEnds
  <2>6. \A j \in SameKey(b, i) : b[j].active <=> j = Last(s)
    <3>1. SUFFICES ASSUME NEW j \in SameKey(b, i) PROVE b[j].active <=> j = Last(s)
      OBVIOUS
    <3>2. PICK k \in DOMAIN s : s[k] = j
      BY <2>3 DEF Ordered
    <3> QED  BY <2>3, <3>2, PlaceIs
  <2>7. {j \in ToSet(s) : b[j].active} = {Last(s)}
    BY <2>5, <2>6
  <2> QED  BY <2>3, <2>7, PlaceIs
<1>2. ASSUME NEW i \in DOMAIN b, b[i].operation = "update"
      PROVE  Cardinality(Predecessors(b, i)) = 1
  <2>1. PICK s : Ordered(s, SameKey(b, i)) /\ SameKey(b, i) \in SUBSET (1..Len(b)) /\ i \in SameKey(b, i)
    BY ChainIs
  <2>2. PICK k \in DOMAIN s : s[k] = i
    BY <2>1 DEF Ordered
  <2>3. k # 1 /\ b[i].previous = s[k - 1]
    BY <1>2, <2>1, <2>2, PlaceIs
  <2>4. DOMAIN s = 1..Len(s) /\ k \in Nat /\ Len(s) \in Nat /\ Len(b) \in Nat /\ DOMAIN b = 1..Len(b)
    BY <2>1, <2>2, PlaceIs DEF Ordered, Replayed
  <2>5. k - 1 \in DOMAIN s
    BY <2>2, <2>3, <2>4
  <2>6. s[k - 1] \in SameKey(b, i) /\ s[k - 1] < i
    BY <2>1, <2>2, <2>4, <2>5 DEF Ordered
  <2>7. s[k - 1] \in 1..(i - 1)
    BY <2>1, <2>4, <2>6
  <2>8. ASSUME NEW j \in (s[k - 1] + 1)..(i - 1) PROVE Key(b[j]) # Key(b[s[k - 1]])
    <3>1. SUFFICES ASSUME Key(b[j]) = Key(b[s[k - 1]]) PROVE FALSE
      OBVIOUS
    <3>2. j \in 1..Len(b) /\ s[k - 1] < j /\ j < i
      BY <2>4, <2>7
    <3>3. j \in SameKey(b, i)
      BY <2>4, <2>6, <3>1, <3>2 DEF SameKey
    <3>4. PICK l \in DOMAIN s : s[l] = j
      BY <2>1, <3>3 DEF Ordered
    <3>5. k - 1 < l /\ l < k
      BY <2>1, <2>2, <2>5, <3>2, <3>4 DEF Ordered
    <3> QED  BY <2>4, <3>4, <3>5
  <2>9. Predecessors(b, i) = {s[k - 1]}
    BY <2>3, <2>7, <2>8 DEF Predecessors, ActiveBefore
  <2> QED  BY <2>9, FS_Singleton
<1> QED  BY <1>1, <1>2

(* What a question about such a bank should be answered with.                *)
Follows(b, q) ==
  /\ q.gold = UNION {ReplayAnswer(b, q, t) : t \in ToSet(q.targets)}
  /\ q.intent \in {"current", "exact_time", "previous", "multi_current"} => Resolved(b, q) = q.gold
  /\ q.intent = "current" => ActivationTarget(b, q) = q.gold
Newest(b, i) == i \in DOMAIN b /\ \A j \in SameKey(b, i) : j <= i

LEMMA QuestionIs ==
  /\ \A intent, targets, gold :
       LET q == Question(intent, targets, gold)
       IN q.intent = intent /\ q.targets = targets /\ q.gold = gold
  /\ \A e, p, v : LET t == Ask(e, p, v) IN Key(t) = <<e, p>> /\ t.version = v
  /\ \A b, i : Key(Active(b, i)) = Key(b[i]) /\ Active(b, i).version = "active"
  BY DEF Question, Ask, Active, Key

LEMMA NewestIs ==
  ASSUME NEW b, Replayed(b), NEW f, Newest(b, f), NEW t, Key(t) = Key(b[f])
  PROVE  /\ \A q : q.intent # "history" /\ t.version = "active" => ReplayAnswer(b, q, t) = {f}
         /\ t.version = "active" => Resolve(b, t) = {f}
         /\ {i \in ActiveEvidence(b) : Key(b[i]) = Key(t)} = {f}
<1>1. f \in DOMAIN b /\ f \in SameKey(b, f) /\ \A j \in SameKey(b, f) : j <= f
  BY DEF Newest, SameKey
<1>2. Len(b) \in Nat /\ DOMAIN b = 1..Len(b)
  BY DEF Replayed
<1>3. {i \in DOMAIN b : Key(b[i]) = Key(t)} = SameKey(b, f)
  BY DEF SameKey
<1>4. \A i \in SameKey(b, f) : i \in 1..Len(b) /\ SameKey(b, i) = SameKey(b, f)
  BY <1>2 DEF SameKey
<1>5. \A i \in SameKey(b, f) : (\A j \in SameKey(b, f) : j <= i) <=> i = f
  BY <1>1, <1>2, <1>4
<1>6. \A i \in SameKey(b, f) : b[i].active <=> i = f
  BY <1>2, <1>4, <1>5 DEF Replayed
<1>7. {i \in SameKey(b, f) : \A j \in SameKey(b, f) : j <= i} = {f}
  BY <1>1, <1>5
<1>8. {i \in SameKey(b, f) : b[i].active} = {f}
  BY <1>1, <1>6
<1>9. ASSUME NEW q, q.intent # "history", t.version = "active" PROVE ReplayAnswer(b, q, t) = {f}
  BY <1>3, <1>7, <1>9 DEF ReplayAnswer
<1>10. ASSUME t.version = "active" PROVE Resolve(b, t) = {f}
  <2>1. Resolve(b, t) = Only({f})
    BY <1>3, <1>8, <1>10 DEF Resolve
  <2> QED  BY <2>1, FS_Singleton DEF Only
<1>11. {i \in ActiveEvidence(b) : Key(b[i]) = Key(t)} = {i \in SameKey(b, f) : b[i].active}
  BY <1>3 DEF ActiveEvidence
<1> QED  BY <1>8, <1>9, <1>10, <1>11

LEMMA CurrentFollows ==
  ASSUME NEW b, Replayed(b), NEW f, Newest(b, f), NEW t, Key(t) = Key(b[f]), t.version = "active",
         NEW ts, ToSet(ts) = {t}, Len(ts) = 1, ts[1] = t
  PROVE  Follows(b, Question("current", ts, {f}))
<1> DEFINE q == Question("current", ts, {f})
<1>1. q.intent = "current" /\ q.targets = ts /\ q.gold = {f}
  BY QuestionIs
<1> HIDE DEF q
<1>2. UNION {ReplayAnswer(b, q, u) : u \in ToSet(q.targets)} = {f}
  <2>1. ReplayAnswer(b, q, t) = {f}
    BY <1>1, NewestIs
  <2> QED  BY <1>1, <2>1
<1>3. Resolved(b, q) = {f}
  <2>1. Resolve(b, t) = {f}
    BY NewestIs
  <2> QED  BY <1>1, <2>1 DEF Resolved
<1>4. ActivationTarget(b, q) = {f}
  <2>1. ActivationTarget(b, q) = Only({i \in ActiveEvidence(b) : Key(b[i]) = Key(t)})
    BY <1>1 DEF ActivationTarget
  <2>2. {i \in ActiveEvidence(b) : Key(b[i]) = Key(t)} = {f}
    BY NewestIs
  <2>3. ActivationTarget(b, q) = Only({f})
    BY <2>1, <2>2
  <2> QED  BY <2>3, FS_Singleton DEF Only
<1> QED  BY <1>1, <1>2, <1>3, <1>4 DEF Follows, q

LEMMA TwoFollow ==
  ASSUME NEW b, Replayed(b), NEW f, Newest(b, f), NEW g, Newest(b, g)
  PROVE  Follows(b, Question("multi_current", <<Active(b, f), Active(b, g)>>, {f, g}))
<1> DEFINE q == Question("multi_current", <<Active(b, f), Active(b, g)>>, {f, g})
<1>1. q.intent = "multi_current" /\ ToSet(q.targets) = {Active(b, f), Active(b, g)} /\ q.gold = {f, g}
  BY QuestionIs, ShortLists
<1> HIDE DEF q
<1>2. /\ Key(Active(b, f)) = Key(b[f]) /\ Active(b, f).version = "active"
      /\ Key(Active(b, g)) = Key(b[g]) /\ Active(b, g).version = "active"
  BY QuestionIs
<1>3. /\ ReplayAnswer(b, q, Active(b, f)) = {f} /\ Resolve(b, Active(b, f)) = {f}
      /\ ReplayAnswer(b, q, Active(b, g)) = {g} /\ Resolve(b, Active(b, g)) = {g}
  BY <1>1, <1>2, NewestIs
<1>4. /\ UNION {ReplayAnswer(b, q, u) : u \in ToSet(q.targets)} = {f, g}
      /\ UNION {Resolve(b, u) : u \in ToSet(q.targets)} = {f, g}
  BY <1>1, <1>3
<1> QED  BY <1>1, <1>4 DEF Follows, Resolved, q

LEMMA NothingFollows ==
  ASSUME NEW b
  PROVE  Follows(b, Question("null", <<>>, {}))
<1> DEFINE q == Question("null", <<>>, {})
<1>1. q.intent = "null" /\ ToSet(q.targets) = {} /\ q.gold = {}
  BY QuestionIs, ShortLists
<1> HIDE DEF q
<1>2. UNION {ReplayAnswer(b, q, u) : u \in ToSet(q.targets)} = {}
  BY <1>1
<1> QED  BY <1>1, <1>2 DEF Follows, q

\* The version of a fact that was told at some time.
LEMMA ExactFollows ==
  ASSUME NEW b, Replayed(b), NEW f \in DOMAIN b,
         \A i \in DOMAIN b : b[i].time = b[f].time => i = f,
         NEW t, Key(t) = Key(b[f]), t.version = "exact", t.value = b[f].value, t.time = b[f].time
  PROVE  Follows(b, Question("exact_time", <<t>>, {f}))
<1> DEFINE q == Question("exact_time", <<t>>, {f})
<1>1. q.intent = "exact_time" /\ ToSet(q.targets) = {t} /\ q.gold = {f}
  BY QuestionIs, ShortLists
<1> HIDE DEF q
<1>2. {i \in {j \in DOMAIN b : Key(b[j]) = Key(t)} : b[i].value = t.value /\ b[i].time = t.time} = {f}
  OBVIOUS
<1>3. ReplayAnswer(b, q, t) = {f}
  BY <1>1, <1>2 DEF ReplayAnswer
<1>4. Resolve(b, t) = {f}
  <2>1. Resolve(b, t) = Only({f})
    BY <1>2 DEF Resolve
  <2> QED  BY <2>1, FS_Singleton DEF Only
<1>5. /\ UNION {ReplayAnswer(b, q, u) : u \in ToSet(q.targets)} = {f}
      /\ UNION {Resolve(b, u) : u \in ToSet(q.targets)} = {f}
  BY <1>1, <1>3, <1>4
<1> QED  BY <1>1, <1>5 DEF Follows, Resolved, q

\* The version of a fact before its last one.
LEMMA PreviousFollows ==
  ASSUME NEW b, Replayed(b), NEW i \in DOMAIN b, NEW s, Ordered(s, SameKey(b, i)), Len(s) >= 2,
         NEW t, Key(t) = Key(b[i]), t.version = "previous", t.anchor = Last(s)
  PROVE  Follows(b, Question("previous", <<t>>, {s[Len(s) - 1]}))
<1> DEFINE n == Len(s)
           old == s[n - 1]
           q == Question("previous", <<t>>, {old})
           S == SameKey(b, i)
<1>1. q.intent = "previous" /\ ToSet(q.targets) = {t} /\ q.gold = {old}
  BY QuestionIs, ShortLists
<1> HIDE DEF q
<1>2. /\ Len(b) \in Nat /\ DOMAIN b = 1..Len(b) /\ S \in SUBSET (1..Len(b)) /\ S # {}
  <2>1. S \in SUBSET (1..Len(b)) /\ i \in S
    BY ChainIs
  <2> QED  BY <2>1 DEF Replayed
<1>3. /\ n \in Nat /\ DOMAIN s = 1..n /\ Last(s) = s[n]
  <2> HIDE DEF S
  <2>1. Ordered(s, S)
    BY DEF S
  <2> QED  BY <1>2, <2>1, OrderedEnds DEF Ordered
<1>4. n \in DOMAIN s /\ n - 1 \in DOMAIN s /\ n - 1 < n /\ n # 1
  BY <1>3
<1>5. s[n] \in S /\ old \in S /\ old < s[n]
  BY <1>4 DEF Ordered
<1>6. {j \in DOMAIN b : Key(b[j]) = Key(t)} = S
  BY DEF SameKey
<1>7. \A j \in S : j < s[n] => j <= old
  <2>1. SUFFICES ASSUME NEW j \in S, j < s[n] PROVE j <= old
    OBVIOUS
  <2>2. PICK l \in DOMAIN s : s[l] = j
    BY DEF Ordered
  <2>3. l < n /\ l \in 1..n
    BY <1>3, <1>4, <2>1, <2>2 DEF Ordered
  <2>4. l = n - 1 \/ l < n - 1
    BY <1>3, <2>3
  <2>5. s[l] = old \/ s[l] < old
    BY <1>4, <2>4 DEF Ordered
  <2>6. s[l] \in 1..Len(b) /\ old \in 1..Len(b)
    BY <1>2, <1>5, <2>2
  <2> QED  BY <2>2, <2>5, <2>6
<1>8. {j \in S : j < s[n] /\ \A h \in S : h < s[n] => h <= j} = {old}
  <2>1. ASSUME NEW j \in S, j < s[n], \A h \in S : h < s[n] => h <= j PROVE j = old
    <3>1. j <= old /\ old <= j
      BY <1>5, <1>7, <2>1
    <3>2. j \in 1..Len(b) /\ old \in 1..Len(b)
      BY <1>2, <1>5
    <3> QED  BY <3>1, <3>2
  <2> QED  BY <1>5, <1>7, <2>1
<1>9. ReplayAnswer(b, q, t) = {old}
  <2> HIDE DEF S, old
  <2> QED  BY <1>1, <1>3, <1>6, <1>8 DEF ReplayAnswer
<1>10. Resolve(b, t) = {old}
  <2>1. b[s[n]].previous = old
    BY <1>4, PlaceIs
  <2>2. old # NoEpisode
    BY <1>2, <1>5 DEF NoEpisode
  <2> HIDE DEF S, old
  <2>3. Resolve(b, t) = {b[s[n]].previous} \ {NoEpisode}
    BY <1>3, <1>5, <1>6 DEF Resolve
  <2> QED  BY <2>1, <2>2, <2>3
<1>11. /\ UNION {ReplayAnswer(b, q, u) : u \in ToSet(q.targets)} = {old}
       /\ UNION {Resolve(b, u) : u \in ToSet(q.targets)} = {old}
  BY <1>1, <1>9, <1>10
<1> HIDE DEF old
<1>12. Follows(b, q)
  BY <1>1, <1>11 DEF Follows, Resolved
<1> QED  BY <1>12 DEF q, old

LEMMA LengthIs ==
  ASSUME NEW n \in Nat, NEW f, f = [i \in 1..n |-> f[i]]
  PROVE  Len(f) = n /\ DOMAIN f = 1..n
<1>1. DOMAIN f = 1..n
  OBVIOUS
<1>2. f \in [1..n -> {f[i] : i \in 1..n}]
  OBVIOUS
<1>3. f \in Seq({f[i] : i \in 1..n})
  BY <1>2
<1> QED  BY <1>1, <1>3

LEMMA RemainderIs ==
  ASSUME NEW n \in Nat, NEW d \in Nat, d > 0
  PROVE  (n % d) + 1 \in 1..d
<1>1. n % d \in 0..(d - 1)
  OBVIOUS
<1> QED  BY <1>1

LEMMA SevenDays ==
  ASSUME NEW n \in Nat
  PROVE  \E d \in Nat, r \in 0..6 : n \div 7 = d /\ n = 7 * d + r
<1>1. n \div 7 \in Nat /\ n % 7 \in 0..6
  OBVIOUS
<1>2. n = 7 * (n \div 7) + (n % 7)
  OBVIOUS
<1> QED  BY <1>1, <1>2

-----------------------------------------------------------------------------
(* The repeated dialogue.                                                    *)
LEMMA ChainsListed ==
  ASSUME NEW b, Replayed(b)
  PROVE  /\ Len(Chains(b)) \in Nat /\ DOMAIN Chains(b) = 1..Len(Chains(b))
         /\ Len(Revised(b)) \in Nat /\ DOMAIN Revised(b) = 1..Len(Revised(b))
         /\ Revised(b) # <<>> => Len(Revised(b)) > 0
         /\ \A k \in DOMAIN Revised(b) :
              \E m \in DOMAIN Chains(b) : Revised(b)[k] = Chains(b)[m] /\ Len(Chains(b)[m]) >= 2
<1> DEFINE O == {i \in DOMAIN b : \A j \in 1..(i - 1) : Key(b[j]) # Key(b[i])}
           c == Chains(b)
           R == {m \in DOMAIN c : Len(c[m]) >= 2}
<1>1. Len(b) \in Nat /\ O \in SUBSET (1..Len(b))
  BY DEF Replayed
<1>2. Ordered(Openings(b), O) /\ Cardinality(O) \in Nat
  <2>1. IsFiniteSet(1..Len(b))
    BY <1>1, FS_Interval
  <2>2. IsFiniteSet(O)
    BY <1>1, <2>1, FS_Subset
  <2> QED  BY <1>1, <2>2, InOrderIs, FS_CardinalityType DEF Openings
<1>3. Len(c) \in Nat /\ DOMAIN c = 1..Len(c)
  <2>1. PICK n \in Nat : DOMAIN Openings(b) = 1..n
    BY <1>2 DEF Ordered
  <2>2. c = [i \in 1..n |-> Chain(b, Key(b[Openings(b)[i]]))]
    BY <2>1 DEF Chains
  <2> HIDE DEF c
  <2>3. c = [i \in 1..n |-> c[i]]
    BY <2>2
  <2> QED  BY <2>3, LengthIs
<1>4. R \in SUBSET (1..Len(c))
  BY <1>3
<1> HIDE DEF c
<1>5. Ordered(InOrder(R), R) /\ Cardinality(R) \in Nat
  <2>1. IsFiniteSet(1..Len(c))
    BY <1>3, FS_Interval
  <2>2. IsFiniteSet(R)
    BY <1>4, <2>1, FS_Subset
  <2> QED  BY <1>3, <1>4, <2>2, InOrderIs, FS_CardinalityType
<1>6. PICK rev : rev = InOrder(R)
  OBVIOUS
<1>7. PICK n \in Nat : n = Cardinality(R) /\ DOMAIN rev = 1..n
  BY <1>5, <1>6 DEF Ordered
<1>8. Revised(b) = [k \in 1..n |-> c[rev[k]]]
  BY <1>6, <1>7 DEF Revised, c
<1>9. PICK v : v = Revised(b)
  OBVIOUS
<1>10. v = [k \in 1..n |-> v[k]]
  BY <1>8, <1>9
<1>11. Len(v) = n /\ DOMAIN v = 1..n
  BY <1>10, LengthIs
<1>12. v # <<>> => Len(v) > 0
  <2>1. SUFFICES ASSUME n = 0 PROVE v = <<>>
    BY <1>11
  <2>2. v = [k \in 1..0 |-> v[k]]
    BY <1>10, <2>1
  <2> QED  BY <1>11, <2>1, <2>2
<1>13. ASSUME NEW k \in 1..n PROVE v[k] = c[rev[k]] /\ rev[k] \in DOMAIN c /\ Len(c[rev[k]]) >= 2
  <2>1. rev[k] \in R
    BY <1>5, <1>6, <1>7 DEF Ordered
  <2> QED  BY <1>8, <1>9, <2>1
<1> QED  BY <1>3, <1>9, <1>11, <1>12, <1>13 DEF c

LEMMA LatestIs ==
  ASSUME NEW b, Replayed(b), Len(Chains(b)) >= 2, NEW n \in Nat
  PROVE  Newest(b, Latest(b, n))
<1>1. PICK m : m = (n % Len(Chains(b))) + 1 /\ m \in DOMAIN Chains(b)
  BY ChainsListed, RemainderIs
<1>2. Latest(b, n) = Last(Chains(b)[m])
  BY <1>1 DEF Latest
<1>3. PICK i \in DOMAIN b : Chains(b)[m] = Chain(b, Key(b[i]))
  BY <1>1, ChainsAre
<1>4. /\ SameKey(b, i) \in SUBSET (1..Len(b)) /\ i \in SameKey(b, i) /\ Len(b) \in Nat
      /\ Ordered(Chain(b, Key(b[i])), SameKey(b, i))
  BY ChainIs DEF Replayed
<1>5. PICK l : l = Latest(b, n) /\ l \in SameKey(b, i) /\ \A j \in SameKey(b, i) : j <= l
  BY <1>2, <1>3, <1>4, OrderedEnds
<1>6. SameKey(b, l) = SameKey(b, i) /\ l \in DOMAIN b
  BY <1>5 DEF SameKey
<1> QED  BY <1>5, <1>6 DEF Newest

LEMMA RevisedIs ==
  ASSUME NEW b, Replayed(b), Revised(b) # <<>>, NEW n \in Nat
  PROVE  \E i \in DOMAIN b :
           LET s == Revised(b)[(n % Len(Revised(b))) + 1]
           IN Ordered(s, SameKey(b, i)) /\ Len(s) >= 2 /\ Key(b[s[Len(s) - 1]]) = Key(b[i])
<1>1. PICK k : k = (n % Len(Revised(b))) + 1 /\ k \in DOMAIN Revised(b)
  BY ChainsListed, RemainderIs
<1>2. PICK m \in DOMAIN Chains(b) : Revised(b)[k] = Chains(b)[m] /\ Len(Chains(b)[m]) >= 2
  BY <1>1, ChainsListed
<1>3. PICK i \in DOMAIN b : Chains(b)[m] = Chain(b, Key(b[i]))
  BY <1>2, ChainsAre
<1>4. PICK s : s = Revised(b)[k] /\ Ordered(s, SameKey(b, i)) /\ Len(s) >= 2
  BY <1>2, <1>3, ChainIs
<1>5. Len(s) - 1 \in DOMAIN s
  <2>1. DOMAIN s = 1..Len(s) /\ s \in Seq(SameKey(b, i))
    BY <1>4 DEF Ordered
  <2>2. Len(s) \in Nat
    BY <2>1
  <2> QED  BY <1>4, <2>1, <2>2
<1>6. s[Len(s) - 1] \in SameKey(b, i)
  BY <1>4, <1>5 DEF Ordered
<1> QED  BY <1>1, <1>4, <1>6 DEF SameKey

LEMMA RepeatedFollows ==
  ASSUME NEW world \in Nat, NEW b, Replayed(b), ~Thin(b), NEW query \in 0..11,
         \A i, j \in DOMAIN b : b[i].time = b[j].time => i = j
  PROVE  Follows(b, RepeatedQuestion(world, b, query))
<1>1. Len(Chains(b)) >= 2 /\ Revised(b) # <<>>
  BY ChainsListed DEF Thin
<1>2. PICK selector \in Nat : selector = world * 17 + query * 11
  OBVIOUS
<1>3. PICK fact : fact = Latest(b, selector) /\ Newest(b, fact)
  BY <1>1, <1>2, LatestIs
<1>4. PICK next : next = Latest(b, selector + 1) /\ Newest(b, next)
  BY <1>1, <1>2, LatestIs
<1>5. PICK other : other = Latest(b, selector + 2) /\ Newest(b, other)
  BY <1>1, <1>2, LatestIs
<1>6. PICK second : second = (IF next = fact THEN other ELSE next) /\ Newest(b, second)
  BY <1>4, <1>5
<1>7. PICK chain : chain = Revised(b)[((world + query) % Len(Revised(b))) + 1]
  OBVIOUS
<1>8. PICK i \in DOMAIN b :
        Ordered(chain, SameKey(b, i)) /\ Len(chain) >= 2 /\ Key(b[chain[Len(chain) - 1]]) = Key(b[i])
  <2>1. world + query \in Nat
    OBVIOUS
  <2> QED  BY <1>1, <1>7, <2>1, RevisedIs
<1>9. PICK old : old = chain[Len(chain) - 1]
  OBVIOUS
<1>10. PICK family : family = Families[(query % 6) + 1]
  OBVIOUS
<1>11. family \in {"direct", "paraphrase", "temporal", "previous", "multi", "null"}
  <2>1. query % 6 \in 0..5
    OBVIOUS
  <2> QED  BY <1>10, <2>1 DEF Families
<1> DEFINE q == RepeatedQuestion(world, b, query)
<1>12. q =
         CASE family \in {"direct", "paraphrase"} -> Question("current", <<Active(b, fact)>>, {fact})
           [] family = "temporal" ->
                Question("exact_time", <<[Active(b, fact) EXCEPT !.version = "exact",
                                            !.value = b[fact].value, !.time = b[fact].time]>>, {fact})
           [] family = "previous" ->
                Question("previous", <<[Active(b, old) EXCEPT !.version = "previous",
                                          !.anchor = Last(chain)]>>, {old})
           [] family = "multi" ->
                Question("multi_current", <<Active(b, fact), Active(b, second)>>, {fact, second})
           [] family = "null" -> Question("null", <<>>, {})
  BY <1>2, <1>3, <1>4, <1>5, <1>6, <1>7, <1>9, <1>10 DEF RepeatedQuestion
<1> HIDE DEF q
<1>13. CASE family \in {"direct", "paraphrase"}
  <2>1. q = Question("current", <<Active(b, fact)>>, {fact})
    BY <1>12, <1>13
  <2>2. PICK ts : ts = <<Active(b, fact)>>
    OBVIOUS
  <2>3. ToSet(ts) = {Active(b, fact)} /\ Len(ts) = 1 /\ ts[1] = Active(b, fact)
    BY <2>2, ShortLists
  <2>4. Key(Active(b, fact)) = Key(b[fact]) /\ Active(b, fact).version = "active"
    BY QuestionIs
  <2> QED  BY <1>3, <2>1, <2>2, <2>3, <2>4, CurrentFollows DEF q
<1>14. CASE family = "temporal"
  <2>1. PICK t : t = [Active(b, fact) EXCEPT !.version = "exact", !.value = b[fact].value,
                                              !.time = b[fact].time]
    OBVIOUS
  <2>2. q = Question("exact_time", <<t>>, {fact})
    BY <1>12, <1>14, <2>1
  <2>3. Key(t) = Key(b[fact]) /\ t.version = "exact" /\ t.value = b[fact].value /\ t.time = b[fact].time
    BY <2>1 DEF Active, Ask, Key
  <2>4. fact \in DOMAIN b
    BY <1>3 DEF Newest
  <2> QED  BY <2>2, <2>3, <2>4, ExactFollows DEF q
<1>15. CASE family = "previous"
  <2>1. PICK t : t = [Active(b, old) EXCEPT !.version = "previous", !.anchor = Last(chain)]
    OBVIOUS
  <2>2. q = Question("previous", <<t>>, {old})
    BY <1>12, <1>15, <2>1
  <2>3. Key(t) = Key(b[i]) /\ t.version = "previous" /\ t.anchor = Last(chain)
    BY <1>8, <1>9, <2>1 DEF Active, Ask, Key
  <2> QED  BY <1>8, <1>9, <2>2, <2>3, PreviousFollows DEF q
<1>16. CASE family = "multi"
  BY <1>3, <1>6, <1>12, <1>16, TwoFollow DEF q
<1>17. CASE family = "null"
  BY <1>12, <1>17, NothingFollows DEF q
<1> QED  BY <1>11, <1>13, <1>14, <1>15, <1>16, <1>17

\* What AnswersFollowReplay asks of each world, but for the training sets.
WorldFollows(w) ==
  /\ GraphValid(w.bank)
  /\ \A i \in DOMAIN w.bank :
       w.bank[i].operation = "update" => Cardinality(Predecessors(w.bank, i)) = 1
  /\ \A q \in w.questions : Follows(w.bank, q)

LEMMA RepeatedTrue ==
  ASSUME NEW world \in Nat, NEW events \in Nat, NEW sizes, ~Thin(RepeatedBank(world, events, sizes))
  PROVE  WorldFollows(RepeatedWorld(world, events, sizes))
<1>1. PICK told :
        /\ told = [i \in 1..events |->
                     LET event == i - 1
                         predicate == PredicateOf(world, event, sizes)
                     IN [entity |-> (world * 3 + (event % SpeakerCount(world))) % sizes.speakers,
                         predicate |-> predicate, value |-> ValueOf(world, event, predicate, sizes),
                         time |-> event * 3 + (event \div 7)]]
  OBVIOUS
<1>2. PICK b : b = RepeatedBank(world, events, sizes)
  OBVIOUS
<1>3. b = Versioned(told)
  BY <1>1, <1>2 DEF RepeatedBank
<1>4. Listed(told) /\ DOMAIN told = 1..events
  <2>1. told = [i \in 1..events |-> told[i]]
    BY <1>1
  <2> QED  BY <2>1, LengthIs DEF Listed
<1>5. Replayed(b) /\ DOMAIN b = 1..events /\ \A i \in 1..events : b[i].time = told[i].time
  BY <1>3, <1>4, VersionedIs
<1>6. \A i \in 1..events : told[i].time = (i - 1) * 3 + ((i - 1) \div 7)
  BY <1>1
<1>7. \A i, j \in DOMAIN b : b[i].time = b[j].time => i = j
  <2>1. SUFFICES ASSUME NEW i \in 1..events, NEW j \in 1..events,
                        (i - 1) * 3 + ((i - 1) \div 7) = (j - 1) * 3 + ((j - 1) \div 7)
                 PROVE  i = j
    BY <1>5, <1>6
  <2>2. PICK d \in Nat, r \in 0..6 : (i - 1) \div 7 = d /\ i - 1 = 7 * d + r
    BY SevenDays
  <2>3. PICK e \in Nat, s \in 0..6 : (j - 1) \div 7 = e /\ j - 1 = 7 * e + s
    BY SevenDays
  <2>4. (7 * d + r) * 3 + d = (7 * e + s) * 3 + e
    BY <2>1, <2>2, <2>3
  <2>5. d = e /\ r = s
    BY <2>4
  <2> QED  BY <2>2, <2>3, <2>5
<1>8. RepeatedWorld(world, events, sizes)
        = [bank |-> b, questions |-> {RepeatedQuestion(world, b, q) : q \in 0..11}]
  BY <1>2 DEF RepeatedWorld
<1>9. \A q \in 0..11 : Follows(b, RepeatedQuestion(world, b, q))
  BY <1>2, <1>5, <1>7, RepeatedFollows
<1> QED  BY <1>5, <1>8, <1>9, ReplayedValid DEF WorldFollows

(* Natural messages and conversations.                                       *)
LEMMA TwoRoundsReplayed ==
  ASSUME NEW facts, Listed(facts), NEW values,
         \A f, g \in DOMAIN facts :
           facts[f][1] = facts[g][1] /\ facts[f][2] = facts[g][2] => f = g
  PROVE  /\ Replayed(TwoRounds(facts, values))
         /\ \A f \in DOMAIN facts : Newest(TwoRounds(facts, values), Len(facts) + f)
<1>1. PICK n \in Nat : n = Len(facts) /\ DOMAIN facts = 1..n
  BY DEF Listed
<1>2. PICK fact : fact = [i \in 1..(2 * n) |-> IF i <= n THEN i ELSE i - n]
  OBVIOUS
<1>3. \A i \in 1..(2 * n) : fact[i] \in 1..n /\ fact[i] = IF i <= n THEN i ELSE i - n
  <2>1. SUFFICES ASSUME NEW i \in 1..(2 * n)
                 PROVE  fact[i] \in 1..n /\ fact[i] = IF i <= n THEN i ELSE i - n
    OBVIOUS
  <2>2. fact[i] = IF i <= n THEN i ELSE i - n
    BY <1>2
  <2> QED  BY <2>2
<1>4. PICK b : b = TwoRounds(facts, values)
  OBVIOUS
<1>5. /\ b = [i \in 1..(2 * n) |-> b[i]]
      /\ \A i \in 1..(2 * n) :
           /\ b[i].entity = facts[fact[i]][1] /\ b[i].predicate = facts[fact[i]][2]
           /\ b[i].version = (IF i <= n THEN 0 ELSE 1)
           /\ b[i].operation = (IF i <= n THEN "create" ELSE "update")
           /\ b[i].previous = (IF i <= n THEN NoEpisode ELSE fact[i])
           /\ b[i].active = (i > n)
  BY <1>1, <1>2, <1>4 DEF TwoRounds
<1>6. Len(b) = 2 * n /\ DOMAIN b = 1..(2 * n) /\ 2 * n \in Nat
  <2>1. 2 * n \in Nat
    OBVIOUS
  <2> QED  BY <1>5, <2>1, LengthIs
<1>7. \A i, j \in 1..(2 * n) : Key(b[i]) = Key(b[j]) <=> fact[i] = fact[j]
  BY <1>1, <1>3, <1>5 DEF Key
<1>8. ASSUME NEW i \in 1..n
      PROVE  SameKey(b, i) = {i, i + n} /\ SameKey(b, i + n) = {i, i + n}
  <2>1. i \in 1..(2 * n) /\ i + n \in 1..(2 * n) /\ fact[i] = i /\ fact[i + n] = i
    BY <1>3
  <2>2. \A j \in 1..(2 * n) : fact[j] = i <=> j \in {i, i + n}
    BY <1>3, <2>1
  <2>3. SameKey(b, i) = {j \in 1..(2 * n) : fact[j] = i} /\ SameKey(b, i + n) = {j \in 1..(2 * n) : fact[j] = i}
    BY <1>6, <1>7, <2>1 DEF SameKey
  <2> QED  BY <2>1, <2>2, <2>3
<1>9. ASSUME NEW i \in 1..n
      PROVE  /\ Sooner(b, i) = {} /\ ~(\A j \in SameKey(b, i) : j <= i)
             /\ Sooner(b, i + n) = {i} /\ (\A j \in SameKey(b, i + n) : j <= i + n)
  BY <1>8 DEF Sooner
<1>10. ASSUME NEW i \in 1..(2 * n)
       PROVE  /\ b[i].version = Cardinality(Sooner(b, i))
              /\ b[i].operation = IF Sooner(b, i) = {} THEN "create" ELSE "update"
              /\ b[i].previous = Before(Sooner(b, i))
              /\ b[i].active <=> \A j \in SameKey(b, i) : j <= i
  <2>1. CASE i <= n
    <3>1. Sooner(b, i) = {} /\ ~(\A j \in SameKey(b, i) : j <= i)
      BY <1>9, <2>1
    <3>2. ~b[i].active
      <4>1. (i > n) = FALSE
        BY <2>1
      <4> QED  BY <1>5, <4>1
    <3>3. Cardinality({}) = 0
      BY FS_EmptySet
    <3> QED  BY <1>5, <2>1, <3>1, <3>2, <3>3 DEF Before
  <2>2. CASE ~(i <= n)
    <3>1. PICK k \in 1..n : i = k + n /\ fact[i] = k
      BY <1>3, <2>2
    <3>2. Sooner(b, i) = {k} /\ (\A j \in SameKey(b, i) : j <= i)
      BY <1>9, <3>1
    <3>3. b[i].active
      <4>1. (i > n) = TRUE
        BY <2>2
      <4> QED  BY <1>5, <4>1
    <3>4. Cardinality({k}) = 1
      BY FS_Singleton
    <3>5. Max({k}) = k
      <4>1. {k} \in SUBSET (1..n) /\ {k} # {}
        OBVIOUS
      <4> QED  BY <4>1, MaxIs
    <3> QED  BY <1>5, <2>2, <3>1, <3>2, <3>3, <3>4, <3>5 DEF Before
  <2> QED  BY <2>1, <2>2
<1>11. Replayed(b)
  BY <1>6, <1>10 DEF Replayed
<1>12. \A f \in 1..n : Newest(b, n + f)
  <2>1. \A f \in 1..n : n + f = f + n /\ f + n \in 1..(2 * n)
    OBVIOUS
  <2> QED  BY <1>6, <1>9, <2>1 DEF Newest
<1> QED  BY <1>1, <1>4, <1>11, <1>12

LEMMA NaturalTrue ==
  ASSUME NEW facts, Listed(facts), NEW values,
         \A f, g \in DOMAIN facts :
           facts[f][1] = facts[g][1] /\ facts[f][2] = facts[g][2] => f = g
  PROVE  WorldFollows(NaturalWorld(facts, values))
<1>1. PICK b : b = TwoRounds(facts, values)
  OBVIOUS
<1>2. Replayed(b) /\ \A f \in DOMAIN facts : Newest(b, Len(facts) + f)
  BY <1>1, TwoRoundsReplayed
<1>3. ASSUME NEW f \in DOMAIN facts
      PROVE  Follows(b, Question("current", <<Active(b, Len(facts) + f)>>, {Len(facts) + f}))
  <2>1. PICK t, ts : t = Active(b, Len(facts) + f) /\ ts = <<t>>
    OBVIOUS
  <2>2. ToSet(ts) = {t} /\ Len(ts) = 1 /\ ts[1] = t
    BY <2>1, ShortLists
  <2>3. Key(t) = Key(b[Len(facts) + f]) /\ t.version = "active"
    BY <2>1, QuestionIs
  <2> QED  BY <1>2, <2>1, <2>2, <2>3, CurrentFollows
<1>4. NaturalWorld(facts, values)
        = [bank |-> b,
           questions |-> {Question("current", <<Active(b, Len(facts) + f)>>, {Len(facts) + f}) : f \in DOMAIN facts}
                           \union {Question("null", <<>>, {})}]
  BY <1>1 DEF NaturalWorld
<1>5. PICK w : w = NaturalWorld(facts, values)
  OBVIOUS
<1>6. w.bank = b /\ w.questions = {Question("current", <<Active(b, Len(facts) + f)>>, {Len(facts) + f}) : f \in DOMAIN facts}
                                    \union {Question("null", <<>>, {})}
  BY <1>4, <1>5
<1>7. \A q \in w.questions : Follows(b, q)
  BY <1>3, <1>6, NothingFollows
<1>8. GraphValid(b) /\ \A i \in DOMAIN b : b[i].operation = "update" => Cardinality(Predecessors(b, i)) = 1
  BY <1>2, ReplayedValid
<1> QED  BY <1>5, <1>6, <1>7, <1>8 DEF WorldFollows

(* The worlds of the resident memory.                                        *)
AskedKeys(w) == {w.people[1], w.people[2]} \X {w.relations[1], w.relations[2]}
ChangedKeys(w) == {w.people[1], w.people[2]} \X {w.relations[1]}
Untold(w) == {<<w.people[4], w.relations[1]>>, <<w.people[1], w.relations[3]>>}

\* What a bank of such a world holds: every asked fact, two versions of the
\* changed ones and one of the rest, and nothing of what is untold.
BankOf(w, b) ==
  /\ Replayed(b) /\ Len(b) \in 7..9 /\ b = [i \in 1..Len(b) |-> b[i]]
  /\ \A k \in AskedKeys(w) : \E i \in DOMAIN b : Key(b[i]) = k
  /\ \A i \in DOMAIN b :
       /\ Key(b[i]) \notin Untold(w) /\ b[i].entity \in ToSet(w.people)
       /\ Key(b[i]) \notin ChangedKeys(w) => SameKey(b, i) = {i}
       /\ Key(b[i]) \in ChangedKeys(w) =>
            \E x, y \in DOMAIN b : x < y /\ SameKey(b, i) = {x, y}

LEMMA DrawnIs ==
  ASSUME NEW list, NEW n \in Nat, Drawn(list, n)
  PROVE  /\ list \in Seq(ToSet(list)) /\ Len(list) = n /\ DOMAIN list = 1..n
         /\ \A i, j \in 1..n : list[i] = list[j] => i = j
         /\ ToSet(list) = {list[i] : i \in 1..n}
<1>1. list \in [1..n -> ToSet(list)]
  BY DEF Drawn
<1>2. list \in Seq(ToSet(list)) /\ Len(list) = n /\ DOMAIN list = 1..n
  BY <1>1
<1> QED  BY <1>2 DEF Drawn, ToSet

Appended(both, s, m, t, n) ==
  /\ Len(both) = m + n /\ DOMAIN both = 1..(m + n)
  /\ \A i \in 1..m : both[i] = s[i]
  /\ \A i \in 1..n : both[m + i] = t[i]
LEMMA JoinedAre ==
  ASSUME NEW U, NEW s \in Seq(U), NEW t \in Seq(U), NEW m \in Nat, NEW n \in Nat,
         Len(s) = m, Len(t) = n, NEW both, both = s \o t
  PROVE  both \in Seq(U) /\ Appended(both, s, m, t, n)
<1>1. /\ both \in Seq(U) /\ Len(both) = m + n
      /\ \A i \in 1..(m + n) : both[i] = IF i <= m THEN s[i] ELSE t[i - m]
  BY ConcatProperties
<1>2. ASSUME NEW i \in 1..m PROVE both[i] = s[i]
  BY <1>1
<1>3. ASSUME NEW i \in 1..n PROVE both[m + i] = t[i]
  <2>1. m + i \in 1..(m + n) /\ ~(m + i <= m) /\ (m + i) - m = i
    OBVIOUS
  <2> QED  BY <1>1, <2>1
<1> QED  BY <1>1, <1>2, <1>3 DEF Appended

\* What is written, in order.
ToldBy(told, keys, updated, extra, p, n) ==
  /\ Len(told) = 6 + n /\ DOMAIN told = 1..(6 + n)
  /\ \A i \in 1..4 : told[i] = keys[i]
  /\ \A i \in 1..2 : told[4 + i] = updated[i]
  /\ \A i \in 1..n : told[6 + i] = <<p, extra[i]>>
LEMMA WrittenIs ==
  ASSUME NEW keys, Drawn(keys, 4), NEW updated, Drawn(updated, 2), NEW extra, NEW n \in 1..3, Drawn(extra, n),
         NEW p, NEW told, told = keys \o updated \o [i \in DOMAIN extra |-> <<p, extra[i]>>]
  PROVE  ToldBy(told, keys, updated, extra, p, n)
<1>1. /\ keys \in Seq(ToSet(keys)) /\ Len(keys) = 4
      /\ updated \in Seq(ToSet(updated)) /\ Len(updated) = 2
      /\ DOMAIN extra = 1..n /\ n \in Nat
  <2>1. 4 \in Nat /\ 2 \in Nat /\ n \in Nat
    OBVIOUS
  <2>2. keys \in Seq(ToSet(keys)) /\ Len(keys) = 4
    BY <2>1, DrawnIs
  <2>3. updated \in Seq(ToSet(updated)) /\ Len(updated) = 2
    BY <2>1, DrawnIs
  <2>4. DOMAIN extra = 1..n
    BY <2>1, DrawnIs
  <2> QED  BY <2>1, <2>2, <2>3, <2>4
<1>2. PICK more : more = [i \in 1..n |-> <<p, extra[i]>>]
  OBVIOUS
<1> DEFINE U == ToSet(keys) \union ToSet(updated) \union {<<p, extra[i]>> : i \in 1..n}
<1>3. /\ more \in Seq(U) /\ Len(more) = n /\ \A i \in 1..n : more[i] = <<p, extra[i]>>
  <2>1. more \in [1..n -> U]
    BY <1>2
  <2> HIDE DEF U
  <2> QED  BY <1>1, <1>2, <2>1
<1>4. keys \in Seq(U) /\ updated \in Seq(U)
  BY <1>1
<1> HIDE DEF U
<1>5. PICK both : both = keys \o updated
  OBVIOUS
<1>6. /\ both \in Seq(U) /\ Len(both) = 6
      /\ \A i \in 1..4 : both[i] = keys[i]
      /\ \A i \in 1..2 : both[4 + i] = updated[i]
  <2>1. PICK four \in Nat, two \in Nat : four = 4 /\ two = 2 /\ Len(keys) = four /\ Len(updated) = two
    BY <1>1
  <2>2. both \in Seq(U) /\ Appended(both, keys, four, updated, two)
    BY <1>4, <1>5, <2>1, JoinedAre
  <2> QED  BY <2>1, <2>2 DEF Appended
<1>7. told = both \o more
  BY <1>1, <1>2, <1>5
<1>8. /\ Len(told) = 6 + n /\ DOMAIN told = 1..(6 + n)
      /\ \A i \in 1..6 : told[i] = both[i]
      /\ \A i \in 1..n : told[6 + i] = more[i]
  <2>1. PICK six \in Nat : six = 6 /\ Len(both) = six /\ n \in Nat
    BY <1>6
  <2>2. Appended(told, both, six, more, n)
    BY <1>3, <1>6, <1>7, <2>1, JoinedAre
  <2> QED  BY <2>1, <2>2 DEF Appended
<1>9. /\ \A i \in 1..4 : i \in 1..6
      /\ \A i \in 1..2 : 4 + i \in 1..6
  OBVIOUS
<1> QED  BY <1>3, <1>6, <1>8, <1>9 DEF ToldBy

LEMMA ResidentBankIs ==
  ASSUME NEW w, Sampled(w)
  PROVE  BankOf(w, ResidentBank(w))
<1>1. PICK n \in 1..3 : Drawn(w.extra, n)
  BY DEF Sampled
<1>2. PICK keys, updated, extra, p, r :
        keys = w.keys /\ updated = w.updated /\ extra = w.extra /\ p = w.people /\ r = w.relations
  OBVIOUS
<1>3. /\ Drawn(keys, 4) /\ Drawn(updated, 2) /\ Drawn(extra, n) /\ Drawn(p, 4) /\ Drawn(r, 3)
      /\ ToSet(keys) = AskedKeys(w) /\ ToSet(updated) = ChangedKeys(w)
  BY <1>1, <1>2 DEF Sampled, AskedKeys, ChangedKeys
<1>4. PICK told : told = keys \o updated \o [i \in DOMAIN extra |-> <<p[3], extra[i]>>]
  OBVIOUS
<1>5. /\ Len(told) = 6 + n /\ DOMAIN told = 1..(6 + n)
      /\ \A i \in 1..4 : told[i] = keys[i]
      /\ \A i \in 1..2 : told[4 + i] = updated[i]
      /\ \A i \in 1..n : told[6 + i] = <<p[3], extra[i]>>
  <2>1. PICK h : h = p[3]
    OBVIOUS
  <2>2. told = keys \o updated \o [i \in DOMAIN extra |-> <<h, extra[i]>>]
    BY <1>4, <2>1
  <2>3. ToldBy(told, keys, updated, extra, h, n)
    BY <1>3, <2>2, WrittenIs
  <2> QED  BY <2>1, <2>3 DEF ToldBy
<1>6. PICK events : events = [i \in DOMAIN told |-> [entity |-> told[i][1], predicate |-> told[i][2],
                                                     value |-> <<w.stamp, i>>, time |-> 0]]
  OBVIOUS
<1>7. PICK b : b = ResidentBank(w) /\ b = Versioned(events)
  BY <1>2, <1>4, <1>6 DEF ResidentBank
<1>8. Listed(events) /\ Len(events) = 6 + n /\ DOMAIN events = 1..(6 + n)
  <2>1. events = [i \in 1..(6 + n) |-> events[i]] /\ 6 + n \in Nat
    BY <1>5, <1>6
  <2> QED  BY <2>1, LengthIs DEF Listed
<1>9. /\ Replayed(b) /\ Len(b) = 6 + n /\ DOMAIN b = 1..(6 + n)
      /\ \A i \in 1..(6 + n) : b[i].entity = told[i][1] /\ b[i].predicate = told[i][2]
  <2>1. \A i \in 1..(6 + n) : events[i].entity = told[i][1] /\ events[i].predicate = told[i][2]
    BY <1>5, <1>6
  <2> QED  BY <1>7, <1>8, <2>1, VersionedIs
<1>10. /\ \A i, j \in 1..4 : p[i] = p[j] => i = j
       /\ \A i, j \in 1..3 : r[i] = r[j] => i = j
       /\ \A i, j \in 1..4 : keys[i] = keys[j] => i = j
       /\ \A i, j \in 1..2 : updated[i] = updated[j] => i = j
       /\ \A i, j \in 1..n : extra[i] = extra[j] => i = j
       /\ ToSet(p) = {p[i] : i \in 1..4}
       /\ ToSet(keys) = {keys[i] : i \in 1..4} /\ ToSet(updated) = {updated[i] : i \in 1..2}
  <2>1. 4 \in Nat /\ 3 \in Nat /\ 2 \in Nat /\ n \in Nat
    OBVIOUS
  <2>2. (\A i, j \in 1..4 : p[i] = p[j] => i = j) /\ ToSet(p) = {p[i] : i \in 1..4}
    <3>1. \A i, j \in 1..4 : p[i] = p[j] => i = j
      BY <1>3, <2>1, DrawnIs
    <3>2. DOMAIN p = 1..4
      BY <1>3, <2>1, DrawnIs
    <3> QED  BY <3>1, <3>2 DEF ToSet
  <2>3. \A i, j \in 1..3 : r[i] = r[j] => i = j
    BY <1>3, <2>1, DrawnIs
  <2>4. (\A i, j \in 1..4 : keys[i] = keys[j] => i = j) /\ ToSet(keys) = {keys[i] : i \in 1..4}
    <3>1. \A i, j \in 1..4 : keys[i] = keys[j] => i = j
      BY <1>3, <2>1, DrawnIs
    <3>2. DOMAIN keys = 1..4
      BY <1>3, <2>1, DrawnIs
    <3> QED  BY <3>1, <3>2 DEF ToSet
  <2>5. (\A i, j \in 1..2 : updated[i] = updated[j] => i = j) /\ ToSet(updated) = {updated[i] : i \in 1..2}
    BY <1>3, <2>1, DrawnIs
  <2>6. \A i, j \in 1..n : extra[i] = extra[j] => i = j
    BY <1>3, <2>1, DrawnIs
  <2> QED  BY <2>2, <2>3, <2>4, <2>5, <2>6
<1>11. p[1] # p[2] /\ p[1] # p[3] /\ p[1] # p[4] /\ p[2] # p[3] /\ p[2] # p[4] /\ p[3] # p[4]
  <2>1. 1 \in 1..4 /\ 2 \in 1..4 /\ 3 \in 1..4 /\ 4 \in 1..4
    OBVIOUS
  <2> QED  BY <1>10, <2>1
<1>12. r[1] # r[2] /\ r[1] # r[3] /\ r[2] # r[3]
  <2>1. 1 \in 1..3 /\ 2 \in 1..3 /\ 3 \in 1..3
    OBVIOUS
  <2> QED  BY <1>10, <2>1
<1>13. /\ \A i \in 1..4 : told[i] \in AskedKeys(w)
       /\ \A i \in 1..2 : told[4 + i] \in ChangedKeys(w)
       /\ ChangedKeys(w) \subseteq AskedKeys(w)
       /\ \A k \in AskedKeys(w) : \E i \in 1..4 : told[i] = k
       /\ \A k \in ChangedKeys(w) : \E i \in 1..2 : told[4 + i] = k
  <2>1. ChangedKeys(w) \subseteq AskedKeys(w)
    BY DEF ChangedKeys, AskedKeys
  <2> QED  BY <1>3, <1>5, <1>10, <2>1
<1>14. AskedKeys(w) = {p[1], p[2]} \X {r[1], r[2]}
  BY <1>2 DEF AskedKeys
<1>15. \A i \in 1..(6 + n) : i \in 1..4 \/ (\E j \in 1..2 : i = 4 + j) \/ (\E j \in 1..n : i = 6 + j)
  <2>1. SUFFICES ASSUME NEW i \in 1..(6 + n)
                 PROVE  i \in 1..4 \/ (\E j \in 1..2 : i = 4 + j) \/ (\E j \in 1..n : i = 6 + j)
    OBVIOUS
  <2>2. CASE i \in {5, 6}
    <3>1. i - 4 \in 1..2 /\ i = 4 + (i - 4)
      BY <2>2
    <3> QED  BY <3>1
  <2>3. CASE i > 6
    <3>1. i - 6 \in 1..n /\ i = 6 + (i - 6)
      BY <2>3
    <3> QED  BY <3>1
  <2> QED  BY <2>2, <2>3
<1>16. \A i \in 1..(6 + n) :
         (told[i] \in AskedKeys(w) \/ \E j \in 1..n : i = 6 + j /\ told[i] = <<p[3], extra[j]>>)
  BY <1>5, <1>13, <1>15
<1>17. \A k \in AskedKeys(w) : k = <<k[1], k[2]>> /\ k[1] \in {p[1], p[2]} /\ k[2] \in {r[1], r[2]}
  BY <1>14
<1>18. \A i \in 1..(6 + n) : Key(b[i]) = told[i] /\ b[i].entity = told[i][1]
  <2>1. \A i \in 1..(6 + n) : told[i] = <<told[i][1], told[i][2]>>
    BY <1>16, <1>17
  <2> QED  BY <1>9, <2>1 DEF Key
<1>19. \A i \in 1..(6 + n) : b[i].entity \in {p[1], p[2], p[3]}
  BY <1>16, <1>17, <1>18
<1>20. \A i \in 1..(6 + n) : Key(b[i]) \notin Untold(w)
  <2>1. SUFFICES ASSUME NEW i \in 1..(6 + n)
                 PROVE  told[i] # <<p[4], r[1]>> /\ told[i] # <<p[1], r[3]>>
    BY <1>2, <1>18 DEF Untold
  <2>2. CASE told[i] \in AskedKeys(w)
    BY <1>11, <1>12, <1>17, <2>2
  <2>3. CASE \E j \in 1..n : told[i] = <<p[3], extra[j]>>
    BY <1>11, <2>3
  <2> QED  BY <1>16, <2>2, <2>3
<1>21. \A i \in 1..(6 + n) : SameKey(b, i) = {j \in 1..(6 + n) : told[j] = told[i]}
  BY <1>9, <1>18 DEF SameKey
<1>22. \A k \in AskedKeys(w), j \in 1..n : k # <<p[3], extra[j]>>
  BY <1>11, <1>17
\* Facts that are asked for are written among the first six, each once there
\* and, if it changes, once more.
<1>23. ASSUME NEW i \in 1..(6 + n), told[i] \notin ChangedKeys(w) PROVE SameKey(b, i) = {i}
  <2>1. SUFFICES ASSUME NEW j \in 1..(6 + n), told[j] = told[i] PROVE j = i
    BY <1>21
  <2>2. (i \in 1..4 \/ \E h \in 1..n : i = 6 + h) /\ (j \in 1..4 \/ \E h \in 1..n : j = 6 + h)
    BY <1>13, <1>15, <1>23, <2>1
  <2>3. CASE i \in 1..4 /\ j \in 1..4
    BY <1>5, <1>10, <2>1, <2>3
  <2>4. ASSUME NEW g \in 1..n, i = 6 + g, NEW h \in 1..n, j = 6 + h PROVE j = i
    <3>1. <<p[3], extra[g]>> = <<p[3], extra[h]>>
      BY <1>5, <2>1, <2>4
    <3>2. extra[g] = extra[h]
      BY <3>1
    <3> QED  BY <1>10, <2>4, <3>2
  <2>5. ASSUME NEW g \in 1..4, NEW h \in 1..n, told[g] = told[6 + h] PROVE FALSE
    BY <1>5, <1>13, <1>22, <2>5
  <2> QED  BY <2>1, <2>2, <2>3, <2>4, <2>5
<1>24. ASSUME NEW i \in 1..(6 + n), told[i] \in ChangedKeys(w)
       PROVE  \E x, y \in DOMAIN b : x < y /\ SameKey(b, i) = {x, y}
  <2>1. PICK x \in 1..4 : told[x] = told[i]
    BY <1>13, <1>24
  <2>2. PICK h \in 1..2 : told[4 + h] = told[i]
    BY <1>13, <1>24
  <2>3. x < 4 + h /\ x \in 1..(6 + n) /\ 4 + h \in 1..(6 + n)
    OBVIOUS
  <2>4. ASSUME NEW j \in 1..(6 + n), told[j] = told[i] PROVE j \in {x, 4 + h}
    <3>1. CASE j \in 1..4
      BY <1>5, <1>10, <2>1, <2>4, <3>1
    <3>2. ASSUME NEW g \in 1..2, j = 4 + g PROVE j = 4 + h
      <4>1. updated[g] = updated[h]
        BY <1>5, <2>2, <2>4, <3>2
      <4> QED  BY <1>10, <3>2, <4>1
    <3>3. ASSUME NEW g \in 1..n, j = 6 + g PROVE FALSE
      <4>1. told[i] = <<p[3], extra[g]>> /\ told[i] \in AskedKeys(w)
        BY <1>5, <1>13, <1>24, <2>4, <3>3
      <4> QED  BY <1>22, <4>1
    <3> QED  BY <1>15, <3>1, <3>2, <3>3
  <2>5. SameKey(b, i) = {x, 4 + h}
    BY <1>21, <2>1, <2>2, <2>3, <2>4
  <2> QED  BY <1>9, <2>3, <2>5
<1>25. \A k \in AskedKeys(w) : \E i \in DOMAIN b : Key(b[i]) = k
  <2>1. \A i \in 1..4 : i \in 1..(6 + n)
    OBVIOUS
  <2> QED  BY <1>9, <1>13, <1>18, <2>1
<1>26. {p[1], p[2], p[3]} \subseteq ToSet(w.people)
  <2>1. 1 \in 1..4 /\ 2 \in 1..4 /\ 3 \in 1..4
    OBVIOUS
  <2> QED  BY <1>2, <1>10, <2>1
<1>27. 6 + n \in 7..9
  OBVIOUS
<1>28. b = [i \in 1..Len(b) |-> b[i]]
  <2>1. \E f : b = [i \in 1..(6 + n) |-> f[i]]
    <3>1. PICK f : f = Versioned(events)
      OBVIOUS
    <3>2. f = [i \in 1..(6 + n) |-> f[i]]
      BY <1>8, <3>1 DEF Versioned
    <3> QED  BY <1>7, <3>1, <3>2
  <2> QED  BY <1>9, <2>1
<1>29. BankOf(w, b)
  BY <1>28, <1>9, <1>18, <1>19, <1>20, <1>23, <1>24, <1>25, <1>26, <1>27 DEF BankOf
<1> QED  BY <1>7, <1>29

LEMMA SetToSeqIs ==
  ASSUME NEW S, IsFiniteSet(S)
  PROVE  SetToSeq(S) \in [1..Cardinality(S) -> S] /\ ToSet(SetToSeq(S)) = S
<1> DEFINE n == Cardinality(S)
           s == SetToSeq(S)
<1>1. n \in Nat /\ ExistsBijection(1..n, S)
  BY FS_CardinalityType
<1>2. \E f \in [1..n -> S] : IsInjective(f)
  <2>1. PICK f : f \in Bijection(1..n, S)
    BY <1>1 DEF ExistsBijection
  <2>2. f \in [1..n -> S] /\ IsInjective(f)
    BY <2>1 DEF Bijection, Injection
  <2> QED  BY <2>2
<1>3. s \in [1..n -> S] /\ IsInjective(s)
  BY <1>2 DEF SetToSeq
<1> HIDE DEF s
<1>4. s \in Surjection(1..n, S)
  <2>1. s \in Injection(1..n, S)
    BY <1>3 DEF Injection
  <2>2. Cardinality(1..n) = n
    BY <1>1, FS_Interval
  <2> QED  BY <2>1, <2>2, FS_Injection
<1>5. ToSet(s) = S
  BY <1>3, <1>4 DEF Surjection, ToSet
<1> QED  BY <1>3, <1>5 DEF s

LEMMA FourAtMost ==
  ASSUME NEW a, NEW b, NEW c, NEW d, NEW S \in SUBSET {a, b, c, d}
  PROVE  IsFiniteSet(S) /\ Cardinality(S) <= 4
<1>1. IsFiniteSet({a}) /\ Cardinality({a}) = 1
  BY FS_Singleton
<1>2. IsFiniteSet({a} \union {b}) /\ Cardinality({a} \union {b}) <= 2
  BY <1>1, FS_AddElement
<1>3. IsFiniteSet({a, b} \union {c}) /\ Cardinality({a, b} \union {c}) <= 3
  <2>1. {a} \union {b} = {a, b} /\ Cardinality({a} \union {b}) \in Nat
    BY <1>2, FS_CardinalityType
  <2> QED  BY <1>2, <2>1, FS_AddElement
<1>4. IsFiniteSet({a, b, c} \union {d}) /\ Cardinality({a, b, c} \union {d}) <= 4
  <2>1. {a, b} \union {c} = {a, b, c} /\ Cardinality({a, b} \union {c}) \in Nat
    BY <1>3, FS_CardinalityType
  <2> QED  BY <1>3, <2>1, FS_AddElement
<1>5. {a, b, c} \union {d} = {a, b, c, d}
  OBVIOUS
<1>6. PICK T : T = {a, b, c, d} /\ IsFiniteSet(T) /\ Cardinality(T) <= 4
  BY <1>4, <1>5
<1>7. IsFiniteSet(S) /\ Cardinality(S) <= Cardinality(T)
  BY <1>6, FS_Subset
<1>8. Cardinality(S) \in Nat /\ Cardinality(T) \in Nat
  BY <1>6, <1>7, FS_CardinalityType
<1> QED  BY <1>6, <1>7, <1>8

LEMMA CurrentIs ==
  ASSUME NEW b, Replayed(b), NEW i \in DOMAIN b
  PROVE  /\ Newest(b, CurrentOf(b, Key(b[i]))) /\ CurrentOf(b, Key(b[i])) \in SameKey(b, i)
         /\ InitialOf(b, Key(b[i])) \in SameKey(b, i)
         /\ \A j \in SameKey(b, i) : InitialOf(b, Key(b[i])) <= j /\ j <= CurrentOf(b, Key(b[i]))
<1>1. PICK s : /\ s = Chain(b, Key(b[i])) /\ Ordered(s, SameKey(b, i))
               /\ SameKey(b, i) \in SUBSET (1..Len(b)) /\ i \in SameKey(b, i) /\ Len(b) \in Nat
  BY ChainIs DEF Replayed
<1>2. PICK x, y :
        /\ x = Head(s) /\ x \in SameKey(b, i) /\ \A j \in SameKey(b, i) : x <= j
        /\ y = Last(s) /\ y \in SameKey(b, i) /\ \A j \in SameKey(b, i) : j <= y
  BY <1>1, OrderedEnds
<1>3. SameKey(b, y) = SameKey(b, i) /\ y \in DOMAIN b
  BY <1>2 DEF SameKey
<1>4. InitialOf(b, Key(b[i])) = x /\ CurrentOf(b, Key(b[i])) = y
  BY <1>1, <1>2 DEF InitialOf, CurrentOf
<1> QED  BY <1>2, <1>3, <1>4 DEF Newest

-----------------------------------------------------------------------------
(* The questions of such a world.                                            *)
AskedAbout(intent, b, set) ==
  Question(intent, SetToSeq({Ask(k[1], k[2], "active") : k \in set}), {CurrentOf(b, k) : k \in set})
History(b, k) == Question("history", <<Ask(k[1], k[2], "all")>>, {InitialOf(b, k), CurrentOf(b, k)})
Nothing(k) == Question("null", <<Ask(k[1], k[2], "active")>>, {})
OneOf(w, b, q) ==
  \/ \E k \in AskedKeys(w) : q = AskedAbout("current", b, {k})
  \/ \E set \in SUBSET AskedKeys(w) : q = AskedAbout("multi", b, set)
  \/ \E k \in ChangedKeys(w) : q = History(b, k)
  \/ \E k \in Untold(w) : q = Nothing(k)
LEMMA ResidentQuestions ==
  ASSUME NEW w, Sampled(w), NEW world, world = ResidentWorld(w), NEW b, b = ResidentBank(w)
  PROVE  /\ world.bank = b /\ world.people = ToSet(w.people)
         /\ \A q \in world.questions : OneOf(w, b, q)
         /\ \A k \in ChangedKeys(w) : History(b, k) \in world.questions
<1> DEFINE asked == {w.people[1], w.people[2]}
           told == {w.relations[1], w.relations[2]}
<1>1. /\ ToSet(w.keys) = AskedKeys(w) /\ ToSet(w.updated) = ChangedKeys(w)
  BY DEF Sampled, AskedKeys, ChangedKeys
<1>2. /\ world.bank = b /\ world.people = ToSet(w.people)
      /\ world.questions =
           {AskedAbout("current", b, {k}) : k \in ToSet(w.keys)}
             \union {AskedAbout("multi", b, {p} \X told) : p \in asked}
             \union {AskedAbout("multi", b, asked \X {w.relations[1]}), AskedAbout("multi", b, ToSet(w.keys))}
             \union {History(b, k) : k \in ToSet(w.updated)}
             \union {Nothing(<<w.people[4], w.relations[1]>>), Nothing(<<w.people[1], w.relations[3]>>)}
  BY DEF ResidentWorld, AskedAbout, History, Nothing
<1>3. /\ \A p \in asked : {p} \X told \in SUBSET AskedKeys(w)
      /\ asked \X {w.relations[1]} \in SUBSET AskedKeys(w)
  BY DEF AskedKeys
<1>4. ASSUME NEW q \in world.questions PROVE OneOf(w, b, q)
  <2>1. CASE q \in {AskedAbout("current", b, {k}) : k \in ToSet(w.keys)}
    BY <1>1, <2>1 DEF OneOf
  <2>2. CASE q \in {AskedAbout("multi", b, {p} \X told) : p \in asked}
    BY <1>3, <2>2 DEF OneOf
  <2>3. CASE q \in {AskedAbout("multi", b, asked \X {w.relations[1]}), AskedAbout("multi", b, ToSet(w.keys))}
    BY <1>1, <1>3, <2>3 DEF OneOf
  <2>4. CASE q \in {History(b, k) : k \in ToSet(w.updated)}
    BY <1>1, <2>4 DEF OneOf
  <2>5. CASE q \in {Nothing(<<w.people[4], w.relations[1]>>), Nothing(<<w.people[1], w.relations[3]>>)}
    BY <2>5 DEF OneOf, Untold
  <2> QED  BY <1>2, <2>1, <2>2, <2>3, <2>4, <2>5
<1>5. \A k \in ChangedKeys(w) : History(b, k) \in world.questions
  BY <1>1, <1>2
<1> QED  BY <1>2, <1>4, <1>5

\* What all of them have in common.
Answerable(w, b, q) ==
  /\ q.gold \subseteq DOMAIN b /\ IsFiniteSet(q.gold) /\ Cardinality(q.gold) <= 4
  /\ \A t \in ToSet(q.targets) : t.entity \in ToSet(w.people) /\ t.version \in {"active", "all"}
  /\ q.intent = "history" =>
       \E i \in DOMAIN b : Key(b[i]) \in ChangedKeys(w) /\ q.gold = SameKey(b, i)
  /\ q.intent # "history" => \A i \in q.gold : Newest(b, i)
  /\ Follows(b, q)

LEMMA KeysAre ==
  ASSUME NEW w, Sampled(w)
  PROVE  /\ \A k \in AskedKeys(w) \union ChangedKeys(w) \union Untold(w) :
              k = <<k[1], k[2]>> /\ k[1] \in ToSet(w.people)
         /\ ChangedKeys(w) \subseteq AskedKeys(w)
<1>1. PICK p : p = w.people /\ Drawn(p, 4)
  BY DEF Sampled
<1>2. DOMAIN p = 1..4
  <2>1. 4 \in Nat
    OBVIOUS
  <2> QED  BY <1>1, <2>1, DrawnIs
<1>3. p[1] \in ToSet(p) /\ p[2] \in ToSet(p) /\ p[4] \in ToSet(p)
  <2>1. 1 \in 1..4 /\ 2 \in 1..4 /\ 4 \in 1..4
    OBVIOUS
  <2> QED  BY <1>2, <2>1 DEF ToSet
<1> QED  BY <1>1, <1>3 DEF AskedKeys, ChangedKeys, Untold

LEMMA CurrentOfKey ==
  ASSUME NEW w, NEW b, BankOf(w, b), NEW k \in AskedKeys(w)
  PROVE  Newest(b, CurrentOf(b, k)) /\ CurrentOf(b, k) \in DOMAIN b /\ Key(b[CurrentOf(b, k)]) = k
<1>1. PICK i \in DOMAIN b : Key(b[i]) = k
  BY DEF BankOf
<1>2. Newest(b, CurrentOf(b, k)) /\ CurrentOf(b, k) \in SameKey(b, i)
  BY <1>1, CurrentIs DEF BankOf
<1> QED  BY <1>1, <1>2 DEF SameKey

LEMMA AboutAnswerable ==
  ASSUME NEW w, Sampled(w), NEW b, BankOf(w, b), NEW set \in SUBSET AskedKeys(w),
         NEW intent, intent = "multi" \/ (intent = "current" /\ \E k \in AskedKeys(w) : set = {k})
  PROVE  Answerable(w, b, AskedAbout(intent, b, set))
<1> DEFINE asks == {Ask(k[1], k[2], "active") : k \in set}
           gold == {CurrentOf(b, k) : k \in set}
<1>1. PICK ts : ts = SetToSeq(asks)
  OBVIOUS
<1>2. PICK q : q = AskedAbout(intent, b, set)
  OBVIOUS
<1>3. q = Question(intent, ts, gold)
  BY <1>1, <1>2 DEF AskedAbout
<1>4. q.intent = intent /\ q.targets = ts /\ q.gold = gold
  BY <1>3, QuestionIs
<1>5. PICK keys : keys = w.keys /\ AskedKeys(w) = {keys[1], keys[2], keys[3], keys[4]}
  <2>1. PICK keys : keys = w.keys /\ Drawn(keys, 4) /\ ToSet(keys) = AskedKeys(w)
    BY DEF Sampled, AskedKeys
  <2>2. DOMAIN keys = 1..4
    <3>1. 4 \in Nat
      OBVIOUS
    <3> QED  BY <2>1, <3>1, DrawnIs
  <2>3. 1..4 = {1, 2, 3, 4}
    OBVIOUS
  <2>4. ToSet(keys) = {keys[1], keys[2], keys[3], keys[4]}
    BY <2>2, <2>3 DEF ToSet
  <2> QED  BY <2>1, <2>4
<1>6. IsFiniteSet(asks)
  <2>1. asks \in SUBSET {Ask(keys[1][1], keys[1][2], "active"), Ask(keys[2][1], keys[2][2], "active"),
                         Ask(keys[3][1], keys[3][2], "active"), Ask(keys[4][1], keys[4][2], "active")}
    BY <1>5
  <2> HIDE DEF asks
  <2> QED  BY <2>1, FourAtMost
<1>7. IsFiniteSet(gold) /\ Cardinality(gold) <= 4
  <2>1. gold \in SUBSET {CurrentOf(b, keys[1]), CurrentOf(b, keys[2]),
                         CurrentOf(b, keys[3]), CurrentOf(b, keys[4])}
    BY <1>5
  <2> HIDE DEF gold
  <2> QED  BY <2>1, FourAtMost
<1>8. ToSet(ts) = asks /\ ts \in [1..Cardinality(asks) -> asks]
  <2> HIDE DEF asks
  <2> QED  BY <1>1, <1>6, SetToSeqIs
<1>9. \A k \in set : /\ Newest(b, CurrentOf(b, k)) /\ CurrentOf(b, k) \in DOMAIN b
                     /\ Key(b[CurrentOf(b, k)]) = k /\ k = <<k[1], k[2]>> /\ k[1] \in ToSet(w.people)
  BY CurrentOfKey, KeysAre
<1>10. \A k \in set : LET t == Ask(k[1], k[2], "active")
                      IN Key(t) = k /\ t.version = "active" /\ t.entity \in ToSet(w.people)
  BY <1>9 DEF Ask, Key
<1>11. gold \subseteq DOMAIN b /\ \A i \in gold : Newest(b, i)
  BY <1>9
<1>12. \A t \in asks : t.entity \in ToSet(w.people) /\ t.version = "active"
  BY <1>10
<1>13. ASSUME intent = "multi" PROVE Follows(b, q)
  <2>1. \A k \in set : ReplayAnswer(b, q, Ask(k[1], k[2], "active")) = {CurrentOf(b, k)}
    <3>1. SUFFICES ASSUME NEW k \in set
                   PROVE  ReplayAnswer(b, q, Ask(k[1], k[2], "active")) = {CurrentOf(b, k)}
      OBVIOUS
    <3>2. PICK t, c : t = Ask(k[1], k[2], "active") /\ c = CurrentOf(b, k)
      OBVIOUS
    <3>3. Newest(b, c) /\ Key(t) = Key(b[c]) /\ t.version = "active" /\ q.intent # "history"
      BY <1>4, <1>9, <1>10, <1>13, <3>2
    <3>4. Replayed(b)
      BY DEF BankOf
    <3> QED  BY <3>2, <3>3, <3>4, NewestIs
  <2>2. UNION {ReplayAnswer(b, q, t) : t \in asks} = gold
    BY <2>1
  <2> QED  BY <1>4, <1>8, <1>13, <2>2 DEF Follows
<1>14. ASSUME intent = "current" PROVE Follows(b, q)
  <2>1. PICK k \in AskedKeys(w) : set = {k}
    BY <1>14
  <2>2. PICK t, c : t = Ask(k[1], k[2], "active") /\ c = CurrentOf(b, k)
    OBVIOUS
  <2>3. asks = {t} /\ gold = {c}
    BY <2>1, <2>2
  <2>4. Cardinality(asks) = 1
    BY <2>3, FS_Singleton
  <2>5. ts \in [1..1 -> {t}]
    BY <1>8, <2>3, <2>4
  <2>6. Len(ts) = 1 /\ ts[1] = t /\ ToSet(ts) = {t}
    <3>1. 1 \in 1..1
      OBVIOUS
    <3>2. ts[1] = t
      BY <2>5, <3>1
    <3>3. Len(ts) = 1
      BY <2>5
    <3>4. ToSet(ts) = {t}
      BY <1>8, <2>3
    <3> QED  BY <3>2, <3>3, <3>4
  <2>7. Newest(b, c) /\ Key(t) = Key(b[c]) /\ t.version = "active" /\ Replayed(b)
    BY <1>9, <1>10, <2>1, <2>2 DEF BankOf
  <2>8. q = Question("current", ts, {c})
    BY <1>3, <1>14, <2>3
  <2> QED  BY <2>6, <2>7, <2>8, CurrentFollows
<1> HIDE DEF gold, asks
<1> QED  BY <1>2, <1>4, <1>7, <1>8, <1>11, <1>12, <1>13, <1>14 DEF Answerable

LEMMA HistoryAnswerable ==
  ASSUME NEW w, Sampled(w), NEW b, BankOf(w, b), NEW k \in ChangedKeys(w)
  PROVE  Answerable(w, b, History(b, k))
<1>1. PICK i \in DOMAIN b : Key(b[i]) = k
  BY KeysAre DEF BankOf
<1>2. PICK x \in DOMAIN b, y \in DOMAIN b : x < y /\ SameKey(b, i) = {x, y}
  BY <1>1 DEF BankOf
<1>3. Replayed(b) /\ Len(b) \in Nat /\ DOMAIN b = 1..Len(b)
  BY DEF BankOf, Replayed
<1>4. PICK first, last : first = InitialOf(b, k) /\ last = CurrentOf(b, k)
  OBVIOUS
<1>5. /\ first \in {x, y} /\ first <= x /\ first <= y
      /\ last \in {x, y} /\ x <= last /\ y <= last
  BY <1>1, <1>2, <1>3, <1>4, CurrentIs
<1>6. first = x /\ last = y
  BY <1>2, <1>3, <1>5
<1>7. PICK t, q : t = Ask(k[1], k[2], "all") /\ q = History(b, k)
  OBVIOUS
<1>8. /\ q.intent = "history" /\ ToSet(q.targets) = {t} /\ q.gold = {x, y}
  <2>1. q = Question("history", <<t>>, {x, y})
    BY <1>4, <1>6, <1>7 DEF History
  <2> QED  BY <2>1, QuestionIs, ShortLists
<1>9. Key(t) = k /\ t.version = "all" /\ t.entity \in ToSet(w.people)
  <2>1. k = <<k[1], k[2]>> /\ k[1] \in ToSet(w.people)
    BY KeysAre
  <2> QED  BY <1>7, <2>1 DEF Ask, Key
<1>10. ReplayAnswer(b, q, t) = {x, y}
  <2>1. {j \in DOMAIN b : Key(b[j]) = Key(t)} = {x, y}
    BY <1>1, <1>2, <1>9 DEF SameKey
  <2>2. {j \in {x, y} : \A h \in {x, y} : h <= j} = {y} /\ {j \in {x, y} : \A h \in {x, y} : j <= h} = {x}
    BY <1>2, <1>3
  <2> QED  BY <1>8, <2>1, <2>2 DEF ReplayAnswer
<1>11. Follows(b, q)
  <2>1. UNION {ReplayAnswer(b, q, u) : u \in ToSet(q.targets)} = {x, y}
    BY <1>8, <1>10
  <2> QED  BY <1>8, <2>1 DEF Follows
<1>12. IsFiniteSet(q.gold) /\ Cardinality(q.gold) <= 4
  BY <1>8, FourAtMost
<1>13. \A u \in ToSet(q.targets) : u.entity \in ToSet(w.people) /\ u.version \in {"active", "all"}
  BY <1>8, <1>9
<1>14. Key(b[i]) \in ChangedKeys(w) /\ q.gold = SameKey(b, i)
  BY <1>1, <1>2, <1>8
<1>15. Answerable(w, b, q)
  BY <1>2, <1>8, <1>11, <1>12, <1>13, <1>14 DEF Answerable
<1> QED  BY <1>7, <1>15

LEMMA NothingAnswerable ==
  ASSUME NEW w, Sampled(w), NEW b, BankOf(w, b), NEW k \in Untold(w)
  PROVE  Answerable(w, b, Nothing(k))
<1>1. PICK t, q : t = Ask(k[1], k[2], "active") /\ q = Nothing(k)
  OBVIOUS
<1>2. q.intent = "null" /\ ToSet(q.targets) = {t} /\ q.gold = {}
  BY <1>1, QuestionIs, ShortLists DEF Nothing
<1>3. Key(t) = k /\ t.version = "active" /\ t.entity \in ToSet(w.people)
  <2>1. k = <<k[1], k[2]>> /\ k[1] \in ToSet(w.people)
    BY KeysAre
  <2> QED  BY <1>1, <2>1 DEF Ask, Key
<1>4. {i \in DOMAIN b : Key(b[i]) = Key(t)} = {}
  BY <1>3 DEF BankOf
<1>5. ReplayAnswer(b, q, t) = {}
  BY <1>2, <1>3, <1>4 DEF ReplayAnswer
<1>6. UNION {ReplayAnswer(b, q, u) : u \in ToSet(q.targets)} = {}
  BY <1>2, <1>5
<1>7. Follows(b, q)
  BY <1>2, <1>6 DEF Follows
<1>8. IsFiniteSet({}) /\ Cardinality({}) <= 4
  BY FS_EmptySet
<1>9. \A u \in ToSet(q.targets) : u.entity \in ToSet(w.people) /\ u.version \in {"active", "all"}
  BY <1>2, <1>3
<1>10. Answerable(w, b, q)
  BY <1>2, <1>7, <1>8, <1>9 DEF Answerable
<1> QED  BY <1>1, <1>10

LEMMA AllAnswerable ==
  ASSUME NEW w, Sampled(w), NEW b, b = ResidentBank(w), NEW q \in ResidentWorld(w).questions
  PROVE  Answerable(w, b, q)
<1>1. BankOf(w, b)
  BY ResidentBankIs
<1>2. OneOf(w, b, q)
  <2>1. PICK world : world = ResidentWorld(w)
    OBVIOUS
  <2> QED  BY <2>1, ResidentQuestions
<1>3. ASSUME NEW k \in AskedKeys(w), q = AskedAbout("current", b, {k}) PROVE Answerable(w, b, q)
  <2>1. PICK set \in SUBSET AskedKeys(w) : set = {k}
    OBVIOUS
  <2> QED  BY <1>1, <1>3, <2>1, AboutAnswerable
<1>4. ASSUME NEW set \in SUBSET AskedKeys(w), q = AskedAbout("multi", b, set) PROVE Answerable(w, b, q)
  BY <1>1, <1>4, AboutAnswerable
<1>5. ASSUME NEW k \in ChangedKeys(w), q = History(b, k) PROVE Answerable(w, b, q)
  BY <1>1, <1>5, HistoryAnswerable
<1>6. ASSUME NEW k \in Untold(w), q = Nothing(k) PROVE Answerable(w, b, q)
  BY <1>1, <1>6, NothingAnswerable
<1> QED  BY <1>2, <1>3, <1>4, <1>5, <1>6 DEF OneOf

(* What a network learns whose links are the versions of each fact.          *)
Grouped(b, questions) ==
  /\ DOMAIN VersionGroups(b, questions) = DOMAIN b
  /\ \A i \in DOMAIN b : VersionGroups(b, questions)[i] = SameKey(b, i)

LEMMA GroupsAre ==
  ASSUME NEW b, NEW questions,
         \A h \in Histories(questions) : \E i \in DOMAIN b : h = SameKey(b, i),
         \A i \in DOMAIN b : SameKey(b, i) = {i} \/ SameKey(b, i) \in Histories(questions)
  PROVE  Grouped(b, questions)
<1>1. ASSUME NEW i \in DOMAIN b PROVE VersionGroups(b, questions)[i] = SameKey(b, i)
  <2>1. i \in SameKey(b, i)
    BY DEF SameKey
  <2>2. \A h \in Histories(questions) : i \in h => h = SameKey(b, i)
    BY DEF SameKey
  <2>3. VersionGroups(b, questions)[i] =
          IF \E h \in Histories(questions) : i \in h
            THEN CHOOSE h \in Histories(questions) : i \in h
            ELSE {i}
    BY DEF VersionGroups
  <2>4. CASE \E h \in Histories(questions) : i \in h
    <3>1. PICK c : c = CHOOSE h \in Histories(questions) : i \in h
      OBVIOUS
    <3>2. c \in Histories(questions) /\ i \in c
      BY <2>4, <3>1
    <3> QED  BY <2>2, <2>3, <2>4, <3>1, <3>2
  <2>5. CASE ~\E h \in Histories(questions) : i \in h
    BY <2>1, <2>3, <2>5
  <2> QED  BY <2>4, <2>5
<1> QED  BY <1>1 DEF Grouped, VersionGroups

LEMMA Taught ==
  ASSUME NEW b, DOMAIN b \subseteq Nat, NEW questions, Grouped(b, questions), NEW q, q.gold \subseteq DOMAIN b,
         q.gold = UNION {ReplayAnswer(b, q, t) : t \in ToSet(q.targets)},
         q.intent = "history" => \A i \in q.gold : SameKey(b, i) \subseteq q.gold,
         q.intent # "history" => \A i \in q.gold : Newest(b, i),
         NEW mask, mask \subseteq DOMAIN b, \A i \in mask : SameKey(b, i) \subseteq mask
  PROVE  TaughtTheSame(q, b, questions, mask)
<1>1. PICK labels : labels = LabelsOf(b, questions, q)
  OBVIOUS
<1>2. /\ labels.address = UNION {VersionGroups(b, questions)[i] : i \in q.gold}
      /\ labels.links = VersionGroups(b, questions)
      /\ labels.history = (q.intent = "history")
  BY <1>1 DEF LabelsOf
<1>3. labels.address = UNION {SameKey(b, i) : i \in q.gold}
  BY <1>2 DEF Grouped
<1>4. \A i \in DOMAIN b : labels.links[i] = SameKey(b, i) /\ i \in SameKey(b, i) /\ SameKey(b, i) \subseteq DOMAIN b
  BY <1>2 DEF Grouped, SameKey
<1>5. Activated(labels, mask)
        = {i \in mask \intersect labels.address :
             labels.history \/ \A j \in labels.links[i] \intersect mask : j <= i}
  BY DEF Activated
<1>6. ASSUME NEW i \in mask
      PROVE  (i \in labels.address /\ (labels.history \/ \A j \in labels.links[i] \intersect mask : j <= i))
               <=> i \in q.gold
  <2>1. i \in DOMAIN b /\ labels.links[i] \intersect mask = SameKey(b, i)
    BY <1>4
  <2>2. i \in q.gold => i \in labels.address
    BY <1>3, <1>4
  <2>3. CASE q.intent = "history"
    <3>1. labels.history
      <4>1. (q.intent = "history") = TRUE
        BY <2>3
      <4> QED  BY <1>2, <4>1
    <3>2. labels.address \subseteq q.gold
      BY <1>3, <2>3
    <3> QED  BY <2>2, <3>1, <3>2
  <2>4. CASE q.intent # "history"
    <3>1. ~labels.history
      BY <1>2, <2>4
    <3>2. i \in q.gold => \A j \in SameKey(b, i) : j <= i
      BY <2>4 DEF Newest
    <3>3. ASSUME i \in labels.address, \A j \in SameKey(b, i) : j <= i PROVE i \in q.gold
      <4>1. PICK g \in q.gold : i \in SameKey(b, g)
        BY <1>3, <3>3
      <4>2. SameKey(b, i) = SameKey(b, g) /\ g \in DOMAIN b
        BY <4>1 DEF SameKey
      <4>3. g <= i /\ i <= g
        BY <1>4, <2>4, <3>3, <4>1, <4>2 DEF Newest
      <4>4. g \in Nat /\ i \in Nat
        BY <2>1, <4>2
      <4> QED  BY <4>1, <4>3, <4>4
    <3> QED  BY <2>1, <2>2, <3>1, <3>2, <3>3
  <2> QED  BY <2>3, <2>4
<1>7. Activated(labels, mask) = MaskedTargets(q, mask)
  <2>1. MaskedTargets(q, mask) = q.gold \intersect mask
    BY DEF MaskedTargets
  <2> QED  BY <1>5, <1>6, <2>1
<1>8. MaskedTargets(q, mask) = (UNION {ReplayAnswer(b, q, t) : t \in ToSet(q.targets)}) \intersect mask
  BY DEF MaskedTargets
<1>9. Activated(LabelsOf(b, questions, q), mask) = MaskedTargets(q, mask)
  BY <1>1, <1>7
<1> QED  BY <1>8, <1>9 DEF TaughtTheSame

\* The history questions of a world are about the facts that changed.
HistoriesOf(w, b, questions) ==
  /\ \A h \in Histories(questions) : \E i \in DOMAIN b : Key(b[i]) \in ChangedKeys(w) /\ h = SameKey(b, i)
  /\ \A i \in DOMAIN b : Key(b[i]) \in ChangedKeys(w) =>
       \E q \in questions : q.intent = "history" /\ q.gold = SameKey(b, i)

LEMMA ResidentHistories ==
  ASSUME NEW w, Sampled(w), NEW b, b = ResidentBank(w), NEW questions, questions = ResidentWorld(w).questions
  PROVE  HistoriesOf(w, b, questions)
<1>1. BankOf(w, b) /\ Replayed(b)
  BY ResidentBankIs DEF BankOf
<1>2. ASSUME NEW h \in Histories(questions)
      PROVE  \E i \in DOMAIN b : Key(b[i]) \in ChangedKeys(w) /\ h = SameKey(b, i)
  <2>1. PICK q \in questions : q.intent = "history" /\ h = q.gold
    BY DEF Histories
  <2>2. Answerable(w, b, q)
    BY AllAnswerable
  <2> QED  BY <2>1, <2>2 DEF Answerable
<1>3. ASSUME NEW i \in DOMAIN b, Key(b[i]) \in ChangedKeys(w)
      PROVE  \E q \in questions : q.intent = "history" /\ q.gold = SameKey(b, i)
  <2>1. PICK world, k : world = ResidentWorld(w) /\ k = Key(b[i])
    OBVIOUS
  <2>2. PICK q : q = History(b, k)
    OBVIOUS
  <2>3. q \in questions
    BY <1>3, <2>1, <2>2, ResidentQuestions
  <2>4. q.intent = "history" /\ q.gold = {InitialOf(b, k), CurrentOf(b, k)}
    BY <2>2, QuestionIs DEF History
  <2>5. PICK j \in DOMAIN b : q.gold = SameKey(b, j)
    <3>1. Answerable(w, b, q)
      BY <2>3, AllAnswerable
    <3> QED  BY <2>4, <3>1 DEF Answerable
  <2>6. CurrentOf(b, k) \in SameKey(b, i)
    BY <1>1, <2>1, CurrentIs
  <2>7. SameKey(b, j) = SameKey(b, i)
    BY <2>4, <2>5, <2>6 DEF SameKey
  <2> QED  BY <2>3, <2>4, <2>5, <2>7
<1> QED  BY <1>2, <1>3 DEF HistoriesOf

LEMMA OwnGroups ==
  ASSUME NEW w, NEW b, BankOf(w, b), NEW questions, HistoriesOf(w, b, questions)
  PROVE  Grouped(b, questions) /\ ~GroupsRefused(questions)
<1>1. \A h \in Histories(questions) : \E i \in DOMAIN b : h = SameKey(b, i)
  BY DEF HistoriesOf
<1>2. ASSUME NEW i \in DOMAIN b PROVE SameKey(b, i) = {i} \/ SameKey(b, i) \in Histories(questions)
  <2>1. CASE Key(b[i]) \in ChangedKeys(w)
    BY <2>1 DEF HistoriesOf, Histories
  <2>2. CASE Key(b[i]) \notin ChangedKeys(w)
    BY <2>2 DEF BankOf
  <2> QED  BY <2>1, <2>2
<1>3. Grouped(b, questions)
  BY <1>1, <1>2, GroupsAre
<1>4. ASSUME NEW h \in Histories(questions) PROVE Cardinality(h) = 2
  <2>1. PICK i \in DOMAIN b : Key(b[i]) \in ChangedKeys(w) /\ h = SameKey(b, i)
    BY DEF HistoriesOf
  <2>2. PICK x \in DOMAIN b, y \in DOMAIN b : x < y /\ h = {x, y}
    BY <2>1 DEF BankOf
  <2>3. x # y
    <3>1. x \in Nat /\ y \in Nat
      BY DEF BankOf, Replayed
    <3> QED  BY <2>2, <3>1
  <2>4. Cardinality({x}) = 1 /\ IsFiniteSet({x})
    BY FS_Singleton
  <2>5. Cardinality({x} \union {y}) = 2
    BY <2>3, <2>4, FS_AddElement
  <2>6. {x} \union {y} = h
    BY <2>2
  <2> QED  BY <2>5, <2>6
<1>5. ASSUME NEW h \in Histories(questions), NEW g \in Histories(questions), g # h PROVE g \intersect h = {}
  <2>1. PICK i \in DOMAIN b : h = SameKey(b, i)
    BY <1>1
  <2>2. PICK j \in DOMAIN b : g = SameKey(b, j)
    BY <1>1
  <2> QED  BY <1>5, <2>1, <2>2 DEF SameKey
<1> QED  BY <1>3, <1>4, <1>5 DEF GroupsRefused

LEMMA MasksAre ==
  ASSUME NEW b, NEW questions, Grouped(b, questions), NEW mask \in Masks(b, questions)
  PROVE  mask \subseteq DOMAIN b /\ \A i \in mask : SameKey(b, i) \subseteq mask
<1>1. Masks(b, questions) = {UNION groups : groups \in SUBSET {VersionGroups(b, questions)[i] : i \in DOMAIN b}}
  BY DEF Masks
<1>2. PICK groups \in SUBSET {VersionGroups(b, questions)[i] : i \in DOMAIN b} : mask = UNION groups
  BY <1>1
<1>3. \A g \in groups : \E i \in DOMAIN b : g = SameKey(b, i)
  BY <1>2 DEF Grouped
<1>4. ASSUME NEW i \in mask PROVE i \in DOMAIN b /\ SameKey(b, i) \subseteq mask
  <2>1. PICK g \in groups : i \in g
    BY <1>2
  <2>2. PICK j \in DOMAIN b : g = SameKey(b, j)
    BY <1>3
  <2>3. i \in DOMAIN b /\ SameKey(b, i) = g
    BY <2>1, <2>2 DEF SameKey
  <2> QED  BY <1>2, <2>3
<1> QED  BY <1>4

LEMMA AnswerableTaught ==
  ASSUME NEW w, NEW b, BankOf(w, b), NEW q, Answerable(w, b, q), NEW questions, Grouped(b, questions),
         NEW mask \in Masks(b, questions)
  PROVE  TaughtTheSame(q, b, questions, mask)
<1>1. DOMAIN b \subseteq Nat
  BY DEF BankOf, Replayed
<1>2. mask \subseteq DOMAIN b /\ \A i \in mask : SameKey(b, i) \subseteq mask
  BY MasksAre
<1>3. /\ q.gold \subseteq DOMAIN b
      /\ q.gold = UNION {ReplayAnswer(b, q, t) : t \in ToSet(q.targets)}
      /\ q.intent # "history" => \A i \in q.gold : Newest(b, i)
  BY DEF Answerable, Follows
<1>4. q.intent = "history" => \A i \in q.gold : SameKey(b, i) \subseteq q.gold
  BY DEF Answerable, SameKey
<1> QED  BY <1>1, <1>2, <1>3, <1>4, Taught

\* From its own store, whole or masked.
LEMMA OwnTaught ==
  ASSUME NEW w, Sampled(w), NEW world, world = ResidentWorld(w)
  PROVE  /\ Loads(world) /\ ~GroupsRefused(world.questions)
         /\ \A q \in world.questions : \A mask \in Masks(world.bank, world.questions) :
              TaughtTheSame(q, world.bank, world.questions, mask)
<1>1. PICK b : b = ResidentBank(w) /\ b = world.bank
  BY ResidentQuestions
<1>2. BankOf(w, b) /\ \A q \in world.questions : Answerable(w, b, q)
  BY <1>1, ResidentBankIs, AllAnswerable
<1>3. Grouped(b, world.questions) /\ ~GroupsRefused(world.questions)
  <2>1. HistoriesOf(w, b, world.questions)
    BY <1>1, ResidentHistories
  <2> QED  BY <1>2, <2>1, OwnGroups
<1>4. Loads(world)
  <2>1. Len(b) \in 1..StoreSlots
    <3>1. Len(b) \in 7..9
      BY <1>2 DEF BankOf
    <3> QED  BY <3>1 DEF StoreSlots
  <2>2. \A q \in world.questions : Cardinality(q.gold) <= MaxTargets /\ q.gold \subseteq DOMAIN b
    BY <1>2 DEF Answerable, MaxTargets
  <2> QED  BY <1>1, <2>1, <2>2 DEF Loads
<1>5. ASSUME NEW q \in world.questions, NEW mask \in Masks(b, world.questions)
      PROVE  TaughtTheSame(q, b, world.questions, mask)
  BY <1>2, <1>3, AnswerableTaught
<1> QED  BY <1>1, <1>3, <1>4, <1>5

-----------------------------------------------------------------------------
(* A store to which what another world says of strangers was added.          *)
Strangers(d, people) == {i \in DOMAIN d : d[i].entity \notin people}
Together(B, b, d, s, people, n, m) ==
  /\ n \in Nat /\ m \in Nat /\ DOMAIN b = 1..n /\ DOMAIN s = 1..m /\ DOMAIN B = 1..(n + m)
  /\ \A i \in 1..n : B[i] = b[i] /\ b[i].entity \in people
  /\ \A x \in 1..m : s[x] \in Strangers(d, people) /\ B[n + x] = d[s[x]]
  /\ \A i \in Strangers(d, people) : \E x \in 1..m : s[x] = i
  /\ \A x, y \in 1..m : s[x] = s[y] => x = y

LEMMA TogetherIs ==
  ASSUME NEW w, NEW b, BankOf(w, b), NEW v, NEW d, BankOf(v, d), NEW people, people = ToSet(w.people),
         NEW s, s = InOrder(Strangers(d, people)),
         NEW B, B = b \o [x \in DOMAIN s |-> d[s[x]]]
  PROVE  \E n, m \in Nat : n = Len(b) /\ Together(B, b, d, s, people, n, m)
<1>1. PICK F : F = Strangers(d, people)
  OBVIOUS
<1>2. Len(d) \in Nat /\ DOMAIN d = 1..Len(d)
  BY DEF BankOf, Replayed
<1>3. F \in SUBSET (1..Len(d)) /\ Ordered(s, F)
  <2>1. F \in SUBSET (1..Len(d))
    BY <1>1, <1>2 DEF Strangers
  <2> QED  BY <1>1, <1>2, <2>1, InOrderIs
<1>4. PICK n \in Nat : n = Len(b) /\ DOMAIN b = 1..n /\ b = [i \in 1..n |-> b[i]]
  BY DEF BankOf, Replayed
<1>5. PICK m \in Nat : m = Len(s) /\ DOMAIN s = 1..m
  <2>1. Len(s) \in Nat
    BY <1>3 DEF Ordered
  <2> QED  BY <1>3, <2>1 DEF Ordered
<1>6. PICK more : more = [x \in 1..m |-> d[s[x]]]
  OBVIOUS
<1> DEFINE U == {b[i] : i \in 1..n} \union {d[s[x]] : x \in 1..m}
<1>7. b \in Seq(U) /\ more \in Seq(U) /\ Len(more) = m
  <2>1. b \in [1..n -> U]
    BY <1>4
  <2>2. more \in [1..m -> U]
    BY <1>6
  <2> HIDE DEF U
  <2> QED  BY <1>5, <1>6, <2>1, <2>2
<1> HIDE DEF U
<1>8. B = b \o more
  BY <1>5, <1>6
<1>9. Appended(B, b, n, more, m)
  BY <1>4, <1>7, <1>8, JoinedAre
<1>10. \A x, y \in 1..m : s[x] = s[y] => x = y
  <2>1. \A k \in 1..m : s[k] \in F /\ Rank(F, s[k]) = k - 1
    BY <1>3, <1>5 DEF Ordered
  <2>2. SUFFICES ASSUME NEW x \in 1..m, NEW y \in 1..m, s[x] = s[y] PROVE x = y
    OBVIOUS
  <2>3. x - 1 = y - 1
    BY <2>1, <2>2
  <2> QED  BY <2>3
<1>11. \A i \in F : \E x \in 1..m : s[x] = i
  BY <1>3, <1>5 DEF Ordered
<1>12. \A i \in 1..n : b[i].entity \in people
  BY <1>4 DEF BankOf
<1>13. \A x \in 1..m : s[x] \in F /\ B[n + x] = d[s[x]]
  <2>1. \A x \in 1..m : s[x] \in F
    BY <1>3, <1>5 DEF Ordered
  <2>2. \A x \in 1..m : B[n + x] = more[x]
    BY <1>9 DEF Appended
  <2> QED  BY <1>6, <2>1, <2>2
<1>14. DOMAIN B = 1..(n + m) /\ \A i \in 1..n : B[i] = b[i]
  BY <1>9 DEF Appended
<1>15. Together(B, b, d, s, people, n, m)
  BY <1>1, <1>4, <1>5, <1>10, <1>11, <1>12, <1>13, <1>14 DEF Together
<1> QED  BY <1>4, <1>15

\* No fact of one part is a version of a fact of the other, and each part keeps
\* its own versions.
Apart(B, b, d, s, F, n, m) ==
  /\ \A i \in 1..n : i \in DOMAIN B /\ SameKey(B, i) = SameKey(b, i)
  /\ \A x \in 1..m : /\ n + x \in DOMAIN B
                     /\ SameKey(B, n + x) = {n + y : y \in {z \in 1..m : s[z] \in SameKey(d, s[x])}}
  /\ \A i \in DOMAIN B : i \in 1..n \/ \E x \in 1..m : i = n + x
  /\ \A i \in F : SameKey(d, i) \subseteq F
LEMMA TogetherKeys ==
  ASSUME NEW B, NEW b, NEW d, NEW s, NEW people, NEW n, NEW m, Together(B, b, d, s, people, n, m)
  PROVE  Apart(B, b, d, s, Strangers(d, people), n, m)
<1>1. /\ n \in Nat /\ m \in Nat /\ DOMAIN b = 1..n /\ DOMAIN s = 1..m /\ DOMAIN B = 1..(n + m)
      /\ \A i \in 1..n : B[i] = b[i] /\ b[i].entity \in people
      /\ \A x \in 1..m : s[x] \in Strangers(d, people) /\ B[n + x] = d[s[x]]
  BY DEF Together
<1>2. \A i \in DOMAIN B : i \in 1..n \/ \E x \in 1..m : i = n + x
  <2>1. SUFFICES ASSUME NEW i \in 1..(n + m), ~(i <= n) PROVE \E x \in 1..m : i = n + x
    BY <1>1
  <2>2. i - n \in 1..m /\ i = n + (i - n)
    BY <1>1, <2>1
  <2> QED  BY <2>2
<1>3. (\A i \in 1..n : i \in DOMAIN B) /\ (\A x \in 1..m : n + x \in DOMAIN B)
  BY <1>1
<1>4. \A i \in 1..n, x \in 1..m : Key(B[i]) # Key(B[n + x])
  <2>1. \A i \in 1..n, x \in 1..m : B[i].entity # B[n + x].entity
    BY <1>1 DEF Strangers
  <2> QED  BY <2>1 DEF Key
<1>5. ASSUME NEW i \in 1..n PROVE SameKey(B, i) = SameKey(b, i)
  <2>1. \A j \in SameKey(B, i) : j \in 1..n
    BY <1>2, <1>4 DEF SameKey
  <2> QED  BY <1>1, <1>3, <2>1 DEF SameKey
<1>6. ASSUME NEW x \in 1..m
      PROVE  SameKey(B, n + x) = {n + y : y \in {z \in 1..m : s[z] \in SameKey(d, s[x])}}
  <2>1. \A j \in SameKey(B, n + x) : \E y \in 1..m : j = n + y
    BY <1>2, <1>4 DEF SameKey
  <2>2. \A y \in 1..m : s[y] \in SameKey(d, s[x]) <=> Key(B[n + y]) = Key(B[n + x])
    BY <1>1 DEF SameKey, Strangers
  <2>3. \A y \in 1..m : n + y \in SameKey(B, n + x) <=> s[y] \in SameKey(d, s[x])
    BY <1>3, <2>2 DEF SameKey
  <2> QED  BY <2>1, <2>3
<1>7. ASSUME NEW i \in Strangers(d, people) PROVE SameKey(d, i) \subseteq Strangers(d, people)
  BY DEF SameKey, Strangers, Key
<1> QED  BY <1>2, <1>3, <1>5, <1>6, <1>7 DEF Apart

\* A group of versions, moved to where it was added, is one there.
MovedTo(s, n, S) == {n + (CHOOSE k \in DOMAIN s : s[k] = j) : j \in S}
LEMMA MovedGroup ==
  ASSUME NEW B, NEW b, NEW d, NEW s, NEW people, NEW n, NEW m, Together(B, b, d, s, people, n, m),
         NEW x \in 1..m
  PROVE  MovedTo(s, n, SameKey(d, s[x])) = SameKey(B, n + x)
<1> DEFINE moved == MovedTo(s, n, SameKey(d, s[x]))
<1>1. /\ DOMAIN s = 1..m /\ \A y, z \in 1..m : s[y] = s[z] => y = z
      /\ \A i \in Strangers(d, people) : \E y \in 1..m : s[y] = i
      /\ s[x] \in Strangers(d, people)
  BY DEF Together
<1>2. \A y \in 1..m : (CHOOSE k \in DOMAIN s : s[k] = s[y]) = y
  <2>1. SUFFICES ASSUME NEW y \in 1..m PROVE (CHOOSE k \in DOMAIN s : s[k] = s[y]) = y
    OBVIOUS
  <2>2. PICK c : c = CHOOSE k \in DOMAIN s : s[k] = s[y]
    OBVIOUS
  <2>3. c \in 1..m /\ s[c] = s[y]
    BY <1>1, <2>2
  <2> QED  BY <1>1, <2>2, <2>3
<1>3. \A j \in SameKey(d, s[x]) : \E y \in 1..m : s[y] = j
  <2>1. SameKey(d, s[x]) \subseteq Strangers(d, people)
    BY <1>1, TogetherKeys DEF Apart
  <2> QED  BY <1>1, <2>1
<1>4. SameKey(B, n + x) = {n + y : y \in {z \in 1..m : s[z] \in SameKey(d, s[x])}}
  BY TogetherKeys DEF Apart
<1>5. ASSUME NEW e \in moved PROVE e \in SameKey(B, n + x)
  <2>1. PICK j \in SameKey(d, s[x]) : e = n + (CHOOSE k \in DOMAIN s : s[k] = j)
    BY <1>5 DEF MovedTo
  <2>2. PICK y \in 1..m : s[y] = j
    BY <1>3
  <2> QED  BY <1>2, <1>4, <2>1, <2>2
<1>6. ASSUME NEW e \in SameKey(B, n + x) PROVE e \in moved
  <2>1. PICK y \in 1..m : s[y] \in SameKey(d, s[x]) /\ e = n + y
    BY <1>4, <1>6
  <2> QED  BY <1>2, <2>1 DEF MovedTo
<1> QED  BY <1>5, <1>6

\* What was added labels the links and changes no answer.
LEMMA TogetherTaught ==
  ASSUME NEW w, NEW b, BankOf(w, b), NEW people, people = ToSet(w.people),
         NEW B, NEW d, NEW s, NEW n, NEW m, Together(B, b, d, s, people, n, m),
         NEW q, Answerable(w, b, q), NEW questions, Grouped(B, questions)
  PROVE  TaughtTheSame(q, B, questions, DOMAIN B)
<1>1. /\ n \in Nat /\ m \in Nat /\ DOMAIN b = 1..n /\ DOMAIN B = 1..(n + m)
      /\ \A i \in 1..n : B[i] = b[i]
      /\ \A x \in 1..m : B[n + x].entity \notin people
  BY DEF Together, Strangers
<1>2. /\ \A i \in 1..n : i \in DOMAIN B /\ SameKey(B, i) = SameKey(b, i)
      /\ \A i \in DOMAIN B : i \in 1..n \/ \E x \in 1..m : i = n + x
  BY TogetherKeys DEF Apart
<1>3. DOMAIN B \subseteq Nat /\ q.gold \subseteq DOMAIN B
  BY <1>1, <1>2 DEF Answerable
<1>4. ASSUME NEW t \in ToSet(q.targets) PROVE ReplayAnswer(B, q, t) = ReplayAnswer(b, q, t)
  <2>1. t.entity \in people /\ t.version \in {"active", "all"}
    BY DEF Answerable
  <2>2. \A i \in DOMAIN B : Key(B[i]) = Key(t) => i \in 1..n
    <3>1. \A i \in DOMAIN B : Key(B[i]) = Key(t) => B[i].entity = t.entity
      BY DEF Key
    <3> QED  BY <1>1, <1>2, <2>1, <3>1
  <2>3. {i \in DOMAIN B : Key(B[i]) = Key(t)} = {i \in DOMAIN b : Key(b[i]) = Key(t)}
    BY <1>1, <1>2, <2>2
  <2>4. t.version # "exact" /\ t.version # "previous"
    BY <2>1
  <2> QED  BY <2>3, <2>4 DEF ReplayAnswer
<1>5. q.gold = UNION {ReplayAnswer(B, q, t) : t \in ToSet(q.targets)}
  <2>1. q.gold = UNION {ReplayAnswer(b, q, t) : t \in ToSet(q.targets)}
    BY DEF Answerable, Follows
  <2> QED  BY <1>4, <2>1
<1>6. q.intent = "history" => \A i \in q.gold : SameKey(B, i) \subseteq q.gold
  <2>1. q.intent = "history" => \A i \in q.gold : SameKey(b, i) \subseteq q.gold
    BY DEF Answerable, SameKey
  <2> QED  BY <1>1, <1>2, <2>1 DEF Answerable
<1>7. q.intent # "history" => \A i \in q.gold : Newest(B, i)
  BY <1>1, <1>2 DEF Answerable, Newest
<1>8. \A i \in DOMAIN B : SameKey(B, i) \subseteq DOMAIN B
  BY DEF SameKey
<1>9. PICK mask : mask = DOMAIN B
  OBVIOUS
<1>10. TaughtTheSame(q, B, questions, mask)
  BY <1>3, <1>5, <1>6, <1>7, <1>8, <1>9, Taught
<1> QED  BY <1>9, <1>10

LEMMA DistractedTaught ==
  ASSUME NEW w, Sampled(w), NEW world, world = ResidentWorld(w),
         NEW v, Sampled(v), NEW donor, donor = ResidentWorld(v),
         NEW joint, joint = Distracted(world, donor)
  PROVE  /\ ~joint.partial
         /\ \A i \in DOMAIN joint.bank : VersionGroups(joint.bank, joint.questions)[i] = SameKey(joint.bank, i)
         /\ \A q \in world.questions : TaughtTheSame(q, joint.bank, joint.questions, DOMAIN joint.bank)
<1>1. PICK b, people : b = world.bank /\ b = ResidentBank(w) /\ people = world.people /\ people = ToSet(w.people)
  BY ResidentQuestions
<1>2. PICK d : d = donor.bank /\ d = ResidentBank(v)
  BY ResidentQuestions
<1>3. /\ BankOf(w, b) /\ BankOf(v, d)
      /\ HistoriesOf(w, b, world.questions) /\ HistoriesOf(v, d, donor.questions)
      /\ \A q \in world.questions : Answerable(w, b, q)
  <2>1. BankOf(w, b) /\ BankOf(v, d)
    BY <1>1, <1>2, ResidentBankIs
  <2>2. HistoriesOf(w, b, world.questions)
    BY <1>1, ResidentHistories
  <2>3. HistoriesOf(v, d, donor.questions)
    BY <1>2, ResidentHistories
  <2>4. \A q \in world.questions : Answerable(w, b, q)
    BY <1>1, AllAnswerable
  <2> QED  BY <2>1, <2>2, <2>3, <2>4
<1>4. PICK F : F = Strangers(d, people)
  OBVIOUS
<1>5. PICK s : s = Foreign(world, donor) /\ s = InOrder(F)
  BY <1>1, <1>2, <1>4 DEF Foreign, Strangers
<1>6. PICK B : B = b \o [x \in DOMAIN s |-> d[s[x]]]
  OBVIOUS
<1>7. PICK n \in Nat, m \in Nat : n = Len(b) /\ Together(B, b, d, s, people, n, m)
  BY <1>1, <1>3, <1>4, <1>5, <1>6, TogetherIs
<1>8. /\ DOMAIN b = 1..n /\ DOMAIN s = 1..m
      /\ \A x \in 1..m : s[x] \in F
      /\ \A i \in F : \E x \in 1..m : s[x] = i
  BY <1>4, <1>7 DEF Together
<1>9. ToSet(s) = F
  BY <1>8 DEF ToSet
<1>10. /\ \A i \in 1..n : i \in DOMAIN B /\ SameKey(B, i) = SameKey(b, i)
       /\ \A x \in 1..m : /\ n + x \in DOMAIN B
                          /\ SameKey(B, n + x) = {n + y : y \in {z \in 1..m : s[z] \in SameKey(d, s[x])}}
       /\ \A i \in DOMAIN B : i \in 1..n \/ \E x \in 1..m : i = n + x
       /\ \A i \in F : SameKey(d, i) \subseteq F
  <2>1. Apart(B, b, d, s, F, n, m)
    BY <1>4, <1>7, TogetherKeys
  <2> QED  BY <2>1 DEF Apart
<1> DEFINE at(i) == n + CHOOSE k \in DOMAIN s : s[k] = i
<1>11. PICK labels : labels = {q \in donor.questions : q.intent = "history" /\ q.gold \intersect F # {}}
  OBVIOUS
<1>12. PICK added : added = {Question("history", <<>>, {at(i) : i \in q.gold}) : q \in {r \in labels : r.gold \subseteq F}}
  OBVIOUS
<1>13. PICK questions : questions = world.questions \union added
  OBVIOUS
<1>14. joint.bank = B /\ joint.questions = questions /\ joint.partial = (\E q \in labels : ~(q.gold \subseteq F))
  <2>1. joint = [bank |-> B, partial |-> \E q \in labels : ~(q.gold \subseteq F), questions |-> questions]
    BY <1>1, <1>2, <1>5, <1>6, <1>7, <1>9, <1>11, <1>12, <1>13 DEF Distracted
  <2> QED  BY <2>1
<1>15. ASSUME NEW q \in labels PROVE \E x \in 1..m : q.gold = SameKey(d, s[x]) /\ q.gold \subseteq F
  <2>1. q \in donor.questions /\ q.intent = "history" /\ q.gold \intersect F # {}
    BY <1>11
  <2>2. q.gold \in Histories(donor.questions)
    BY <2>1 DEF Histories
  <2>3. PICK i \in DOMAIN d : q.gold = SameKey(d, i)
    BY <1>3, <2>2 DEF HistoriesOf
  <2>4. PICK j \in F : j \in SameKey(d, i)
    BY <2>1, <2>3
  <2>5. SameKey(d, j) = SameKey(d, i)
    BY <2>4 DEF SameKey
  <2>6. PICK x \in 1..m : s[x] = j
    BY <1>8
  <2> QED  BY <1>10, <2>3, <2>5, <2>6
<1>16. ~joint.partial
  <2>1. (\E q \in labels : ~(q.gold \subseteq F)) = FALSE
    BY <1>15
  <2> QED  BY <1>14, <2>1
<1>17. \A x \in 1..m : {at(i) : i \in SameKey(d, s[x])} = SameKey(B, n + x)
  <2>1. SUFFICES ASSUME NEW x \in 1..m PROVE {at(i) : i \in SameKey(d, s[x])} = SameKey(B, n + x)
    OBVIOUS
  <2>2. MovedTo(s, n, SameKey(d, s[x])) = SameKey(B, n + x)
    BY <1>7, MovedGroup
  <2> QED  BY <2>2 DEF MovedTo
<1>18. ASSUME NEW h \in Histories(questions) PROVE \E i \in DOMAIN B : h = SameKey(B, i)
  <2>1. PICK q \in questions : q.intent = "history" /\ h = q.gold
    BY DEF Histories
  <2>2. CASE q \in world.questions
    <3>1. h \in Histories(world.questions)
      BY <2>1, <2>2 DEF Histories
    <3>2. PICK i \in DOMAIN b : h = SameKey(b, i)
      BY <1>3, <3>1 DEF HistoriesOf
    <3> QED  BY <1>8, <1>10, <3>2
  <2>3. CASE q \in added
    <3>1. PICK r \in labels : q = Question("history", <<>>, {at(i) : i \in r.gold})
      BY <1>12, <2>3
    <3>2. PICK moved : moved = {at(i) : i \in r.gold}
      OBVIOUS
    <3>3. h = moved
      <4>1. q = Question("history", <<>>, moved)
        BY <3>1, <3>2
      <4>2. q.gold = moved
        BY <4>1, QuestionIs
      <4> QED  BY <2>1, <4>2
    <3>4. PICK x \in 1..m : r.gold = SameKey(d, s[x])
      BY <1>15
    <3> QED  BY <1>10, <1>17, <3>2, <3>3, <3>4
  <2> QED  BY <1>13, <2>1, <2>2, <2>3
<1>19. ASSUME NEW i \in DOMAIN B PROVE SameKey(B, i) = {i} \/ SameKey(B, i) \in Histories(questions)
  <2>1. CASE i \in 1..n
    <3>1. SameKey(b, i) = {i} \/ \E q \in world.questions : q.intent = "history" /\ q.gold = SameKey(b, i)
      BY <1>3, <1>8, <2>1 DEF HistoriesOf, BankOf
    <3> QED  BY <1>10, <1>13, <2>1, <3>1 DEF Histories
  <2>2. ASSUME NEW x \in 1..m, i = n + x PROVE SameKey(B, i) = {i} \/ SameKey(B, i) \in Histories(questions)
    <3>1. s[x] \in F /\ s[x] \in DOMAIN d /\ s[x] \in SameKey(d, s[x])
      BY <1>4, <1>8 DEF Strangers, SameKey
    <3>2. CASE Key(d[s[x]]) \notin ChangedKeys(v)
      <4>1. SameKey(d, s[x]) = {s[x]}
        BY <1>3, <3>1, <3>2 DEF BankOf
      <4>2. \A y \in 1..m : s[y] = s[x] => y = x
        BY <1>7 DEF Together
      <4>3. {z \in 1..m : s[z] \in SameKey(d, s[x])} = {x}
        BY <4>1, <4>2
      <4> QED  BY <1>10, <2>2, <4>3
    <3>3. CASE Key(d[s[x]]) \in ChangedKeys(v)
      <4>1. PICK r \in donor.questions : r.intent = "history" /\ r.gold = SameKey(d, s[x])
        BY <1>3, <3>1, <3>3 DEF HistoriesOf
      <4>2. r \in labels /\ r.gold \subseteq F
        BY <1>10, <1>11, <3>1, <4>1
      <4>3. PICK moved : moved = {at(j) : j \in r.gold} /\ moved = SameKey(B, i)
        BY <1>17, <2>2, <4>1
      <4>4. PICK q : q = Question("history", <<>>, moved)
        OBVIOUS
      <4>5. q \in added
        BY <1>12, <4>2, <4>3, <4>4
      <4>6. q.intent = "history" /\ q.gold = SameKey(B, i)
        BY <4>3, <4>4, QuestionIs
      <4> QED  BY <1>13, <4>5, <4>6 DEF Histories
    <3> QED  BY <3>2, <3>3
  <2> QED  BY <1>10, <2>1, <2>2
<1>20. Grouped(B, questions)
  BY <1>18, <1>19, GroupsAre
<1>21. \A q \in world.questions : TaughtTheSame(q, B, questions, DOMAIN B)
  BY <1>1, <1>3, <1>7, <1>20, TogetherTaught
<1>22. \A i \in DOMAIN B : VersionGroups(B, questions)[i] = SameKey(B, i)
  BY <1>20 DEF Grouped
<1> QED  BY <1>14, <1>16, <1>21, <1>22

(* The rows of a corpus of versions.                                         *)
LEMMA TrainingKeeps ==
  ASSUME NEW c, c.kind = "resident", \A k \in DOMAIN c.worlds : Sampled(c.worlds[k]),
         NEW rows, rows = RowsOf(c), NEW n \in DOMAIN rows
  PROVE  TrainingKeepsAnswers(rows, n)
<1>1. DOMAIN rows = DOMAIN c.worlds /\ \A k \in DOMAIN rows : rows[k] = ResidentWorld(c.worlds[k])
  <2>1. rows = [k \in DOMAIN c.worlds |-> ResidentWorld(c.worlds[k])]
    BY DEF RowsOf, FactKinds
  <2> QED  BY <2>1
<1>2. PICK w, world : w = c.worlds[n] /\ world = rows[n] /\ Sampled(w) /\ world = ResidentWorld(w)
  BY <1>1
<1>3. /\ Loads(world) /\ ~GroupsRefused(world.questions)
      /\ \A q \in world.questions : \A mask \in Masks(world.bank, world.questions) :
           TaughtTheSame(q, world.bank, world.questions, mask)
  BY <1>2, OwnTaught
<1>4. ASSUME NEW e \in DOMAIN rows
      PROVE  LET joint == Distracted(world, rows[e])
             IN /\ ~joint.partial
                /\ \A i \in DOMAIN joint.bank : VersionGroups(joint.bank, joint.questions)[i] = SameKey(joint.bank, i)
                /\ \A q \in world.questions : TaughtTheSame(q, joint.bank, joint.questions, DOMAIN joint.bank)
  <2>1. PICK v, donor : v = c.worlds[e] /\ donor = rows[e] /\ Sampled(v) /\ donor = ResidentWorld(v)
    BY <1>1
  <2>2. PICK joint : joint = Distracted(world, donor)
    OBVIOUS
  <2>3. /\ ~joint.partial
        /\ \A i \in DOMAIN joint.bank : VersionGroups(joint.bank, joint.questions)[i] = SameKey(joint.bank, i)
        /\ \A q \in world.questions : TaughtTheSame(q, joint.bank, joint.questions, DOMAIN joint.bank)
    BY <1>2, <2>1, <2>2, DistractedTaught
  <2> QED  BY <2>1, <2>2, <2>3
<1> QED  BY <1>2, <1>3, <1>4 DEF TrainingKeepsAnswers

LEMMA VersionRowsTrue ==
  ASSUME NEW c \in Inventories, c.kind \in VersionKinds, ~Refused(c), NEW rows, rows = RowsOf(c), NEW n \in DOMAIN rows
  PROVE  WorldFollows(rows[n]) /\ (c.kind = "resident" => TrainingKeepsAnswers(rows, n))
<1>1. c.kind \notin FactKinds
  BY DEF FactKinds, VersionKinds
<1>2. CASE c.kind = "repeated"
  <2>1. PICK world : world = RepeatedWorld(c.world, c.events, c.sizes)
    OBVIOUS
  <2>2. rows = <<world>>
    BY <1>1, <1>2, <2>1 DEF RowsOf
  <2>3. n = 1 /\ rows[n] = world
    BY <2>2
  <2>4. c.world \in Nat /\ c.events \in Nat /\ ~Thin(RepeatedBank(c.world, c.events, c.sizes))
    BY <1>2, InventoryAssumption DEF Refused
  <2>5. WorldFollows(world)
    BY <2>1, <2>4, RepeatedTrue
  <2> QED  BY <1>2, <2>3, <2>5
<1>3. CASE c.kind \in {"natural", "conversation"}
  <2>1. PICK world : world = NaturalWorld(c.facts, c.values)
    OBVIOUS
  <2>2. rows = <<world>>
    BY <1>1, <1>3, <2>1 DEF RowsOf
  <2>3. n = 1 /\ rows[n] = world
    BY <2>2
  <2>4. NaturalFile(c)
    BY <1>3, InventoryAssumption
  <2>5. WorldFollows(world)
    BY <2>1, <2>4, NaturalTrue DEF NaturalFile
  <2> QED  BY <1>3, <2>3, <2>5
<1>4. CASE c.kind = "resident"
  <2>1. \A k \in DOMAIN c.worlds : Sampled(c.worlds[k])
    BY <1>4, InventoryAssumption
  <2>2. rows = [k \in DOMAIN c.worlds |-> ResidentWorld(c.worlds[k])]
    BY <1>1, <1>4 DEF RowsOf
  <2>3. PICK w, world : w = c.worlds[n] /\ Sampled(w) /\ world = rows[n] /\ world = ResidentWorld(w)
    BY <2>1, <2>2
  <2>4. PICK b : b = ResidentBank(w) /\ b = world.bank
    BY <2>3, ResidentQuestions
  <2>5. Replayed(b)
    BY <2>3, <2>4, ResidentBankIs DEF BankOf
  <2>6. \A q \in world.questions : Follows(b, q)
    BY <2>3, <2>4, AllAnswerable DEF Answerable
  <2>7. WorldFollows(world)
    BY <2>4, <2>5, <2>6, ReplayedValid DEF WorldFollows
  <2>8. TrainingKeepsAnswers(rows, n)
    BY <1>4, <2>1, TrainingKeeps
  <2> QED  BY <2>3, <2>7, <2>8
<1> QED  BY <1>2, <1>3, <1>4 DEF VersionKinds

\* Answers follow the replay: of whatever a generator of versions has built,
\* the gold of every question is what a replay of its bank answers, the
\* validator accepts the bank and resolves every question to its gold, of every
\* update one candidate is the predecessor, and the stores the resident memory
\* is trained on - whole, with facts left out, or with another world's facts
\* added - keep every answer; for any facts, any number of events, and any
\* worlds that can be drawn.
THEOREM AnswersAlwaysFollow == DataSpec => []AnswersFollowReplay
<1>1. RowsOK => AnswersFollowReplay
  <2> SUFFICES ASSUME RowsOK, NEW n \in DOMAIN VersionRows
               PROVE  /\ WorldFollows(VersionRows[n])
                      /\ corpus.kind = "resident" => TrainingKeepsAnswers(VersionRows, n)
    BY DEF AnswersFollowReplay, WorldFollows, Follows
  <2>1. VersionRows # <<>>
    OBVIOUS
  <2>2. VersionRows = process.rows /\ corpus.kind \in VersionKinds
    BY <2>1 DEF VersionRows, Rows
  <2>3. VersionRows = RowsOf(corpus) /\ ~Refused(corpus) /\ corpus \in Inventories
    BY <2>1, <2>2 DEF RowsOK
  <2> QED  BY <2>2, <2>3, VersionRowsTrue
<1> QED  BY <1>1, RowsAlways, PTL
=============================================================================
