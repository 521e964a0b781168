---------------------------- MODULE TrainingData ---------------------------
\* What the trainers of typed memory stand on: the data they learn from, and
\* the measure they are selected by.  The two share nothing but the shape of a
\* world; a behaviour is one of either.
EXTENDS Curricula, LinkEvaluation

CONSTANT Parts  \* a subset of {"data", "measure"}

VARIABLE part

dataVars == <<part, curriculaVars, linkVars>>

\* What does not take part stands still at one of its initial states.
DataInit ==
  /\ part \in Parts
  /\ \/ part = "data" /\ measured = CHOOSE m \in [bank : LinkBanks, by : Measures] : TRUE
     \/ part = "measure" /\ corpus = CHOOSE c \in Inventories : TRUE
  /\ CurriculaInit /\ LinkInit
Generating == part = "data" /\ CurriculaNext /\ UNCHANGED <<part, linkVars>>
Measuring == part = "measure" /\ LinkNext /\ UNCHANGED <<part, curriculaVars>>
DataNext == Generating \/ Measuring

DataSpec == DataInit /\ [][DataNext]_dataVars
=============================================================================
