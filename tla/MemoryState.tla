---------------------------- MODULE MemoryState ----------------------------
(***************************************************************************)
(* The memory of the interactive program tools/c_neural_server.c, kept by  *)
(* src/memory_state.c: sessions of episodes, the features cached for each  *)
(* (rows and their mean), and the .bnstate file they are saved to.  A save *)
(* writes over the file in place, so that it may be cut at any word; a     *)
(* load empties the table before it knows whether the file is whole.       *)
(*                                                                         *)
(* Features are named by the text they were computed from.  Whether the    *)
(* encoder can compute them is a choice, each time.                        *)
(***************************************************************************)
EXTENDS Naturals, Sequences, SequencesExt

CONSTANTS
  Ids,         \* names of sessions
  Facts,       \* messages that is_fact lets through
  Modes,       \* "plain" without memory, "memory", "ranking" with the joint head
  OldFiles,    \* what earlier versions left: a version and the sessions in it
  MaxEpisodes  \* bound: episodes of a session

VARIABLES
  repl,      \* the program: its mode, "down" when it does not run, and whether
             \* the main loop holds the session "demo"
  sessions,  \* the table of sessions
  bnstate,   \* the words of the file, NoFile when there is none
  image      \* history: the table the file holds, in a tuple, or NoImage if it was cut

stateVars == <<repl, sessions, bnstate, image>>

Unset == "unset"
NoFile == <<<<"no file">>>>
NoImage == <<>>
Down == [mode |-> "down", demo |-> FALSE]

Session(id) == [id |-> id, episodes |-> <<>>, valid |-> FALSE]
Episode(text) == [text |-> text, mean |-> Unset, rows |-> Unset]
Find(table, id) == {i \in DOMAIN table : table[i].id = id}

Tables ==
  Seq([id : Ids, valid : BOOLEAN,
       episodes : Seq([text : Facts, mean : Facts \cup {Unset}, rows : Facts \cup {Unset}])])

(* The features of an episode are those of its own text; with rows it has a  *)
(* mean, with a mean its session says so.                                    *)
OwnFeatures(s) ==
  \A j \in DOMAIN s.episodes : LET e == s.episodes[j] IN
    /\ e.mean \in {Unset, e.text} /\ e.rows \in {Unset, e.text}
    /\ e.rows # Unset => e.mean # Unset
    /\ e.mean # Unset => s.valid

(* Version 1 knew no features, version 2 means only.                         *)
KnownTo(version, s) ==
  /\ version = 1 => ~s.valid
  /\ version < 3 => \A j \in DOMAIN s.episodes : s.episodes[j].rows = Unset

ASSUME StateConstants ==
  /\ "demo" \in Ids
  /\ Modes \subseteq {"plain", "memory", "ranking"}
  /\ \A old \in OldFiles :
       /\ old.version \in 1..3 /\ old.table \in Tables
       /\ \A i \in DOMAIN old.table :
            OwnFeatures(old.table[i]) /\ KnownTo(old.version, old.table[i])
-----------------------------------------------------------------------------
Flag(b) == <<"flag", b>>

\* Fault of SessionWords: no flag where there are no rows.
SessionWordsFlagless(s, version) ==
  LET all == s.episodes IN
  <<<<"id", s.id>>, <<"count", Len(all)>>>> \o [j \in DOMAIN all |-> <<"text", all[j].text>>]
    \o (IF version < 2 THEN <<>>
        ELSE IF ~s.valid THEN <<Flag(0)>>
        ELSE <<Flag(1)>> \o [j \in DOMAIN all |-> <<"mean", all[j].mean>>])
    \o (IF version < 3 \/ \A j \in DOMAIN all : all[j].rows = Unset THEN <<>>
        ELSE <<Flag(1)>> \o [j \in DOMAIN all |-> <<"rows", all[j].rows>>])

(* ms_save: the words of a session, and of the file.  The means are written  *)
(* when means_valid is set, the rows when the arrays were ever allocated.    *)
SessionWords(s, version) ==
  LET all == s.episodes IN
  <<<<"id", s.id>>, <<"count", Len(all)>>>> \o [j \in DOMAIN all |-> <<"text", all[j].text>>]
    \o (IF version < 2 THEN <<>>
        ELSE IF ~s.valid THEN <<Flag(0)>>
        ELSE <<Flag(1)>> \o [j \in DOMAIN all |-> <<"mean", all[j].mean>>])
    \o (IF version < 3 THEN <<>>
        ELSE IF all = <<>> THEN <<Flag(0)>>
        ELSE <<Flag(1)>> \o [j \in DOMAIN all |-> <<"rows", all[j].rows>>])

Encoded(table, version) ==
  <<<<"BNST", version, Len(table)>>>>
    \o FlattenSeq([i \in DOMAIN table |-> SessionWords(table[i], version)])

(* ms_load: the session whose words begin at `from` and where the next one   *)
(* begins, or nothing if its words are not all there.                        *)
SessionAt(words, version, from) ==
  LET number(k) == IF k <= Len(words) THEN words[k][2] ELSE 0
      n == number(from + 1)
      meansAt == from + 2 + n
      means == IF version >= 2 THEN number(meansAt) * n ELSE 0
      rowsAt == meansAt + 1 + means
      rows == IF version >= 3 THEN number(rowsAt) * n ELSE 0
      end == CASE version = 1 -> meansAt - 1 [] version = 2 -> rowsAt - 1 [] version = 3 -> rowsAt + rows
  IN IF from >= Len(words) \/ end > Len(words) THEN <<>>
     ELSE <<[next |-> end + 1,
             session |->
               [id |-> words[from][2],
                episodes |-> [j \in 1..n |->
                  [text |-> words[from + 1 + j][2],
                   mean |-> IF means > 0 THEN words[meansAt + j][2] ELSE Unset,
                   rows |-> IF rows > 0 THEN words[rowsAt + j][2] ELSE Unset]],
                valid |-> version >= 2 /\ number(meansAt) = 1]]>>

Recognized(words) ==
  words # <<>> /\ words[1][1] = "BNST" /\ words[1][2] \in 1..3

(* The whole table, in a tuple, or nothing.                                  *)
Decoded(words) ==
  LET read[i \in 0..words[1][3]] ==
        IF i = 0 THEN <<[next |-> 2, table |-> <<>>]>>
        ELSE LET before == read[i - 1]
                 here == IF before = <<>> THEN <<>> ELSE SessionAt(words, words[1][2], before[1].next)
             IN IF here = <<>> THEN <<>>
                ELSE <<[next |-> here[1].next, table |-> Append(before[1].table, here[1].session)]>>
      result == read[words[1][3]]
  IN IF result = <<>> THEN <<>> ELSE <<result[1].table>>

(* A file that is not recognized leaves the table alone; one that turns out  *)
(* to be cut leaves it empty.                                                *)
TableAfterLoad ==
  IF ~Recognized(bnstate) THEN sessions ELSE
  IF Decoded(bnstate) = <<>> THEN <<>> ELSE Decoded(bnstate)[1]
-----------------------------------------------------------------------------
StateInit ==
  /\ repl = Down
  /\ sessions = <<>>
  /\ \/ bnstate = NoFile /\ image = NoImage
     \/ \E old \in OldFiles : bnstate = Encoded(old.table, old.version) /\ image = <<old.table>>

(* main: --load-state is used with a memory model only, and whether it loads *)
(* is not looked at; the session "demo" is found or made.                    *)
StartProgram(mode, loads) ==
  /\ repl = Down
  /\ LET table == IF loads /\ mode # "plain" THEN TableAfterLoad ELSE <<>> IN
     sessions' = IF mode # "plain" /\ Find(table, "demo") = {}
                 THEN Append(table, Session("demo")) ELSE table
  /\ repl' = [mode |-> mode, demo |-> mode # "plain"]
  /\ UNCHANGED <<bnstate, image>>

Demo == CHOOSE i \in Find(sessions, "demo") : TRUE
Remembering == repl.mode \in {"memory", "ranking"} /\ repl.demo

\* Fault of WithFeatures: the mean goes to the last episode.
WithFeaturesMeanLast(s, done) ==
  [s EXCEPT !.episodes = [j \in DOMAIN @ |->
              [@[j] EXCEPT !.rows = IF j \in done THEN s.episodes[j].text ELSE @,
                           !.mean = IF j = Len(s.episodes) /\ done # {}
                                    THEN s.episodes[Max(done)].text ELSE @]],
            !.valid = @ \/ done # {}]

(* ms_set_rows and ms_set_mean for the episodes in `done`.                   *)
WithFeatures(s, done) ==
  [s EXCEPT !.episodes = [j \in DOMAIN @ |->
              IF j \in done THEN [text |-> @[j].text, mean |-> @[j].text, rows |-> @[j].text]
              ELSE @[j]],
            !.valid = @ \/ done # {}]

(* A fact is stored verbatim; with the joint head its features are cached if *)
(* the encoder has any for it.                                               *)
StateFact(text) ==
  /\ Remembering /\ Len(sessions[Demo].episodes) < MaxEpisodes
  /\ LET longer == [sessions[Demo] EXCEPT !.episodes = Append(@, Episode(text))] IN
     \E done \in SUBSET (IF repl.mode = "ranking" THEN {Len(longer.episodes)} ELSE {}) :
       sessions' = [sessions EXCEPT ![Demo] = WithFeatures(longer, done)]
  /\ UNCHANGED <<repl, bnstate, image>>

(* A question first computes the rows that are missing, of all episodes; the *)
(* ranking and the route only read.                                          *)
MissingRows == {j \in DOMAIN sessions[Demo].episodes : sessions[Demo].episodes[j].rows = Unset}
AskQuestion ==
  /\ Remembering /\ repl.mode = "ranking"
  /\ \E done \in SUBSET MissingRows :
       sessions' = [sessions EXCEPT ![Demo] = WithFeatures(@, done)]
  /\ UNCHANGED <<repl, bnstate, image>>

(* /save, or the save at the end of a program that was given --save-state.   *)
Words == Encoded(sessions, 3)
Leaves(exits) ==
  /\ exits => repl.mode # "plain"
  /\ repl' = IF exits THEN Down ELSE repl
  /\ sessions' = IF exits THEN <<>> ELSE sessions

SaveState(exits) ==
  /\ repl # Down
  /\ <<"mean", Unset>> \notin ToSet(Words)
  /\ bnstate' = Words /\ image' = <<sessions>>
  /\ Leaves(exits)

(* The save is cut: a write fails, the program is killed, or it comes to a   *)
(* mean that is NULL.                                                        *)
SaveCut ==
  /\ repl # Down
  /\ \E n \in 0..(Len(Words) - 1) :
       /\ <<"mean", Unset>> \notin ToSet(SubSeq(Words, 1, n))
       /\ bnstate' = SubSeq(Words, 1, n)
  /\ image' = NoImage
  /\ \E dies \in BOOLEAN :
       /\ repl' = IF dies THEN Down ELSE repl
       /\ sessions' = IF dies THEN <<>> ELSE sessions

(* /load: afterwards the loop holds what "demo" is in the table, if anything.*)
LoadState ==
  /\ repl # Down
  /\ sessions' = TableAfterLoad
  /\ repl' = [repl EXCEPT !.demo = repl.mode # "plain" /\ Find(TableAfterLoad, "demo") # {}]
  /\ UNCHANGED <<bnstate, image>>

(* The program ends without a save.                                          *)
EndProgram ==
  /\ repl # Down
  /\ repl' = Down /\ sessions' = <<>>
  /\ UNCHANGED <<bnstate, image>>

StateNext ==
  \/ \E mode \in Modes, loads \in BOOLEAN : StartProgram(mode, loads)
  \/ \E text \in Facts : StateFact(text)
  \/ AskQuestion
  \/ \E exits \in BOOLEAN : SaveState(exits)
  \/ SaveCut
  \/ LoadState
  \/ EndProgram
-----------------------------------------------------------------------------
(* What a file holds is all there or refused: a file that was saved to its   *)
(* end, by this or an earlier version, gives back the table it was made of,  *)
(* features and all; one that was cut, at whatever word, never passes for a  *)
(* smaller memory.                                                           *)
StateRoundTrips ==
  /\ image # NoImage => Recognized(bnstate)
  /\ Recognized(bnstate) => Decoded(bnstate) = image

(* The features that rank an episode are those of its own text, through      *)
(* late computation, files without features and files with a part of them;   *)
(* and an episode that has rows has a mean and a session that says so, so    *)
(* that a save does not drop it.                                             *)
FeaturesMatchTexts == \A i \in DOMAIN sessions : OwnFeatures(sessions[i])

(* "1 when every episode has a mean" (memory_state.h:34).  ms_set_mean sets  *)
(* it when one has, and a save then comes to a mean that is NULL.            *)
ValidMeansAll ==
  \A i \in DOMAIN sessions : sessions[i].valid =>
    \A j \in DOMAIN sessions[i].episodes : sessions[i].episodes[j].mean # Unset
=============================================================================
