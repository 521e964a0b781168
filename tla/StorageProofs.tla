--------------------------- MODULE StorageProofs ---------------------------
(***************************************************************************)
(* Of the two ways memory is put on disk, for any contents and any number  *)
(* of them: that a crash at any moment leaves one whole generation, and    *)
(* that a save is atomic to whoever loads; and that a state file gives     *)
(* back the table it was made of or nothing, features and all.             *)
(***************************************************************************)
EXTENDS Storage, InductionProofs

Files == Parts \cup {"manifest"}
Steps == {"write", "sync", "move", "settle"}
           \X {"episodic", "events", "resident", "manifest", "parts"}
-----------------------------------------------------------------------------
(* The blocks of the program of a save, and where they stand in it.          *)
LEMMA PartsBlock ==
  /\ SaveParts \in Seq(Steps) /\ Len(SaveParts) = 6
  /\ SaveParts[1] = <<"write", "episodic">> /\ SaveParts[2] = <<"write", "events">>
  /\ SaveParts[3] = <<"sync", "episodic">> /\ SaveParts[4] = <<"sync", "events">>
  /\ SaveParts[5] = <<"move", "episodic">> /\ SaveParts[6] = <<"move", "events">>
  BY DEF SaveParts, Steps

(* The same for the file only resident models have.                          *)
LEMMA ResidentBlock ==
  /\ SaveResident \in Seq(Steps) /\ Len(SaveResident) = 4
  /\ SaveResident[1] = <<"write", "resident">> /\ SaveResident[2] = <<"sync", "resident">>
  /\ SaveResident[3] = <<"move", "resident">> /\ SaveResident[4] = <<"settle", "resident">>
  BY DEF SaveResident, Steps

(* The same for the manifest, which ends every save.                         *)
LEMMA ManifestBlock ==
  /\ SaveManifest \in Seq(Steps) /\ Len(SaveManifest) = 4
  /\ SaveManifest[1] = <<"write", "manifest">> /\ SaveManifest[2] = <<"sync", "manifest">>
  /\ SaveManifest[3] = <<"move", "manifest">> /\ SaveManifest[4] = <<"settle", "manifest">>
  BY DEF SaveManifest, Steps

(* A sequence that is two, one after the other.                              *)
Joins(j, s, t) ==
  /\ Len(j) = Len(s) + Len(t)
  /\ \A i \in 1 .. Len(s) : j[i] = s[i]
  /\ \A i \in 1 .. Len(t) : j[Len(s) + i] = t[i]

(* What \o gives, in the form the blocks are put together with.              *)
LEMMA Joined ==
  ASSUME NEW S, NEW s \in Seq(S), NEW t \in Seq(S), NEW j, j = s \o t
  PROVE  j \in Seq(S) /\ Joins(j, s, t)
  BY DEF Joins

(* Program = SaveParts, the settling of the parts, SaveResident or nothing,  *)
(* SaveManifest, one after the other.                                        *)
LEMMA ProgramBlocks ==
  /\ Len(Program) = IF Resident THEN 15 ELSE 11
  /\ \A i \in 1 .. 6 : Program[i] = SaveParts[i]
  /\ Program[7] = <<"settle", "parts">>
  /\ Resident => \A i \in 1 .. 4 : Program[7 + i] = SaveResident[i]
  /\ \A i \in 1 .. 4 : Program[Len(Program) - 4 + i] = SaveManifest[i]
<1>1. PICK one : one = << <<"settle", "parts">> >>
  OBVIOUS
<1>2. PICK mid : mid = IF Resident THEN SaveResident ELSE << >>
  OBVIOUS
<1>3. PICK head : head = SaveParts \o one
  OBVIOUS
<1>4. PICK long : long = head \o mid
  OBVIOUS
<1>5. Program = long \o SaveManifest
  BY <1>1, <1>2, <1>3, <1>4 DEF Program
<1>6. one \in Seq(Steps) /\ Len(one) = 1 /\ one[1] = <<"settle", "parts">>
  BY <1>1 DEF Steps
<1>7. mid \in Seq(Steps) /\ Len(mid) = IF Resident THEN 4 ELSE 0
  <2>1. CASE Resident
    BY <2>1, <1>2, ResidentBlock
  <2>2. CASE ~Resident
    BY <2>2, <1>2
  <2> QED BY <2>1, <2>2
<1>8. /\ head \in Seq(Steps) /\ Len(head) = 7 /\ head[7] = <<"settle", "parts">>
      /\ \A i \in 1 .. 6 : head[i] = SaveParts[i]
  <2>1. SaveParts \in Seq(Steps) /\ Len(SaveParts) = 6
    BY PartsBlock
  <2>2. head \in Seq(Steps) /\ Joins(head, SaveParts, one)
    BY <1>3, <1>6, <2>1, Joined
  <2> QED BY <2>1, <2>2, <1>6 DEF Joins
<1>9. /\ long \in Seq(Steps) /\ Len(long) = 7 + Len(mid)
      /\ \A i \in 1 .. 7 : long[i] = head[i]
      /\ \A i \in 1 .. Len(mid) : long[7 + i] = mid[i]
  <2>1. long \in Seq(Steps) /\ Joins(long, head, mid)
    BY <1>4, <1>7, <1>8, Joined
  <2> QED BY <2>1, <1>8 DEF Joins
<1>10. /\ Len(Program) = Len(long) + 4
       /\ \A i \in 1 .. Len(long) : Program[i] = long[i]
       /\ \A i \in 1 .. 4 : Program[Len(long) + i] = SaveManifest[i]
  <2>1. SaveManifest \in Seq(Steps) /\ Len(SaveManifest) = 4
    BY ManifestBlock
  <2>2. Joins(Program, long, SaveManifest)
    BY <1>5, <1>9, <2>1, Joined
  <2> QED BY <2>1, <2>2 DEF Joins
<1>11. Len(long) = IF Resident THEN 11 ELSE 7
  BY <1>7, <1>9
<1>12. \A i \in 1 .. 7 : Program[i] = long[i] /\ long[i] = head[i]
  BY <1>9, <1>10, <1>11
<1>13. Resident => \A i \in 1 .. 4 : Program[7 + i] = SaveResident[i]
  <2> SUFFICES ASSUME Resident, NEW i \in 1 .. 4
               PROVE  Program[7 + i] = SaveResident[i]
    OBVIOUS
  <2>1. mid = SaveResident /\ Len(mid) = 4
    BY <1>2, <1>7
  <2>2. long[7 + i] = mid[i] /\ 7 + i \in 1 .. Len(long)
    BY ONLY <1>9, <2>1, i \in 1 .. 4
  <2>3. Program[7 + i] = long[7 + i]
    BY <2>2, <1>10
  <2> QED BY <2>1, <2>2, <2>3
<1>14. Len(Program) - 4 = Len(long)
  BY <1>10, <1>11
<1> QED BY <1>8, <1>10, <1>11, <1>12, <1>13, <1>14

(* The steps whose order the argument turns on.                              *)
LastStep == IF Resident THEN 15 ELSE 11
SyncOf(x) == CASE x = "episodic" -> 3 [] x = "events" -> 4 [] x = "resident" -> 9
               [] x = "manifest" -> LastStep - 2
MoveOf(p) == CASE p = "episodic" -> 5 [] p = "events" -> 6 [] p = "resident" -> 10
SettleOf(p) == IF p = "resident" THEN 11 ELSE 7

(* Each sync, rename and settling has its place, every file is synced before *)
(* it is renamed, and all files are settled before the manifest is replaced. *)
LEMMA ProgramSteps ==
  /\ Len(Program) = LastStep /\ LastStep \in Nat
  /\ \A i \in 1 .. LastStep, x \in Files :
       /\ Program[i] = <<"sync", x>> <=> i = SyncOf(x)
       /\ Program[i] = <<"write", x>> => i < SyncOf(x)
  /\ \A i \in 1 .. LastStep, p \in Parts :
       /\ Program[i] = <<"move", p>> <=> i = MoveOf(p)
       /\ i = SettleOf(p) => \E x : Program[i] = <<"settle", x>>
  /\ \A p \in Parts :
       /\ SyncOf(p) \in Nat /\ MoveOf(p) \in Nat /\ SettleOf(p) \in Nat
       /\ SyncOf(p) < MoveOf(p) /\ MoveOf(p) < SettleOf(p) /\ SettleOf(p) < LastStep - 1
  /\ \A i \in 1 .. LastStep :
       /\ Program[i] = <<"move", "manifest">> <=> i = LastStep - 1
       /\ i = LastStep <=> Program[i] = <<"settle", "manifest">>
<1>1. CASE Resident
  <2>1. LastStep = 15 /\ Len(Program) = 15 /\ Parts = {"episodic", "events", "resident"}
        /\ Files = {"episodic", "events", "resident", "manifest"}
    BY <1>1, ProgramBlocks DEF Parts, Files, LastStep
  <2>2. /\ Program[1] = <<"write", "episodic">> /\ Program[2] = <<"write", "events">>
        /\ Program[3] = <<"sync", "episodic">> /\ Program[4] = <<"sync", "events">>
        /\ Program[5] = <<"move", "episodic">> /\ Program[6] = <<"move", "events">>
        /\ Program[7] = <<"settle", "parts">> /\ Program[8] = <<"write", "resident">>
    BY <1>1, <2>1, ProgramBlocks, PartsBlock, ResidentBlock
  <2>3. /\ Program[9] = <<"sync", "resident">>
        /\ Program[10] = <<"move", "resident">> /\ Program[11] = <<"settle", "resident">>
        /\ Program[12] = <<"write", "manifest">> /\ Program[13] = <<"sync", "manifest">>
        /\ Program[14] = <<"move", "manifest">> /\ Program[15] = <<"settle", "manifest">>
    BY <1>1, <2>1, ProgramBlocks, ResidentBlock, ManifestBlock
  <2> QED BY <2>1, <2>2, <2>3 DEF SyncOf, MoveOf, SettleOf
<1>2. CASE ~Resident
  <2>1. LastStep = 11 /\ Len(Program) = 11 /\ Parts = {"episodic", "events"}
        /\ Files = {"episodic", "events", "manifest"}
    BY <1>2, ProgramBlocks DEF Parts, Files, LastStep
  <2>2. /\ Program[1] = <<"write", "episodic">> /\ Program[2] = <<"write", "events">>
        /\ Program[3] = <<"sync", "episodic">> /\ Program[4] = <<"sync", "events">>
        /\ Program[5] = <<"move", "episodic">> /\ Program[6] = <<"move", "events">>
        /\ Program[7] = <<"settle", "parts">>
        /\ Program[8] = <<"write", "manifest">> /\ Program[9] = <<"sync", "manifest">>
        /\ Program[10] = <<"move", "manifest">> /\ Program[11] = <<"settle", "manifest">>
    BY <1>2, <2>1, ProgramBlocks, PartsBlock, ManifestBlock
  <2> QED BY <2>1, <2>2 DEF SyncOf, MoveOf, SettleOf
<1> QED BY <1>1, <1>2
-----------------------------------------------------------------------------
Entries == Values \cup {Absent, Torn}

(* The variables have their types; a manifest that may be left is never torn. *)
ShapesOK ==
  /\ at \in 0 .. LastStep
  /\ at # 0 => gen \in Saves
  /\ temp \in [Files -> BOOLEAN]
  /\ blob \in [Parts -> [Values -> [data : Entries, synced : BOOLEAN]]]
  /\ manifest \in [data : Generations \cup {Absent}, synced : BOOLEAN]
  /\ left \in [blob : [Parts -> [Values -> SUBSET Entries]],
              manifest : SUBSET (Generations \cup {Absent})]

(* What a process sees was synced, and is among what a crash may leave.      *)
SeenOK ==
  /\ manifest.synced /\ manifest.data \in left.manifest
  /\ \A p \in Parts, v \in Values : blob[p][v].synced /\ blob[p][v].data \in left.blob[p][v]

(* Every file of g survives a crash.                                         *)
Durable(g) == \A p \in Parts : left.blob[p][g[p]] = {g[p]}

(* A manifest that a crash may leave names files that it leaves, of a        *)
(* generation that may turn up; or there is none yet.                        *)
ManifestsOK ==
  \A m \in left.manifest :
    IF m = Absent THEN Initially \in allowed ELSE m \in allowed /\ Durable(m)

(* How far the save has come: what was synced, moved and settled.            *)
ProgressOK ==
  /\ at # 0 => gen \in allowed
  /\ \A x \in Files : at > SyncOf(x) => temp[x]
  /\ \A p \in Parts : at > MoveOf(p) => blob[p][gen[p]].data = gen[p]
  /\ \A p \in Parts : at > SettleOf(p) => left.blob[p][gen[p]] = {gen[p]}
  /\ at = LastStep => manifest.data = gen

Inv == ShapesOK /\ SeenOK /\ ManifestsOK /\ ProgressOK

-----------------------------------------------------------------------------
(* No place is the first: a save that has just begun has done nothing.       *)
LEMMA Positions ==
  /\ LastStep \in Nat /\ LastStep > 1
  /\ \A x \in Files : SyncOf(x) \in Nat /\ SyncOf(x) > 1
  /\ \A p \in Parts : MoveOf(p) \in Nat /\ MoveOf(p) > 1
  /\ \A p \in Parts : SettleOf(p) \in Nat /\ SettleOf(p) > 1
  BY DEF LastStep, SyncOf, MoveOf, SettleOf, Files, Parts

(* At the start nothing was written.                                         *)
LEMMA InitInv == Init => Inv
<1> SUFFICES ASSUME Init PROVE Inv
  OBVIOUS
<1>1. ShapesOK
  BY Positions DEF Init, ShapesOK, Missing, Entries, Files
<1>2. SeenOK
  BY DEF Init, SeenOK, Missing
<1>3. ManifestsOK
  BY DEF Init, ManifestsOK
<1>4. ProgressOK
  BY Positions DEF Init, ProgressOK
<1> QED BY <1>1, <1>2, <1>3, <1>4 DEF Inv

(* A save begins: the generation it writes may turn up from here on.         *)
LEMMA BeginInv ==
  ASSUME Inv, NEW g \in Saves, Begin(g)
  PROVE  Inv'
<1>1. at' = 1 /\ gen' = g /\ temp' = [x \in Files |-> FALSE] /\ allowed' = allowed \cup {g}
      /\ UNCHANGED <<blob, manifest, left>>
  BY DEF Begin, Files
<1>2. ShapesOK'
  BY <1>1, Positions DEF Inv, ShapesOK
<1>3. SeenOK'
  BY <1>1 DEF Inv, SeenOK
<1>4. ManifestsOK'
  BY <1>1 DEF Inv, ManifestsOK, Durable
<1>5. ProgressOK'
  BY <1>1, Positions DEF Inv, ProgressOK
<1> QED BY <1>2, <1>3, <1>4, <1>5 DEF Inv

(* A step of the program: the save goes on to the next one, or is over.      *)
LEMMA AdvanceOK ==
  ASSUME Inv, NEW op, NEW x, Doing(op, x), Advance
  PROVE  /\ at \in 1 .. LastStep /\ Program[at] = <<op, x>> /\ gen \in Saves /\ gen \in allowed
         /\ at' \in 0 .. LastStep
         /\ at' # 0 => at # LastStep /\ at' = at + 1 /\ gen' = gen
  BY Positions, ProgramSteps DEF Inv, ShapesOK, ProgressOK, Doing, Idle, Advance

(* Only the steps of a file can change how far it has come.                  *)
LEMMA ProgressKept ==
  ASSUME Inv, NEW op, NEW x, Doing(op, x), Advance
  PROVE  /\ op # "sync" => \A y \in Files : at' > SyncOf(y) => at > SyncOf(y)
         /\ op # "move" => \A p \in Parts : at' > MoveOf(p) => at > MoveOf(p)
         /\ op # "settle" => \A p \in Parts : at' > SettleOf(p) => at > SettleOf(p)
         /\ at' = LastStep => <<op, x>> = <<"move", "manifest">>
<1>1. at \in 1 .. LastStep /\ Program[at] = <<op, x>> /\ at' \in 0 .. LastStep
      /\ (at' # 0 => at # LastStep /\ at' = at + 1)
  BY AdvanceOK
<1>2. ASSUME op # "sync", NEW y \in Files, at' > SyncOf(y) PROVE at > SyncOf(y)
  <2>1. at # SyncOf(y)
    BY <1>1, <1>2, ProgramSteps
  <2> QED BY <1>1, <1>2, <2>1, Positions
<1>3. ASSUME op # "move", NEW p \in Parts, at' > MoveOf(p) PROVE at > MoveOf(p)
  <2>1. at # MoveOf(p)
    BY <1>1, <1>3, ProgramSteps
  <2> QED BY <1>1, <1>3, <2>1, Positions
<1>4. ASSUME op # "settle", NEW p \in Parts, at' > SettleOf(p) PROVE at > SettleOf(p)
  <2>1. at # SettleOf(p)
    BY <1>1, <1>4, ProgramSteps
  <2> QED BY <1>1, <1>4, <2>1, Positions
<1>5. ASSUME at' = LastStep PROVE <<op, x>> = <<"move", "manifest">>
  <2>1. at = LastStep - 1
    BY <1>1, <1>5, Positions
  <2> QED BY <1>1, <2>1, ProgramSteps
<1> QED BY <1>2, <1>3, <1>4, <1>5
-----------------------------------------------------------------------------
(* A pending file is written; it was not synced yet.                         *)
LEMMA WriteInv ==
  ASSUME Inv, NEW x \in Files, Write(x)
  PROVE  Inv'
<1>1. Doing("write", x) /\ Advance /\ temp' = [temp EXCEPT ![x] = FALSE]
      /\ UNCHANGED <<blob, manifest, left, allowed>>
  BY DEF Write
<1>2. /\ at \in 1 .. LastStep /\ Program[at] = <<"write", x>> /\ gen \in Saves /\ gen \in allowed
      /\ at' \in 0 .. LastStep /\ (at' # 0 => at # LastStep /\ at' = at + 1 /\ gen' = gen)
  BY <1>1, AdvanceOK
<1>3. ShapesOK'
  BY <1>1, <1>2 DEF Inv, ShapesOK
<1>4. SeenOK'
  BY <1>1 DEF Inv, SeenOK
<1>5. ManifestsOK'
  BY <1>1 DEF Inv, ManifestsOK, Durable
<1>6. ProgressOK'
  <2>1. /\ \A y \in Files : at' > SyncOf(y) => at > SyncOf(y)
        /\ \A p \in Parts : at' > MoveOf(p) => at > MoveOf(p)
        /\ \A p \in Parts : at' > SettleOf(p) => at > SettleOf(p)
        /\ at' # LastStep
    BY <1>1, ProgressKept
  <2>2. ~(at > SyncOf(x))
    BY <1>2, ProgramSteps, Positions
  <2>3. \A y \in Files : at' > SyncOf(y) => temp'[y]
    BY <1>1, <2>1, <2>2 DEF Inv, ShapesOK, ProgressOK
  <2>4. \A p \in Parts : at' > MoveOf(p) => gen' = gen
    BY <1>2, Positions
  <2>5. \A p \in Parts : at' > SettleOf(p) => gen' = gen
    BY <1>2, Positions
  <2> QED BY <1>1, <1>2, <2>1, <2>3, <2>4, <2>5 DEF Inv, ProgressOK
<1> QED BY <1>3, <1>4, <1>5, <1>6 DEF Inv

(* A pending file is synced.                                                 *)
LEMMA SyncInv ==
  ASSUME Inv, NEW x \in Files, Sync(x)
  PROVE  Inv'
<1>1. Doing("sync", x) /\ Advance /\ temp' = [temp EXCEPT ![x] = TRUE]
      /\ UNCHANGED <<blob, manifest, left, allowed>>
  BY DEF Sync
<1>2. /\ at \in 1 .. LastStep /\ Program[at] = <<"sync", x>> /\ gen \in Saves /\ gen \in allowed
      /\ at' \in 0 .. LastStep /\ (at' # 0 => at # LastStep /\ at' = at + 1 /\ gen' = gen)
  BY <1>1, AdvanceOK
<1>3. ShapesOK'
  BY <1>1, <1>2 DEF Inv, ShapesOK
<1>4. SeenOK'
  BY <1>1 DEF Inv, SeenOK
<1>5. ManifestsOK'
  BY <1>1 DEF Inv, ManifestsOK, Durable
<1>6. ProgressOK'
  <2>1. /\ \A p \in Parts : at' > MoveOf(p) => at > MoveOf(p)
        /\ \A p \in Parts : at' > SettleOf(p) => at > SettleOf(p)
        /\ at' # LastStep
    BY <1>1, ProgressKept
  <2>2. \A y \in Files : y # x => at # SyncOf(y)
    BY <1>2, ProgramSteps
  <2>3. \A y \in Files : at' > SyncOf(y) => temp'[y]
    <3>1. temp'[x] /\ \A y \in Files : y # x => temp'[y] = temp[y]
      BY <1>1 DEF Inv, ShapesOK
    <3>2. \A y \in Files : y # x /\ at' > SyncOf(y) => at > SyncOf(y)
      BY <1>2, <2>2, Positions
    <3> QED BY <3>1, <3>2 DEF Inv, ProgressOK
  <2>4. \A p \in Parts : at' > MoveOf(p) => gen' = gen
    BY <1>2, Positions
  <2>5. \A p \in Parts : at' > SettleOf(p) => gen' = gen
    BY <1>2, Positions
  <2> QED BY <1>1, <1>2, <2>1, <2>3, <2>4, <2>5 DEF Inv, ProgressOK
<1> QED BY <1>3, <1>4, <1>5, <1>6 DEF Inv

(* A rename of a file that was synced: what it leaves after a crash is what  *)
(* was there, or the file.                                                   *)
LEMMA MoveInv ==
  ASSUME Inv, NEW p \in Parts, Move(p)
  PROVE  Inv'
<1> DEFINE f == [data |-> gen[p], synced |-> temp[p]]
<1>1. /\ Doing("move", p) /\ Advance /\ UNCHANGED <<temp, manifest, allowed>>
      /\ blob' = [blob EXCEPT ![p][gen[p]] = f]
      /\ left' = [left EXCEPT !.blob[p][gen[p]] = @ \cup Outcomes(f)]
  BY DEF Move
<1>2. /\ at \in 1 .. LastStep /\ Program[at] = <<"move", p>> /\ gen \in Saves /\ gen \in allowed
      /\ at' \in 0 .. LastStep /\ (at' # 0 => at # LastStep /\ at' = at + 1 /\ gen' = gen)
  BY <1>1, AdvanceOK
<1>3. gen \in Generations /\ \A q \in Parts : gen[q] \in Values
  BY <1>2, SavesAssumption DEF Generations
<1>4. temp[p] = TRUE
  <2>1. at = MoveOf(p) /\ SyncOf(p) < MoveOf(p)
    BY <1>2, ProgramSteps
  <2>2. temp[p]
    BY <2>1, Positions DEF Inv, ProgressOK, Files
  <2> QED BY <2>2 DEF Inv, ShapesOK, Files
<1>5. f = [data |-> gen[p], synced |-> TRUE] /\ Outcomes(f) = {gen[p]}
  BY <1>4 DEF Outcomes
<1>6. /\ blob' = [blob EXCEPT ![p][gen[p]] = [data |-> gen[p], synced |-> TRUE]]
      /\ left' = [left EXCEPT !.blob[p][gen[p]] = @ \cup {gen[p]}]
  BY <1>1, <1>5
<1> HIDE DEF f
<1> DEFINE old == left.blob
           new == [old EXCEPT ![p][gen[p]] = old[p][gen[p]] \cup {gen[p]}]
<1>7. /\ left'.blob = new /\ left'.manifest = left.manifest
      /\ left' \in [blob : {new}, manifest : {left.manifest}]
  BY <1>6 DEF Inv, ShapesOK
<1>8. /\ old \in [Parts -> [Values -> SUBSET Entries]]
      /\ new \in [Parts -> [Values -> SUBSET Entries]]
      /\ new[p][gen[p]] = old[p][gen[p]] \cup {gen[p]}
      /\ \A q \in Parts, v \in Values : q # p \/ v # gen[p] => new[q][v] = old[q][v]
  BY <1>3 DEF Inv, ShapesOK, Entries
<1>9. /\ blob' \in [Parts -> [Values -> [data : Entries, synced : BOOLEAN]]]
      /\ blob'[p][gen[p]] = [data |-> gen[p], synced |-> TRUE]
      /\ \A q \in Parts, v \in Values : q # p \/ v # gen[p] => blob'[q][v] = blob[q][v]
  <2>1. [data |-> gen[p], synced |-> TRUE] \in [data : Entries, synced : BOOLEAN]
    BY <1>3 DEF Entries
  <2> QED BY <2>1, <1>3, <1>6 DEF Inv, ShapesOK
<1> HIDE DEF new
<1>10. ShapesOK'
  BY <1>1, <1>2, <1>7, <1>8, <1>9 DEF Inv, ShapesOK
<1>11. SeenOK'
  <2> SUFFICES ASSUME NEW q \in Parts, NEW v \in Values
               PROVE  blob'[q][v].synced /\ blob'[q][v].data \in new[q][v]
    BY <1>1, <1>7 DEF Inv, SeenOK
  <2>1. CASE q = p /\ v = gen[p]
    BY <2>1, <1>8, <1>9
  <2>2. CASE q # p \/ v # gen[p]
    <3>1. blob'[q][v] = blob[q][v] /\ new[q][v] = old[q][v]
      BY <2>2, <1>8, <1>9
    <3>2. blob[q][v].synced /\ blob[q][v].data \in old[q][v]
      BY DEF Inv, SeenOK
    <3> HIDE DEF old
    <3> QED BY <3>1, <3>2
  <2> QED BY <2>1, <2>2
<1>12. \A q \in Parts, v \in Values : old[q][v] = {v} => new[q][v] = {v}
  BY <1>8
<1>13. ManifestsOK'
  <2>1. ASSUME NEW m \in left.manifest, m # Absent PROVE Durable(m)'
    <3>1. Durable(m) /\ \A q \in Parts : m[q] \in Values
      BY <2>1 DEF Inv, ShapesOK, ManifestsOK, Generations
    <3> QED BY <3>1, <1>7, <1>12 DEF Durable
  <2> QED BY <1>1, <1>7, <2>1 DEF Inv, ManifestsOK
<1>14. ProgressOK'
  <2>1. /\ \A y \in Files : at' > SyncOf(y) => at > SyncOf(y)
        /\ \A q \in Parts : at' > SettleOf(q) => at > SettleOf(q)
        /\ at' # LastStep
    <3>1. p # "manifest"
      BY DEF Parts
    <3> QED BY <3>1, <1>1, ProgressKept
  <2>2. \A q \in Parts : q # p => at # MoveOf(q)
    BY <1>2, ProgramSteps
  <2>3. \A q \in Parts : q # p /\ at' > MoveOf(q) => at > MoveOf(q)
    BY <1>2, <2>2, Positions
  <2>4. \A q \in Parts : at' > MoveOf(q) \/ at' > SettleOf(q) => gen' = gen
    BY <1>2, Positions
  <2>5. ASSUME NEW q \in Parts, at' > MoveOf(q) PROVE blob'[q][gen'[q]].data = gen'[q]
    <3>1. gen' = gen /\ gen[q] \in Values
      BY <1>3, <2>4, <2>5
    <3>2. CASE q = p
      BY <3>1, <3>2, <1>9
    <3>3. CASE q # p
      BY <3>1, <3>3, <1>9, <2>3, <2>5 DEF Inv, ProgressOK
    <3> QED BY <3>2, <3>3
  <2>6. ASSUME NEW q \in Parts, at' > SettleOf(q) PROVE left'.blob[q][gen'[q]] = {gen'[q]}
    BY <1>3, <1>7, <1>12, <2>1, <2>4, <2>6 DEF Inv, ProgressOK
  <2> QED BY <1>1, <1>2, <2>1, <2>5, <2>6 DEF Inv, ProgressOK
<1> QED BY <1>10, <1>11, <1>13, <1>14 DEF Inv

(* The manifest is replaced when every file it names survives a crash.       *)
LEMMA MoveManifestInv ==
  ASSUME Inv, MoveManifest
  PROVE  Inv' /\ manifest'.data = gen /\ gen \in allowed /\ gen \in Saves /\ Durable(gen)
<1> DEFINE f == [data |-> gen, synced |-> temp["manifest"]]
<1>1. /\ Doing("move", "manifest") /\ Advance /\ UNCHANGED <<temp, blob, allowed>>
      /\ manifest' = f
      /\ left' = [left EXCEPT !.manifest = @ \cup Outcomes(f)]
  BY DEF MoveManifest
<1>2. /\ at \in 1 .. LastStep /\ Program[at] = <<"move", "manifest">> /\ gen \in Saves
      /\ gen \in allowed
      /\ at' \in 0 .. LastStep /\ (at' # 0 => at # LastStep /\ at' = at + 1 /\ gen' = gen)
  BY <1>1, AdvanceOK
<1>3. gen \in Generations /\ gen # Absent
  BY <1>2, SavesAssumption, ManifestAssumption
<1>4. at = LastStep - 1
  BY <1>2, ProgramSteps
<1>5. temp["manifest"] = TRUE
  <2>1. "manifest" \in Files /\ SyncOf("manifest") = LastStep - 2
    BY DEF SyncOf, Files
  <2>2. temp["manifest"]
    BY <1>4, <2>1, Positions DEF Inv, ProgressOK
  <2> QED BY <2>1, <2>2 DEF Inv, ShapesOK
<1>6. f = [data |-> gen, synced |-> TRUE] /\ Outcomes(f) = {gen}
  BY <1>5 DEF Outcomes
<1>7. /\ manifest' = [data |-> gen, synced |-> TRUE]
      /\ left'.blob = left.blob /\ left'.manifest = left.manifest \cup {gen}
      /\ left' \in [blob : {left.blob}, manifest : {left.manifest \cup {gen}}]
  BY <1>1, <1>6 DEF Inv, ShapesOK
<1> HIDE DEF f
<1>8. Durable(gen)
  <2>1. \A p \in Parts : at > SettleOf(p)
    BY <1>4, ProgramSteps, Positions
  <2> QED BY <2>1 DEF Inv, ProgressOK, Durable
<1>9. ShapesOK'
  <2>1. manifest' \in [data : Generations \cup {Absent}, synced : BOOLEAN]
    BY <1>3, <1>7
  <2>2. left' \in [blob : [Parts -> [Values -> SUBSET Entries]],
                  manifest : SUBSET (Generations \cup {Absent})]
    BY <1>3, <1>7 DEF Inv, ShapesOK
  <2> QED BY <1>1, <1>2, <2>1, <2>2 DEF Inv, ShapesOK
<1>10. SeenOK'
  <2>1. manifest'.synced /\ manifest'.data = gen /\ gen \in left'.manifest
    BY <1>7
  <2> QED BY <1>1, <1>7, <2>1 DEF Inv, SeenOK
<1>11. ManifestsOK'
  <2>1. \A m : Durable(m)' <=> Durable(m)
    BY <1>7 DEF Durable
  <2>2. ASSUME NEW m \in left'.manifest, m # gen PROVE m \in left.manifest
    BY <1>7, <2>2
  <2>3. \A m \in left.manifest :
          IF m = Absent THEN Initially \in allowed' ELSE m \in allowed' /\ Durable(m)
    BY <1>1 DEF Inv, ManifestsOK
  <2> QED BY <1>1, <1>2, <1>3, <1>8, <2>1, <2>2, <2>3 DEF ManifestsOK
<1>12. ProgressOK'
  <2>1. /\ \A y \in Files : at' > SyncOf(y) => at > SyncOf(y)
        /\ \A q \in Parts : at' > SettleOf(q) => at > SettleOf(q)
    BY <1>1, ProgressKept
  <2>2. "manifest" \notin Parts
    BY DEF Parts
  <2>3. \A q \in Parts : at' > MoveOf(q) => at > MoveOf(q)
    BY <1>2, <2>2, ProgramSteps, Positions
  <2>4. at' # 0 => gen' = gen
    BY <1>2
  <2> QED BY <1>1, <1>2, <1>7, <2>1, <2>3, <2>4, Positions DEF Inv, ProgressOK
<1> QED BY <1>2, <1>7, <1>8, <1>9, <1>10, <1>11, <1>12 DEF Inv

(* Nothing is left open where the directory was synced; the last sync makes  *)
(* the new generation the only one.                                          *)
LEMMA SyncParentInv ==
  ASSUME Inv, NEW x, SyncParent(x)
  PROVE  Inv' /\ (at = LastStep => manifest.data = gen /\ gen \in Saves)
<1>1. /\ Doing("settle", x) /\ Advance /\ UNCHANGED <<temp, blob, manifest>>
      /\ left' = Settled /\ allowed' = IF at = Len(Program) THEN {gen} ELSE allowed
  BY DEF SyncParent
<1>2. /\ at \in 1 .. LastStep /\ Program[at] = <<"settle", x>> /\ gen \in Saves /\ gen \in allowed
      /\ at' \in 0 .. LastStep /\ (at' # 0 => at # LastStep /\ at' = at + 1 /\ gen' = gen)
  BY <1>1, AdvanceOK
<1>3. gen \in Generations /\ gen # Absent /\ \A q \in Parts : gen[q] \in Values
  BY <1>2, SavesAssumption, ManifestAssumption DEF Generations
<1>4. /\ left'.manifest = {manifest.data}
      /\ \A p \in Parts, v \in Values : left'.blob[p][v] = {blob[p][v].data}
      /\ left' \in [blob : [Parts -> [Values -> SUBSET Entries]],
                    manifest : SUBSET (Generations \cup {Absent})]
  BY <1>1 DEF Settled, Outcomes, Inv, ShapesOK, SeenOK
<1>5. at = LastStep => manifest.data = gen
  BY DEF Inv, ProgressOK
<1>6. Len(Program) = LastStep
  BY ProgramSteps
<1>7. ShapesOK'
  BY <1>1, <1>2, <1>4 DEF Inv, ShapesOK
<1>8. SeenOK'
  BY <1>1, <1>4 DEF Inv, SeenOK
<1>9. ManifestsOK'
  <2>1. manifest.data \in left.manifest /\ manifest.data \in Generations \cup {Absent}
    BY DEF Inv, SeenOK, ShapesOK
  <2>2. manifest.data # Absent => Durable(manifest.data)'
    <3> SUFFICES ASSUME manifest.data # Absent, NEW p \in Parts
                 PROVE  left'.blob[p][manifest.data[p]] = {manifest.data[p]}
      BY <1>1 DEF Durable
    <3>1. manifest.data[p] \in Values /\ left.blob[p][manifest.data[p]] = {manifest.data[p]}
      BY <2>1 DEF Inv, ManifestsOK, Durable, Generations
    <3>2. blob[p][manifest.data[p]].data = manifest.data[p]
      BY <3>1 DEF Inv, SeenOK
    <3> QED BY <1>4, <3>1, <3>2
  <2> QED BY <1>1, <1>3, <1>4, <1>5, <1>6, <2>1, <2>2 DEF Inv, ManifestsOK, Durable
<1>10. ProgressOK'
  <2>1. /\ \A y \in Files : at' > SyncOf(y) => at > SyncOf(y)
        /\ \A q \in Parts : at' > MoveOf(q) => at > MoveOf(q)
        /\ at' # LastStep
    BY <1>1, ProgressKept
  <2>2. \A q \in Parts : at' > SettleOf(q) => at > MoveOf(q)
    BY <2>1, <1>2, ProgramSteps, Positions
  <2>3. \A q \in Parts : at' > MoveOf(q) \/ at' > SettleOf(q) => gen' = gen
    BY <1>2, Positions
  <2>4. \A q \in Parts : at' > SettleOf(q) => left'.blob[q][gen'[q]] = {gen'[q]}
    BY <1>3, <1>4, <2>2, <2>3 DEF Inv, ProgressOK
  <2>5. at' # 0 => gen' \in allowed'
    BY <1>1, <1>2, <1>6
  <2> QED BY <1>1, <2>1, <2>3, <2>4, <2>5 DEF Inv, ProgressOK
<1> QED BY <1>2, <1>5, <1>7, <1>8, <1>9, <1>10 DEF Inv

(* A save that gives up, or is killed, leaves the entries as they are.       *)
LEMMA FailInv ==
  ASSUME Inv, Fail
  PROVE  Inv'
<1>1. at' = 0 /\ UNCHANGED <<temp, blob, manifest, left, allowed>>
  BY DEF Fail
<1>2. ShapesOK'
  BY <1>1, Positions DEF Inv, ShapesOK
<1>3. SeenOK'
  BY <1>1 DEF Inv, SeenOK
<1>4. ManifestsOK'
  BY <1>1 DEF Inv, ManifestsOK, Durable
<1>5. ProgressOK'
  BY <1>1, Positions DEF ProgressOK
<1> QED BY <1>2, <1>3, <1>4, <1>5 DEF Inv
-----------------------------------------------------------------------------
(* Whatever may be left of the files, with a manifest that may be left, is   *)
(* a whole generation that may turn up.                                      *)
LEMMA Whole ==
  ASSUME Inv, NEW m \in left.manifest, NEW b,
         \A p \in Parts, v \in Values : b[p][v] \in left.blob[p][v]
  PROVE  /\ Loaded(m, b) = IF m = Absent THEN Initially ELSE m
         /\ Loaded(m, b) \in allowed
<1>1. CASE m = Absent
  BY <1>1 DEF Inv, ManifestsOK, Loaded, Initially
<1>2. CASE m # Absent
  <2>1. m \in Generations /\ m # Torn
    BY <1>2, ManifestAssumption DEF Inv, ShapesOK
  <2>2. m \in allowed /\ \A p \in Parts : left.blob[p][m[p]] = {m[p]}
    BY <1>2 DEF Inv, ManifestsOK, Durable
  <2>3. \A p \in Parts : b[p][m[p]] = m[p]
    BY <2>1, <2>2 DEF Generations
  <2> QED BY <1>2, <2>1, <2>2, <2>3 DEF Loaded
<1> QED BY <1>1, <1>2

(* What a crash leaves of a file is one of the things it may leave.          *)
LEMMA SurvivorsLeft ==
  ASSUME NEW b \in AfterCrash, NEW p \in Parts, NEW v \in Values
  PROVE  b[p][v] \in left.blob[p][v] /\ b[p] \in [Values -> Entries]
  BY DEF AfterCrash, Survivors, Entries

(* A crash settles which generation there is: the one that is loaded.        *)
LEMMA CrashInv ==
  ASSUME Inv, Crash
  PROVE  Inv' /\ \E m \in left.manifest, b \in AfterCrash :
                   /\ manifest'.data = m /\ allowed' = {Loaded(m, b)}
                   /\ \A p \in Parts, v \in Values : blob'[p][v].data = b[p][v]
<1>1. at' = 0 /\ temp' = temp
  BY DEF Crash
<1>2. PICK b \in AfterCrash, m \in left.manifest :
        /\ blob' = [p \in Parts |-> [v \in Values |-> [data |-> b[p][v], synced |-> TRUE]]]
        /\ manifest' = [data |-> m, synced |-> TRUE]
        /\ left' = [blob |-> [p \in Parts |-> [v \in Values |-> {b[p][v]}]],
                   manifest |-> {m}]
        /\ allowed' = {Loaded(m, b)}
  BY DEF Crash
<1>3. m \in Generations \cup {Absent}
  BY DEF Inv, ShapesOK
<1>4. \A p \in Parts, v \in Values : b[p][v] \in left.blob[p][v] /\ b[p][v] \in Entries
  BY SurvivorsLeft
<1>5. Loaded(m, b) = IF m = Absent THEN Initially ELSE m
  BY <1>4, Whole
<1>6. /\ left'.manifest = {m} /\ manifest'.data = m /\ manifest'.synced
      /\ \A p \in Parts, v \in Values :
           left'.blob[p][v] = {b[p][v]} /\ blob'[p][v].data = b[p][v] /\ blob'[p][v].synced
  BY <1>2
<1>7. ShapesOK'
  <2>1. blob' \in [Parts -> [Values -> [data : Entries, synced : BOOLEAN]]]
    BY <1>2, <1>4
  <2>2. left' \in [blob : [Parts -> [Values -> SUBSET Entries]],
                  manifest : SUBSET (Generations \cup {Absent})]
    BY <1>2, <1>3, <1>4
  <2>3. manifest' \in [data : Generations \cup {Absent}, synced : BOOLEAN]
    BY <1>2, <1>3
  <2> QED BY <1>1, <2>1, <2>2, <2>3, Positions DEF Inv, ShapesOK
<1>8. SeenOK'
  BY <1>6 DEF SeenOK
<1>9. ManifestsOK'
  <2>1. CASE m = Absent
    BY <2>1, <1>2, <1>5, <1>6 DEF ManifestsOK
  <2>2. CASE m # Absent
    <3>1. \A p \in Parts : m[p] \in Values /\ left.blob[p][m[p]] = {m[p]}
      BY <2>2, <1>3 DEF Inv, ManifestsOK, Durable, Generations
    <3>2. ASSUME NEW p \in Parts PROVE left'.blob[p][m[p]] = {m[p]}
      <4>1. m[p] \in Values /\ b[p][m[p]] \in left.blob[p][m[p]]
        BY <3>1, <1>4
      <4>2. b[p][m[p]] = m[p]
        BY <3>1, <4>1
      <4> QED BY <4>1, <4>2, <1>6
    <3>3. Durable(m)'
      BY <3>2 DEF Durable
    <3>4. allowed' = {m}
      BY <2>2, <1>2, <1>5
    <3> QED BY <2>2, <3>3, <3>4, <1>6 DEF ManifestsOK
  <2> QED BY <2>1, <2>2
<1>10. ProgressOK'
  BY <1>1, Positions DEF ProgressOK
<1> QED BY <1>2, <1>6, <1>7, <1>8, <1>9, <1>10 DEF Inv
-----------------------------------------------------------------------------
(* Every step keeps the invariant.                                           *)
LEMMA StepInv == Inv /\ [Next]_vars => Inv'
<1> SUFFICES ASSUME Inv, [Next]_vars PROVE Inv'
  OBVIOUS
<1>1. ASSUME NEW g \in Saves, Begin(g) PROVE Inv'
  BY <1>1, BeginInv
<1>2. ASSUME NEW x \in Files, Write(x) \/ Sync(x) PROVE Inv'
  BY <1>2, WriteInv, SyncInv
<1>3. ASSUME NEW p \in Parts, Move(p) PROVE Inv'
  BY <1>3, MoveInv
<1>4. CASE MoveManifest
  BY <1>4, MoveManifestInv
<1>5. ASSUME NEW x, SyncParent(x) PROVE Inv'
  BY <1>5, SyncParentInv
<1>6. CASE Fail
  BY <1>6, FailInv
<1>7. CASE Crash
  BY <1>7, CrashInv
<1>8. CASE UNCHANGED vars
  <2>1. UNCHANGED <<at, gen, temp, blob, manifest, left, allowed>>
    BY <1>8 DEF vars
  <2>2. ShapesOK'
    BY <2>1 DEF Inv, ShapesOK
  <2>3. SeenOK' /\ ManifestsOK'
    BY <2>1 DEF Inv, SeenOK, ManifestsOK, Durable
  <2>4. ProgressOK'
    BY <2>1 DEF Inv, ProgressOK
  <2> QED BY <2>2, <2>3, <2>4 DEF Inv
<1> QED BY <1>1, <1>2, <1>3, <1>4, <1>5, <1>6, <1>7, <1>8 DEF Next, Files

(* "A failure here leaves either the old or the complete new generation":    *)
(* whenever the machine stops, a load finds a generation a save has asked    *)
(* for since the last one that succeeded, or that last one, and all of it.   *)
THEOREM CrashAlwaysLeavesAGeneration == Spec => []CrashLeavesAGeneration
<1>1. Inv => CrashLeavesAGeneration
  BY Whole, SurvivorsLeft DEF CrashLeavesAGeneration
<1> QED BY <1>1, InitInv, StepInv, PTL DEF Spec

(* The generation a load returns is the one the manifest names.              *)
StoredOK ==
  /\ Stored = IF manifest.data = Absent THEN Initially ELSE manifest.data
  /\ Stored \in allowed

(* Under the invariant a load finds just that.                               *)
LEMMA StoredIs == Inv => StoredOK
<1> SUFFICES ASSUME Inv PROVE StoredOK
  OBVIOUS
<1> DEFINE b == [p \in Parts |-> [v \in Values |-> blob[p][v].data]]
<1>1. \A p \in Parts, v \in Values : b[p][v] \in left.blob[p][v]
  BY DEF Inv, SeenOK
<1>2. manifest.data \in left.manifest
  BY DEF Inv, SeenOK
<1>3. Stored = Loaded(manifest.data, b)
  BY DEF Stored
<1> HIDE DEF b
<1> QED BY <1>1, <1>2, <1>3, Whole DEF StoredOK

(* And the one it will return, the one the next manifest names.              *)
LEMMA StoredWillBe == Inv' => StoredOK'
  BY StoredIs, PTL

(* Each step of a save begins one, publishes its generation, succeeds, or    *)
(* shows nothing to whoever loads.                                           *)
LEMMA StepIsAtomic ==
  ASSUME Inv, [Next]_vars
  PROVE  [Snapshots!Next]_<<Stored, allowed>>
<1>1. StoredOK /\ StoredOK' /\ Inv'
  BY StoredIs, StoredWillBe, StepInv
<1>2. manifest'.data = manifest.data => Stored' = Stored
  BY <1>1 DEF StoredOK
<1>3. ASSUME NEW g \in Saves, Begin(g) PROVE Snapshots!Begin(g)
  BY <1>2, <1>3 DEF Begin, Snapshots!Begin
<1>4. ASSUME NEW x \in Files, Write(x) \/ Sync(x) PROVE UNCHANGED <<Stored, allowed>>
  BY <1>2, <1>4 DEF Write, Sync
<1>5. ASSUME NEW p \in Parts, Move(p) PROVE UNCHANGED <<Stored, allowed>>
  BY <1>2, <1>5 DEF Move
<1>6. ASSUME MoveManifest PROVE Snapshots!Publish
  BY <1>1, <1>6 DEF MoveManifest, StoredOK, Snapshots!Publish
<1>7. ASSUME NEW x, SyncParent(x)
      PROVE  Snapshots!Succeed \/ UNCHANGED <<Stored, allowed>>
  <2>1. UNCHANGED manifest /\ allowed' = IF at = LastStep THEN {gen} ELSE allowed
    BY <1>7, ProgramSteps DEF SyncParent
  <2>2. at = LastStep => Stored = gen /\ gen \in Saves
    <3>1. at = LastStep => manifest.data = gen /\ gen \in Saves
      BY <1>7, SyncParentInv
    <3> QED BY <3>1, <1>1, SavesAssumption, ManifestAssumption DEF StoredOK
  <2> QED BY <1>2, <2>1, <2>2 DEF Snapshots!Succeed
<1>8. ASSUME Fail PROVE UNCHANGED <<Stored, allowed>>
  BY <1>2, <1>8 DEF Fail
<1>9. ASSUME Crash PROVE Snapshots!Crash
  <2>1. PICK m \in left.manifest, b \in AfterCrash :
          manifest'.data = m /\ allowed' = {Loaded(m, b)}
    BY <1>9, CrashInv
  <2>2. /\ Loaded(m, b) = IF m = Absent THEN Initially ELSE m
        /\ Loaded(m, b) \in allowed
    BY Whole, SurvivorsLeft
  <2> QED BY <1>1, <2>1, <2>2 DEF StoredOK, Snapshots!Crash
<1>10. CASE UNCHANGED vars
  BY <1>2, <1>10 DEF vars
<1> QED BY <1>3, <1>4, <1>5, <1>6, <1>7, <1>8, <1>9, <1>10 DEF Next, Files, Snapshots!Next

(* The save of metis_memory_snapshot_save_resident implements a save in one  *)
(* step, whatever fails on the way and whenever the machine stops.           *)
THEOREM SaveIsAtomic == Spec => Atomic
<1>1. Init => Snapshots!Init
  <2> SUFFICES ASSUME Init PROVE Snapshots!Init
    OBVIOUS
  <2>1. Stored = Initially
    BY InitInv, StoredIs DEF Init, Missing, StoredOK
  <2> QED BY <2>1 DEF Init, Snapshots!Init
<1>2. Inv /\ [Next]_vars => [Snapshots!Next]_<<Stored, allowed>>
  BY StepIsAtomic
<1> QED BY <1>1, <1>2, InitInv, StepInv, PTL DEF Spec, Atomic, Snapshots!Spec
-----------------------------------------------------------------------------
(* The state file of the interactive program.                                *)

(* The features an episode may have, the episodes and the sessions.          *)
Feature == Facts \cup {Unset}
Remembered == [text : Facts, mean : Feature, rows : Feature]
Sessions == [id : Ids, valid : BOOLEAN, episodes : Seq(Remembered)]

(* A word of a state file: its kind and its value, and the header.           *)
Word ==
  ({"id", "count", "text", "flag", "mean", "rows"} \X (Ids \cup Nat \cup Feature))
    \cup ({"BNST"} \X (1..3) \X Nat)

(* How many words the means, the rows and all of a session take.             *)
Means(s, version) == IF version >= 2 /\ s.valid THEN Len(s.episodes) ELSE 0
Rows(s, version) == IF version = 3 THEN Len(s.episodes) ELSE 0
Size(s, version) ==
  2 + Len(s.episodes) + (IF version >= 2 THEN 1 + Means(s, version) ELSE 0)
    + (IF version = 3 THEN 1 + Rows(s, version) ELSE 0)

(* The words of a session, by their places.                                  *)
Laid(s, version, w) ==
  LET n == Len(s.episodes)  m == Means(s, version) IN
  /\ w[1][2] = s.id /\ w[2][2] = n
  /\ \A j \in 1..n : w[2 + j][2] = s.episodes[j].text
  /\ version >= 2 => w[3 + n][2] = IF s.valid THEN 1 ELSE 0
  /\ \A j \in 1..m : w[3 + n + j][2] = s.episodes[j].mean
  /\ version = 3 => w[4 + n + m][2] = IF n = 0 THEN 0 ELSE 1
  /\ \A j \in 1..Rows(s, version) : w[4 + n + m + j][2] = s.episodes[j].rows

(* The value of a word.                                                      *)
LEMMA Second == ASSUME NEW x, NEW y PROVE <<x, y>>[2] = y
OBVIOUS

(* What \o gives.                                                            *)
LEMMA Concatenated ==
  ASSUME NEW S, NEW a \in Seq(S), NEW b \in Seq(S)
  PROVE /\ a \o b \in Seq(S) /\ Len(a \o b) = Len(a) + Len(b)
        /\ \A i \in 1..Len(a) : (a \o b)[i] = a[i]
        /\ \A i \in 1..Len(b) : (a \o b)[Len(a) + i] = b[i]
OBVIOUS

(* The words that name and count, and those of the texts.                    *)
LEMMA TextsLaid ==
  ASSUME NEW s \in Sessions
  PROVE LET n == Len(s.episodes)
            h == <<<<"id", s.id>>, <<"count", n>>>>
                   \o [j \in DOMAIN s.episodes |-> <<"text", s.episodes[j].text>>]
        IN /\ h \in Seq(Word) /\ Len(h) = 2 + n
           /\ h[1][2] = s.id /\ h[2][2] = n
           /\ \A j \in 1..n : h[2 + j][2] = s.episodes[j].text
<1>1. PICK ep \in Seq(Remembered) : ep = s.episodes
  BY DEF Sessions
<1>2. PICK n \in Nat : n = Len(ep)
  OBVIOUS
<1>3. PICK a : a = <<<<"id", s.id>>, <<"count", n>>>>
  OBVIOUS
<1>4. PICK b : b = [j \in DOMAIN ep |-> <<"text", ep[j].text>>]
  OBVIOUS
<1>5. s.id \in Ids
  BY DEF Sessions
<1>6. <<"id", s.id>> \in Word /\ <<"count", n>> \in Word
  BY <1>5 DEF Word
<1>7. a \in Seq(Word) /\ Len(a) = 2 /\ a[1] = <<"id", s.id>> /\ a[2] = <<"count", n>>
  BY <1>3, <1>6
<1>8. \A j \in 1..n : <<"text", ep[j].text>> \in Word
  <2>1. \A j \in 1..n : ep[j].text \in Facts
    <3>1. \A j \in 1..n : ep[j] \in Remembered
      BY <1>2
    <3> QED  BY <3>1 DEF Remembered
  <2> QED  BY <2>1 DEF Word, Feature
<1>9. b \in Seq(Word) /\ Len(b) = n /\ \A j \in 1..n : b[j] = <<"text", ep[j].text>>
  BY <1>2, <1>4, <1>8
<1>10. /\ a \o b \in Seq(Word) /\ Len(a \o b) = Len(a) + Len(b)
       /\ \A i \in 1..Len(a) : (a \o b)[i] = a[i]
       /\ \A i \in 1..Len(b) : (a \o b)[Len(a) + i] = b[i]
  <2>1. a \in Seq(Word) /\ b \in Seq(Word)
    BY <1>7, <1>9
  <2> QED  BY <2>1, Concatenated
<1>11. (a \o b)[1] = <<"id", s.id>> /\ (a \o b)[2] = <<"count", n>>
  BY <1>7, <1>10
<1>12. \A j \in 1..n : (a \o b)[2 + j] = <<"text", ep[j].text>>
  BY <1>7, <1>9, <1>10
<1>13. /\ (a \o b)[1][2] = s.id /\ (a \o b)[2][2] = n
       /\ \A j \in 1..n : (a \o b)[2 + j][2] = ep[j].text
  <2>1. (a \o b)[1][2] = s.id
    BY <1>11, Second
  <2>2. (a \o b)[2][2] = n
    BY <1>11, Second
  <2>3. \A j \in 1..n : (a \o b)[2 + j][2] = ep[j].text
    <3> SUFFICES ASSUME NEW j \in 1..n PROVE (a \o b)[2 + j][2] = ep[j].text
      OBVIOUS
    <3>1. (a \o b)[2 + j] = <<"text", ep[j].text>>
      BY <1>12
    <3> QED  BY <3>1, Second
  <2> QED  BY <2>1, <2>2, <2>3
<1>14. a \o b = <<<<"id", s.id>>, <<"count", Len(s.episodes)>>>>
                  \o [j \in DOMAIN s.episodes |-> <<"text", s.episodes[j].text>>]
  BY <1>1, <1>2, <1>3, <1>4
<1> QED  BY <1>1, <1>2, <1>7, <1>9, <1>10, <1>13, <1>14

(* A flag and the features of one kind that follow it.                       *)
LEMMA KindLaid ==
  ASSUME NEW kind \in {"mean", "rows"}, NEW ep \in Seq(Remembered), NEW f,
         \A j \in DOMAIN ep : f[j] \in Feature
  PROVE LET p == <<Flag(1)>> \o [j \in DOMAIN ep |-> <<kind, f[j]>>] IN
        /\ p \in Seq(Word) /\ Len(p) = 1 + Len(ep) /\ p[1][2] = 1
        /\ \A j \in 1..Len(ep) : p[1 + j][2] = f[j]
<1>1. PICK a : a = <<Flag(1)>>
  OBVIOUS
<1>2. PICK c : c = [j \in DOMAIN ep |-> <<kind, f[j]>>]
  OBVIOUS
<1>3. a \in Seq(Word) /\ Len(a) = 1 /\ a[1] = <<"flag", 1>>
  BY <1>1 DEF Flag, Word
<1>4. \A j \in DOMAIN ep : <<kind, f[j]>> \in Word
  BY DEF Word
<1>5. c \in Seq(Word) /\ Len(c) = Len(ep) /\ \A j \in DOMAIN ep : c[j] = <<kind, f[j]>>
  <2>1. PICK n \in Nat : n = Len(ep) /\ DOMAIN ep = 1..n
    OBVIOUS
  <2>2. c = [j \in 1..n |-> <<kind, f[j]>>] /\ \A j \in 1..n : <<kind, f[j]>> \in Word
    BY <1>2, <1>4, <2>1
  <2>3. c \in Seq(Word) /\ Len(c) = n
    BY <2>2
  <2> QED  BY <1>2, <2>1, <2>3
<1>6. /\ a \o c \in Seq(Word) /\ Len(a \o c) = Len(a) + Len(c)
      /\ \A i \in 1..Len(a) : (a \o c)[i] = a[i]
      /\ \A i \in 1..Len(c) : (a \o c)[Len(a) + i] = c[i]
  <2>1. a \in Seq(Word) /\ c \in Seq(Word)
    BY <1>3, <1>5
  <2> QED  BY <2>1, Concatenated
<1>7. (a \o c)[1] = <<"flag", 1>> /\ \A j \in 1..Len(ep) : (a \o c)[1 + j] = <<kind, f[j]>>
  BY <1>3, <1>5, <1>6
<1>8. (a \o c)[1][2] = 1 /\ \A j \in 1..Len(ep) : (a \o c)[1 + j][2] = f[j]
  <2>1. (a \o c)[1][2] = 1
    BY <1>7, Second
  <2>2. \A j \in 1..Len(ep) : (a \o c)[1 + j][2] = f[j]
    <3> SUFFICES ASSUME NEW j \in 1..Len(ep) PROVE (a \o c)[1 + j][2] = f[j]
      OBVIOUS
    <3>1. (a \o c)[1 + j] = <<kind, f[j]>>
      BY <1>7
    <3> QED  BY <3>1, Second
  <2> QED  BY <2>1, <2>2
<1> QED  BY <1>1, <1>2, <1>3, <1>5, <1>6, <1>8
-----------------------------------------------------------------------------
(* The word of a flag.                                                       *)
LEMMA FlagLaid ==
  ASSUME NEW b \in Nat
  PROVE <<Flag(b)>> \in Seq(Word) /\ Len(<<Flag(b)>>) = 1 /\ <<Flag(b)>>[1][2] = b
<1>1. PICK a : a = Flag(b)
  OBVIOUS
<1>2. a \in Word /\ a = <<"flag", b>>
  BY <1>1 DEF Flag, Word
<1>3. a[2] = b
  BY <1>2, Second
<1>4. <<a>> \in Seq(Word) /\ Len(<<a>>) = 1 /\ <<a>>[1] = a
  BY <1>2
<1> QED  BY <1>1, <1>3, <1>4

(* The words of the means, and those of the rows, of a session.              *)
MeansPart(s, version) ==
  IF version < 2 THEN <<>>
  ELSE IF ~s.valid THEN <<Flag(0)>>
  ELSE <<Flag(1)>> \o [j \in DOMAIN s.episodes |-> <<"mean", s.episodes[j].mean>>]

RowsPart(s, version) ==
  IF version < 3 THEN <<>>
  ELSE IF s.episodes = <<>> THEN <<Flag(0)>>
  ELSE <<Flag(1)>> \o [j \in DOMAIN s.episodes |-> <<"rows", s.episodes[j].rows>>]

(* The means of a session.                                                   *)
LEMMA MeansLaid ==
  ASSUME NEW s \in Sessions, NEW version \in 1..3
  PROVE LET p == MeansPart(s, version)  m == Means(s, version) IN
        /\ p \in Seq(Word) /\ Len(p) = IF version >= 2 THEN 1 + m ELSE 0
        /\ version >= 2 => p[1][2] = IF s.valid THEN 1 ELSE 0
        /\ \A j \in 1..m : p[1 + j][2] = s.episodes[j].mean
<1>1. PICK ep \in Seq(Remembered) : ep = s.episodes
  BY DEF Sessions
<1>2. CASE version < 2
  <2>1. MeansPart(s, version) = <<>> /\ Means(s, version) = 0
    BY <1>2 DEF MeansPart, Means
  <2>2. <<>> \in Seq(Word) /\ Len(<<>>) = 0 /\ 1..0 = {}
    OBVIOUS
  <2>3. ~(version >= 2)
    BY <1>2
  <2> QED  BY <2>1, <2>2, <2>3
<1>3. CASE version >= 2 /\ ~s.valid
  <2>1. MeansPart(s, version) = <<Flag(0)>> /\ Means(s, version) = 0
    BY <1>3 DEF MeansPart, Means
  <2>2. 0 \in Nat /\ 1..0 = {} /\ 1 + 0 = 1
    OBVIOUS
  <2>3. <<Flag(0)>> \in Seq(Word) /\ Len(<<Flag(0)>>) = 1 /\ <<Flag(0)>>[1][2] = 0
    BY <2>2, FlagLaid
  <2> QED  BY <1>3, <2>1, <2>2, <2>3
<1>4. CASE version >= 2 /\ s.valid
  <2>1. PICK f : f = [j \in DOMAIN ep |-> ep[j].mean]
    OBVIOUS
  <2>2. \A j \in DOMAIN ep : ep[j] \in Remembered
    OBVIOUS
  <2>3. DOMAIN f = DOMAIN ep /\ \A j \in DOMAIN ep : f[j] = ep[j].mean /\ f[j] \in Feature
    BY <2>1, <2>2 DEF Remembered
  <2>4. MeansPart(s, version) = <<Flag(1)>> \o [j \in DOMAIN ep |-> <<"mean", f[j]>>]
    <3>1. ~(version < 2)
      BY <1>4
    <3>2. [j \in DOMAIN ep |-> <<"mean", f[j]>>] = [j \in DOMAIN ep |-> <<"mean", ep[j].mean>>]
      BY <2>3
    <3> QED  BY <1>1, <1>4, <3>1, <3>2 DEF MeansPart
  <2>5. Means(s, version) = Len(ep)
    BY <1>1, <1>4 DEF Means
  <2>6. LET p == <<Flag(1)>> \o [j \in DOMAIN ep |-> <<"mean", f[j]>>] IN
        /\ p \in Seq(Word) /\ Len(p) = 1 + Len(ep) /\ p[1][2] = 1
        /\ \A j \in 1..Len(ep) : p[1 + j][2] = f[j]
    BY <2>3, KindLaid
  <2>7. PICK p : p = MeansPart(s, version)
    OBVIOUS
  <2>8. /\ p \in Seq(Word) /\ Len(p) = 1 + Len(ep) /\ p[1][2] = 1
        /\ \A j \in 1..Len(ep) : p[1 + j][2] = f[j]
    BY <2>4, <2>6, <2>7
  <2>9. \A j \in 1..Len(ep) : f[j] = ep[j].mean
    BY <2>3
  <2> QED  BY <1>1, <1>4, <2>5, <2>7, <2>8, <2>9
<1> QED  BY <1>2, <1>3, <1>4

(* The rows of a session.                                                    *)
LEMMA RowsLaid ==
  ASSUME NEW s \in Sessions, NEW version \in 1..3
  PROVE LET p == RowsPart(s, version)  r == Rows(s, version) IN
        /\ p \in Seq(Word) /\ Len(p) = IF version = 3 THEN 1 + r ELSE 0
        /\ version = 3 => p[1][2] = IF Len(s.episodes) = 0 THEN 0 ELSE 1
        /\ \A j \in 1..r : p[1 + j][2] = s.episodes[j].rows
<1>1. PICK ep \in Seq(Remembered) : ep = s.episodes
  BY DEF Sessions
<1>2. CASE version < 3
  <2>1. RowsPart(s, version) = <<>> /\ Rows(s, version) = 0
    BY <1>2 DEF RowsPart, Rows
  <2>2. <<>> \in Seq(Word) /\ Len(<<>>) = 0 /\ 1..0 = {}
    OBVIOUS
  <2>3. version # 3
    BY <1>2
  <2> QED  BY <2>1, <2>2, <2>3
<1>3. CASE version = 3 /\ ep = <<>>
  <2>1. RowsPart(s, version) = <<Flag(0)>> /\ Rows(s, version) = 0 /\ Len(s.episodes) = 0
    BY <1>1, <1>3 DEF RowsPart, Rows
  <2>2. 0 \in Nat /\ 1..0 = {} /\ 1 + 0 = 1
    OBVIOUS
  <2>3. <<Flag(0)>> \in Seq(Word) /\ Len(<<Flag(0)>>) = 1 /\ <<Flag(0)>>[1][2] = 0
    BY <2>2, FlagLaid
  <2> QED  BY <1>3, <2>1, <2>2, <2>3
<1>4. CASE version = 3 /\ ep # <<>>
  <2>1. PICK f : f = [j \in DOMAIN ep |-> ep[j].rows]
    OBVIOUS
  <2>2. \A j \in DOMAIN ep : ep[j] \in Remembered
    OBVIOUS
  <2>3. DOMAIN f = DOMAIN ep /\ \A j \in DOMAIN ep : f[j] = ep[j].rows /\ f[j] \in Feature
    BY <2>1, <2>2 DEF Remembered
  <2>4. RowsPart(s, version) = <<Flag(1)>> \o [j \in DOMAIN ep |-> <<"rows", f[j]>>]
    <3>1. ~(version < 3)
      BY <1>4
    <3>2. [j \in DOMAIN ep |-> <<"rows", f[j]>>] = [j \in DOMAIN ep |-> <<"rows", ep[j].rows>>]
      BY <2>3
    <3> QED  BY <1>1, <1>4, <3>1, <3>2 DEF RowsPart
  <2>5. Rows(s, version) = Len(ep) /\ Len(s.episodes) # 0
    BY <1>1, <1>4 DEF Rows
  <2>6. LET p == <<Flag(1)>> \o [j \in DOMAIN ep |-> <<"rows", f[j]>>] IN
        /\ p \in Seq(Word) /\ Len(p) = 1 + Len(ep) /\ p[1][2] = 1
        /\ \A j \in 1..Len(ep) : p[1 + j][2] = f[j]
    BY <2>3, KindLaid
  <2>7. PICK p : p = RowsPart(s, version)
    OBVIOUS
  <2>8. /\ p \in Seq(Word) /\ Len(p) = 1 + Len(ep) /\ p[1][2] = 1
        /\ \A j \in 1..Len(ep) : p[1 + j][2] = f[j]
    BY <2>4, <2>6, <2>7
  <2>9. \A j \in 1..Len(ep) : f[j] = ep[j].rows
    BY <2>3
  <2> QED  BY <1>1, <1>4, <2>5, <2>7, <2>8, <2>9
<1> QED  BY <1>1, <1>2, <1>3, <1>4

(* The words of a session are where SessionAt looks for them.                *)
LEMMA WordsLaid ==
  ASSUME NEW s \in Sessions, NEW version \in 1..3
  PROVE LET w == SessionWords(s, version) IN
        w \in Seq(Word) /\ Len(w) = Size(s, version) /\ Laid(s, version, w)
<1>1. PICK n \in Nat : n = Len(s.episodes)
  <2>1. s.episodes \in Seq(Remembered)
    BY DEF Sessions
  <2> QED  BY <2>1
<1>2. PICK m \in Nat, r \in Nat : m = Means(s, version) /\ r = Rows(s, version)
  BY <1>1 DEF Means, Rows
<1>3. PICK h, p, q : /\ h = <<<<"id", s.id>>, <<"count", Len(s.episodes)>>>>
                              \o [j \in DOMAIN s.episodes |-> <<"text", s.episodes[j].text>>]
                     /\ p = MeansPart(s, version) /\ q = RowsPart(s, version)
  OBVIOUS
<1>4. SessionWords(s, version) = (h \o p) \o q
  BY <1>3 DEF SessionWords, MeansPart, RowsPart
<1>5. /\ h \in Seq(Word) /\ Len(h) = 2 + n
      /\ h[1][2] = s.id /\ h[2][2] = n
      /\ \A j \in 1..n : h[2 + j][2] = s.episodes[j].text
  BY <1>1, <1>3, TextsLaid
<1>6. /\ p \in Seq(Word) /\ Len(p) = IF version >= 2 THEN 1 + m ELSE 0
      /\ version >= 2 => p[1][2] = IF s.valid THEN 1 ELSE 0
      /\ \A j \in 1..m : p[1 + j][2] = s.episodes[j].mean
  BY <1>2, <1>3, MeansLaid
<1>7. /\ q \in Seq(Word) /\ Len(q) = IF version = 3 THEN 1 + r ELSE 0
      /\ version = 3 => q[1][2] = IF n = 0 THEN 0 ELSE 1
      /\ \A j \in 1..r : q[1 + j][2] = s.episodes[j].rows
  BY <1>1, <1>2, <1>3, RowsLaid
<1>8. /\ h \o p \in Seq(Word) /\ Len(h \o p) = Len(h) + Len(p)
      /\ \A i \in 1..Len(h) : (h \o p)[i] = h[i]
      /\ \A i \in 1..Len(p) : (h \o p)[Len(h) + i] = p[i]
  <2>1. h \in Seq(Word) /\ p \in Seq(Word)
    BY <1>5, <1>6
  <2> QED  BY <2>1, Concatenated
<1>9. PICK a, w : a = h \o p /\ w = a \o q
  OBVIOUS
<1>10. /\ w \in Seq(Word) /\ Len(w) = Len(a) + Len(q)
       /\ \A i \in 1..Len(a) : w[i] = a[i]
       /\ \A i \in 1..Len(q) : w[Len(a) + i] = q[i]
  <2>1. a \in Seq(Word) /\ q \in Seq(Word)
    BY <1>7, <1>8, <1>9
  <2> QED  BY <2>1, <1>9, Concatenated
<1>11. /\ Len(a) = Len(h) + Len(p)
       /\ \A i \in 1..Len(h) : w[i] = h[i]
       /\ \A i \in 1..Len(p) : w[Len(h) + i] = p[i]
  <2>1. Len(a) = Len(h) + Len(p) /\ Len(h) \in Nat /\ Len(p) \in Nat
    BY <1>5, <1>6, <1>8, <1>9
  <2>2. \A i \in 1..Len(h) : a[i] = h[i]
    BY <1>8, <1>9
  <2>3. \A i \in 1..Len(p) : a[Len(h) + i] = p[i]
    BY <1>8, <1>9
  <2>4. \A i \in 1..Len(a) : w[i] = a[i]
    BY <1>10
  <2> QED  BY <2>1, <2>2, <2>3, <2>4
<1>12. Len(w) = Size(s, version)
  BY <1>1, <1>2, <1>5, <1>6, <1>7, <1>10, <1>11 DEF Size
<1>13. w[1] = h[1] /\ w[2] = h[2] /\ \A j \in 1..n : w[2 + j] = h[2 + j]
  BY <1>5, <1>11
<1>14. version >= 2 => /\ w[3 + n] = p[1]
                       /\ \A j \in 1..m : w[3 + n + j] = p[1 + j]
  <2> SUFFICES ASSUME version >= 2 PROVE w[3 + n] = p[1] /\ \A j \in 1..m : w[3 + n + j] = p[1 + j]
    OBVIOUS
  <2>1. Len(p) = 1 + m /\ Len(h) = 2 + n
    BY <1>5, <1>6
  <2>2. \A i \in 1..(1 + m) : w[(2 + n) + i] = p[i]
    BY <2>1, <1>11
  <2>3. w[(2 + n) + 1] = p[1] /\ (2 + n) + 1 = 3 + n
    BY <2>2
  <2>4. ASSUME NEW j \in 1..m PROVE w[3 + n + j] = p[1 + j]
    <3>1. 1 + j \in 1..(1 + m) /\ (2 + n) + (1 + j) = 3 + n + j
      OBVIOUS
    <3>2. w[(2 + n) + (1 + j)] = p[1 + j]
      BY <2>2, <3>1
    <3> QED  BY <3>1, <3>2
  <2> QED  BY <2>3, <2>4
<1>15. version = 3 => /\ w[4 + n + m] = q[1]
                      /\ \A j \in 1..r : w[4 + n + m + j] = q[1 + j]
  <2> SUFFICES ASSUME version = 3
               PROVE  w[4 + n + m] = q[1] /\ \A j \in 1..r : w[4 + n + m + j] = q[1 + j]
    OBVIOUS
  <2>1. Len(q) = 1 + r /\ Len(a) = 3 + n + m
    BY <1>5, <1>6, <1>7, <1>11
  <2>2. \A i \in 1..(1 + r) : w[(3 + n + m) + i] = q[i]
    BY <2>1, <1>10
  <2>3. w[(3 + n + m) + 1] = q[1] /\ (3 + n + m) + 1 = 4 + n + m
    BY <2>2
  <2>4. ASSUME NEW j \in 1..r PROVE w[4 + n + m + j] = q[1 + j]
    <3>1. 1 + j \in 1..(1 + r) /\ (3 + n + m) + (1 + j) = 4 + n + m + j
      OBVIOUS
    <3>2. w[(3 + n + m) + (1 + j)] = q[1 + j]
      BY <2>2, <3>1
    <3> QED  BY <3>1, <3>2
  <2> QED  BY <2>3, <2>4
<1>16. m # 0 => version >= 2
  BY <1>2 DEF Means
<1>17. r # 0 => version = 3
  BY <1>2 DEF Rows
<1>18. w[1][2] = s.id /\ w[2][2] = n /\ \A j \in 1..n : w[2 + j][2] = s.episodes[j].text
  BY <1>5, <1>13
<1>19. /\ version >= 2 => w[3 + n][2] = IF s.valid THEN 1 ELSE 0
       /\ \A j \in 1..m : w[3 + n + j][2] = s.episodes[j].mean
  <2>1. version >= 2 => w[3 + n][2] = p[1][2]
    BY <1>14
  <2>2. ASSUME NEW j \in 1..m PROVE w[3 + n + j][2] = s.episodes[j].mean
    <3>1. m # 0
      OBVIOUS
    <3>2. w[3 + n + j] = p[1 + j]
      BY <1>14, <1>16, <3>1
    <3>3. p[1 + j][2] = s.episodes[j].mean
      BY <1>6
    <3> QED  BY <3>2, <3>3
  <2> QED  BY <1>6, <2>1, <2>2
<1>20. /\ version = 3 => w[4 + n + m][2] = IF n = 0 THEN 0 ELSE 1
       /\ \A j \in 1..r : w[4 + n + m + j][2] = s.episodes[j].rows
  <2>1. version = 3 => w[4 + n + m][2] = q[1][2]
    BY <1>15
  <2>2. ASSUME NEW j \in 1..r PROVE w[4 + n + m + j][2] = s.episodes[j].rows
    <3>1. r # 0
      OBVIOUS
    <3>2. w[4 + n + m + j] = q[1 + j]
      BY <1>15, <1>17, <3>1
    <3>3. q[1 + j][2] = s.episodes[j].rows
      BY <1>7
    <3> QED  BY <3>2, <3>3
  <2> QED  BY <1>7, <2>1, <2>2
<1>21. Laid(s, version, w)
  BY <1>1, <1>2, <1>18, <1>19, <1>20 DEF Laid
<1> QED  BY <1>4, <1>9, <1>10, <1>12, <1>21
-----------------------------------------------------------------------------
(* What ms_load takes for the number at a place.                             *)
Number(words, k) == IF k <= Len(words) THEN words[k][2] ELSE 0

(* A session that was written at a place is read back there, or nothing if   *)
(* its words are cut.                                                        *)
LEMMA SessionRead ==
  ASSUME NEW s \in Sessions, NEW version \in 1..3, OwnFeatures(s), KnownTo(version, s),
         NEW words \in Seq(Word), NEW from \in 1..Len(words), NEW w, Laid(s, version, w),
         \A k \in 1..Size(s, version) :
           from - 1 + k <= Len(words) => words[from - 1 + k] = w[k]
  PROVE SessionAt(words, version, from) =
          IF from - 1 + Size(s, version) <= Len(words)
          THEN <<[next |-> from + Size(s, version), session |-> s]>> ELSE <<>>
<1>1. PICK ep \in Seq(Remembered) : ep = s.episodes
  BY DEF Sessions
<1>2. PICK n \in Nat : n = Len(ep) /\ DOMAIN ep = 1..n
  OBVIOUS
<1>3. PICK m \in Nat, r \in Nat, size \in Nat :
        m = Means(s, version) /\ r = Rows(s, version) /\ size = Size(s, version)
  <2>1. Means(s, version) \in Nat /\ Rows(s, version) \in Nat
    BY <1>1, <1>2 DEF Means, Rows
  <2>2. Size(s, version) \in Nat
    BY <1>1, <1>2, <2>1 DEF Size
  <2> QED  BY <2>1, <2>2
<1>4. PICK N \in Nat : N = Len(words)
  OBVIOUS
<1>5. s = [id |-> s.id, valid |-> s.valid, episodes |-> ep] /\ s.valid \in BOOLEAN
  BY <1>1 DEF Sessions
<1>6. PICK nn, ma, me, ra, ro, en :
        /\ nn = Number(words, from + 1) /\ ma = from + 2 + nn
        /\ me = IF version >= 2 THEN Number(words, ma) * nn ELSE 0
        /\ ra = ma + 1 + me
        /\ ro = IF version >= 3 THEN Number(words, ra) * nn ELSE 0
        /\ en = CASE version = 1 -> ma - 1 [] version = 2 -> ra - 1 [] version = 3 -> ra + ro
  OBVIOUS
<1>7. SessionAt(words, version, from) =
        IF from >= N \/ en > N THEN <<>>
        ELSE <<[next |-> en + 1,
                session |->
                  [id |-> words[from][2],
                   episodes |-> [j \in 1..nn |->
                     [text |-> words[from + 1 + j][2],
                      mean |-> IF me > 0 THEN words[ma + j][2] ELSE Unset,
                      rows |-> IF ro > 0 THEN words[ra + j][2] ELSE Unset]],
                   valid |-> version >= 2 /\ Number(words, ma) = 1]]>>
  BY <1>4, <1>6 DEF SessionAt, Number
<1>8. /\ size = 2 + n + (IF version >= 2 THEN 1 + m ELSE 0) + (IF version = 3 THEN 1 + r ELSE 0)
      /\ m = (IF version >= 2 /\ s.valid THEN n ELSE 0) /\ r = (IF version = 3 THEN n ELSE 0)
  BY <1>1, <1>2, <1>3 DEF Size, Means, Rows
<1>9. /\ w[1][2] = s.id /\ w[2][2] = n
      /\ \A j \in 1..n : w[2 + j][2] = ep[j].text
      /\ version >= 2 => w[3 + n][2] = IF s.valid THEN 1 ELSE 0
      /\ \A j \in 1..m : w[3 + n + j][2] = ep[j].mean
      /\ version = 3 => w[4 + n + m][2] = IF n = 0 THEN 0 ELSE 1
      /\ \A j \in 1..r : w[4 + n + m + j][2] = ep[j].rows
  BY <1>1, <1>2, <1>3 DEF Laid
<1>10. \A k \in 1..size : from - 1 + k <= N => words[from - 1 + k] = w[k]
  BY <1>3, <1>4
<1>11. CASE from >= N
  BY <1>3, <1>4, <1>7, <1>8, <1>11
<1>12. CASE from < N
  <2>1. from + 1 <= N /\ from \in Nat
    BY <1>4, <1>12
  <2>2. words[from] = w[1] /\ words[from + 1] = w[2]
    <3>1. 1 \in 1..size /\ 2 \in 1..size /\ from - 1 + 1 = from /\ from - 1 + 2 = from + 1
      BY <1>8, <2>1
    <3>2. words[from - 1 + 1] = w[1] /\ words[from - 1 + 2] = w[2]
      BY <1>10, <2>1, <3>1
    <3> QED  BY <3>1, <3>2
  <2>3. nn = n /\ ma = from + 2 + n
    BY <1>4, <1>6, <1>9, <2>1, <2>2 DEF Number
  <2>4. version >= 2 /\ ma <= N =>
          Number(words, ma) = (IF s.valid THEN 1 ELSE 0) /\ me = m
    <3> SUFFICES ASSUME version >= 2, ma <= N
                 PROVE Number(words, ma) = (IF s.valid THEN 1 ELSE 0) /\ me = m
      OBVIOUS
    <3>1. 3 + n \in 1..size /\ from - 1 + (3 + n) = ma
      BY <1>8, <2>1, <2>3
    <3>2. words[ma] = w[3 + n]
      BY <1>10, <3>1
    <3>3. Number(words, ma) = (IF s.valid THEN 1 ELSE 0)
      BY <1>4, <1>9, <3>2 DEF Number
    <3>4. me = (IF s.valid THEN 1 ELSE 0) * n
      BY <1>6, <2>3, <3>3
    <3>5. CASE s.valid
      BY <1>8, <3>3, <3>4, <3>5
    <3>6. CASE ~s.valid
      BY <1>8, <3>3, <3>4, <3>6
    <3> QED  BY <1>5, <3>5, <3>6
  <2>5. version >= 2 /\ ma > N => me = 0
    <3>1. ASSUME ma > N PROVE Number(words, ma) = 0
      BY <1>4, <2>1, <2>3, <3>1 DEF Number
    <3> QED  BY <1>6, <2>3, <3>1, SMTT(30)
  <2>6. version = 1 => me = 0 /\ m = 0
    BY <1>6, <1>8
  <2>7. me \in Nat /\ ma \in Nat /\ ra = ma + 1 + me
    BY <1>6, <2>1, <2>3, <2>4, <2>5, <2>6
  <2>8. version = 3 /\ ra <= N => ro = r
    <3> SUFFICES ASSUME version = 3, ra <= N PROVE ro = r
      OBVIOUS
    <3>1. me = m
      BY <2>4, <2>7
    <3>2. 4 + n + m \in 1..size /\ from - 1 + (4 + n + m) = ra
      BY <1>8, <2>1, <2>3, <2>7, <3>1
    <3>3. words[ra] = w[4 + n + m]
      BY <1>10, <3>2
    <3>4. Number(words, ra) = (IF n = 0 THEN 0 ELSE 1)
      BY <1>4, <1>9, <3>3 DEF Number
    <3>5. ro = (IF n = 0 THEN 0 ELSE 1) * n
      BY <1>6, <2>3, <3>4
    <3>6. CASE n = 0
      BY <1>8, <3>5, <3>6
    <3>7. CASE n # 0
      BY <1>8, <3>5, <3>7
    <3> QED  BY <3>6, <3>7
  <2>9. version = 3 /\ ra > N => ro = 0
    <3> SUFFICES ASSUME version = 3, ra > N PROVE ro = 0
      OBVIOUS
    <3>1. Number(words, ra) = 0
      BY <1>4, <2>7 DEF Number
    <3>2. ro = Number(words, ra) * nn
      BY <1>6
    <3> QED  BY <2>3, <3>1, <3>2
  <2>10. version < 3 => ro = 0 /\ r = 0
    BY <1>6, <1>8
  <2>11. ro \in Nat
    BY <2>7, <2>8, <2>9, <2>10, <1>4
  <2>12. CASE from - 1 + size > N
    <3>1. en > N
      <4>1. CASE version = 1
        <5>1. en = ma - 1
          BY <1>6, <4>1
        <5> QED  BY <1>8, <2>1, <2>3, <2>7, <2>12, <4>1, <5>1
      <4>2. CASE version = 2
        <5>1. en = ra - 1
          BY <1>6, <4>2
        <5> QED  BY <1>8, <2>1, <2>3, <2>4, <2>5, <2>7, <2>12, <4>2, <5>1
      <4>3. CASE version = 3
        <5>1. en = ra + ro
          BY <1>6, <4>3
        <5> QED  BY <1>8, <2>1, <2>3, <2>4, <2>5, <2>7, <2>8, <2>9, <2>11, <2>12, <4>3, <5>1
      <4> QED  BY <4>1, <4>2, <4>3
    <3>2. ~(from - 1 + size <= N)
      BY <2>1, <2>12
    <3> QED  BY <1>3, <1>4, <1>7, <3>1, <3>2
  <2>13. CASE from - 1 + size <= N
    <3>1. \A k \in 1..size : words[from - 1 + k] = w[k]
      BY <1>10, <2>1, <2>13
    <3>2. version >= 2 => ma <= N
      BY <1>8, <2>1, <2>3, <2>13
    <3>3. me = m
      BY <2>4, <2>6, <3>2
    <3>4. version = 3 => ra <= N
      BY <1>8, <2>1, <2>3, <2>7, <2>13, <3>3
    <3>5. ro = r
      BY <2>8, <2>10, <3>4
    <3>6. en = from - 1 + size
      <4>1. CASE version = 1
        <5>1. en = ma - 1
          BY <1>6, <4>1
        <5> QED  BY <1>8, <2>1, <2>3, <4>1, <5>1
      <4>2. CASE version = 2
        <5>1. en = ra - 1
          BY <1>6, <4>2
        <5> QED  BY <1>8, <2>1, <2>3, <2>7, <3>3, <4>2, <5>1
      <4>3. CASE version = 3
        <5>1. en = ra + ro
          BY <1>6, <4>3
        <5> QED  BY <1>8, <2>1, <2>3, <2>7, <3>3, <3>5, <4>3, <5>1
      <4> QED  BY <4>1, <4>2, <4>3
    <3>7. en + 1 = from + size /\ ~(en > N) /\ ~(from >= N)
      BY <1>12, <2>1, <2>13, <3>6
    <3>8. (version >= 2 /\ Number(words, ma) = 1) = s.valid
      <4>1. CASE version >= 2
        BY <1>5, <2>4, <3>2, <4>1
      <4>2. CASE version = 1
        BY <1>5, <4>2 DEF KnownTo
      <4> QED  BY <4>1, <4>2
    <3>9. ASSUME NEW j \in 1..n
          PROVE [text |-> words[from + 1 + j][2],
                 mean |-> IF me > 0 THEN words[ma + j][2] ELSE Unset,
                 rows |-> IF ro > 0 THEN words[ra + j][2] ELSE Unset] = ep[j]
      <4>1. words[from + 1 + j][2] = ep[j].text
        <5>1. 2 + j \in 1..size /\ from - 1 + (2 + j) = from + 1 + j
          <6>1. size >= 2 + n
            BY <1>8
          <6>2. n \in Nat /\ size \in Nat /\ from \in Nat /\ j \in Nat /\ 1 <= j /\ j <= n
            BY <2>1
          <6>3. 2 + j \in 1..size
            BY <6>1, <6>2
          <6> QED  BY <6>2, <6>3
        <5>2. words[from + 1 + j] = w[2 + j]
          BY <3>1, <5>1
        <5> QED  BY <1>9, <5>2
      <4>2. ep[j] \in Remembered /\ j \in DOMAIN s.episodes /\ s.episodes[j] = ep[j]
        BY <1>1, <1>2
      <4>3. (IF me > 0 THEN words[ma + j][2] ELSE Unset) = ep[j].mean
        <5>1. CASE me > 0
          <6>1. version >= 2 /\ m = n
            BY <1>8, <3>3, <5>1
          <6>2. 3 + n + j \in 1..size /\ from - 1 + (3 + n + j) = ma + j
            BY <1>8, <2>1, <2>3, <6>1
          <6>3. words[ma + j] = w[3 + n + j]
            BY <3>1, <6>2
          <6>4. w[3 + n + j][2] = ep[j].mean
            BY <1>9, <6>1
          <6> QED  BY <5>1, <6>3, <6>4
        <5>2. CASE ~(me > 0)
          <6>1. ~s.valid
            BY <1>8, <3>3, <5>2 DEF KnownTo
          <6>2. ep[j].mean = Unset
            BY <4>2, <6>1 DEF OwnFeatures
          <6> QED  BY <5>2, <6>2
        <5> QED  BY <5>1, <5>2
      <4>4. (IF ro > 0 THEN words[ra + j][2] ELSE Unset) = ep[j].rows
        <5>1. CASE ro > 0
          <6>1. version = 3 /\ r = n
            BY <1>8, <3>5, <5>1
          <6>2. 4 + n + m + j \in 1..size /\ from - 1 + (4 + n + m + j) = ra + j
            BY <1>8, <2>1, <2>3, <2>7, <3>3, <6>1
          <6>3. words[ra + j] = w[4 + n + m + j]
            BY <3>1, <6>2
          <6>4. w[4 + n + m + j][2] = ep[j].rows
            BY <1>9, <6>1
          <6> QED  BY <5>1, <6>3, <6>4
        <5>2. CASE ~(ro > 0)
          <6>1. version < 3
            BY <1>8, <3>5, <5>2
          <6>2. ep[j].rows = Unset
            BY <4>2, <6>1 DEF KnownTo
          <6> QED  BY <5>2, <6>2
        <5> QED  BY <5>1, <5>2
      <4>5. ep[j] = [text |-> ep[j].text, mean |-> ep[j].mean, rows |-> ep[j].rows]
        BY <4>2 DEF Remembered
      <4> QED  BY <4>1, <4>3, <4>4, <4>5
    <3>10. [j \in 1..nn |->
             [text |-> words[from + 1 + j][2],
              mean |-> IF me > 0 THEN words[ma + j][2] ELSE Unset,
              rows |-> IF ro > 0 THEN words[ra + j][2] ELSE Unset]] = ep
      <4>1. ep = [j \in 1..n |-> ep[j]]
        BY <1>2
      <4>2. [j \in 1..n |->
             [text |-> words[from + 1 + j][2],
              mean |-> IF me > 0 THEN words[ma + j][2] ELSE Unset,
              rows |-> IF ro > 0 THEN words[ra + j][2] ELSE Unset]] = [j \in 1..n |-> ep[j]]
        BY <3>9
      <4> QED  BY <2>3, <4>1, <4>2
    <3>11. words[from][2] = s.id
      BY <1>9, <2>2
    <3>12. SessionAt(words, version, from) =
             <<[next |-> from + size,
                 session |-> [id |-> s.id, episodes |-> ep, valid |-> s.valid]]>>
      BY <1>7, <3>7, <3>8, <3>10, <3>11
    <3>13. [id |-> s.id, episodes |-> ep, valid |-> s.valid] = s
      BY <1>5
    <3> QED  BY <1>3, <1>4, <2>13, <3>12, <3>13
  <2> QED  BY <1>4, <2>1, <2>12, <2>13
<1> QED  BY <1>4, <1>11, <1>12
-----------------------------------------------------------------------------
(* A version can write this table.                                           *)
Writable(table, version) ==
  /\ table \in Tables
  /\ \A i \in DOMAIN table : OwnFeatures(table[i]) /\ KnownTo(version, table[i])

(* The words of each session.                                                *)
Written(table, version) == [i \in DOMAIN table |-> SessionWords(table[i], version)]
(* Where the words of the session after the i-th begin.                      *)
Begins(table, version, i) == 2 + Len(FlattenSeq(SubSeq(Written(table, version), 1, i)))

(* Tables, by the names used here.                                           *)
LEMMA TablesType == Tables = Seq(Sessions)
BY DEF Tables, Sessions, Remembered, Feature

(* The file, session by session.                                             *)
LEMMA FileLaid ==
  ASSUME NEW table \in Tables, NEW version \in 1..3
  PROVE LET n == Len(table)  full == Encoded(table, version) IN
        /\ full \in Seq(Word) /\ full[1] = <<"BNST", version, n>>
        /\ Begins(table, version, 0) = 2 /\ Len(full) = Begins(table, version, n) - 1
        /\ \A i \in 0..n : Begins(table, version, i) \in Nat \ {0, 1}
        /\ \A i \in 1..n :
             /\ table[i] \in Sessions
             /\ Begins(table, version, i) = Begins(table, version, i - 1) + Size(table[i], version)
             /\ \A k \in 1..Size(table[i], version) :
                  full[Begins(table, version, i - 1) - 1 + k] = SessionWords(table[i], version)[k]
<1>1. PICK n \in Nat : n = Len(table) /\ DOMAIN table = 1..n
  BY TablesType
<1>2. \A i \in 1..n : table[i] \in Sessions
  BY <1>1, TablesType
<1>3. PICK ss : ss = Written(table, version)
  OBVIOUS
<1>4. \A i \in 1..n : /\ SessionWords(table[i], version) \in Seq(Word)
                      /\ Len(SessionWords(table[i], version)) = Size(table[i], version)
  BY <1>2, WordsLaid
<1>5. /\ ss \in Seq(Seq(Word)) /\ Len(ss) = n
      /\ \A i \in 1..n : ss[i] = SessionWords(table[i], version)
  BY <1>1, <1>3, <1>4 DEF Written
<1>6. PICK b \in Seq(Word) : b = FlattenSeq(ss)
  BY <1>5, FlattenPlaces
<1>7. PICK h : h = << <<"BNST", version, n>> >>
  OBVIOUS
<1>8. h \in Seq(Word) /\ Len(h) = 1 /\ h[1] = <<"BNST", version, n>>
  <2>1. <<"BNST", version, n>> \in Word
    BY DEF Word
  <2> QED  BY <1>7, <2>1
<1>9. PICK full : full = Encoded(table, version)
  OBVIOUS
<1>10. full = h \o b
  BY <1>1, <1>3, <1>6, <1>7, <1>9 DEF Encoded, Written
<1>11. /\ full \in Seq(Word) /\ Len(full) = 1 + Len(b) /\ full[1] = <<"BNST", version, n>>
       /\ \A k \in 1..Len(b) : full[1 + k] = b[k]
  <2>1. /\ h \o b \in Seq(Word) /\ Len(h \o b) = Len(h) + Len(b)
        /\ \A i \in 1..Len(h) : (h \o b)[i] = h[i]
        /\ \A i \in 1..Len(b) : (h \o b)[Len(h) + i] = b[i]
    <3>1. h \in Seq(Word) /\ b \in Seq(Word)
      BY <1>8
    <3> QED  BY <3>1, Concatenated
  <2> QED  BY <1>8, <1>10, <2>1
<1>12. ASSUME NEW i \in 0..n
       PROVE /\ Begins(table, version, i) \in Nat \ {0, 1}
             /\ FlattenSeq(SubSeq(ss, 1, i)) \in Seq(Word)
  <2>1. SubSeq(ss, 1, i) \in Seq(Seq(Word))
    BY <1>5
  <2>2. FlattenSeq(SubSeq(ss, 1, i)) \in Seq(Word)
    BY <2>1, FlattenPlaces
  <2> QED  BY <1>3, <2>2 DEF Begins
<1>13. Begins(table, version, 0) = 2
  <2>1. SubSeq(ss, 1, 0) = <<>> /\ Len(<<>>) = 0
    BY <1>5
  <2>2. FlattenSeq(SubSeq(ss, 1, 0)) = <<>>
    BY <2>1, FlattenEmpty
  <2> QED  BY <1>3, <2>1, <2>2 DEF Begins
<1>14. Len(full) = Begins(table, version, n) - 1
  <2>1. SubSeq(ss, 1, n) = ss
    BY <1>5
  <2>2. FlattenSeq(SubSeq(Written(table, version), 1, n)) = b
    BY <1>3, <1>6, <2>1
  <2>3. Begins(table, version, n) = 2 + Len(b)
    BY <2>2 DEF Begins
  <2>4. Len(b) \in Nat
    BY <1>6
  <2> QED  BY <1>11, <2>3, <2>4
<1>15. ASSUME NEW i \in 1..n
       PROVE /\ Begins(table, version, i) = Begins(table, version, i - 1) + Size(table[i], version)
             /\ \A k \in 1..Size(table[i], version) :
                  full[Begins(table, version, i - 1) - 1 + k] = SessionWords(table[i], version)[k]
  <2>1. PICK a : a = FlattenSeq(SubSeq(ss, 1, i - 1))
    OBVIOUS
  <2>2. PICK w : w = SessionWords(table[i], version)
    OBVIOUS
  <2>3. w \in Seq(Word) /\ Len(w) = Size(table[i], version) /\ ss[i] = w
    BY <1>4, <1>5, <2>2
  <2>4. /\ a \in Seq(Word) /\ Len(a) + Len(w) <= Len(b)
        /\ FlattenSeq(SubSeq(ss, 1, i)) = a \o w
        /\ \A k \in 1..Len(w) : b[Len(a) + k] = w[k]
    <3>1. ss \in Seq(Seq(Word)) /\ i \in 1..Len(ss)
      BY <1>5
    <3>2. LET c == FlattenSeq(SubSeq(ss, 1, i - 1))  d == FlattenSeq(ss) IN
          /\ c \in Seq(Word) /\ Len(c) + Len(ss[i]) <= Len(d)
          /\ FlattenSeq(SubSeq(ss, 1, i)) = c \o ss[i]
          /\ \A k \in 1..Len(ss[i]) : d[Len(c) + k] = ss[i][k]
      BY <3>1, FlattenPlaces
    <3> QED  BY <1>6, <2>1, <2>3, <3>2
  <2>5. Len(a \o w) = Len(a) + Len(w)
    BY <2>3, <2>4, ConcatProperties
  <2>6. /\ Begins(table, version, i - 1) = 2 + Len(a)
        /\ Begins(table, version, i) = 2 + (Len(a) + Len(w))
    BY <1>3, <2>1, <2>4, <2>5 DEF Begins
  <2>7. PICK la \in Nat, lw \in Nat : la = Len(a) /\ lw = Len(w)
    BY <2>3, <2>4
  <2>8. ASSUME NEW k \in 1..lw PROVE full[(2 + la) - 1 + k] = w[k]
    <3>1. la + k \in 1..Len(b) /\ 1 + (la + k) = (2 + la) - 1 + k
      BY <2>4, <2>7
    <3>2. full[1 + (la + k)] = b[la + k]
      BY <1>11, <3>1
    <3> QED  BY <2>4, <2>7, <3>1, <3>2
  <2> QED  BY <2>2, <2>3, <2>6, <2>7, <2>8
<1> QED  BY <1>1, <1>2, <1>9, <1>11, <1>12, <1>13, <1>14, <1>15
-----------------------------------------------------------------------------
(* What ms_load has after one more session.                                  *)
Continued(words, version, before) ==
  LET here == IF before = <<>> THEN <<>> ELSE SessionAt(words, version, before[1].next)
  IN IF here = <<>> THEN <<>>
     ELSE <<[next |-> here[1].next, table |-> Append(before[1].table, here[1].session)]>>

\* f[i] is what it has after i sessions.
(* A function that reads a file session by session, as Decoded does.         *)
Reads(f, words, version, n) ==
  f = [i \in 0..n |-> IF i = 0 THEN <<[next |-> 2, table |-> <<>>]>>
                      ELSE Continued(words, version, f[i - 1])]

(* Decoded is the last value of such a function.                             *)
LEMMA DecodedDef ==
  ASSUME NEW words, NEW version, NEW n, words[1][2] = version, words[1][3] = n,
         \E f : Reads(f, words, version, n)
  PROVE \E f : /\ Reads(f, words, version, n)
               /\ Decoded(words) = IF f[n] = <<>> THEN <<>> ELSE <<f[n][1].table>>
<1> DEFINE f == CHOOSE f : Reads(f, words, version, n)
<1>1. Reads(f, words, version, n)
  OBVIOUS
<1>2. Decoded(words) = IF f[n] = <<>> THEN <<>> ELSE <<f[n][1].table>>
  BY DEF Decoded, Reads, Continued
<1> QED  BY <1>1, <1>2

(* A file is read as far as it goes: a whole file gives its table, a cut one *)
(* nothing.                                                                  *)
LEMMA ReadBack ==
  ASSUME NEW table, NEW version \in 1..3, Writable(table, version),
         NEW N \in 1..Len(Encoded(table, version))
  PROVE LET words == SubSeq(Encoded(table, version), 1, N) IN
        /\ Recognized(words)
        /\ Decoded(words) = IF N = Len(Encoded(table, version)) THEN <<table>> ELSE <<>>
<1>1. /\ table \in Tables
      /\ \A i \in DOMAIN table : OwnFeatures(table[i]) /\ KnownTo(version, table[i])
  BY DEF Writable
<1>2. PICK n \in Nat : n = Len(table) /\ DOMAIN table = 1..n
  BY <1>1, TablesType
<1>3. PICK full : full = Encoded(table, version)
  OBVIOUS
<1>4. PICK place : place = [i \in 0..n |-> Begins(table, version, i)]
  OBVIOUS
<1>5. /\ full \in Seq(Word) /\ full[1] = <<"BNST", version, n>>
      /\ place[0] = 2 /\ Len(full) = place[n] - 1
      /\ \A i \in 0..n : place[i] \in Nat \ {0, 1}
  <2>1. 0 \in 0..n /\ n \in 0..n
    OBVIOUS
  <2> QED  BY <1>1, <1>2, <1>3, <1>4, <2>1, FileLaid
<1>6. ASSUME NEW i \in 1..n
      PROVE /\ table[i] \in Sessions
            /\ place[i] = place[i - 1] + Size(table[i], version)
            /\ \A k \in 1..Size(table[i], version) :
                 full[place[i - 1] - 1 + k] = SessionWords(table[i], version)[k]
  <2>1. i \in 0..n /\ i - 1 \in 0..n
    OBVIOUS
  <2> QED  BY <1>1, <1>2, <1>3, <1>4, <2>1, FileLaid
<1>7. PICK words : words = SubSeq(full, 1, N)
  OBVIOUS
<1>8. /\ words \in Seq(Word) /\ Len(words) = N
      /\ \A k \in 1..N : words[k] = full[k]
  <2>1. full \in Seq(Word) /\ N \in 1..Len(full)
    BY <1>3, <1>5
  <2> QED  BY <1>7, <2>1
<1>9. words[1] = <<"BNST", version, n>> /\ words # <<>>
  BY <1>5, <1>8
<1>10. words[1][1] = "BNST" /\ words[1][2] = version /\ words[1][3] = n
  BY <1>9
<1> DEFINE Result(i) == IF place[i] - 1 <= N
                        THEN <<[next |-> place[i], table |-> SubSeq(table, 1, i)]>> ELSE <<>>
<1>11. ASSUME NEW i \in 1..n PROVE Continued(words, version, Result(i - 1)) = Result(i)
  <2>1. PICK s \in Sessions : s = table[i]
    BY <1>6
  <2>2. OwnFeatures(s) /\ KnownTo(version, s)
    BY <1>1, <1>2, <2>1
  <2>3. PICK w : w = SessionWords(s, version)
    OBVIOUS
  <2>4. w \in Seq(Word) /\ Len(w) = Size(s, version) /\ Laid(s, version, w)
    BY <2>3, WordsLaid
  <2>5. PICK from, to, size \in Nat :
          from = place[i - 1] /\ to = place[i] /\ size = Size(s, version)
    <3>1. i \in 0..n /\ i - 1 \in 0..n
      OBVIOUS
    <3>2. place[i - 1] \in Nat /\ place[i] \in Nat /\ Size(s, version) \in Nat
      BY <1>5, <2>4, <3>1
    <3> QED  BY <3>2
  <2>6. from \in Nat \ {0, 1} /\ to = from + size
    <3>1. i - 1 \in 0..n
      OBVIOUS
    <3> QED  BY <1>5, <1>6, <2>1, <2>5, <3>1
  <2>7. \A k \in 1..size : full[from - 1 + k] = w[k]
    BY <1>6, <2>1, <2>3, <2>5
  <2>8. size >= 2
    <3>1. s.episodes \in Seq(Remembered)
      BY DEF Sessions
    <3>2. Len(s.episodes) \in Nat
      BY <3>1
    <3>3. Means(s, version) \in Nat /\ Rows(s, version) \in Nat
      BY <3>2 DEF Means, Rows
    <3> QED  BY <2>5, <3>2, <3>3 DEF Size
  <2>9. CASE from - 1 > N
    <3>1. Result(i - 1) = <<>> /\ Result(i) = <<>>
      BY <2>5, <2>6, <2>8, <2>9
    <3> QED  BY <3>1 DEF Continued
  <2>10. CASE from - 1 <= N
    <3>1. PICK before : before = Result(i - 1)
      OBVIOUS
    <3>2. before = <<[next |-> from, table |-> SubSeq(table, 1, i - 1)]>>
      BY <2>5, <2>10, <3>1
    <3>3. before # <<>> /\ before[1].next = from /\ before[1].table = SubSeq(table, 1, i - 1)
      BY <3>2
    <3>4. SessionAt(words, version, from) =
            IF from - 1 + size <= N THEN <<[next |-> from + size, session |-> s]>> ELSE <<>>
      <4>1. CASE from <= N
        <5>1. from \in 1..Len(words)
          BY <1>8, <2>6, <4>1
        <5>2. \A k \in 1..Size(s, version) :
                from - 1 + k <= Len(words) => words[from - 1 + k] = w[k]
          <6> SUFFICES ASSUME NEW k \in 1..size, from - 1 + k <= N PROVE words[from - 1 + k] = w[k]
            BY <1>8, <2>5
          <6>1. from - 1 + k \in 1..N
            BY <2>6
          <6> QED  BY <1>8, <2>7, <6>1
        <5>3. SessionAt(words, version, from) =
                IF from - 1 + Size(s, version) <= Len(words)
                THEN <<[next |-> from + Size(s, version), session |-> s]>> ELSE <<>>
          BY <1>8, <2>2, <2>4, <5>1, <5>2, SessionRead
        <5> QED  BY <1>8, <2>5, <5>3
      <4>2. CASE from > N
        <5>1. SessionAt(words, version, from) = <<>>
          BY <1>8, <2>6, <4>2, SMTT(30) DEF SessionAt
        <5>2. ~(from - 1 + size <= N)
          BY <2>6, <2>8, <2>10, <4>2
        <5> QED  BY <5>1, <5>2
      <4> QED  BY <2>6, <4>1, <4>2
    <3>5. CASE from - 1 + size <= N
      <4>1. PICK here : here = SessionAt(words, version, from)
        OBVIOUS
      <4>2. here # <<>> /\ here[1].next = to /\ here[1].session = s
        BY <2>6, <3>4, <3>5, <4>1
      <4>3. Append(SubSeq(table, 1, i - 1), s) = SubSeq(table, 1, i)
        <5>1. table \in Seq(Sessions) /\ Len(table) = n
          BY <1>1, <1>2, TablesType
        <5> QED  BY <2>1, <5>1
      <4>4. Continued(words, version, before) =
              <<[next |-> here[1].next, table |-> Append(before[1].table, here[1].session)]>>
        BY <3>3, <4>1, <4>2 DEF Continued
      <4>5. Continued(words, version, before) = <<[next |-> to, table |-> SubSeq(table, 1, i)]>>
        BY <3>3, <4>2, <4>3, <4>4
      <4>6. to - 1 <= N
        BY <2>6, <3>5
      <4>7. Result(i) = <<[next |-> to, table |-> SubSeq(table, 1, i)]>>
        BY <2>5, <4>6
      <4> HIDE DEF Result
      <4> QED  BY <3>1, <4>5, <4>7
    <3>6. CASE ~(from - 1 + size <= N)
      <4>1. SessionAt(words, version, from) = <<>>
        BY <3>4, <3>6
      <4>2. Continued(words, version, before) = <<>>
        BY <3>3, <4>1 DEF Continued
      <4>3. Result(i) = <<>>
        BY <2>5, <2>6, <3>6
      <4> HIDE DEF Result
      <4> QED  BY <3>1, <4>2, <4>3
    <3> QED  BY <3>5, <3>6
  <2> QED  BY <2>6, <2>9, <2>10
<1>12. Result(0) = <<[next |-> 2, table |-> <<>>]>>
  <2>1. SubSeq(table, 1, 0) = <<>>
    BY <1>1, TablesType
  <2>2. place[0] - 1 <= N
    BY <1>5
  <2> QED  BY <1>5, <2>1, <2>2
<1> HIDE DEF Result
<1>13. \E f : Reads(f, words, version, n)
  <2>1. PICK f : f = [i \in 0..n |-> Result(i)]
    OBVIOUS
  <2>2. ASSUME NEW i \in 0..n
        PROVE Result(i) = IF i = 0 THEN <<[next |-> 2, table |-> <<>>]>>
                          ELSE Continued(words, version, f[i - 1])
    <3>1. CASE i = 0
      BY <1>12, <3>1
    <3>2. CASE i # 0
      <4>1. i \in 1..n /\ i - 1 \in 0..n
        BY <3>2
      <4>2. f[i - 1] = Result(i - 1)
        BY <2>1, <4>1
      <4> QED  BY <1>11, <3>2, <4>1, <4>2
    <3> QED  BY <3>1, <3>2
  <2>3. f = [i \in 0..n |-> IF i = 0 THEN <<[next |-> 2, table |-> <<>>]>>
                            ELSE Continued(words, version, f[i - 1])]
    BY <2>1, <2>2
  <2> QED  BY <2>3 DEF Reads
<1>14. PICK f : /\ Reads(f, words, version, n)
                /\ Decoded(words) = IF f[n] = <<>> THEN <<>> ELSE <<f[n][1].table>>
  BY <1>10, <1>13, DecodedDef
<1>15. \A i \in Nat : i <= n => f[i] = Result(i)
  <2> DEFINE S == {i \in Nat : i <= n => f[i] = Result(i)}
  <2>1. 0 \in S
    <3>1. 0 \in 0..n
      OBVIOUS
    <3>2. f[0] = <<[next |-> 2, table |-> <<>>]>>
      BY <1>14, <3>1 DEF Reads
    <3> QED  BY <1>12, <3>2
  <2>2. ASSUME NEW i \in Nat, i \in S PROVE i + 1 \in S
    <3> SUFFICES ASSUME i + 1 <= n PROVE f[i + 1] = Result(i + 1)
      OBVIOUS
    <3>1. i + 1 \in 0..n /\ i + 1 \in 1..n /\ i + 1 # 0 /\ (i + 1) - 1 = i
      OBVIOUS
    <3>2. f[i + 1] = Continued(words, version, f[(i + 1) - 1])
      BY <1>14, <3>1 DEF Reads
    <3>3. f[i] = Result(i)
      BY <2>2, <3>1
    <3> QED  BY <1>11, <3>1, <3>2, <3>3
  <2>3. \A i \in Nat : i \in S
    <3> HIDE DEF S
    <3> QED  BY <2>1, <2>2, Induction
  <2> QED  BY <2>3
<1>16. Decoded(words) = IF Result(n) = <<>> THEN <<>> ELSE <<Result(n)[1].table>>
  BY <1>14, <1>15
<1>17. CASE N = Len(full)
  <2>1. SubSeq(table, 1, n) = table
    BY <1>1, <1>2, TablesType
  <2>2. place[n] - 1 <= N
    BY <1>5, <1>17
  <2>3. Result(n) = <<[next |-> place[n], table |-> table]>>
    BY <2>1, <2>2 DEF Result
  <2>4. Result(n) # <<>> /\ Result(n)[1].table = table
    BY <2>3
  <2> QED  BY <1>3, <1>7, <1>9, <1>10, <1>16, <1>17, <2>4 DEF Recognized
<1>18. CASE N # Len(full)
  <2>1. ~(place[n] - 1 <= N)
    BY <1>3, <1>5, <1>18
  <2>2. Result(n) = <<>>
    BY <2>1 DEF Result
  <2> QED  BY <1>3, <1>7, <1>9, <1>10, <1>16, <1>18, <2>2 DEF Recognized
<1> QED  BY <1>17, <1>18
-----------------------------------------------------------------------------
(* The file is a file of some version as far as it was written, and the      *)
(* history variable knows of which table, if it was written to its end.      *)
FileOK ==
  \/ bnstate = NoFile /\ image = NoImage
  \/ \E version \in 1..3, table \in Tables :
       /\ Writable(table, version)
       /\ \E N \in 0..Len(Encoded(table, version)) :
            /\ bnstate = SubSeq(Encoded(table, version), 1, N)
            /\ image = IF N = Len(Encoded(table, version)) THEN <<table>> ELSE NoImage

(* The table in memory, and the session the main loop holds.                 *)
TableOK(table) == table \in Tables /\ \A i \in DOMAIN table : OwnFeatures(table[i])
MemoryOK ==
  /\ TableOK(sessions)
  /\ repl \in [mode : {"down", "plain", "memory", "ranking"}, demo : BOOLEAN]
  /\ repl.demo => Find(sessions, "demo") # {}

(* What a load finds in such a file.                                         *)
LEMMA FileRead ==
  ASSUME FileOK
  PROVE /\ image # NoImage => Recognized(bnstate)
        /\ Recognized(bnstate) => Decoded(bnstate) = image
        /\ Decoded(bnstate) # <<>> /\ Recognized(bnstate) => TableOK(Decoded(bnstate)[1])
<1>1. CASE bnstate = NoFile /\ image = NoImage
  <2>1. NoFile[1][1] = "no file"
    BY DEF NoFile
  <2>2. ~Recognized(bnstate)
    BY <1>1, <2>1 DEF Recognized
  <2> QED  BY <1>1, <2>2
<1>2. ASSUME NEW version \in 1..3, NEW table \in Tables, Writable(table, version),
             NEW N \in 0..Len(Encoded(table, version)),
             bnstate = SubSeq(Encoded(table, version), 1, N),
             image = IF N = Len(Encoded(table, version)) THEN <<table>> ELSE NoImage
      PROVE /\ image # NoImage => Recognized(bnstate)
            /\ Recognized(bnstate) => Decoded(bnstate) = image
            /\ Decoded(bnstate) # <<>> /\ Recognized(bnstate) => TableOK(Decoded(bnstate)[1])
  <2>1. PICK full : full = Encoded(table, version)
    OBVIOUS
  <2>2. full \in Seq(Word) /\ Len(full) # 0
    <3>1. PICK n \in Nat : n = Len(table)
      BY TablesType
    <3>2. n \in 0..n
      OBVIOUS
    <3>3. Len(full) = Begins(table, version, n) - 1 /\ Begins(table, version, n) \in Nat \ {0, 1}
      BY <2>1, <3>1, <3>2, FileLaid
    <3>4. full \in Seq(Word)
      BY <2>1, FileLaid
    <3> QED  BY <3>3, <3>4
  <2>3. CASE N = 0
    <3>1. bnstate = <<>>
      BY <1>2, <2>1, <2>2, <2>3
    <3>2. ~Recognized(bnstate)
      BY <3>1 DEF Recognized
    <3>3. image = NoImage
      BY <1>2, <2>1, <2>2, <2>3
    <3> QED  BY <3>2, <3>3
  <2>4. CASE N # 0
    <3>1. N \in 1..Len(Encoded(table, version))
      BY <2>1, <2>2, <2>4
    <3>2. /\ Recognized(bnstate)
          /\ Decoded(bnstate) = IF N = Len(Encoded(table, version)) THEN <<table>> ELSE <<>>
      BY <1>2, <3>1, ReadBack
    <3>3. Decoded(bnstate) = image
      BY <1>2, <3>2 DEF NoImage
    <3>4. TableOK(table)
      BY <1>2 DEF TableOK, Writable
    <3>5. <<table>>[1] = table
      OBVIOUS
    <3> QED  BY <3>2, <3>3, <3>4, <3>5
  <2> QED  BY <2>3, <2>4
<1> QED  BY <1>1, <1>2 DEF FileOK

(* The table is as sound after a load as before it.                          *)
LEMMA LoadOK ==
  ASSUME FileOK, TableOK(sessions)
  PROVE TableOK(TableAfterLoad)
<1>1. TableOK(<<>>)
  <2>1. <<>> \in Tables /\ DOMAIN <<>> = {}
    BY TablesType
  <2> QED  BY <2>1 DEF TableOK
<1> QED  BY <1>1, FileRead DEF TableAfterLoad

(* What was encoded to its end is a whole file.                              *)
LEMMA WholeFile ==
  ASSUME NEW version \in 1..3, NEW table, Writable(table, version),
         bnstate' = Encoded(table, version), image' = <<table>>
  PROVE FileOK'
<1>1. table \in Tables
  BY DEF Writable
<1>2. PICK full \in Seq(Word) : full = Encoded(table, version)
  BY <1>1, FileLaid
<1>3. PICK N \in Nat : N = Len(full)
  OBVIOUS
<1>4. SubSeq(full, 1, N) = full /\ N \in 0..Len(full)
  BY <1>3
<1>5. /\ bnstate' = SubSeq(Encoded(table, version), 1, N)
      /\ image' = IF N = Len(Encoded(table, version)) THEN <<table>> ELSE NoImage
      /\ N \in 0..Len(Encoded(table, version))
  BY <1>2, <1>3, <1>4
<1> QED  BY <1>1, <1>5 DEF FileOK

(* What earlier versions left is such a file.                                *)
LEMMA StateInitOK == StateInit => FileOK /\ MemoryOK
<1> SUFFICES ASSUME StateInit PROVE FileOK /\ MemoryOK
  OBVIOUS
<1>1. MemoryOK
  <2>1. sessions = <<>> /\ <<>> \in Tables /\ DOMAIN <<>> = {}
    BY TablesType DEF StateInit
  <2>2. repl = [mode |-> "down", demo |-> FALSE]
    BY DEF StateInit, Down
  <2> QED  BY <2>1, <2>2 DEF MemoryOK, TableOK
<1>2. CASE bnstate = NoFile /\ image = NoImage
  BY <1>1, <1>2 DEF FileOK
<1>3. ASSUME NEW old \in OldFiles, bnstate = Encoded(old.table, old.version), image = <<old.table>>
      PROVE FileOK
  <2>1. PICK version \in 1..3, table \in Tables : version = old.version /\ table = old.table
    BY StateConstants
  <2>2. Writable(table, version)
    BY <2>1, StateConstants DEF Writable
  <2>3. PICK full \in Seq(Word) : full = Encoded(table, version)
    BY FileLaid
  <2>4. PICK N \in Nat : N = Len(full)
    OBVIOUS
  <2>5. SubSeq(full, 1, N) = full /\ N \in 0..Len(full)
    BY <2>4
  <2>6. /\ bnstate = SubSeq(Encoded(table, version), 1, N)
        /\ image = IF N = Len(Encoded(table, version)) THEN <<table>> ELSE NoImage
        /\ N \in 0..Len(Encoded(table, version))
    BY <1>3, <2>1, <2>3, <2>4, <2>5
  <2> QED  BY <2>2, <2>6 DEF FileOK
<1> QED  BY <1>1, <1>2, <1>3 DEF StateInit

(* Computing features keeps them with their texts.                           *)
LEMMA WithFeaturesOK ==
  ASSUME NEW s \in Sessions, OwnFeatures(s), NEW done \in SUBSET (DOMAIN s.episodes)
  PROVE LET t == WithFeatures(s, done) IN t \in Sessions /\ OwnFeatures(t) /\ t.id = s.id
<1>1. PICK ep \in Seq(Remembered) : ep = s.episodes
  BY DEF Sessions
<1>2. PICK n \in Nat : n = Len(ep) /\ DOMAIN ep = 1..n
  OBVIOUS
<1>3. PICK new : new = [j \in 1..n |->
          IF j \in done THEN [text |-> ep[j].text, mean |-> ep[j].text, rows |-> ep[j].text]
          ELSE ep[j]]
  OBVIOUS
<1>4. ASSUME NEW j \in 1..n
      PROVE /\ new[j] \in Remembered
            /\ new[j].mean \in {Unset, new[j].text} /\ new[j].rows \in {Unset, new[j].text}
            /\ new[j].rows # Unset => new[j].mean # Unset
            /\ new[j].mean # Unset => s.valid \/ done # {}
  <2>1. ep[j] \in Remembered
    BY <1>2
  <2>2. /\ ep[j].mean \in {Unset, ep[j].text} /\ ep[j].rows \in {Unset, ep[j].text}
        /\ ep[j].rows # Unset => ep[j].mean # Unset
        /\ ep[j].mean # Unset => s.valid
    BY <1>1, <1>2 DEF OwnFeatures
  <2>3. CASE j \in done
    <3>1. new[j] = [text |-> ep[j].text, mean |-> ep[j].text, rows |-> ep[j].text]
      BY <1>3, <2>3
    <3>2. ep[j].text \in Facts /\ done # {}
      BY <2>1, <2>3 DEF Remembered
    <3> QED  BY <3>1, <3>2 DEF Remembered, Feature
  <2>4. CASE j \notin done
    <3>1. new[j] = ep[j]
      BY <1>3, <2>4
    <3> QED  BY <2>1, <2>2, <3>1
  <2> QED  BY <2>3, <2>4
<1>5. new \in Seq(Remembered) /\ DOMAIN new = 1..n
  BY <1>3, <1>4
<1>6. PICK v \in BOOLEAN : v = (s.valid \/ done # {})
  OBVIOUS
<1>7. PICK t : t = [s EXCEPT !.episodes = new, !.valid = v]
  OBVIOUS
<1>8. t = WithFeatures(s, done)
  BY <1>1, <1>2, <1>3, <1>6, <1>7 DEF WithFeatures, Sessions
<1>9. t \in Sessions /\ t.episodes = new /\ t.valid = v /\ t.id = s.id
  BY <1>5, <1>7 DEF Sessions
<1>10. OwnFeatures(t)
  BY <1>4, <1>5, <1>6, <1>9 DEF OwnFeatures
<1> QED  BY <1>8, <1>9, <1>10

(* A session of the table is replaced by another of its name.                *)
LEMMA Replaced ==
  ASSUME NEW table, TableOK(table), NEW d \in DOMAIN table, NEW t \in Sessions,
         OwnFeatures(t), t.id = table[d].id, Find(table, "demo") # {}
  PROVE LET next == [table EXCEPT ![d] = t] IN TableOK(next) /\ Find(next, "demo") # {}
<1>1. PICK next : next = [table EXCEPT ![d] = t]
  OBVIOUS
<1>2. table \in Seq(Sessions)
  BY TablesType DEF TableOK
<1>3. next \in Seq(Sessions) /\ DOMAIN next = DOMAIN table
  BY <1>1, <1>2
<1>4. \A i \in DOMAIN table : next[i] = IF i = d THEN t ELSE table[i]
  BY <1>1, <1>2
<1>5. TableOK(next)
  BY <1>3, <1>4, TablesType DEF TableOK
<1>6. Find(next, "demo") # {}
  BY <1>3, <1>4 DEF Find
<1> QED  BY <1>1, <1>5, <1>6
-----------------------------------------------------------------------------
(* A program that starts, with or without a state.                           *)
LEMMA StartOK ==
  ASSUME FileOK, MemoryOK, NEW mode \in Modes, NEW loads \in BOOLEAN, StartProgram(mode, loads)
  PROVE FileOK' /\ MemoryOK'
<1>1. PICK table : table = IF loads /\ mode # "plain" THEN TableAfterLoad ELSE <<>>
  OBVIOUS
<1>2. TableOK(table)
  <2>1. TableOK(<<>>)
    <3>1. <<>> \in Tables /\ DOMAIN <<>> = {}
      BY TablesType
    <3> QED  BY <3>1 DEF TableOK
  <2> QED  BY <1>1, <2>1, LoadOK DEF MemoryOK
<1>3. /\ sessions' = IF mode # "plain" /\ Find(table, "demo") = {}
                     THEN Append(table, Session("demo")) ELSE table
      /\ repl' = [mode |-> mode, demo |-> mode # "plain"]
      /\ UNCHANGED <<bnstate, image>>
  BY <1>1 DEF StartProgram
<1>4. FileOK'
  BY <1>3 DEF FileOK
<1>5. repl' \in [mode : {"down", "plain", "memory", "ranking"}, demo : BOOLEAN]
  BY <1>3, StateConstants
<1>6. CASE mode # "plain" /\ Find(table, "demo") = {}
  <2>1. PICK s : s = Session("demo")
    OBVIOUS
  <2>2. s \in Sessions /\ s.id = "demo" /\ s.episodes = <<>>
    <3>1. s = [id |-> "demo", episodes |-> <<>>, valid |-> FALSE]
      BY <2>1 DEF Session
    <3>2. <<>> \in Seq(Remembered)
      OBVIOUS
    <3>3. "demo" \in Ids /\ FALSE \in BOOLEAN
      BY StateConstants
    <3>4. PICK none \in Seq(Remembered) : none = <<>>
      BY <3>2
    <3>5. PICK id \in Ids, no \in BOOLEAN : id = "demo" /\ no = FALSE
      BY <3>3
    <3>6. s = [id |-> id, valid |-> no, episodes |-> none]
      BY <3>1, <3>4, <3>5
    <3>7. s \in Sessions /\ s.id = id /\ s.episodes = none
      BY <3>6 DEF Sessions
    <3> QED  BY <3>4, <3>5, <3>7
  <2>3. OwnFeatures(s)
    BY <2>2 DEF OwnFeatures
  <2>4. PICK next : next = Append(table, s)
    OBVIOUS
  <2>5. table \in Seq(Sessions)
    BY <1>2, TablesType DEF TableOK
  <2>6. /\ next \in Seq(Sessions) /\ DOMAIN next = 1..(Len(table) + 1) /\ next[Len(table) + 1] = s
        /\ \A i \in 1..Len(table) : next[i] = table[i]
    BY <2>2, <2>4, <2>5
  <2>7. \A i \in DOMAIN next : OwnFeatures(next[i])
    <3> SUFFICES ASSUME NEW i \in 1..(Len(table) + 1) PROVE OwnFeatures(next[i])
      BY <2>6
    <3>1. CASE i = Len(table) + 1
      BY <2>3, <2>6, <3>1
    <3>2. CASE i # Len(table) + 1
      <4>1. i \in 1..Len(table) /\ i \in DOMAIN table
        BY <2>5, <3>2
      <4> QED  BY <1>2, <2>6, <4>1 DEF TableOK
    <3> QED  BY <3>1, <3>2
  <2>8. TableOK(next)
    BY <2>6, <2>7, TablesType DEF TableOK
  <2>9. Find(next, "demo") # {}
    <3>1. Len(table) + 1 \in DOMAIN next
      BY <2>5, <2>6
    <3> QED  BY <2>2, <2>6, <3>1 DEF Find
  <2>10. sessions' = next
    BY <1>3, <1>6, <2>1, <2>4
  <2> QED  BY <1>4, <1>5, <2>8, <2>9, <2>10 DEF MemoryOK
<1>7. CASE ~(mode # "plain" /\ Find(table, "demo") = {})
  <2>1. sessions' = table /\ (repl'.demo => Find(table, "demo") # {})
    BY <1>3, <1>7
  <2> QED  BY <1>2, <1>4, <1>5, <2>1 DEF MemoryOK
<1> QED  BY <1>6, <1>7

(* The session the main loop holds.                                          *)
LEMMA DemoOK ==
  ASSUME MemoryOK, Remembering
  PROVE /\ Find(sessions, "demo") # {} /\ Demo \in DOMAIN sessions
        /\ sessions[Demo] \in Sessions /\ OwnFeatures(sessions[Demo])
<1>1. Find(sessions, "demo") # {}
  BY DEF MemoryOK, Remembering
<1>2. Demo \in Find(sessions, "demo")
  BY <1>1 DEF Demo
<1>3. Demo \in DOMAIN sessions
  BY <1>2 DEF Find
<1>4. sessions \in Seq(Sessions)
  BY TablesType DEF MemoryOK, TableOK
<1>5. sessions[Demo] \in Sessions
  BY <1>3, <1>4
<1> QED  BY <1>1, <1>3, <1>5 DEF MemoryOK, TableOK

(* A fact is stored.                                                         *)
LEMMA FactOK ==
  ASSUME FileOK, MemoryOK, NEW text \in Facts, StateFact(text)
  PROVE FileOK' /\ MemoryOK'
<1>1. Remembering /\ UNCHANGED <<repl, bnstate, image>>
  BY DEF StateFact
<1>2. PICK d \in DOMAIN sessions, s \in Sessions : d = Demo /\ s = sessions[d] /\ OwnFeatures(s)
  BY <1>1, DemoOK
<1>3. PICK longer : longer = [s EXCEPT !.episodes = Append(@, Episode(text))]
  OBVIOUS
<1>4. PICK done \in SUBSET (IF repl.mode = "ranking" THEN {Len(longer.episodes)} ELSE {}) :
        sessions' = [sessions EXCEPT ![d] = WithFeatures(longer, done)]
  BY <1>2, <1>3 DEF StateFact
<1>5. PICK ep, e : ep \in Seq(Remembered) /\ ep = s.episodes /\ e = Episode(text)
  <2>1. s.episodes \in Seq(Remembered)
    BY DEF Sessions
  <2> QED  BY <2>1
<1>6. e \in Remembered /\ e.mean = Unset /\ e.rows = Unset
  BY <1>5 DEF Episode, Remembered, Feature
<1>7. PICK long : long = Append(ep, e)
  OBVIOUS
<1>8. /\ long \in Seq(Remembered) /\ Len(long) = Len(ep) + 1 /\ long[Len(ep) + 1] = e
      /\ \A j \in 1..Len(ep) : long[j] = ep[j]
  <2>1. ep \in Seq(Remembered) /\ e \in Remembered
    BY <1>5, <1>6
  <2> QED  BY <1>7, <2>1
<1>9. longer = [s EXCEPT !.episodes = long]
  BY <1>3, <1>5, <1>7 DEF Sessions
<1>10. longer \in Sessions /\ longer.episodes = long /\ longer.id = s.id /\ longer.valid = s.valid
  BY <1>8, <1>9 DEF Sessions
<1>11. OwnFeatures(longer)
  <2> SUFFICES ASSUME NEW j \in DOMAIN long
               PROVE /\ long[j].mean \in {Unset, long[j].text}
                     /\ long[j].rows \in {Unset, long[j].text}
                     /\ long[j].rows # Unset => long[j].mean # Unset
                     /\ long[j].mean # Unset => s.valid
    BY <1>10 DEF OwnFeatures
  <2>1. CASE j = Len(ep) + 1
    BY <1>6, <1>8, <2>1
  <2>2. CASE j # Len(ep) + 1
    <3>1. j \in 1..Len(ep) /\ j \in DOMAIN ep
      BY <1>8, <2>2
    <3> QED  BY <1>2, <1>5, <1>8, <3>1 DEF OwnFeatures
  <2> QED  BY <2>1, <2>2
<1>12. done \in SUBSET (DOMAIN longer.episodes)
  <2>1. Len(long) \in DOMAIN long
    BY <1>8
  <2> QED  BY <1>10, <2>1
<1>13. PICK t \in Sessions : t = WithFeatures(longer, done) /\ OwnFeatures(t) /\ t.id = s.id
  BY <1>10, <1>11, <1>12, WithFeaturesOK
<1>14. TableOK(sessions') /\ Find(sessions', "demo") # {}
  <2>1. TableOK(sessions) /\ Find(sessions, "demo") # {}
    BY <1>1, DemoOK DEF MemoryOK
  <2>2. sessions' = [sessions EXCEPT ![d] = t] /\ t.id = sessions[d].id
    BY <1>2, <1>4, <1>13
  <2> QED  BY <1>13, <2>1, <2>2, Replaced
<1>15. FileOK'
  BY <1>1 DEF FileOK
<1> QED  BY <1>1, <1>14, <1>15 DEF MemoryOK

(* A question is asked.                                                      *)
LEMMA QuestionOK ==
  ASSUME FileOK, MemoryOK, AskQuestion
  PROVE FileOK' /\ MemoryOK'
<1>1. Remembering /\ UNCHANGED <<repl, bnstate, image>>
  BY DEF AskQuestion
<1>2. PICK d \in DOMAIN sessions, s \in Sessions : d = Demo /\ s = sessions[d] /\ OwnFeatures(s)
  BY <1>1, DemoOK
<1>3. PICK done \in SUBSET MissingRows : sessions' = [sessions EXCEPT ![d] = WithFeatures(@, done)]
  BY <1>2 DEF AskQuestion
<1>4. done \in SUBSET (DOMAIN s.episodes)
  BY <1>2, <1>3 DEF MissingRows
<1>5. PICK t \in Sessions : t = WithFeatures(s, done) /\ OwnFeatures(t) /\ t.id = s.id
  BY <1>2, <1>4, WithFeaturesOK
<1>6. TableOK(sessions') /\ Find(sessions', "demo") # {}
  <2>1. TableOK(sessions) /\ Find(sessions, "demo") # {}
    BY <1>1, DemoOK DEF MemoryOK
  <2>2. sessions' = [sessions EXCEPT ![d] = t] /\ t.id = sessions[d].id
    BY <1>2, <1>3, <1>5
  <2> QED  BY <1>5, <2>1, <2>2, Replaced
<1>7. FileOK'
  BY <1>1 DEF FileOK
<1> QED  BY <1>1, <1>6, <1>7 DEF MemoryOK

(* The program ends, or nothing is left to remember: an empty table.         *)
LEMMA EmptyOK ==
  ASSUME sessions' = <<>>, repl' = Down
  PROVE MemoryOK'
<1>1. <<>> \in Tables /\ DOMAIN <<>> = {}
  BY TablesType
<1> QED  BY <1>1 DEF MemoryOK, TableOK, Down

(* A save to the end.                                                        *)
LEMMA SaveOK ==
  ASSUME FileOK, MemoryOK, NEW exits \in BOOLEAN, SaveState(exits)
  PROVE FileOK' /\ MemoryOK'
<1>1. bnstate' = Encoded(sessions, 3) /\ image' = <<sessions>> /\ Leaves(exits)
  BY DEF SaveState, Words
<1>2. Writable(sessions, 3)
  BY DEF Writable, MemoryOK, TableOK, KnownTo
<1>3. FileOK'
  BY <1>1, <1>2, WholeFile
<1>4. CASE exits
  BY <1>1, <1>3, <1>4, EmptyOK DEF Leaves
<1>5. CASE ~exits
  BY <1>1, <1>3, <1>5 DEF Leaves, MemoryOK
<1> QED  BY <1>4, <1>5

(* A save that is cut.                                                       *)
LEMMA CutOK ==
  ASSUME FileOK, MemoryOK, SaveCut
  PROVE FileOK' /\ MemoryOK'
<1>1. PICK full : full = Encoded(sessions, 3)
  OBVIOUS
<1>2. PICK n \in 0..(Len(full) - 1) : bnstate' = SubSeq(full, 1, n)
  BY <1>1 DEF SaveCut, Words
<1>3. Writable(sessions, 3) /\ sessions \in Tables
  BY DEF Writable, MemoryOK, TableOK, KnownTo
<1>4. full \in Seq(Word)
  BY <1>1, <1>3, FileLaid
<1>5. n \in 0..Len(full) /\ n # Len(full)
  BY <1>2, <1>4
<1>6. image' = NoImage
  BY DEF SaveCut
<1>7. FileOK'
  BY <1>1, <1>2, <1>3, <1>5, <1>6 DEF FileOK
<1>8. PICK dies \in BOOLEAN : /\ repl' = IF dies THEN Down ELSE repl
                              /\ sessions' = IF dies THEN <<>> ELSE sessions
  BY DEF SaveCut
<1>9. CASE dies
  BY <1>7, <1>8, <1>9, EmptyOK
<1>10. CASE ~dies
  BY <1>7, <1>8, <1>10 DEF MemoryOK
<1> QED  BY <1>9, <1>10

(* A state is loaded while the program runs.                                 *)
LEMMA LoadStateOK ==
  ASSUME FileOK, MemoryOK, LoadState
  PROVE FileOK' /\ MemoryOK'
<1>1. /\ sessions' = TableAfterLoad /\ UNCHANGED <<bnstate, image>>
      /\ repl' = [repl EXCEPT !.demo = repl.mode # "plain" /\ Find(TableAfterLoad, "demo") # {}]
  BY DEF LoadState
<1>2. PICK table : table = TableAfterLoad
  OBVIOUS
<1>3. TableOK(table)
  BY <1>2, LoadOK DEF MemoryOK
<1>4. PICK b \in BOOLEAN : b = (repl.mode # "plain" /\ Find(table, "demo") # {})
  OBVIOUS
<1>5. repl' = [repl EXCEPT !.demo = b]
  BY <1>1, <1>2, <1>4
<1>6. repl' \in [mode : {"down", "plain", "memory", "ranking"}, demo : BOOLEAN] /\ repl'.demo = b
  BY <1>5 DEF MemoryOK
<1>7. FileOK'
  BY <1>1 DEF FileOK
<1> QED  BY <1>1, <1>2, <1>3, <1>4, <1>6, <1>7 DEF MemoryOK

(* Every step keeps the file and the table as they should be.                *)
LEMMA StateStepOK ==
  ASSUME FileOK, MemoryOK, [StateNext]_stateVars
  PROVE FileOK' /\ MemoryOK'
<1>1. CASE \E mode \in Modes, loads \in BOOLEAN : StartProgram(mode, loads)
  BY <1>1, StartOK
<1>2. CASE \E text \in Facts : StateFact(text)
  BY <1>2, FactOK
<1>3. CASE AskQuestion
  BY <1>3, QuestionOK
<1>4. CASE \E exits \in BOOLEAN : SaveState(exits)
  BY <1>4, SaveOK
<1>5. CASE SaveCut
  BY <1>5, CutOK
<1>6. CASE LoadState
  BY <1>6, LoadStateOK
<1>7. CASE EndProgram
  <2>1. sessions' = <<>> /\ repl' = Down /\ UNCHANGED <<bnstate, image>>
    BY <1>7 DEF EndProgram
  <2>2. FileOK'
    BY <2>1 DEF FileOK
  <2> QED  BY <2>1, <2>2, EmptyOK
<1>8. CASE UNCHANGED stateVars
  <2>1. UNCHANGED <<repl, sessions, bnstate, image>>
    BY <1>8 DEF stateVars
  <2>2. FileOK'
    BY <2>1 DEF FileOK
  <2>3. MemoryOK'
    BY <2>1 DEF MemoryOK
  <2> QED  BY <2>2, <2>3
<1> QED  BY <1>1, <1>2, <1>3, <1>4, <1>5, <1>6, <1>7, <1>8 DEF StateNext
-----------------------------------------------------------------------------
(* A behaviour of the two mechanisms is one of the snapshots, and one of the *)
(* state file: the other stutters.                                           *)
LEMMA StorageIsSnapshot == StorageSpec => Spec
<1>1. [StorageNext]_storageVars => [Next]_vars
  <2> SUFFICES ASSUME [StorageNext]_storageVars PROVE [Next]_vars
    OBVIOUS
  <2>1. CASE ByGenerations
    BY <2>1 DEF ByGenerations
  <2>2. CASE InPlace
    BY <2>2 DEF InPlace
  <2>3. CASE UNCHANGED storageVars
    BY <2>3 DEF storageVars
  <2> QED BY <2>1, <2>2, <2>3 DEF StorageNext
<1>2. StorageInit => Init
  BY DEF StorageInit
<1> QED BY <1>1, <1>2, PTL DEF StorageSpec, Spec

(* The same, of the state file.                                              *)
LEMMA StorageIsState == StorageSpec => StateInit /\ [][StateNext]_stateVars
<1>1. [StorageNext]_storageVars => [StateNext]_stateVars
  <2> SUFFICES ASSUME [StorageNext]_storageVars PROVE [StateNext]_stateVars
    OBVIOUS
  <2>1. CASE ByGenerations
    BY <2>1 DEF ByGenerations
  <2>2. CASE InPlace
    BY <2>2 DEF InPlace
  <2>3. CASE UNCHANGED storageVars
    BY <2>3 DEF storageVars
  <2> QED BY <2>1, <2>2, <2>3 DEF StorageNext
<1>2. StorageInit => StateInit
  BY DEF StorageInit
<1> QED BY <1>1, <1>2, PTL DEF StorageSpec

(* Wherever ms_save was cut, and whichever version wrote the file: ms_load   *)
(* gives back the table that was saved, or refuses; it never takes a part of *)
(* a memory for the whole of it.                                             *)
THEOREM StateAlwaysRoundTrips == StorageSpec => []StateRoundTrips
<1>1. FileOK => StateRoundTrips
  BY FileRead DEF StateRoundTrips
<1>2. (FileOK /\ MemoryOK) /\ [StateNext]_stateVars => (FileOK /\ MemoryOK)'
  BY StateStepOK
<1> QED BY <1>1, <1>2, StateInitOK, StorageIsState, PTL

(* The features an episode is ranked by are its own, and none are dropped by *)
(* a save because the session says it has none.                              *)
THEOREM FeaturesAlwaysMatch == StorageSpec => []FeaturesMatchTexts
<1>1. MemoryOK => FeaturesMatchTexts
  BY DEF MemoryOK, TableOK, FeaturesMatchTexts
<1>2. (FileOK /\ MemoryOK) /\ [StateNext]_stateVars => (FileOK /\ MemoryOK)'
  BY StateStepOK
<1> QED BY <1>1, <1>2, StateInitOK, StorageIsState, PTL
=============================================================================
