------------------------------ MODULE Snapshot ------------------------------
(***************************************************************************)
(* The snapshots of memory state of src/src/metis/memory_snapshot.c: the   *)
(* stores are written to files named after their SHA-256, and a manifest,  *)
(* replaced by a rename, names the files of the current generation.        *)
(*                                                                         *)
(* The file system is modelled from the calls the code makes of it (fopen, *)
(* fsync, rename, remove).  What a process sees of a directory entry and   *)
(* what a crash may leave of it differ: an entry that was changed may keep *)
(* its old or its new state until the directory is synced, each entry on   *)
(* its own, and a file that was not synced may turn out torn.  There is    *)
(* one writer per state directory (memory_snapshot.h).                     *)
(***************************************************************************)
EXTENDS Integers, Sequences

CONSTANTS
  Resident,   \* whether the server runs a resident model
  Values,     \* the contents of a store
  Saves,      \* the states of memory a save is asked to write
  Legacy,     \* a load of the plain files older programs left
  NoResult,   \* a load that fails
  Absent,     \* no such entry
  Torn        \* unreadable contents

Parts == {"episodic", "events"} \cup (IF Resident THEN {"resident"} ELSE {})
Generations == [Parts -> Values]

ASSUME SavesAssumption == Saves \subseteq Generations
ASSUME ManifestAssumption == Absent \notin Generations /\ Torn \notin Generations

VARIABLES
  at,       \* the step of Program the save is at, 0 when there is none
  gen,      \* the generation it saves, Absent when there is none
  temp,     \* the pending files, whether they were synced
  blob,     \* the content-addressed files: what a process sees of each
  manifest, \* the manifest: what a process sees of it
  left,     \* what a crash may leave of each of them
  allowed   \* history: the generations that may be found

vars == <<at, gen, temp, blob, manifest, left, allowed>>

File(data) == [data : data, synced : BOOLEAN]
Missing == [data |-> Absent, synced |-> TRUE]
-----------------------------------------------------------------------------
SaveParts ==
  << <<"write", "episodic">>, <<"write", "events">>,
     <<"sync", "episodic">>, <<"sync", "events">>,
     <<"move", "episodic">>, <<"move", "events">> >>

SaveResident ==
  << <<"write", "resident">>, <<"sync", "resident">>, <<"move", "resident">>,
     <<"settle", "resident">> >>

SaveManifest ==
  << <<"write", "manifest">>, <<"sync", "manifest">>, <<"move", "manifest">>,
     <<"settle", "manifest">> >>

\* Fault of Program: the directory is only synced in the end.
ProgramUnordered ==
  SaveParts \o (IF Resident THEN SubSeq(SaveResident, 1, 3) ELSE <<>>) \o SaveManifest

\* Fault of Program: the manifest is not synced before it is renamed.
ProgramUnsynced ==
  SaveParts \o << <<"settle", "parts">> >> \o (IF Resident THEN SaveResident ELSE <<>>)
    \o SelectSeq(SaveManifest, LAMBDA s : s[1] # "sync")

\* metis_memory_snapshot_save_resident, step by step.
Program ==
  SaveParts \o << <<"settle", "parts">> >> \o (IF Resident THEN SaveResident ELSE <<>>)
    \o SaveManifest

\* What a crash may leave of a file whose entry is durable.
Outcomes(f) == IF f.synced THEN {f.data} ELSE {f.data, Torn}

\* metis_memory_snapshot_paths_resident and the loads that follow it: the
\* manifest must be whole, and so must every file it names.
Loaded(m, b) ==
  IF m = Absent THEN IF Resident THEN NoResult ELSE Legacy
  ELSE IF m # Torn /\ \A p \in Parts : b[p][m[p]] = m[p] THEN m
  ELSE NoResult

Stored == Loaded(manifest.data, [p \in Parts |-> [v \in Values |-> blob[p][v].data]])

Initially == IF Resident THEN NoResult ELSE Legacy

Idle == at = 0
-----------------------------------------------------------------------------
Init ==
  /\ at = 0
  /\ gen = Absent
  /\ temp = [x \in Parts \cup {"manifest"} |-> FALSE]
  /\ blob = [p \in Parts |-> [v \in Values |-> Missing]]
  /\ manifest = Missing
  /\ left = [blob |-> [p \in Parts |-> [v \in Values |-> {Absent}]],
             manifest |-> {Absent}]
  /\ allowed = {Initially}

Begin(g) ==
  /\ Idle
  /\ at' = 1
  /\ gen' = g
  /\ temp' = [x \in Parts \cup {"manifest"} |-> FALSE]
  /\ allowed' = allowed \cup {g}
  /\ UNCHANGED <<blob, manifest, left>>

Doing(op, x) == ~Idle /\ Program[at] = <<op, x>>

Advance ==
  /\ at' = IF at = Len(Program) THEN 0 ELSE at + 1
  /\ gen' = IF at = Len(Program) THEN Absent ELSE gen

\* fopen, write, fclose of a pending file; what it held before is truncated.
Write(x) ==
  /\ Doing("write", x)
  /\ temp' = [temp EXCEPT ![x] = FALSE]
  /\ Advance
  /\ UNCHANGED <<blob, manifest, left, allowed>>

\* fsync of a pending file (and its digest, which cannot change anything).
Sync(x) ==
  /\ Doing("sync", x)
  /\ temp' = [temp EXCEPT ![x] = TRUE]
  /\ Advance
  /\ UNCHANGED <<blob, manifest, left, allowed>>

\* rename to the path its digest gives.
Move(p) ==
  /\ Doing("move", p)
  /\ p \in Parts
  /\ LET v == gen[p]
         f == [data |-> v, synced |-> temp[p]]
     IN  /\ blob' = [blob EXCEPT ![p][v] = f]
         /\ left' = [left EXCEPT !.blob[p][v] = @ \cup Outcomes(f)]
  /\ Advance
  /\ UNCHANGED <<temp, manifest, allowed>>

\* rename of the new manifest over the old one.
MoveManifest ==
  /\ Doing("move", "manifest")
  /\ LET f == [data |-> gen, synced |-> temp["manifest"]]
     IN  /\ manifest' = f
         /\ left' = [left EXCEPT !.manifest = @ \cup Outcomes(f)]
  /\ Advance
  /\ UNCHANGED <<temp, blob, allowed>>

\* fsync of the directory: every entry is now as the process sees it.  The
\* last one ends the save, with success.
Settled == [blob |-> [p \in Parts |-> [v \in Values |-> Outcomes(blob[p][v])]],
            manifest |-> Outcomes(manifest)]

SyncParent(x) ==
  /\ Doing("settle", x)
  /\ left' = Settled
  /\ Advance
  /\ allowed' = IF at = Len(Program) THEN {gen} ELSE allowed
  /\ UNCHANGED <<temp, blob, manifest>>

\* Any call may fail: the save removes its pending files and gives up.  So
\* does a process that is killed, except that its pending files stay behind
\* for the next save to overwrite.
Fail ==
  /\ ~Idle
  /\ at' = 0 /\ gen' = Absent
  /\ UNCHANGED <<temp, blob, manifest, left, allowed>>

\* What a crash may leave of the files of one store, and of them all.
Survivors(p) == {f \in [Values -> Values \cup {Absent, Torn}] :
                   \A v \in Values : f[v] \in left.blob[p][v]}
AfterCrash == {b \in [Parts -> UNION {Survivors(p) : p \in Parts}] :
                 \A p \in Parts : b[p] \in Survivors(p)}

\* The machine stops, and comes up again with what the disk kept.
Crash ==
  /\ at' = 0 /\ gen' = Absent
  /\ \E b \in AfterCrash, m \in left.manifest :
       /\ blob' = [p \in Parts |-> [v \in Values |-> [data |-> b[p][v], synced |-> TRUE]]]
       /\ manifest' = [data |-> m, synced |-> TRUE]
       /\ left' = [blob |-> [p \in Parts |-> [v \in Values |-> {b[p][v]}]],
                   manifest |-> {m}]
       /\ allowed' = {Loaded(m, b)}
  /\ UNCHANGED temp

Next ==
  \/ \E g \in Saves : Begin(g)
  \/ \E x \in Parts \cup {"manifest"} : Write(x) \/ Sync(x)
  \/ \E p \in Parts : Move(p)
  \/ MoveManifest
  \/ \E x \in Parts \cup {"parts", "manifest"} : SyncParent(x)
  \/ Fail
  \/ Crash

Spec == Init /\ [][Next]_vars
-----------------------------------------------------------------------------
\* "A failure here leaves either the old or the complete new generation"
\* (memory_snapshot.c): whenever the machine stops, a load finds a generation
\* a save has asked for since the last one that succeeded, or that last one.
CrashLeavesAGeneration ==
  \A m \in left.manifest, b \in AfterCrash : Loaded(m, b) \in allowed

\* The generation a load returns changes as a whole, when the manifest is
\* replaced and at no other step; a save that reports success has made it
\* the only one there can be.
Snapshots == INSTANCE AtomicSnapshot WITH Generations <- Saves, stored <- Stored
Atomic == Snapshots!Spec
=============================================================================
