------------------------------ MODULE Storage ------------------------------
(***************************************************************************)
(* The two ways memory is put on disk: the generations of the server,      *)
(* written beside each other and switched by a rename, and the state file  *)
(* of the interactive program, written over in place.  They share nothing; *)
(* a behaviour is one of either.                                           *)
(***************************************************************************)
EXTENDS Snapshot, MemoryState

CONSTANT Mechanisms  \* a subset of {"generations", "in place"}

VARIABLE mechanism

storageVars == <<mechanism, vars, stateVars>>

StorageInit ==
  /\ mechanism \in Mechanisms
  /\ Init /\ StateInit
  /\ mechanism = "generations" => bnstate = NoFile

ByGenerations == mechanism = "generations" /\ Next /\ UNCHANGED <<mechanism, stateVars>>
InPlace == mechanism = "in place" /\ StateNext /\ UNCHANGED <<mechanism, vars>>
StorageNext == ByGenerations \/ InPlace

StorageSpec == StorageInit /\ [][StorageNext]_storageVars
=============================================================================
