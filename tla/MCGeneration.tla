---------------------------- MODULE MCGeneration ----------------------------
(***************************************************************************)
(* Generation with two sessions in contexts of a few tokens.  Clients that *)
(* interrupt replies of their own session, and evaluations that fail, are  *)
(* explored with one of the sessions in a smaller context.                 *)
(***************************************************************************)
EXTENDS Generation, TLC

MCSettings ==
  [capacity : {7}, asking : {Sessions}, interrupts : {FALSE}, fails : {FALSE}]
    \cup [capacity : {5}, asking : {{s} : s \in Sessions}, interrupts : {TRUE}, fails : {TRUE}]

\* For the violations: clients that interrupt, and clients that do not.
MCInterrupted ==
  [capacity : {7}, asking : {Sessions}, interrupts : {TRUE}, fails : {FALSE}]

MCPatient ==
  [capacity : {8}, asking : {Sessions}, interrupts : {FALSE}, fails : {FALSE}]

Symmetry == Permutations(Sessions)
=============================================================================
