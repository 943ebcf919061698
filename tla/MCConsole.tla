------------------------------- MODULE MCConsole -------------------------------
(***************************************************************************)
(* Ids, names, slots and the other browsers are interchangeable.           *)
(***************************************************************************)
EXTENDS Console, TLC

Symmetry ==
    Permutations(Requests) \cup Permutations(Servers) \cup Permutations(Names)
      \cup Permutations(Browsers \ {tab})
================================================================================
