-------------------------------- MODULE MCLive --------------------------------
(***************************************************************************)
(* Instances of Live for TLC.                                              *)
(***************************************************************************)
EXTENDS Live, TLC

\* Ids, tokens, requests and streams are interchangeable; safety runs only.
Symmetry == Permutations(Servers) \cup Permutations(Tokens)
            \cup Permutations(Requests) \cup Permutations(Clients)
===============================================================================
