------------------------------- MODULE MCAssets -------------------------------
(* The .cfg files give one graffiti, or one user with both image columns,  *)
(* two requests at a time, and a pool of one or two threads.               *)
EXTENDS Assets, TLC

Symmetry == Permutations(Guids) \cup Permutations(Requests) \cup Permutations(Workers)
==============================================================================
