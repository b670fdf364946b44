----------------------------- MODULE MCGraffiti -----------------------------
(* Two users, a graffiti of the one and a comment of the other; two        *)
(* requests at a time.                                                     *)
EXTENDS Graffiti, TLC

CONSTANTS u1, u2, g1, k1

MCOwner == [i \in {g1, k1} |-> IF i = g1 THEN u1 ELSE u2]

Symmetry == Permutations(Threads) \cup Permutations(Contents)
==============================================================================
