------------------------------ MODULE MCSocial ------------------------------
(* Three users, one of whom follows the two others, and a graffiti of one  *)
(* of these; two requests at a time.                                       *)
EXTENDS Social, TLC

CONSTANTS u1, u2, u3, g1

MCUsers == {u1, u2, u3}
MCOwner == [i \in {g1} |-> u1]
MCStart == {[u \in MCUsers |-> IF u = u2 THEN <<u1, u3>> ELSE <<>>]}

Symmetry == Permutations(Threads)
==============================================================================
