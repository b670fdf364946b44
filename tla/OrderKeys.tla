----------------------------- MODULE OrderKeys -----------------------------
(***************************************************************************)
(* A list of a User that is stored with an @OrderColumn: one row for each  *)
(* element, with the position in the list as its order_key (from 1 here).  *)
(* Nothing makes the positions unique.  A transaction reads the rows into  *)
(* a list, changes the list, and at its end writes the difference between  *)
(* the two lists, position by position, over whatever rows there are then. *)
(***************************************************************************)
EXTENDS Naturals, Sequences, FiniteSets

CONSTANT Null     \* what a list has where no row has the position

Row(k, e, c) == [key |-> k, elem |-> e, copy |-> c]
RowAt(R, k) == {x \in R : x.key = k}
Elements(R) == {x.elem : x \in R}

\* the last position of a list read from R
LastKey(R) == CHOOSE n \in {0} \cup {x.key : x \in R} : \A x \in R : x.key <= n

(* The lists that may be read from R.  Two rows with one position are one  *)
(* element, that of the row read last; a position without a row is null.   *)
IsList(L, R) ==
    /\ DOMAIN L = 1 .. LastKey(R)
    /\ \A k \in 1 .. LastKey(R) :
          IF RowAt(R, k) = {} THEN L[k] = Null ELSE \E x \in RowAt(R, k) : L[k] = x.elem
Lists(R) == {L \in [1 .. LastKey(R) -> Elements(R) \cup {Null}] : IsList(L, R)}

Has(L, e) == \E i \in DOMAIN L : L[i] = e
First(L, e) == CHOOSE i \in DOMAIN L : L[i] = e /\ \A j \in 1 .. i - 1 : L[j] # e

(* List.remove: the elements after the first e move up.                    *)
Without(L, e) == [i \in 1 .. Len(L) - 1 |-> IF i < First(L, e) THEN L[i] ELSE L[i + 1]]

------------------------------------------------------------------------------
(* What is written when list old has become new.                           *)

Deleted(old, new) ==
    {k \in DOMAIN old : k > Len(new) \/ (old[k] # Null /\ new[k] = Null)}
Updated(old, new) ==
    {k \in DOMAIN old \cap DOMAIN new : old[k] # Null /\ new[k] # Null /\ old[k] # new[k]}
Inserted(old, new) ==
    {k \in DOMAIN new : new[k] # Null /\ (k \in DOMAIN old => old[k] = Null)}

(* An update that does not find exactly one row is an error.               *)
CanWrite(R, old, new) == \A k \in Updated(old, new) : Cardinality(RowAt(R, k)) = 1

\* rows that stay as they are; an empty list deletes all rows of the owner
Kept(R, old, new) ==
    {x \in R : new # <<>> /\ x.key \notin Deleted(old, new) \cup Updated(old, new)}

Write(R, old, new) ==
    LET kept == Kept(R, old, new)
        Copies(k) == {x \in kept : x.key = k /\ x.elem = new[k]}
    IN  kept \cup {Row(k, new[k], 1) : k \in Updated(old, new)}
             \cup {Row(k, new[k], Cardinality(Copies(k)) + 1) : k \in Inserted(old, new)}

------------------------------------------------------------------------------
(* The rows that store L and nothing else.                                 *)
RowsOf(L) == {Row(k, L[k], 1) : k \in DOMAIN L}
Distinct(L) == \A i, j \in DOMAIN L : L[i] = L[j] => i = j
==============================================================================
