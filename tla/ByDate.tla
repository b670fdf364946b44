------------------------------- MODULE ByDate -------------------------------
(***************************************************************************)
(* What a query returns in the order of the dates of creation, newest      *)
(* first.  A row has its date in the field at, and no two rows have the    *)
(* same one.                                                               *)
(***************************************************************************)
EXTENDS Naturals, FiniteSets

Dates(rows) == {r.at : r \in rows}
Later(at, rows) == {d \in Dates(rows) : d > at}

\* order by createdOn desc
NewestFirst(rows) ==
    [i \in 1 .. Cardinality(rows) |-> CHOOSE r \in rows : Cardinality(Later(r.at, rows)) = i - 1]
==============================================================================
