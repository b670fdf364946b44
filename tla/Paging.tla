------------------------------- MODULE Paging -------------------------------
(***************************************************************************)
(* Which part of a result a request for a page gets.  Offset and limit are *)
(* ints: at the least of them Math.abs overflows and gives it back.        *)
(***************************************************************************)
EXTENDS Integers, Sequences

CONSTANTS
    MaxInt,          \* ints are - MaxInt - 1 .. MaxInt
    PageSize,        \* PAGE_SIZE_DEFAULT_VALUE
    MaxPageSize,     \* PAGE_SIZE_MAX_VALUE
    Absent           \* a parameter that was not given

Ints == - MaxInt - 1 .. MaxInt

ASSUME PageAssumption ==
    /\ MaxInt \in Nat /\ Absent \notin Int
    /\ PageSize \in 1 .. MaxPageSize /\ MaxPageSize \in 1 .. MaxInt

Abs(x) == IF x < 0 /\ x # - MaxInt - 1 THEN - x ELSE x

Offset(offset) == IF offset = Absent THEN 0 ELSE Abs(offset)

Limit(limit) ==
    IF limit = Absent THEN PageSize
    ELSE IF Abs(limit) > MaxPageSize THEN MaxPageSize ELSE Abs(limit)

(* Hibernate takes a limit that is not positive for none, and an offset    *)
(* that is not positive for 0.                                             *)
Skipped(offset) == IF Offset(offset) < 0 THEN 0 ELSE Offset(offset)
PageEnd(s, offset, limit) ==
    IF Limit(limit) <= 0 \/ Skipped(offset) + Limit(limit) > Len(s) THEN Len(s)
    ELSE Skipped(offset) + Limit(limit)

Page(s, offset, limit) == SubSeq(s, Skipped(offset) + 1, PageEnd(s, offset, limit))
==============================================================================
