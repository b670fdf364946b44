-------------------------- MODULE OrderKeysProofs --------------------------
(***************************************************************************)
(* Reading and writing lists that are stored with their positions, and     *)
(* lists that a query orders by their dates.                               *)
(***************************************************************************)
EXTENDS OrderKeys, ByDate, FiniteSetTheorems, WellFoundedInduction, TLAPS

Values(L) == {L[i] : i \in DOMAIN L}

(* What 0 has, and what passes from each number to the next, all have.     *)
LEMMA NumbersInduction ==
    ASSUME NEW S, 0 \in S, \A i \in Nat : i \in S => i + 1 \in S
    PROVE  \A i \in Nat : i \in S
<1> SUFFICES ASSUME NEW n \in Nat, n \notin S PROVE FALSE
  OBVIOUS
<1> DEFINE Missing == {i \in Nat : i \notin S}
<1>1. Missing \subseteq Nat /\ Missing # {}
  OBVIOUS
<1>2. PICK m \in Missing : \A l \in Missing : ~(<<l, m>> \in OpToRel(<, Nat))
  <2> HIDE DEF Missing
  <2> QED
    BY <1>1, NatLessThanWellFounded, WFMin
<1>3. m \in Nat /\ m # 0 /\ m \notin S
  OBVIOUS
<1>4. m - 1 \in Nat /\ (m - 1) + 1 = m /\ m - 1 < m
  BY <1>3
<1>5. m - 1 \in Missing
  BY <1>3, <1>4
<1> QED
  BY <1>2, <1>4, <1>5 DEF OpToRel

------------------------------------------------------------------------------
(* Lists that are stored as they are.                                      *)

(* Positions that are bounded have a greatest one.                         *)
LEMMA LastKeyBounded ==
    ASSUME NEW R, NEW n \in Nat, \A x \in R : x.key \in 1 .. n
    PROVE  /\ LastKey(R) \in Nat
           /\ \A x \in R : x.key <= LastKey(R)
<1> DEFINE Keys == {0} \cup {x.key : x \in R}
           Bounds == {m \in Nat : \A k \in Keys : k <= m}
<1>1. Keys \subseteq 0 .. n
  OBVIOUS
<1>2. n \in Bounds
  BY <1>1
<1>3. PICK m \in Bounds : \A l \in Bounds : ~(<<l, m>> \in OpToRel(<, Nat))
  <2>1. Bounds \subseteq Nat /\ Bounds # {}
    BY <1>2
  <2> HIDE DEF Bounds
  <2> QED
    BY <2>1, NatLessThanWellFounded, WFMin
<1>4. \A l \in Bounds : m <= l
  <2> TAKE l \in Bounds
  <2>1. ~(l < m)
    BY <1>3 DEF OpToRel
  <2> QED
    BY <2>1
<1>5. m \in Keys
  <2> SUFFICES ASSUME m \notin Keys PROVE FALSE
    OBVIOUS
  <2>1. \A k \in Keys : k < m
    BY <1>1
  <2>2. 0 \in Keys
    OBVIOUS
  <2>3. m - 1 \in Bounds
    BY <2>1, <2>2, <1>1
  <2> QED
    BY <2>3, <1>4
<1>6. \A x \in R : x.key <= m
  OBVIOUS
<1> QED
  BY <1>5, <1>6 DEF LastKey

(* The greatest position of a stored list is its length.                   *)
LEMMA LastKeyOfRows ==
    ASSUME NEW S, NEW L \in Seq(S)
    PROVE  LastKey(RowsOf(L)) = Len(L)
<1> DEFINE Keys == {0} \cup {x.key : x \in RowsOf(L)}
           Greatest(n) == n \in Keys /\ \A x \in RowsOf(L) : x.key <= n
<1>1. Keys = 0 .. Len(L)
  <2>1. ASSUME NEW x \in RowsOf(L) PROVE x.key \in 1 .. Len(L)
    BY DEF RowsOf, Row
  <2>2. ASSUME NEW k \in 1 .. Len(L) PROVE \E x \in RowsOf(L) : x.key = k
    <3>1. Row(k, L[k], 1) \in RowsOf(L) /\ Row(k, L[k], 1).key = k
      BY DEF RowsOf, Row
    <3> QED
      BY <3>1
  <2> QED
    BY <2>1, <2>2
<1>2. \A x \in RowsOf(L) : x.key \in 1 .. Len(L)
  BY DEF RowsOf, Row
<1>3. Len(L) \in Keys /\ \A x \in RowsOf(L) : x.key <= Len(L)
  BY <1>1, <1>2
<1>4. ASSUME NEW n \in Keys, \A x \in RowsOf(L) : x.key <= n
      PROVE  n = Len(L)
  <2>1. CASE L = <<>>
    BY <1>1, <2>1
  <2>2. CASE L # <<>>
    <3>1. Row(Len(L), L[Len(L)], 1) \in RowsOf(L)
      BY <2>2 DEF RowsOf
    <3>2. Len(L) <= n
      BY <3>1, <1>4 DEF Row
    <3> QED
      BY <3>2, <1>1
  <2> QED
    BY <2>1, <2>2
<1> QED
  BY <1>3, <1>4 DEF LastKey

(* Reading a stored list gives that list and no other.                     *)
LEMMA ReadBack ==
    ASSUME NEW S, NEW L \in Seq(S)
    PROVE  /\ L \in Lists(RowsOf(L))
           /\ \A M \in Lists(RowsOf(L)) : M = L
           /\ Elements(RowsOf(L)) = Values(L)
<1>1. LastKey(RowsOf(L)) = Len(L)
  BY LastKeyOfRows
<1>2. \A k \in 1 .. Len(L) : RowAt(RowsOf(L), k) = {Row(k, L[k], 1)}
  BY DEF RowAt, RowsOf, Row
<1>3. \A k \in 1 .. Len(L) : Row(k, L[k], 1).elem = L[k]
  BY DEF Row
<1>4. Elements(RowsOf(L)) = Values(L)
  <2>1. ASSUME NEW x \in RowsOf(L) PROVE x.elem \in Values(L)
    BY <1>3 DEF RowsOf, Values
  <2>2. ASSUME NEW k \in 1 .. Len(L) PROVE \E x \in RowsOf(L) : x.elem = L[k]
    <3>1. Row(k, L[k], 1) \in RowsOf(L)
      BY DEF RowsOf
    <3> QED
      BY <3>1, <1>3
  <2> QED
    BY <2>1, <2>2 DEF Elements, Values
<1>6. L \in [1 .. Len(L) -> Elements(RowsOf(L)) \cup {Null}]
  BY <1>4 DEF Values
<1>7. IsList(L, RowsOf(L))
  BY <1>1, <1>2, <1>3 DEF IsList
<1>8. ASSUME NEW M \in Lists(RowsOf(L)) PROVE M = L
  <2>1. M \in [1 .. Len(L) -> Elements(RowsOf(L)) \cup {Null}] /\ IsList(M, RowsOf(L))
    BY <1>1 DEF Lists
  <2>2. \A k \in 1 .. Len(L) : M[k] = L[k]
    BY <2>1, <1>1, <1>2, <1>3 DEF IsList
  <2> QED
    BY <2>1, <2>2
<1> QED
  BY <1>1, <1>4, <1>6, <1>7, <1>8 DEF Lists

(* Writing the difference to a list that is stored as it was read stores   *)
(* the new list, without an error.                                         *)
LEMMA WriteBack ==
    ASSUME NEW S, Null \notin S, NEW L \in Seq(S), NEW M \in Seq(S)
    PROVE  /\ CanWrite(RowsOf(L), L, M)
           /\ Write(RowsOf(L), L, M) = RowsOf(M)
<1>1. \A k \in DOMAIN L : L[k] # Null /\ RowAt(RowsOf(L), k) = {Row(k, L[k], 1)}
  BY DEF RowAt, RowsOf, Row
<1>2. \A k \in DOMAIN M : M[k] # Null
  OBVIOUS
<1>3. \A x : Cardinality({x}) = 1
  BY FS_Singleton
<1>4. CanWrite(RowsOf(L), L, M)
  BY <1>1, <1>3 DEF CanWrite, Updated
<1> DEFINE kept == Kept(RowsOf(L), L, M)
           Copies(k) == {x \in kept : x.key = k /\ x.elem = M[k]}
<1>5. Updated(L, M) = {k \in DOMAIN L \cap DOMAIN M : L[k] # M[k]}
  BY <1>1, <1>2 DEF Updated
<1>6. Inserted(L, M) = DOMAIN M \ DOMAIN L
  BY <1>1, <1>2 DEF Inserted
<1>7. Deleted(L, M) = {k \in DOMAIN L : k > Len(M)}
  BY <1>1, <1>2 DEF Deleted
<1>8. kept = {Row(k, M[k], 1) : k \in {n \in DOMAIN L \cap DOMAIN M : L[n] = M[n]}}
  <2>1. ASSUME NEW x \in kept
        PROVE  \E k \in DOMAIN L \cap DOMAIN M : L[k] = M[k] /\ x = Row(k, M[k], 1)
    <3>1. PICK k \in DOMAIN L : x = Row(k, L[k], 1) /\ x.key \notin Deleted(L, M) \cup Updated(L, M)
      BY DEF Kept, RowsOf
    <3>2. x.key = k
      BY <3>1 DEF Row
    <3>3. k \in DOMAIN M
      BY <3>1, <3>2, <1>7
    <3> QED
      BY <3>1, <3>2, <3>3, <1>5
  <2>2. ASSUME NEW k \in DOMAIN L \cap DOMAIN M, L[k] = M[k]
        PROVE  Row(k, M[k], 1) \in kept
    <3>1. Row(k, M[k], 1).key = k
      BY DEF Row
    <3>2. M # <<>>
      OBVIOUS
    <3>3. Row(k, M[k], 1) \in RowsOf(L)
      BY <2>2 DEF RowsOf
    <3> QED
      BY <2>2, <3>1, <3>2, <3>3, <1>5, <1>7 DEF Kept
  <2> QED
    BY <2>1, <2>2
<1>9. \A k \in Inserted(L, M) : Cardinality(Copies(k)) + 1 = 1
  <2> TAKE k \in Inserted(L, M)
  <2>1. Copies(k) = {}
    BY <1>6, <1>8 DEF Row
  <2>2. Cardinality({}) = 0
    BY FS_EmptySet
  <2> HIDE DEF Copies
  <2> QED
    BY <2>1, <2>2
<1> HIDE DEF kept, Copies
<1>10. Write(RowsOf(L), L, M) =
          kept \cup {Row(k, M[k], 1) : k \in Updated(L, M)}
               \cup {Row(k, M[k], Cardinality(Copies(k)) + 1) : k \in Inserted(L, M)}
  BY DEF Write, kept, Copies
<1>11. {Row(k, M[k], Cardinality(Copies(k)) + 1) : k \in Inserted(L, M)} =
          {Row(k, M[k], 1) : k \in Inserted(L, M)}
  BY <1>9
<1>12. DOMAIN M = {n \in DOMAIN L \cap DOMAIN M : L[n] = M[n]} \cup Updated(L, M) \cup Inserted(L, M)
  BY <1>5, <1>6
<1>13. Write(RowsOf(L), L, M) = RowsOf(M)
  BY <1>8, <1>10, <1>11, <1>12 DEF RowsOf
<1> QED
  BY <1>4, <1>13

(* A user who is not in a list is added at its end.                        *)
LEMMA AppendDistinct ==
    ASSUME NEW S, NEW L \in Seq(S), Distinct(L), NEW v \in S, ~Has(L, v)
    PROVE  /\ Append(L, v) \in Seq(S)
           /\ Distinct(Append(L, v))
           /\ Values(Append(L, v)) = Values(L) \cup {v}
<1>1. \A i \in DOMAIN L : L[i] # v
  BY DEF Has
<1>2. DOMAIN Append(L, v) = 1 .. Len(L) + 1
  OBVIOUS
<1>3. \A i \in 1 .. Len(L) + 1 : Append(L, v)[i] = IF i = Len(L) + 1 THEN v ELSE L[i]
  OBVIOUS
<1>4. Distinct(Append(L, v))
  BY <1>1, <1>2, <1>3 DEF Distinct
<1>5. Values(Append(L, v)) = Values(L) \cup {v}
  BY <1>2, <1>3 DEF Values
<1> QED
  BY <1>4, <1>5

(* A user who is in a list without repetitions is taken out of it.         *)
LEMMA WithoutDistinct ==
    ASSUME NEW S, NEW L \in Seq(S), Distinct(L), NEW v, Has(L, v)
    PROVE  /\ Without(L, v) \in Seq(S)
           /\ Distinct(Without(L, v))
           /\ Values(Without(L, v)) = Values(L) \ {v}
<1> DEFINE M == Without(L, v)
           f == First(L, v)
<1>1. PICK p \in DOMAIN L : L[p] = v
  BY DEF Has
<1>2. \A i \in DOMAIN L : L[i] = v => i = p
  BY <1>1 DEF Distinct
<1>3. f = p
  <2>1. p \in DOMAIN L /\ L[p] = v /\ \A j \in 1 .. p - 1 : L[j] # v
    BY <1>1, <1>2
  <2> QED
    BY <2>1, <1>2 DEF First
<1> HIDE DEF f
<1>4. p \in 1 .. Len(L)
  OBVIOUS
<1>5. M = [i \in 1 .. Len(L) - 1 |-> IF i < p THEN L[i] ELSE L[i + 1]]
  BY <1>3 DEF Without, f
<1>6. M \in Seq(S) /\ Len(M) = Len(L) - 1
  BY <1>4, <1>5
<1> HIDE DEF M
<1>7. \A i \in 1 .. Len(L) - 1 : M[i] = L[IF i < p THEN i ELSE i + 1]
  BY <1>5
<1>8. Distinct(M)
  <2> SUFFICES ASSUME NEW i \in DOMAIN M, NEW j \in DOMAIN M, M[i] = M[j] PROVE i = j
    BY DEF Distinct
  <2>1. (IF i < p THEN i ELSE i + 1) \in DOMAIN L /\ (IF j < p THEN j ELSE j + 1) \in DOMAIN L
    BY <1>4, <1>6
  <2>2. L[IF i < p THEN i ELSE i + 1] = L[IF j < p THEN j ELSE j + 1]
    BY <1>6, <1>7
  <2>3. (IF i < p THEN i ELSE i + 1) = (IF j < p THEN j ELSE j + 1)
    BY <2>1, <2>2 DEF Distinct
  <2> QED
    BY <2>3, <1>4, <1>6
<1>9. ASSUME NEW i \in DOMAIN M PROVE M[i] \in Values(L) \ {v}
  BY <1>2, <1>4, <1>6, <1>7 DEF Values
<1>10. ASSUME NEW i \in DOMAIN L, L[i] # v PROVE L[i] \in Values(M)
  <2>1. CASE i < p
    BY <2>1, <1>4, <1>6, <1>7 DEF Values
  <2>2. CASE i > p
    <3>1. i - 1 \in DOMAIN M /\ ~(i - 1 < p) /\ (i - 1) + 1 = i
      BY <2>2, <1>4, <1>6
    <3>2. M[i - 1] = L[i]
      BY <3>1, <1>6, <1>7
    <3> QED
      BY <3>1, <3>2 DEF Values
  <2> QED
    BY <2>1, <2>2, <1>1, <1>10
<1>11. Values(M) = Values(L) \ {v}
  BY <1>9, <1>10 DEF Values
<1> QED
  BY <1>6, <1>8, <1>11 DEF M

------------------------------------------------------------------------------
(* Lists and rows of any kind.                                             *)

(* Taking an element out of a list leaves elements of the list.            *)
LEMMA WithoutElements ==
    ASSUME NEW S, NEW L \in Seq(S), NEW e, Has(L, e)
    PROVE  /\ Without(L, e) \in Seq(S)
           /\ \A k \in DOMAIN Without(L, e) : \E j \in DOMAIN L : Without(L, e)[k] = L[j]
<1>1. Len(L) \in Nat \ {0}
  BY DEF Has
<1>2. \A k \in 1 .. Len(L) - 1 : k \in DOMAIN L /\ k + 1 \in DOMAIN L
  BY <1>1
<1>3. \A k \in 1 .. Len(L) - 1 : \E j \in DOMAIN L : Without(L, e)[k] = L[j]
  BY <1>2 DEF Without
<1>4. Without(L, e) \in [1 .. Len(L) - 1 -> S]
  BY <1>1, <1>2 DEF Without
<1> QED
  BY <1>1, <1>3, <1>4

(* A list that is read has only what the rows have, and null.              *)
LEMMA ListElements ==
    ASSUME NEW R, NEW n \in Nat, \A x \in R : x.key \in 1 .. n, NEW L \in Lists(R)
    PROVE  /\ L \in Seq(Elements(R) \cup {Null})
           /\ \A k \in DOMAIN L : L[k] = Null \/ \E x \in R : L[k] = x.elem
<1>1. LastKey(R) \in Nat
  BY LastKeyBounded
<1>2. L \in [1 .. LastKey(R) -> Elements(R) \cup {Null}]
  BY DEF Lists
<1>3. L \in Seq(Elements(R) \cup {Null})
  BY <1>1, <1>2
<1> QED
  BY <1>2, <1>3 DEF Elements

(* Each row that is there after a list has been written was there before   *)
(* or has an element of the new list, wherever the old list came from.     *)
LEMMA WriteElements ==
    ASSUME NEW R, NEW n \in Nat, \A x \in R : x.key \in 1 .. n,
           NEW S, NEW M \in Seq(S), NEW L
    PROVE  /\ \E m \in Nat : \A x \in Write(R, L, M) : x.key \in 1 .. m
           /\ \A x \in Write(R, L, M) :
                 x \in R \/ \E k \in DOMAIN M : M[k] # Null /\ x.elem = M[k]
<1>1. \A k \in Updated(L, M) \cup Inserted(L, M) : k \in 1 .. Len(M) /\ M[k] # Null
  BY DEF Updated, Inserted
<1>2. \A x \in Write(R, L, M) :
        x \in R \/ \E k \in 1 .. Len(M) : M[k] # Null /\ x.elem = M[k] /\ x.key = k
  <2>1. \A x \in Write(R, L, M) : 
        x \in R \/ \E k \in Updated(L, M) \cup Inserted(L, M) : \E c : x = Row(k, M[k], c)
    BY DEF Write, Kept
  <2>2. \A k, e, c : Row(k, e, c).key = k /\ Row(k, e, c).elem = e
    BY DEF Row
  <2> QED
    BY <1>1, <2>1, <2>2
<1>3. n + Len(M) \in Nat /\ n <= n + Len(M) /\ Len(M) <= n + Len(M)
  OBVIOUS
<1>4. \A x \in Write(R, L, M) : x.key \in 1 .. n + Len(M)
  BY <1>2, <1>3
<1> QED
  BY <1>2, <1>3, <1>4

------------------------------------------------------------------------------
(* Rows with different dates, in the order of the dates.                   *)
Dated(rows) ==
    /\ IsFiniteSet(rows)
    /\ \A r \in rows : r.at \in Nat
    /\ \A r, q \in rows : r.at = q.at => r = q
Rank(r, rows) == Cardinality(Later(r.at, rows))

LEMMA DatesFinite ==
    ASSUME NEW rows, Dated(rows)
    PROVE  /\ IsFiniteSet(Dates(rows)) /\ Cardinality(Dates(rows)) = Cardinality(rows)
           /\ Cardinality(rows) \in Nat
           /\ \A n : IsFiniteSet(Later(n, rows)) /\ Cardinality(Later(n, rows)) \in Nat
<1> DEFINE f == [r \in rows |-> r.at]
<1>1. f \in Bijection(rows, Dates(rows))
  BY DEF Dated, Dates, Bijection, Injection, Surjection, IsInjective
<1>2. IsFiniteSet(Dates(rows)) /\ Cardinality(Dates(rows)) = Cardinality(rows)
  BY <1>1, FS_Bijection DEF ExistsBijection, Dated
<1>3. \A n : IsFiniteSet(Later(n, rows)) /\ Cardinality(Later(n, rows)) \in Nat
  BY <1>2, FS_Subset, FS_CardinalityType DEF Later
<1> QED
  BY <1>2, <1>3, FS_CardinalityType DEF Dated

LEMMA LaterRanked ==
    ASSUME NEW rows, Dated(rows), NEW r \in rows
    PROVE  /\ Rank(r, rows) \in 0 .. Cardinality(rows) - 1
           /\ \A q \in rows : q.at > r.at => Rank(q, rows) < Rank(r, rows)
<1>0. IsFiniteSet(Later(r.at, rows)) /\ Rank(r, rows) \in Nat
  BY DatesFinite DEF Rank
<1>1. Rank(r, rows) < Cardinality(rows)
  <2>1. r.at \in Dates(rows) /\ r.at \notin Later(r.at, rows) /\ Later(r.at, rows) \subseteq Dates(rows)
    BY DEF Dates, Later, Dated
  <2>2. Cardinality(Later(r.at, rows)) <= Cardinality(Dates(rows))
        /\ Cardinality(Later(r.at, rows)) # Cardinality(Dates(rows))
    BY <2>1, DatesFinite, FS_Subset
  <2> QED
    BY <1>0, <2>2, DatesFinite DEF Rank
<1>2. ASSUME NEW q \in rows, q.at > r.at PROVE Rank(q, rows) < Rank(r, rows)
  <2>1. /\ Later(q.at, rows) \subseteq Later(r.at, rows)
        /\ q.at \in Later(r.at, rows) /\ q.at \notin Later(q.at, rows)
    BY <1>2 DEF Dates, Later, Dated
  <2>2. Cardinality(Later(q.at, rows)) <= Cardinality(Later(r.at, rows))
        /\ Cardinality(Later(q.at, rows)) # Cardinality(Later(r.at, rows))
    BY <1>0, <2>1, FS_Subset
  <2> QED
    BY <2>2, DatesFinite DEF Rank
<1> QED
  BY <1>0, <1>1, <1>2, DatesFinite

(* NewestFirst is a list of all the rows, and of nothing else, each after  *)
(* those with a later date.                                                *)
LEMMA NewestFirstOrders ==
    ASSUME NEW rows, Dated(rows), NEW s, s = NewestFirst(rows)
    PROVE  /\ s \in Seq(rows) /\ Len(s) = Cardinality(rows)
           /\ \A i \in DOMAIN s : s[i] \in rows /\ Rank(s[i], rows) = i - 1
           /\ \A r \in rows : Rank(r, rows) + 1 \in DOMAIN s /\ s[Rank(r, rows) + 1] = r
           /\ \A i, j \in DOMAIN s : i < j => s[i].at > s[j].at
<1> DEFINE n == Cardinality(rows)
           f == [r \in rows |-> Rank(r, rows)]
<1>0. n \in Nat
  BY DatesFinite
<1>1. ASSUME NEW r \in rows, NEW q \in rows, Rank(r, rows) = Rank(q, rows) PROVE r = q
  <2>1. Rank(r, rows) \in Nat /\ ~(r.at > q.at) /\ ~(q.at > r.at)
    BY <1>0, <1>1, LaterRanked
  <2> QED
    BY <2>1 DEF Dated
<1>2. f \in Injection(rows, 0 .. n - 1)
  BY <1>1, LaterRanked DEF Injection, IsInjective
<1>3. f \in Surjection(rows, 0 .. n - 1)
  <2>1. IsFiniteSet(0 .. n - 1) /\ Cardinality(0 .. n - 1) = n
    BY <1>0, FS_Interval
  <2> QED
    BY <1>2, <2>1, FS_Injection
<1>4. ASSUME NEW i \in 1 .. n
      PROVE  s[i] \in rows /\ Rank(s[i], rows) = i - 1
  <2>1. i - 1 \in 0 .. n - 1
    BY <1>0
  <2>2. \E r \in rows : Cardinality(Later(r.at, rows)) = i - 1
    BY <1>3, <2>1 DEF Surjection, Rank
  <2>3. s[i] = CHOOSE r \in rows : Cardinality(Later(r.at, rows)) = i - 1
    BY DEF NewestFirst
  <2> QED
    BY <2>2, <2>3 DEF Rank
<1>5. s = [i \in 1 .. n |-> s[i]]
  BY DEF NewestFirst
<1>6. s \in Seq(rows) /\ Len(s) = n /\ DOMAIN s = 1 .. n
  BY <1>0, <1>4, <1>5
<1>7. ASSUME NEW r \in rows PROVE Rank(r, rows) + 1 \in 1 .. n /\ s[Rank(r, rows) + 1] = r
  <2>1. Rank(r, rows) \in 0 .. n - 1
    BY LaterRanked
  <2>2. PICK i : i = Rank(r, rows) + 1
    OBVIOUS
  <2>3. i \in 1 .. n /\ i - 1 = Rank(r, rows)
    BY <1>0, <2>1, <2>2
  <2> QED
    BY <1>1, <1>4, <2>2, <2>3
<1>8. ASSUME NEW i \in 1 .. n, NEW j \in 1 .. n, i < j PROVE s[i].at > s[j].at
  <2>1. s[i] \in rows /\ s[j] \in rows /\ Rank(s[i], rows) = i - 1 /\ Rank(s[j], rows) = j - 1
    BY <1>4
  <2>2. ~(s[j].at > s[i].at)
    BY <1>8, <2>1, LaterRanked
  <2>3. s[i].at # s[j].at
    BY <1>8, <2>1 DEF Dated
  <2> QED
    BY <2>1, <2>2, <2>3 DEF Dated
<1> QED
  BY <1>4, <1>6, <1>7, <1>8
=============================================================================
