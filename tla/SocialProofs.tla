---------------------------- MODULE SocialProofs ----------------------------
(***************************************************************************)
(* What Follows keeps, and what the composition keeps.                     *)
(* The composition behaves, for each of its components, like the component *)
(* on its own, so that what is proved of a component holds of it too.      *)
(* What connects them is proved of the composition: who is told of a       *)
(* follow or a like, who is shown a graffiti, and how what is shown of the *)
(* others' activity is grouped.                                            *)
(***************************************************************************)
EXTENDS Social, OrderKeysProofs, GraffitiProofs, SequenceTheorems

------------------------------------------------------------------------------
(* FollowingKept for any number of users, threads and transactions.        *)
(* The inductive invariant: as long as no two transactions of u have       *)
(* overlapped, the rows are those of a list, and every transaction of u    *)
(* that is open has read that list: nobody else can have written it.       *)

Undisturbed(u) ==
    /\ \E L \in Seq(Users) : Distinct(L) /\ following[u] = RowsOf(L) /\ wanted[u] = Values(L)
    /\ u \notin refused

Faithful(c) ==
    /\ c.old \in Seq(Users) /\ Distinct(c.old)
    /\ following[c.user] = RowsOf(c.old)
    /\ wanted[c.user] = Values(c.old)
    /\ \/ c.op = "follow" /\ ~Has(c.old, c.other) /\ c.new = Append(c.old, c.other)
       \/ c.op = "unfollow" /\ Has(c.old, c.other) /\ c.new = Without(c.old, c.other)

IInv ==
    /\ DOMAIN following = Users /\ following = [u \in Users |-> following[u]]
    /\ DOMAIN wanted = Users /\ wanted = [u \in Users |-> wanted[u]]
    /\ DOMAIN change = Requests /\ change = [r \in Requests |-> change[r]]
    /\ \A r \in Requests : Changing(r) => change[r].user \in Users /\ change[r].other \in Users
    /\ \A u \in Users \ raced : Undisturbed(u)
    /\ \A r \in Requests : Changing(r) /\ change[r].user \notin raced => Faithful(change[r])

LEMMA InitIInv == FollowsInit => IInv
<1> SUFFICES ASSUME FollowsInit PROVE IInv
  OBVIOUS
<1>1. PICK s \in Start : following = [u \in Users |-> RowsOf(s[u])]
  BY DEF FollowsInit
<1>2. \A r \in Requests : ~Changing(r)
  BY DEF FollowsInit, Changing, NoChange, Change
<1>3. ASSUME NEW u \in Users PROVE Undisturbed(u)
  <2>1. s[u] \in Seq(Users \ {u}) /\ Distinct(s[u])
    BY StartAssumption
  <2>2. s[u] \in Seq(Users)
    BY <2>1
  <2>3. Elements(following[u]) = Values(s[u])
    BY <2>2, <1>1, ReadBack
  <2>4. wanted[u] = Values(s[u]) /\ u \notin refused
    BY <2>3 DEF FollowsInit
  <2> QED
    BY <1>1, <2>1, <2>2, <2>4 DEF Undisturbed
<1> QED
  BY <1>2, <1>3 DEF IInv, FollowsInit

(* A transaction reads the list that is stored.                            *)
LEMMA ReadsStored ==
    ASSUME NEW u \in Users, Undisturbed(u), NEW L \in Lists(following[u])
    PROVE  /\ L \in Seq(Users) /\ Distinct(L)
           /\ following[u] = RowsOf(L) /\ wanted[u] = Values(L)
BY ReadBack DEF Undisturbed

LEMMA BeginKeepsIInv ==
    ASSUME IInv, NEW r \in Requests, NEW u \in Users, NEW v \in Users,
           BeginFollow(r, u, v) \/ BeginUnfollow(r, u, v)
    PROVE  IInv'
<1> DEFINE Opened(L, c) == /\ L \in Lists(following[u])
                           /\ change' = [change EXCEPT ![r] = c]
                           /\ wanted' = wanted
                           /\ \/ c = Change("follow", u, v, L, Append(L, v)) /\ ~Has(L, v)
                              \/ c = Change("unfollow", u, v, L, Without(L, v)) /\ Has(L, v)
           Answered(L) == /\ L \in Lists(following[u])
                          /\ change' = change
                          /\ \/ wanted' = [wanted EXCEPT ![u] = @ \cup {v}] /\ Has(L, v)
                             \/ wanted' = [wanted EXCEPT ![u] = @ \ {v}] /\ ~Has(L, v)
<1>1. /\ \E L, c : Opened(L, c) \/ Answered(L)
      /\ following' = following /\ raced' = raced /\ refused' = refused
      /\ ~Changing(r)
  BY DEF BeginFollow, BeginUnfollow, IsFollowing
<1>2. PICK L, c : Opened(L, c) \/ Answered(L)
  BY <1>1
<1>3. CASE Opened(L, c)
  <2>1. c.user = u /\ c.other = v /\ c.old = L /\ c.op \in {"follow", "unfollow"}
    BY <1>3 DEF Change
  <2>2. \A q \in Requests : change'[q] = IF q = r THEN c ELSE change[q]
    BY <1>3 DEF IInv
  <2>3. ASSUME u \notin raced PROVE Faithful(c)
    BY <1>3, <2>1, <2>3, ReadsStored DEF IInv, Faithful, Change
  <2>4. \A w \in Users \ raced : Undisturbed(w)'
    BY <1>1, <1>3 DEF IInv, Undisturbed
  <2>5. ASSUME NEW q \in Requests, Changing(q)', change'[q].user \notin raced
        PROVE  Faithful(change[q])'
    <3>1. CASE q = r
      BY <3>1, <2>1, <2>2, <2>3, <2>5, <1>1, <1>3 DEF Faithful
    <3>2. CASE q # r
      <4>1. Changing(q) /\ change'[q] = change[q]
        BY <3>2, <2>2, <2>5 DEF Changing
      <4> QED
        BY <4>1, <2>5, <1>1, <1>3 DEF IInv, Faithful
    <3> QED
      BY <3>1, <3>2
  <2> QED
    BY <1>1, <1>3, <2>1, <2>2, <2>4, <2>5 DEF IInv, Changing
<1>4. CASE Answered(L)
  <2>1. ASSUME u \notin raced PROVE wanted' = wanted
    <3>1. wanted[u] = Values(L)
      BY <1>4, <2>1, ReadsStored DEF IInv
    <3>2. v \in Values(L) <=> Has(L, v)
      BY DEF Values, Has
    <3>3. wanted'[u] = wanted[u]
      BY <1>4, <3>1, <3>2 DEF IInv
    <3> QED
      BY <1>4, <3>3 DEF IInv
  <2>2. \A w \in Users : w # u => wanted'[w] = wanted[w]
    BY <1>4 DEF IInv
  <2>3. \A w \in Users \ raced : wanted'[w] = wanted[w]
    BY <2>1, <2>2
  <2>4. \A w \in Users \ raced : Undisturbed(w)'
    BY <1>1, <2>3 DEF IInv, Undisturbed
  <2>5. \A q \in Requests : Changing(q)' <=> Changing(q)
    BY <1>4 DEF Changing
  <2>6. \A q \in Requests : Changing(q)' /\ change'[q].user \notin raced => Faithful(change[q])'
    BY <1>1, <1>4, <2>3, <2>5 DEF IInv, Faithful
  <2> QED
    BY <1>1, <1>4, <2>4, <2>5, <2>6 DEF IInv
<1> QED
  BY <1>2, <1>3, <1>4

(* A commit of u that overlaps no other has read what is stored; one that  *)
(* does takes u out of the invariant.                                      *)
LEMMA CommitKeepsIInv ==
    ASSUME IInv, NEW r \in Requests, CommitChange(r) PROVE IInv'
<1>0. PICK c, u : c = change[r] /\ u = change[r].user
  OBVIOUS
<1>1. /\ Changing(r) /\ u \in Users /\ c.other \in Users
      /\ change' = [change EXCEPT ![r] = NoChange]
      /\ following' = [following EXCEPT ![u] = Write(@, c.old, c.new)]
      /\ wanted' = [wanted EXCEPT ![u] = IF c.op = "follow" THEN @ \cup {c.other} ELSE @ \ {c.other}]
      /\ raced' = RacedBy(r) /\ refused' = refused
  BY <1>0 DEF CommitChange, IInv
<1>2. raced \subseteq raced'
  BY <1>1 DEF RacedBy
<1>3. ~Changing(r)' /\ \A q \in Requests \ {r} : change'[q] = change[q] /\ (Changing(q)' <=> Changing(q))
  BY <1>1 DEF IInv, Changing, NoChange, Change
<1>4. \A w \in Users \ {u} : following'[w] = following[w] /\ wanted'[w] = wanted[w]
  BY <1>1 DEF IInv
<1>5. ASSUME u \notin raced' PROVE Undisturbed(u)'
  <2>1. Faithful(c) /\ u \notin refused
    BY <1>0, <1>1, <1>2, <1>5 DEF IInv, Undisturbed
  <2>2. /\ c.new \in Seq(Users) /\ Distinct(c.new)
        /\ Values(c.new) = IF c.op = "follow" THEN wanted[u] \cup {c.other} ELSE wanted[u] \ {c.other}
    <3>1. CASE c.op = "follow"
      <4>1. /\ c.old \in Seq(Users) /\ Distinct(c.old) /\ ~Has(c.old, c.other)
            /\ c.new = Append(c.old, c.other) /\ Values(c.old) = wanted[u] /\ c.other \in Users
        BY <3>1, <2>1, <1>0, <1>1 DEF Faithful
      <4> QED
        BY <3>1, <4>1, AppendDistinct
    <3>2. CASE c.op = "unfollow"
      <4>1. /\ c.old \in Seq(Users) /\ Distinct(c.old) /\ Has(c.old, c.other)
            /\ c.new = Without(c.old, c.other) /\ Values(c.old) = wanted[u]
        BY <3>2, <2>1, <1>0 DEF Faithful
      <4> QED
        BY <3>2, <4>1, WithoutDistinct
    <3>3. c.op \in {"follow", "unfollow"}
      BY <2>1 DEF Faithful
    <3> QED
      BY <3>1, <3>2, <3>3
  <2>3. Write(following[u], c.old, c.new) = RowsOf(c.new)
    BY <1>0, <2>1, <2>2, WriteBack, NullAssumption DEF Faithful
  <2>4. following'[u] = RowsOf(c.new) /\ wanted'[u] = Values(c.new)
    BY <1>1, <2>2, <2>3 DEF IInv
  <2> QED
    BY <1>1, <2>1, <2>2, <2>4 DEF Undisturbed
<1>6. \A w \in Users \ raced' : Undisturbed(w)'
  BY <1>1, <1>2, <1>4, <1>5 DEF IInv, Undisturbed
<1>7. ASSUME NEW q \in Requests, Changing(q)', change'[q].user \notin raced'
      PROVE  Faithful(change[q])'
  <2>1. q # r /\ Changing(q) /\ change'[q] = change[q]
    BY <1>3, <1>7
  <2>2. change[q].user # u
    BY <1>0, <1>1, <1>7, <2>1 DEF RacedBy, Overlapped
  <2>3. Faithful(change[q]) /\ change[q].user \in Users
    BY <1>2, <1>7, <2>1 DEF IInv
  <2> QED
    BY <1>4, <2>1, <2>2, <2>3 DEF Faithful
<1>8. /\ DOMAIN following' = Users /\ following' = [w \in Users |-> following'[w]]
      /\ DOMAIN wanted' = Users /\ wanted' = [w \in Users |-> wanted'[w]]
      /\ DOMAIN change' = Requests /\ change' = [q \in Requests |-> change'[q]]
  BY <1>1 DEF IInv
<1>9. \A q \in Requests : Changing(q)' => change'[q].user \in Users /\ change'[q].other \in Users
  BY <1>3 DEF IInv
<1> QED
  BY <1>6, <1>7, <1>8, <1>9 DEF IInv

(* A transaction that fails has overlapped another one.                    *)
LEMMA FailureKeepsIInv ==
    ASSUME IInv, NEW r \in Requests, ChangeFails(r) PROVE IInv'
<1>0. PICK c, u : c = change[r] /\ u = change[r].user
  OBVIOUS
<1>1. /\ Changing(r) /\ u \in Users /\ ~CanWrite(following[u], c.old, c.new)
      /\ change' = [change EXCEPT ![r] = NoChange]
      /\ following' = following /\ wanted' = wanted
      /\ raced' = RacedBy(r) /\ refused' = refused \cup {u}
  BY <1>0 DEF ChangeFails, IInv
<1>2. u \in raced
  <2> SUFFICES ASSUME u \notin raced PROVE FALSE
    OBVIOUS
  <2>1. Faithful(c) /\ c.other \in Users
    BY <1>0, <1>1 DEF IInv
  <2>2. c.new \in Seq(Users)
    <3>1. CASE c.op = "follow"
      BY <3>1, <2>1, AppendDistinct DEF Faithful
    <3>2. CASE c.op = "unfollow"
      BY <3>2, <2>1, WithoutDistinct DEF Faithful
    <3>3. c.op \in {"follow", "unfollow"}
      BY <2>1 DEF Faithful
    <3> QED
      BY <3>1, <3>2, <3>3
  <2>3. CanWrite(following[u], c.old, c.new)
    BY <1>0, <2>1, <2>2, WriteBack, NullAssumption DEF Faithful
  <2> QED
    BY <1>1, <2>3
<1>3. raced' = raced
  BY <1>0, <1>1, <1>2 DEF RacedBy
<1>4. ~Changing(r)' /\ \A q \in Requests \ {r} : change'[q] = change[q] /\ (Changing(q)' <=> Changing(q))
  BY <1>1 DEF IInv, Changing, NoChange, Change
<1>5. \A w \in Users \ raced' : Undisturbed(w)'
  BY <1>1, <1>2, <1>3 DEF IInv, Undisturbed
<1>6. \A q \in Requests : Changing(q)' /\ change'[q].user \notin raced' => Faithful(change[q])'
  BY <1>1, <1>3, <1>4 DEF IInv, Faithful
<1> QED
  BY <1>1, <1>4, <1>5, <1>6 DEF IInv

LEMMA NextIInv == IInv /\ [FollowsNext]_followVars => IInv'
<1> SUFFICES ASSUME IInv, [FollowsNext]_followVars PROVE IInv'
  OBVIOUS
<1>1. CASE UNCHANGED followVars
  BY <1>1 DEF followVars, IInv, Changing, Undisturbed, Faithful
<1>2. CASE FollowsNext
  BY <1>2, BeginKeepsIInv, CommitKeepsIInv, FailureKeepsIInv DEF FollowsNext
<1> QED
  BY <1>1, <1>2

LEMMA IInvKept == IInv => FollowingKept
<1> SUFFICES ASSUME IInv, NEW u \in Users \ raced
             PROVE  /\ \E L \in Lists(following[u]) : following[u] = RowsOf(L) /\ Distinct(L)
                    /\ Elements(following[u]) = wanted[u]
                    /\ u \notin refused
  BY DEF FollowingKept
<1>1. PICK L \in Seq(Users) : Distinct(L) /\ following[u] = RowsOf(L) /\ wanted[u] = Values(L)
  BY DEF IInv, Undisturbed
<1> QED
  BY <1>1, ReadBack DEF IInv, Undisturbed

(* Whoever sends one request after the other has exactly one row for each  *)
(* user he or she follows, at the positions of a list, and no request of   *)
(* such a user fails, whatever the others do.                              *)
THEOREM FollowingStaysKept == FollowsSpec => []FollowingKept
<1>1. FollowsInit => IInv
  BY InitIInv
<1>2. IInv /\ [FollowsNext]_followVars => IInv'
  BY NextIInv
<1>3. IInv => FollowingKept
  BY IInvKept
<1> QED
  BY <1>1, <1>2, <1>3, PTL DEF FollowsSpec

------------------------------------------------------------------------------
(* FollowsTypeOK.  The rows of a user are finitely many, so that those with *)
(* one position and one element can be counted, and a list that a stale    *)
(* transaction writes holds users and nulls, whatever it was read from.    *)

RowSet == [key : Nat \ {0}, elem : Users, copy : Nat \ {0}]
RowsWell(R) ==
    /\ R \subseteq RowSet
    /\ IsFiniteSet(R)
    /\ \E n \in Nat : \A x \in R : x.key \in 1 .. n

ChangeWell(c) ==
    /\ c.user \in Users /\ c.other \in Users
    /\ c.new \in Seq(Users \cup {Null})
    /\ c.op = "follow" => c.user # c.other

FollowsTyped ==
    /\ FollowsTypeOK
    /\ \A u \in Users : RowsWell(following[u])
    /\ DOMAIN change = Requests /\ change = [r \in Requests |-> change[r]]
    /\ \A r \in Requests : Changing(r) => ChangeWell(change[r])

LEMMA ListRowsWell ==
    ASSUME NEW L \in Seq(Users) PROVE RowsWell(RowsOf(L))
<1>1. RowsOf(L) \subseteq RowSet
  BY DEF RowsOf, Row, RowSet
<1>2. IsFiniteSet(RowsOf(L))
  <2>1. IsFiniteSet(DOMAIN L)
    BY FS_Interval
  <2> DEFINE f == [k \in DOMAIN L |-> Row(k, L[k], 1)]
  <2>2. f \in Surjection(DOMAIN L, RowsOf(L))
    BY DEF Surjection, RowsOf
  <2> QED
    BY <2>1, <2>2, FS_Surjection
<1>3. \A x \in RowsOf(L) : x.key \in 1 .. Len(L)
  BY DEF RowsOf, Row
<1> QED
  BY <1>1, <1>2, <1>3 DEF RowsWell

LEMMA InitFollowsTyped == FollowsInit => FollowsTyped
<1> SUFFICES ASSUME FollowsInit PROVE FollowsTyped
  OBVIOUS
<1>1. PICK s \in Start : following = [u \in Users |-> RowsOf(s[u])]
  BY DEF FollowsInit
<1>2. ASSUME NEW u \in Users PROVE s[u] \in Seq(Users)
  <2>1. s[u] \in Seq(Users \ {u})
    BY StartAssumption
  <2> QED
    BY <2>1
<1>3. \A u \in Users : RowsWell(following[u])
  BY <1>1, <1>2, ListRowsWell
<1>4. following \in [Users -> SUBSET RowSet]
  BY <1>1, <1>3 DEF RowsWell
<1>5. wanted \in [Users -> SUBSET Users]
  <2>1. \A u \in Users : Elements(following[u]) \subseteq Users
    BY <1>3 DEF Elements, RowsWell, RowSet
  <2> QED
    BY <2>1 DEF FollowsInit
<1>6. \A r \in Requests : ~Changing(r)
  BY DEF FollowsInit, Changing, NoChange, Change
<1>7. changes \in 0 .. MaxChanges /\ raced \subseteq Users /\ refused \subseteq Users
  BY ChangesAssumption DEF FollowsInit
<1> QED
  BY <1>3, <1>4, <1>5, <1>6, <1>7 DEF FollowsTyped, FollowsTypeOK, FollowsInit, RowSet

(* Writing any list over any rows.                                         *)
LEMMA WriteRowsWell ==
    ASSUME NEW R, RowsWell(R), NEW L, NEW M \in Seq(Users \cup {Null})
    PROVE  RowsWell(Write(R, L, M))
<1> DEFINE kept == Kept(R, L, M)
           Copies(k) == {x \in kept : x.key = k /\ x.elem = M[k]}
           up == {Row(k, M[k], 1) : k \in Updated(L, M)}
           in == {Row(k, M[k], Cardinality(Copies(k)) + 1) : k \in Inserted(L, M)}
<1>1. Write(R, L, M) = kept \cup up \cup in
  BY DEF Write
<1>2. \A k \in Updated(L, M) \cup Inserted(L, M) : k \in 1 .. Len(M) /\ M[k] \in Users
  BY DEF Updated, Inserted
<1>3. kept \subseteq R /\ kept \subseteq RowSet /\ IsFiniteSet(kept)
  <2>1. kept \subseteq R
    BY DEF Kept
  <2> QED
    BY <2>1, FS_Subset DEF RowsWell
<1>4. \A k : Cardinality(Copies(k)) \in Nat
  <2>1. \A k : Copies(k) \subseteq kept
    OBVIOUS
  <2> HIDE DEF Copies, kept
  <2> QED
    BY <1>3, <2>1, FS_Subset, FS_CardinalityType
<1> HIDE DEF Copies, kept
<1>5. up \subseteq RowSet /\ in \subseteq RowSet
  BY <1>2, <1>4 DEF Row, RowSet
<1>6. IsFiniteSet(Updated(L, M)) /\ IsFiniteSet(Inserted(L, M))
  <2>1. IsFiniteSet(1 .. Len(M)) /\ Updated(L, M) \subseteq 1 .. Len(M) /\ Inserted(L, M) \subseteq 1 .. Len(M)
    BY <1>2, FS_Interval
  <2> QED
    BY <2>1, FS_Subset
<1>7. IsFiniteSet(up)
  <2> DEFINE f == [k \in Updated(L, M) |-> Row(k, M[k], 1)]
  <2>1. f \in Surjection(Updated(L, M), up)
    BY DEF Surjection
  <2> QED
    BY <1>6, <2>1, FS_Surjection
<1>8. IsFiniteSet(in)
  <2> DEFINE f == [k \in Inserted(L, M) |-> Row(k, M[k], Cardinality(Copies(k)) + 1)]
  <2>1. f \in Surjection(Inserted(L, M), in)
    BY DEF Surjection
  <2> QED
    BY <1>6, <2>1, FS_Surjection
<1> HIDE DEF up, in
<1>9. IsFiniteSet(kept \cup up \cup in)
  BY <1>3, <1>7, <1>8, FS_Union
<1>10. \E m \in Nat : \A x \in Write(R, L, M) : x.key \in 1 .. m
  BY WriteElements DEF RowsWell
<1> QED
  BY <1>1, <1>3, <1>5, <1>9, <1>10 DEF RowsWell

(* What a transaction reads from such rows.                                *)
LEMMA BegunWell ==
    ASSUME NEW u \in Users, NEW v \in Users, NEW R, RowsWell(R), NEW L \in Lists(R)
    PROVE  /\ u # v => ChangeWell(Change("follow", u, v, L, Append(L, v)))
           /\ Has(L, v) => ChangeWell(Change("unfollow", u, v, L, Without(L, v)))
<1>1. L \in Seq(Elements(R) \cup {Null}) /\ \A k \in DOMAIN L : L[k] = Null \/ \E x \in R : L[k] = x.elem
  BY ListElements DEF RowsWell
<1>2. \A k \in 1 .. Len(L) : L[k] \in Users \cup {Null}
  BY <1>1 DEF RowsWell, RowSet
<1>3. L \in Seq(Users \cup {Null})
  BY <1>1, <1>2
<1>4. Append(L, v) \in Seq(Users \cup {Null})
  BY <1>3
<1>5. Has(L, v) => Without(L, v) \in Seq(Users \cup {Null})
  BY <1>3, WithoutElements
<1> QED
  BY <1>4, <1>5 DEF ChangeWell, Change

LEMMA BeginKeepsTyped ==
    ASSUME FollowsTyped, NEW r \in Requests, NEW u \in Users, NEW v \in Users,
           BeginFollow(r, u, v) \/ BeginUnfollow(r, u, v)
    PROVE  FollowsTyped'
<1>1. /\ following' = following /\ raced' = raced /\ refused' = refused
      /\ changes < MaxChanges /\ changes' = changes + 1
  BY DEF BeginFollow, BeginUnfollow
<1>2. /\ \/ wanted' = wanted
         \/ wanted' = [wanted EXCEPT ![u] = @ \cup {v}]
         \/ wanted' = [wanted EXCEPT ![u] = @ \ {v}]
      /\ \/ change' = change
         \/ \E L \in Lists(following[u]) :
               u # v /\ change' = [change EXCEPT ![r] = Change("follow", u, v, L, Append(L, v))]
         \/ \E L \in Lists(following[u]) :
               Has(L, v) /\ change' = [change EXCEPT ![r] = Change("unfollow", u, v, L, Without(L, v))]
  BY DEF BeginFollow, BeginUnfollow
<1>3. wanted' \in [Users -> SUBSET Users]
  BY <1>2 DEF FollowsTyped, FollowsTypeOK
<1>4. change' = change \/ \E c : ChangeWell(c) /\ change' = [change EXCEPT ![r] = c]
  BY <1>2, BegunWell DEF FollowsTyped
<1>5. \A q \in Requests : change'[q] = change[q] \/ ChangeWell(change'[q])
  BY <1>4 DEF FollowsTyped
<1>6. \A q \in Requests : Changing(q)' => ChangeWell(change'[q])
  BY <1>5 DEF FollowsTyped, Changing
<1>7. DOMAIN change' = Requests /\ change' = [q \in Requests |-> change'[q]]
  BY <1>4 DEF FollowsTyped
<1>8. changes' \in 0 .. MaxChanges
  BY <1>1, ChangesAssumption DEF FollowsTyped, FollowsTypeOK
<1> QED
  BY <1>1, <1>3, <1>6, <1>7, <1>8 DEF FollowsTyped, FollowsTypeOK, RowsWell, ChangeWell

LEMMA EndKeepsTyped ==
    ASSUME FollowsTyped, NEW r \in Requests, CommitChange(r) \/ ChangeFails(r)
    PROVE  FollowsTyped'
<1>1. PICK c : c = change[r]
  OBVIOUS
<1>2. /\ ChangeWell(c) /\ change' = [change EXCEPT ![r] = NoChange] /\ changes' = changes
      /\ raced' \subseteq raced \cup {c.user} /\ refused' \subseteq refused \cup {c.user}
  BY <1>1 DEF CommitChange, ChangeFails, RacedBy, FollowsTyped
<1>3. \/ following' = following
      \/ following' = [following EXCEPT ![c.user] = Write(@, c.old, c.new)]
  BY <1>1 DEF CommitChange, ChangeFails
<1>4. \/ wanted' = wanted
      \/ wanted' = [wanted EXCEPT ![c.user] = IF c.op = "follow" THEN @ \cup {c.other} ELSE @ \ {c.other}]
  BY <1>1 DEF CommitChange, ChangeFails
<1>5. RowsWell(Write(following[c.user], c.old, c.new))
  BY <1>2, WriteRowsWell DEF FollowsTyped, ChangeWell
<1>6. \A u \in Users : RowsWell(following'[u])
  BY <1>2, <1>3, <1>5 DEF FollowsTyped, FollowsTypeOK
<1>7. following' \in [Users -> SUBSET RowSet]
  <2>1. DOMAIN following' = Users /\ following' = [u \in Users |-> following'[u]]
    BY <1>3 DEF FollowsTyped, FollowsTypeOK
  <2>2. \A u \in Users : following'[u] \subseteq RowSet
    BY <1>6 DEF RowsWell
  <2> QED
    BY <2>1, <2>2
<1>8. wanted' \in [Users -> SUBSET Users]
  BY <1>2, <1>4 DEF FollowsTyped, FollowsTypeOK, ChangeWell
<1>9. \A q \in Requests : Changing(q)' => ChangeWell(change'[q])
  BY <1>2 DEF FollowsTyped, Changing, NoChange, Change
<1>10. DOMAIN change' = Requests /\ change' = [q \in Requests |-> change'[q]]
  BY <1>2 DEF FollowsTyped
<1>11. raced' \subseteq Users /\ refused' \subseteq Users /\ changes' \in 0 .. MaxChanges
  BY <1>2 DEF FollowsTyped, FollowsTypeOK, ChangeWell
<1> QED
  BY <1>6, <1>7, <1>8, <1>9, <1>10, <1>11 DEF FollowsTyped, FollowsTypeOK, RowSet, RowsWell, ChangeWell

LEMMA NextFollowsTyped == FollowsTyped /\ [FollowsNext]_followVars => FollowsTyped'
<1> SUFFICES ASSUME FollowsTyped, [FollowsNext]_followVars PROVE FollowsTyped'
  OBVIOUS
<1>1. CASE UNCHANGED followVars
  BY <1>1 DEF followVars, FollowsTyped, FollowsTypeOK, Changing, RowsWell, ChangeWell
<1>2. CASE FollowsNext
  BY <1>2, BeginKeepsTyped, EndKeepsTyped DEF FollowsNext
<1> QED
  BY <1>1, <1>2

(* Also of users who send many requests at a time, rows have positions     *)
(* from 1 on, name users, and are counted.                                 *)
THEOREM FollowsTypeCorrect == FollowsSpec => []FollowsTypeOK
<1>1. FollowsTyped => FollowsTypeOK
  BY DEF FollowsTyped
<1> QED
  BY <1>1, InitFollowsTyped, NextFollowsTyped, PTL DEF FollowsSpec

------------------------------------------------------------------------------
(* The composition and its components.                                     *)

(* Each step of Social is a step of Follows or leaves its variables alone. *)
LEMMA StepOfFollows == [SocialNext]_socialVars => [FollowsNext]_followVars
<1> SUFFICES ASSUME [SocialNext]_socialVars PROVE [FollowsNext]_followVars
  OBVIOUS
<1>1. CASE UNCHANGED socialVars
  BY <1>1 DEF socialVars
<1>2. CASE \E t \in Threads, u, v \in Users : BeginChange(t, u, v)
  BY <1>2, SameUsersAssumption DEF BeginChange, FollowsNext
<1>3. CASE \E t \in Threads : EndChange(t) \/ LoseChange(t)
  BY <1>3, SameUsersAssumption DEF EndChange, LoseChange, FollowsNext
<1>4. CASE \/ \E t \in Threads :
                 \/ \E u \in Users, g \in Streamables : BeginTask(t, u, g)
                 \/ EndLike(t) \/ EndLikeUntold(t) \/ EndWrite(t)
           \/ \E g \in Streamables, c \in Contents, private \in BOOLEAN : Create(g, c, private)
           \/ \E j \in jobs : RunJob(j)
  BY <1>4 DEF BeginTask, EndLike, EndLikeUntold, EndWrite, Create, RunJob, followVars
<1> QED
  BY <1>1, <1>2, <1>3, <1>4 DEF SocialNext

(* Each step of Social is a step of Graffiti or leaves its variables alone. *)
LEMMA StepOfGraffiti == [SocialNext]_socialVars => [GraffitiNext]_graffitiVars
<1> SUFFICES ASSUME [SocialNext]_socialVars PROVE [GraffitiNext]_graffitiVars
  OBVIOUS
<1>1. CASE UNCHANGED socialVars
  BY <1>1 DEF socialVars
<1>2. CASE \/ \E t \in Threads, u, v \in Users : BeginChange(t, u, v)
           \/ \E t \in Threads : EndChange(t) \/ LoseChange(t)
           \/ \E j \in jobs : RunJob(j)
  BY <1>2 DEF BeginChange, EndChange, LoseChange, RunJob, graffitiVars
<1>3. CASE \E t \in Threads, u \in Users, g \in Streamables : BeginTask(t, u, g)
  BY <1>3, SameUsersAssumption DEF BeginTask, GraffitiNext, Items
<1>4. CASE \E t \in Threads : EndLike(t) \/ EndLikeUntold(t) \/ EndWrite(t)
  BY <1>4 DEF EndLike, EndLikeUntold, EndWrite, GraffitiNext
<1>5. CASE \E g \in Streamables, c \in Contents, private \in BOOLEAN : Create(g, c, private)
  BY <1>5 DEF Create, GraffitiNext, Items
<1> QED
  BY <1>1, <1>2, <1>3, <1>4, <1>5 DEF SocialNext

(* The composition implements both of its components: nothing that one     *)
(* does to the other goes beyond what the other does on its own.           *)
THEOREM SocialImplementsComponents == SocialSpec => FollowsSpec /\ GraffitiSpec
<1>1. SocialInit => FollowsInit /\ GraffitiInit
  BY DEF SocialInit
<1> QED
  BY <1>1, StepOfFollows, StepOfGraffiti, PTL DEF SocialSpec, FollowsSpec, GraffitiSpec

(* In the composition too, whoever sends one request after the other has   *)
(* exactly one row for each user he or she follows.                        *)
THEOREM FollowingStaysKeptInSocial == SocialSpec => []FollowingKept
BY SocialImplementsComponents, FollowingStaysKept

(* In the composition too, a graffiti is as its owner was told, shows the  *)
(* one image there is for it, and has the likes and the reports that the   *)
(* answers promised, unless two writes of it overlapped.                   *)
THEOREM GraffitiStayKeptInSocial ==
    SocialSpec => [](ItemsKept /\ ImagesShown /\ LikesKept /\ FlagsReported)
BY SocialImplementsComponents, ItemsStayKept, ImagesStayShown, LikesStayKept, FlagsStayReported, PTL
------------------------------------------------------------------------------
(* SocialTypeOK, and the dates of the activities.  The inductive invariant *)
(* speaks of what is announced as of what has come of it: nobody is told   *)
(* of himself or herself, and no two activities, done or to be done, have  *)
(* one date.                                                               *)

Proper(n) == n.to \in Users /\ n.by \in Users \ {n.to}
ToTell == {j \in jobs : j.to # Nobody}
ToAdd == {j \in jobs : j.to = Nobody}
Acts == activity \cup ToAdd

Entered ==
    /\ made \in Nat
    /\ \A n \in notes \cup ToTell : Proper(n)
    /\ IsFiniteSet(activity)
    /\ \A a \in Acts : a.to = Nobody /\ a.by \in Users /\ a.at \in 0 .. made - 1
    /\ \A a, b \in Acts : a.at = b.at => a = b

LEMMA AnnouncedEntered ==
    ASSUME Entered, NEW notices, NEW kind, NEW by \in Users, NEW on,
           \A n \in notices : Proper(n), Announce(notices, kind, by, on)
    PROVE  Entered'
<1> DEFINE new == Activity(kind, by, on, made)
<1>1. new.to = Nobody /\ new.by \in Users /\ new.at = made
  BY DEF Activity
<1>2. \A n \in notices : n.to # Nobody
  BY SameUsersAssumption, NothingAssumption DEF Proper
<1> HIDE DEF new
<1>3. /\ jobs' = jobs \cup notices \cup {new} /\ made' = made + 1
      /\ notes' = notes /\ activity' = activity
  BY DEF Announce, new
<1>4. Acts' = Acts \cup {new} /\ ToTell' = ToTell \cup notices
  BY <1>1, <1>2, <1>3 DEF Acts, ToAdd, ToTell
<1>5. \A a \in Acts : a.to = Nobody /\ a.by \in Users /\ a.at \in 0 .. made' - 1 /\ a.at # made
  BY <1>3 DEF Entered
<1>6. made' \in Nat /\ made \in 0 .. made' - 1
  BY <1>3 DEF Entered
<1>7. \A a \in Acts' : a.to = Nobody /\ a.by \in Users /\ a.at \in 0 .. made' - 1
  BY <1>1, <1>4, <1>5, <1>6
<1>8. \A a, b \in Acts' : a.at = b.at => a = b
  BY <1>1, <1>4, <1>5 DEF Entered
<1>9. \A n \in notes' \cup ToTell' : Proper(n)
  BY <1>3, <1>4 DEF Entered
<1> QED
  BY <1>3, <1>6, <1>7, <1>8, <1>9 DEF Entered, Proper

LEMMA RanEntered ==
    ASSUME Entered, NEW j \in jobs, RunJob(j) PROVE Entered'
<1>1. made' = made
  BY DEF RunJob
<1>2. notes' \cup ToTell' \subseteq notes \cup ToTell /\ Acts' \subseteq Acts
  BY DEF RunJob, ToTell, ToAdd, Acts
<1>3. IsFiniteSet(activity')
  BY FS_AddElement DEF RunJob, Entered
<1> QED
  BY <1>1, <1>2, <1>3 DEF Entered, Proper

LEMMA NextEntered ==
    Entered /\ FollowsTyped /\ Typed /\ [SocialNext]_socialVars => Entered'
<1> SUFFICES ASSUME Entered, FollowsTyped, Typed, [SocialNext]_socialVars PROVE Entered'
  OBVIOUS
<1>1. UNCHANGED <<jobs, notes, activity, made>> => Entered'
  BY DEF Entered, Proper, Acts, ToAdd, ToTell
<1>2. CASE UNCHANGED jobVars
  BY <1>1, <1>2 DEF jobVars
<1>3. ASSUME NEW t \in Threads, EndChange(t) PROVE Entered'
  <2>1. PICK c : c = change[t]
    OBVIOUS
  <2>2. t \in Requests /\ Changing(t)
    BY <1>3, SameUsersAssumption DEF EndChange, CommitChange
  <2>3. ChangeWell(c)
    BY <2>1, <2>2 DEF FollowsTyped
  <2>4. CASE Followed(c)
    <3>1. Announce({Notice(c.other, "follow", c.user, Nothing)}, "follow", c.user, c.other)
      BY <1>3, <2>1, <2>4 DEF EndChange
    <3>2. Proper(Notice(c.other, "follow", c.user, Nothing)) /\ c.user \in Users
      BY <2>3, <2>4 DEF ChangeWell, Followed, Proper, Notice
    <3> QED
      BY <3>1, <3>2, AnnouncedEntered
  <2>5. CASE ~Followed(c)
    BY <1>2, <1>3, <2>1, <2>5 DEF EndChange
  <2> QED
    BY <2>4, <2>5
<1>4. ASSUME NEW t \in Threads, EndLike(t) PROVE Entered'
  <2>1. PICK w : w = task[t]
    OBVIOUS
  <2>2. w.user \in Users /\ w.on \in Streamables
    BY <1>4, <2>1, SameUsersAssumption DEF EndLike, CommitLike, Typed, TaskTyped
  <2>3. Owner[w.on] \in Users
    BY <2>2, OwnerAssumption, SameUsersAssumption DEF Items
  <2>4. CASE w.op = "like"
    <3>1. Announce(LikeNotices(w), "like", w.user, w.on)
      BY <1>4, <2>1, <2>4 DEF EndLike
    <3>2. \A n \in LikeNotices(w) : Proper(n)
      BY <2>2, <2>3 DEF LikeNotices, Proper, Notice
    <3> QED
      BY <2>2, <3>1, <3>2, AnnouncedEntered
  <2>5. CASE w.op # "like"
    BY <1>2, <1>4, <2>1, <2>5 DEF EndLike
  <2> QED
    BY <2>4, <2>5
<1>5. CASE \E t \in Threads : EndLikeUntold(t)
  BY <1>1, <1>5 DEF EndLikeUntold
<1>6. ASSUME NEW g \in Streamables, NEW c \in Contents, NEW private \in BOOLEAN, Create(g, c, private)
      PROVE  Entered'
  <2>1. Owner[g] \in Users
    BY OwnerAssumption, SameUsersAssumption DEF Items
  <2> QED
    BY <1>6, <2>1, AnnouncedEntered DEF Create
<1>7. CASE \E j \in jobs : RunJob(j)
  BY <1>7, RanEntered
<1>8. CASE \E t \in Threads :
              \/ \E u, v \in Users : BeginChange(t, u, v)
              \/ \E u \in Users, g \in Streamables : BeginTask(t, u, g)
              \/ LoseChange(t) \/ EndWrite(t)
  BY <1>2, <1>8 DEF BeginChange, BeginTask, LoseChange, EndWrite
<1> QED
  BY <1>2, <1>3, <1>4, <1>5, <1>6, <1>7, <1>8 DEF SocialNext, socialVars

(* What there is of a finite set can be listed.                            *)
LEMMA ListedAll ==
    ASSUME NEW S, IsFiniteSet(S)
    PROVE  /\ Cardinality(S) \in Nat
           /\ DOMAIN Listed(S) = 1 .. Cardinality(S)
           /\ {Listed(S)[n] : n \in DOMAIN Listed(S)} = S
<1>1. Cardinality(S) \in Nat /\ ExistsBijection(1 .. Cardinality(S), S)
  BY FS_CardinalityType
<1>2. PICK f \in [1 .. Cardinality(S) -> S] : \A e \in S : \E n \in 1 .. Cardinality(S) : f[n] = e
  BY <1>1 DEF ExistsBijection, Bijection, Surjection
<1>3. {f[n] : n \in DOMAIN f} = S
  BY <1>2
<1>4. Listed(S) \in [1 .. Cardinality(S) -> S] /\ {Listed(S)[n] : n \in DOMAIN Listed(S)} = S
  BY <1>2, <1>3 DEF Listed
<1> QED
  BY <1>1, <1>4

(* At the beginning each follow has been announced: nobody follows himself *)
(* or herself, and each has its own number in the list of all.             *)
LEMMA InitEntered == SocialInit => Entered
<1> SUFFICES ASSUME SocialInit PROVE Entered
  OBVIOUS
<1> DEFINE follows == {e \in Users \X Users : e[2] \in Elements(following[e[1]])}
           edges == Listed(follows)
<1>1. IsFiniteSet(follows)
  <2>1. IsFiniteSet(Users \X Users)
    BY UsersAssumption, FS_Product
  <2>2. follows \in SUBSET (Users \X Users)
    OBVIOUS
  <2> QED
    BY <2>1, <2>2, FS_Subset
<1>2. /\ notes = {Notice(e[2], "follow", e[1], Nothing) : e \in follows}
      /\ activity = {Activity("follow", edges[n][1], edges[n][2], n - 1) : n \in DOMAIN edges}
      /\ made = Cardinality(follows)
      /\ jobs = {}
  BY DEF SocialInit
<1>3. /\ made \in Nat /\ DOMAIN edges = 1 .. made
      /\ \A n \in 1 .. made : edges[n] \in follows
  <2>1. /\ Cardinality(follows) \in Nat
        /\ DOMAIN edges = 1 .. Cardinality(follows)
        /\ {edges[n] : n \in DOMAIN edges} = follows
    BY <1>1, ListedAll
  <2> HIDE DEF follows, edges
  <2> QED
    BY <1>2, <2>1
<1>4. \A e \in follows : e[1] \in Users /\ e[2] \in Users /\ e[1] # e[2]
  <2> SUFFICES ASSUME NEW u \in Users, NEW v \in Users, v \in Elements(following[u]) PROVE u # v
    OBVIOUS
  <2>1. PICK s \in Start : following = [w \in Users |-> RowsOf(s[w])]
    BY DEF SocialInit, FollowsInit
  <2>2. s[u] \in Seq(Users \ {u})
    BY StartAssumption
  <2>3. following[u] = {Row(k, s[u][k], 1) : k \in 1 .. Len(s[u])}
    BY <2>1, <2>2 DEF RowsOf
  <2>4. \A x \in following[u] : x.elem # u
    BY <2>2, <2>3 DEF Row
  <2> QED
    BY <2>4 DEF Elements
<1> HIDE DEF follows, edges
<1>5. \A n \in notes : Proper(n)
  BY <1>2, <1>4 DEF Notice, Proper
<1>6. ToTell = {} /\ Acts = activity
  BY <1>2 DEF ToTell, Acts, ToAdd
<1>7. \A a \in activity : \E n \in 1 .. made : a = Activity("follow", edges[n][1], edges[n][2], n - 1)
  BY <1>2, <1>3
<1>8. \A n \in 1 .. made : edges[n][1] \in Users
  BY <1>3, <1>4
<1>9. \A a \in activity : a.to = Nobody /\ a.by \in Users /\ a.at \in 0 .. made - 1
  BY <1>3, <1>7, <1>8 DEF Activity
<1>10. ASSUME NEW a \in activity, NEW b \in activity, a.at = b.at PROVE a = b
  <2>1. PICK n \in 1 .. made : a = Activity("follow", edges[n][1], edges[n][2], n - 1)
    BY <1>7
  <2>2. PICK m \in 1 .. made : b = Activity("follow", edges[m][1], edges[m][2], m - 1)
    BY <1>7
  <2>3. n - 1 = m - 1
    BY <1>10, <2>1, <2>2 DEF Activity
  <2>4. n = m
    BY <2>3
  <2> QED
    BY <2>1, <2>2, <2>4
<1>11. IsFiniteSet(activity)
  <2> DEFINE f == [n \in 1 .. made |-> Activity("follow", edges[n][1], edges[n][2], n - 1)]
  <2>1. f \in Surjection(1 .. made, activity)
    BY <1>2, <1>3 DEF Surjection
  <2>2. IsFiniteSet(1 .. made)
    BY <1>3, FS_Interval
  <2> HIDE DEF f
  <2> QED
    BY <2>1, <2>2, FS_Surjection
<1> QED
  BY <1>3, <1>5, <1>6, <1>9, <1>10, <1>11 DEF Entered

(* Rows name users, nobody is told of what he or she did, and activities   *)
(* have dates of the past, whatever transactions overlapped.               *)
THEOREM SocialTypeCorrect == SocialSpec => []SocialTypeOK
<1>1. FollowsSpec => []FollowsTyped
  BY InitFollowsTyped, NextFollowsTyped, PTL DEF FollowsSpec
<1>2. Entered /\ FollowsTyped /\ Typed => SocialTypeOK
  BY DEF Entered, FollowsTyped, Typed, SocialTypeOK, Proper, Acts
<1> QED
  BY <1>1, <1>2, InitEntered, NextEntered, AlwaysTyped, SocialImplementsComponents, PTL DEF SocialSpec

------------------------------------------------------------------------------
(* Who may see what.                                                       *)

(* Whatever says that somebody has created a graffiti names its owner.     *)
ByOwner(a) == a.kind = "create" => a.on \in Streamables /\ a.by = Owner[a.on]
CreatedByOwner == \A a \in activity \cup jobs : ByOwner(a)

LEMMA AnnouncedByOwner ==
    ASSUME CreatedByOwner, NEW notices, NEW kind, NEW by, NEW on,
           \A a \in notices : ByOwner(a),
           kind = "create" => on \in Streamables /\ by = Owner[on],
           Announce(notices, kind, by, on)
    PROVE  CreatedByOwner'
<1>1. ByOwner(Activity(kind, by, on, made))
  BY DEF ByOwner, Activity
<1> QED
  BY <1>1 DEF CreatedByOwner, ByOwner, Announce

LEMMA NextKeepsByOwner == CreatedByOwner /\ [SocialNext]_socialVars => CreatedByOwner'
<1> SUFFICES ASSUME CreatedByOwner, [SocialNext]_socialVars PROVE CreatedByOwner'
  OBVIOUS
<1>1. CASE UNCHANGED jobVars
  BY <1>1 DEF jobVars, CreatedByOwner, ByOwner
<1>2. CASE \E t \in Threads : EndChange(t)
  BY <1>1, <1>2, AnnouncedByOwner DEF EndChange, ByOwner, Notice
<1>3. CASE \E t \in Threads : EndLike(t)
  BY <1>1, <1>3, AnnouncedByOwner DEF EndLike, ByOwner, LikeNotices, Notice
<1>4. CASE \E t \in Threads : EndLikeUntold(t)
  BY <1>4 DEF EndLikeUntold, CreatedByOwner, ByOwner
<1>5. CASE \E g \in Streamables, c \in Contents, private \in BOOLEAN : Create(g, c, private)
  BY <1>5, AnnouncedByOwner DEF Create
<1>6. CASE \E j \in jobs : RunJob(j)
  BY <1>6 DEF RunJob, CreatedByOwner, ByOwner
<1>7. CASE \E t \in Threads :
              \/ \E u, v \in Users : BeginChange(t, u, v)
              \/ \E u \in Users, g \in Streamables : BeginTask(t, u, g)
              \/ LoseChange(t) \/ EndWrite(t)
  BY <1>1, <1>7 DEF BeginChange, BeginTask, LoseChange, EndWrite
<1> QED
  BY <1>1, <1>2, <1>3, <1>4, <1>5, <1>6, <1>7 DEF SocialNext, socialVars

LEMMA OwnersObeyedByRows == CreatedByOwner /\ ItemsKept => OwnersObeyed
<1> SUFFICES ASSUME CreatedByOwner, ItemsKept, NEW v \in Users,
                    NEW a \in UserFeed(v, Friends(v), activity, Gone, Private),
                    <<a.on, RowOps>> \notin mixed
             PROVE  ~intended[a.on].deleted /\ (intended[a.on].private => Owner[a.on] = v)
  BY DEF OwnersObeyed
<1>1. a \in activity /\ a.kind = "create" /\ a.on \notin Gone /\ (a.on \notin Private \/ a.by = v)
  BY DEF UserFeed, Visible
<1>2. a.on \in Streamables /\ a.by = Owner[a.on]
  BY <1>1 DEF CreatedByOwner, ByOwner
<1>3. item[a.on] = intended[a.on]
  BY <1>2 DEF ItemsKept, Items
<1> QED
  BY <1>1, <1>2, <1>3 DEF Gone, Private

(* Nobody is shown what its owner has deleted, nor what somebody else has  *)
(* made private, going by the answers, unless two writes of it overlapped. *)
THEOREM OwnersStayObeyed == SocialSpec => []OwnersObeyed
<1>1. SocialInit => CreatedByOwner
  BY DEF SocialInit, CreatedByOwner, ByOwner, Activity
<1> QED
  BY <1>1, NextKeepsByOwner, OwnersObeyedByRows, GraffitiStayKeptInSocial, PTL DEF SocialSpec
------------------------------------------------------------------------------
(* Who is told.                                                            *)

Announced(u, v) == Told(v, "follow", u, Nothing) /\ Seen("follow", u, v)

LikeKnown(u, g) ==
    \/ <<u, g>> \in untold
    \/ Seen("like", u, g) /\ (u # Owner[g] => Told(Owner[g], "like", u, g))

(* What a transaction may leave in the table: whom it has read, who have   *)
(* been told, and whom it adds, who is told after its end.                 *)
ListTold(c) ==
    /\ c.user \in Users /\ c.other \in Users
    /\ c.new \in Seq(Users \cup {Null})
    /\ \A k \in DOMAIN c.new :
          \/ c.new[k] = Null \/ Announced(c.user, c.new[k])
          \/ c.op = "follow" /\ c.new[k] = c.other

SetTold(w) ==
    \A u \in People : w.set[u] > 0 => LikeKnown(u, w.on) \/ (w.op = "like" /\ u = w.user)

FollowsTold ==
    /\ \A u \in Users : \E n \in Nat : \A x \in following[u] :
          x.key \in 1 .. n /\ x.elem \in Users /\ Announced(u, x.elem)
    /\ \A r \in Requests : Changing(r) => ListTold(change[r])

LikesTold ==
    /\ \A g \in Streamables, u \in People : likers[g][u] > 0 => LikeKnown(u, g)
    /\ \A t \in Threads : task[t].op \in LikeOps => SetTold(task[t])

ToldInv == made \in Nat /\ FollowsTold /\ LikesTold

(* No step forgets a job, what a job has done, or who was not told.        *)
Remembers ==
    /\ made \in Nat /\ made' \in Nat /\ made <= made'
    /\ \A j \in notes \cup jobs : j.to # Nobody => j \in notes' \cup jobs'
    /\ \A j \in activity \cup jobs : j.to = Nobody => j \in activity' \cup jobs'
    /\ untold \subseteq untold'

LEMMA AnnouncingRemembers ==
    ASSUME made \in Nat, NEW notices, NEW kind, NEW by, NEW on, Announce(notices, kind, by, on)
    PROVE  /\ Remembers
           /\ Seen(kind, by, on)'
           /\ \A n \in notices : n \in notes' \cup jobs'
<1>1. Activity(kind, by, on, made) \in jobs' /\ made \in 0 .. made'
  BY DEF Announce
<1> QED
  BY <1>1 DEF Announce, Remembers, Seen

LEMMA NextRemembers == made \in Nat /\ [SocialNext]_socialVars => Remembers
<1> SUFFICES ASSUME made \in Nat, [SocialNext]_socialVars PROVE Remembers
  OBVIOUS
<1>1. CASE UNCHANGED jobVars
  BY <1>1 DEF jobVars, Remembers
<1>2. CASE \E t \in Threads : EndChange(t) \/ EndLike(t)
  BY <1>1, <1>2, AnnouncingRemembers DEF EndChange, EndLike
<1>3. CASE \E g \in Streamables, c \in Contents, private \in BOOLEAN : Create(g, c, private)
  BY <1>3, AnnouncingRemembers DEF Create
<1>4. CASE \E t \in Threads : EndLikeUntold(t)
  BY <1>4 DEF EndLikeUntold, Remembers
<1>5. CASE \E j \in jobs : RunJob(j)
  BY <1>5 DEF RunJob, Remembers
<1>6. CASE \E t \in Threads :
              \/ \E u, v \in Users : BeginChange(t, u, v)
              \/ \E u \in Users, g \in Streamables : BeginTask(t, u, g)
              \/ LoseChange(t) \/ EndWrite(t)
  BY <1>1, <1>6 DEF BeginChange, BeginTask, LoseChange, EndWrite
<1> QED
  BY <1>1, <1>2, <1>3, <1>4, <1>5, <1>6 DEF SocialNext, socialVars

(* What was told stays told.                                               *)
LEMMA StaysTold ==
    ASSUME Remembers
    PROVE  /\ \A to \in Users : \A kind, by, on : Told(to, kind, by, on) => Told(to, kind, by, on)'
           /\ \A kind, by, on : Seen(kind, by, on) => Seen(kind, by, on)'
<1>1. ASSUME NEW to \in Users, NEW kind, NEW by, NEW on, Told(to, kind, by, on)
      PROVE  Told(to, kind, by, on)'
  <2>1. Notice(to, kind, by, on).to # Nobody
    BY SameUsersAssumption, NothingAssumption DEF Notice
  <2> QED
    BY <1>1, <2>1 DEF Told, Remembers
<1>2. ASSUME NEW kind, NEW by, NEW on, Seen(kind, by, on)
      PROVE  Seen(kind, by, on)'
  <2>1. PICK at \in 0 .. made : Activity(kind, by, on, at) \in activity \cup jobs
    BY <1>2 DEF Seen
  <2>2. Activity(kind, by, on, at).to = Nobody /\ at \in 0 .. made'
    BY DEF Activity, Remembers
  <2> QED
    BY <2>1, <2>2 DEF Seen, Remembers
<1> QED
  BY <1>1, <1>2

LEMMA StaysKnown ==
    ASSUME Remembers
    PROVE  /\ \A u, v \in Users : Announced(u, v) => Announced(u, v)'
           /\ \A u \in People, g \in Streamables : LikeKnown(u, g) => LikeKnown(u, g)'
<1>1. \A g \in Streamables : Owner[g] \in Users
  BY OwnerAssumption, SameUsersAssumption DEF Items
<1>2. untold \subseteq untold'
  BY DEF Remembers
<1>3. ASSUME NEW u \in Users, NEW v \in Users, Announced(u, v) PROVE Announced(u, v)'
  BY <1>3, StaysTold DEF Announced
<1>4. ASSUME NEW u \in People, NEW g \in Streamables, LikeKnown(u, g) PROVE LikeKnown(u, g)'
  BY <1>1, <1>2, <1>4, StaysTold DEF LikeKnown
<1> QED
  BY <1>3, <1>4

LEMMA ListStaysTold ==
    ASSUME Remembers, NEW c, ListTold(c) PROVE ListTold(c)'
<1>1. \A k \in DOMAIN c.new : c.new[k] = Null \/ c.new[k] \in Users
  BY DEF ListTold
<1> QED
  BY <1>1, StaysKnown DEF ListTold

LEMMA SetStaysTold ==
    ASSUME Remembers, NEW w, w.on \in Streamables, SetTold(w) PROVE SetTold(w)'
BY StaysKnown DEF SetTold

(* What a transaction reads has been told, and whom it adds will be.       *)
LEMMA BegunListTold ==
    ASSUME FollowsTold, NEW u \in Users, NEW v \in Users, NEW L \in Lists(following[u])
    PROVE  /\ ListTold(Change("follow", u, v, L, Append(L, v)))
           /\ Has(L, v) => ListTold(Change("unfollow", u, v, L, Without(L, v)))
<1> DEFINE Here == Users \cup {Null}
           Known(e) == e = Null \/ Announced(u, e)
<1>1. PICK n \in Nat : \A x \in following[u] :
          x.key \in 1 .. n /\ x.elem \in Users /\ Announced(u, x.elem)
  BY DEF FollowsTold
<1>2. /\ L \in Seq(Elements(following[u]) \cup {Null})
      /\ \A k \in DOMAIN L : L[k] = Null \/ \E x \in following[u] : L[k] = x.elem
  BY <1>1, ListElements
<1>3. \A k \in 1 .. Len(L) : L[k] \in Here /\ Known(L[k])
  BY <1>1, <1>2
<1> HIDE DEF Known
<1>4. L \in Seq(Here)
  BY <1>2, <1>3
<1>5. /\ Append(L, v) \in Seq(Here)
      /\ \A k \in DOMAIN Append(L, v) : Known(Append(L, v)[k]) \/ Append(L, v)[k] = v
  BY <1>3, <1>4
<1>6. ASSUME Has(L, v)
      PROVE  /\ Without(L, v) \in Seq(Here)
             /\ \A k \in DOMAIN Without(L, v) : Known(Without(L, v)[k])
  <2>1. /\ Without(L, v) \in Seq(Here)
        /\ \A k \in DOMAIN Without(L, v) : \E j \in DOMAIN L : Without(L, v)[k] = L[j]
    BY <1>4, <1>6, WithoutElements
  <2> QED
    BY <2>1, <1>3, <1>4
<1>7. ListTold(Change("follow", u, v, L, Append(L, v)))
  BY <1>5 DEF Change, ListTold, Known
<1>8. Has(L, v) => ListTold(Change("unfollow", u, v, L, Without(L, v)))
  BY <1>6 DEF Change, ListTold, Known
<1> QED
  BY <1>7, <1>8

(* Steps that do not write the table.                                      *)
LEMMA UnwrittenFollowsTold ==
    ASSUME FollowsTold, Remembers, following' = following,
           \A r \in Requests : Changing(r)' => change'[r] = change[r] \/ ListTold(change'[r])
    PROVE  FollowsTold'
<1>1. ASSUME NEW u \in Users
      PROVE  \E n \in Nat : \A x \in following'[u] :
                 x.key \in 1 .. n /\ x.elem \in Users /\ Announced(u, x.elem)'
  BY StaysKnown DEF FollowsTold
<1>2. ASSUME NEW r \in Requests, Changing(r)' PROVE ListTold(change[r])'
  <2>1. PICK c : c = change'[r]
    OBVIOUS
  <2>2. ListTold(c)
    BY <1>2, <2>1 DEF FollowsTold, Changing
  <2>3. ListTold(c)'
    BY <2>2, ListStaysTold
  <2> QED
    BY <2>1, <2>3 DEF ListTold, Announced, Told, Seen
<1> QED
  BY <1>1, <1>2 DEF FollowsTold

LEMMA BeginKeepsFollowsTold ==
    ASSUME FollowsTold, IInv, Remembers, NEW r \in Requests, NEW u \in Users, NEW v \in Users,
           BeginFollow(r, u, v) \/ BeginUnfollow(r, u, v)
    PROVE  FollowsTold'
<1>1. /\ following' = following
      /\ \/ change' = change
         \/ \E L \in Lists(following[u]) :
               change' = [change EXCEPT ![r] = Change("follow", u, v, L, Append(L, v))]
         \/ \E L \in Lists(following[u]) :
               Has(L, v) /\ change' = [change EXCEPT ![r] = Change("unfollow", u, v, L, Without(L, v))]
  BY DEF BeginFollow, BeginUnfollow
<1>2. change' = change \/ \E c : ListTold(c) /\ change' = [change EXCEPT ![r] = c]
  BY <1>1, BegunListTold
<1>3. \A q \in Requests : change'[q] = change[q] \/ ListTold(change'[q])
  BY <1>2 DEF IInv
<1> QED
  BY <1>1, <1>3, UnwrittenFollowsTold

LEMMA CommitKeepsFollowsTold ==
    ASSUME FollowsTold, IInv, Remembers, NEW r \in Requests, CommitChange(r),
           NEW c, c = change[r], c.op = "follow" => Announced(c.user, c.other)'
    PROVE  FollowsTold'
<1>1. PICK u : u = c.user
  OBVIOUS
<1>2. /\ ListTold(c) /\ u = c.user /\ u \in Users
      /\ following' = [following EXCEPT ![u] = Write(@, c.old, c.new)]
      /\ change' = [change EXCEPT ![r] = NoChange]
  BY <1>1 DEF CommitChange, FollowsTold, ListTold
<1>3. PICK n \in Nat : \A x \in following[u] :
          x.key \in 1 .. n /\ x.elem \in Users /\ Announced(u, x.elem)
  BY <1>2 DEF FollowsTold
<1>4. /\ \E m \in Nat : \A x \in following'[u] : x.key \in 1 .. m
      /\ \A x \in following'[u] :
            x \in following[u] \/ \E k \in DOMAIN c.new : c.new[k] # Null /\ x.elem = c.new[k]
  <2>1. c.new \in Seq(Users \cup {Null})
    BY <1>2 DEF ListTold
  <2>2. following'[u] = Write(following[u], c.old, c.new)
    BY <1>2 DEF IInv
  <2> QED
    BY <1>3, <2>1, <2>2, WriteElements
<1>5. \A k \in DOMAIN c.new : c.new[k] # Null => c.new[k] \in Users /\ Announced(u, c.new[k])'
  <2> SUFFICES ASSUME NEW k \in DOMAIN c.new, c.new[k] # Null
               PROVE  c.new[k] \in Users /\ Announced(u, c.new[k])'
    OBVIOUS
  <2>1. c.new[k] \in Users
    BY <1>2 DEF ListTold
  <2>2. CASE Announced(u, c.new[k])
    BY <1>2, <2>1, <2>2, StaysKnown
  <2>3. CASE c.op = "follow" /\ c.new[k] = c.other
    BY <1>1, <2>1, <2>3
  <2> QED
    BY <1>2, <2>1, <2>2, <2>3 DEF ListTold
<1>6. \A x \in following'[u] : x.elem \in Users /\ Announced(u, x.elem)'
  BY <1>2, <1>3, <1>4, <1>5, StaysKnown
<1>7. ASSUME NEW w \in Users \ {u}
      PROVE  \E m \in Nat : \A x \in following'[w] :
                 x.key \in 1 .. m /\ x.elem \in Users /\ Announced(w, x.elem)'
  <2>1. following'[w] = following[w]
    BY <1>2 DEF IInv
  <2> QED
    BY <2>1, StaysKnown DEF FollowsTold
<1>8. ASSUME NEW q \in Requests, Changing(q)' PROVE ListTold(change[q])'
  <2>1. PICK d : d = change'[q]
    OBVIOUS
  <2>2. q # r /\ d = change[q]
    BY <1>2, <1>8, <2>1 DEF IInv, Changing, NoChange, Change
  <2>3. ListTold(d)
    BY <1>8, <2>1, <2>2 DEF FollowsTold, Changing
  <2>4. ListTold(d)'
    BY <2>3, ListStaysTold
  <2> QED
    BY <2>1, <2>4 DEF ListTold, Announced, Told, Seen
<1> QED
  BY <1>4, <1>6, <1>7, <1>8 DEF FollowsTold

(* Likes: steps that do not write the table.                               *)
LEMMA UnwrittenLikesTold ==
    ASSUME LikesTold, Typed, Remembers, likers' = likers,
           \A t \in Threads : task'[t].op \in LikeOps =>
               \/ task'[t] = task[t]
               \/ task'[t].on \in Streamables /\ SetTold(task'[t])
    PROVE  LikesTold'
<1>1. \A g \in Streamables, u \in People : likers'[g][u] > 0 => LikeKnown(u, g)'
  BY StaysKnown DEF LikesTold
<1>2. ASSUME NEW t \in Threads, task'[t].op \in LikeOps PROVE SetTold(task[t])'
  <2>1. PICK w : w = task'[t]
    OBVIOUS
  <2>2. SetTold(w) /\ w.on \in Streamables
    BY <1>2, <2>1 DEF LikesTold, Typed, TaskTyped
  <2>3. SetTold(w)'
    BY <2>2, SetStaysTold
  <2> QED
    BY <2>1, <2>3 DEF SetTold, LikeKnown, Told, Seen
<1> QED
  BY <1>1, <1>2 DEF LikesTold

LEMMA BeginLikeKeepsLikesTold ==
    ASSUME LikesTold, Typed, Remembers, NEW t \in Threads, NEW op \in LikeOps, NEW u \in People,
           NEW g \in Streamables, BeginLike(t, op, u, g)
    PROVE  LikesTold'
<1> DEFINE set == [likers[g] EXCEPT ![u] = IF op = "like" THEN @ + 1 ELSE @ - 1]
           w == Task(op, u, g, set, likers[g])
<1>1. likers' = likers /\ (task' = task \/ task' = [task EXCEPT ![t] = w])
  BY DEF BeginLike
<1>2. SetTold(w)
  <2>1. w.op = op /\ w.user = u /\ w.on = g /\ w.set = set
    BY DEF Task
  <2>2. \A v \in People : set[v] > 0 => likers[g][v] > 0 \/ (op = "like" /\ v = u)
    BY DEF Typed, GraffitiTypeOK, LikeOps
  <2> HIDE DEF set, w
  <2> QED
    BY <2>1, <2>2 DEF SetTold, LikesTold
<1>3. w.on \in Streamables
  BY DEF Task
<1> HIDE DEF w
<1>4. \A q \in Threads : task'[q] = task[q] \/ task'[q] = w
  BY <1>1 DEF Typed
<1> QED
  BY <1>1, <1>2, <1>3, <1>4, UnwrittenLikesTold

LEMMA CommitLikeKeepsLikesTold ==
    ASSUME LikesTold, Typed, Remembers, NEW t \in Threads, CommitLike(t),
           NEW w, w = task[t], w.op = "like" => LikeKnown(w.user, w.on)'
    PROVE  LikesTold'
<1>1. /\ w.op \in LikeOps /\ w.on \in Streamables /\ w.set \in LikeRows /\ SetTold(w)
      /\ likers' = [likers EXCEPT ![w.on] = Recreated(@, w)]
      /\ task' = [task EXCEPT ![t] = NoTask]
  BY DEF CommitLike, Typed, TaskTyped, LikesTold
<1>2. \A u \in People : w.set[u] > 0 => LikeKnown(u, w.on)'
  BY <1>1, StaysKnown DEF SetTold
<1>3. \A u \in People : likers[w.on][u] > 0 => LikeKnown(u, w.on)'
  BY <1>1, StaysKnown DEF LikesTold
<1>4. \A u \in People : likers'[w.on][u] > 0 => likers[w.on][u] > 0 \/ w.set[u] > 0
  <2>1. likers[w.on] \in LikeRows /\ likers'[w.on] = Recreated(likers[w.on], w)
    BY <1>1 DEF Typed, GraffitiTypeOK, LikeRows
  <2> QED
    BY <1>1, <2>1 DEF Recreated, LikeRows
<1>5. \A g \in Streamables \ {w.on} : likers'[g] = likers[g]
  BY <1>1 DEF Typed, GraffitiTypeOK
<1>6. \A g \in Streamables, u \in People : likers'[g][u] > 0 => LikeKnown(u, g)'
  BY <1>2, <1>3, <1>4, <1>5, StaysKnown DEF LikesTold
<1>7. ASSUME NEW q \in Threads, task'[q].op \in LikeOps PROVE SetTold(task[q])'
  <2>1. PICK d : d = task'[q]
    OBVIOUS
  <2>2. q # t /\ d = task[q]
    BY <1>1, <1>7, <2>1 DEF Typed, NoTask, Task, LikeOps
  <2>3. SetTold(d) /\ d.on \in Streamables
    BY <1>7, <2>1, <2>2 DEF LikesTold, Typed, TaskTyped
  <2>4. SetTold(d)'
    BY <2>3, SetStaysTold
  <2> QED
    BY <2>1, <2>4 DEF SetTold, LikeKnown, Told, Seen
<1> QED
  BY <1>6, <1>7 DEF LikesTold

(* The other steps of the component leave the likes and their requests     *)
(* alone, or end a request.                                                *)
LEMMA OtherStepsKeepLikesTold ==
    ASSUME LikesTold, Typed, Remembers,
           \/ UNCHANGED <<likers, task>>
           \/ \E t \in Threads : CommitWrite(t) \/ SendFlagEmail(t) \/ ReportFails(t)
           \/ \E t \in Threads, op \in RowOps, u \in People, g \in Streamables,
                 c \in Contents \cup {Nothing} : BeginWrite(t, op, u, g, c)
    PROVE  LikesTold'
<1>1. CASE UNCHANGED <<likers, task>>
  BY <1>1, UnwrittenLikesTold
<1>2. CASE \E t \in Threads : CommitWrite(t) \/ SendFlagEmail(t) \/ ReportFails(t)
  <2>1. PICK t \in Threads : CommitWrite(t) \/ SendFlagEmail(t) \/ ReportFails(t)
    BY <1>2
  <2>2. PICK w : w.op \notin LikeOps /\ task' = [task EXCEPT ![t] = w] /\ likers' = likers
    <3>1. NoTask.op \notin LikeOps /\ [task[t] EXCEPT !.op = "mail"].op \notin LikeOps
      BY DEF NoTask, Task, LikeOps
    <3>2. CASE CommitWrite(t)
      BY <3>1, <3>2 DEF CommitWrite
    <3>3. CASE SendFlagEmail(t) \/ ReportFails(t)
      BY <3>1, <3>3 DEF SendFlagEmail, ReportFails
    <3> QED
      BY <2>1, <3>2, <3>3
  <2>3. \A q \in Threads : task'[q] = task[q] \/ task'[q] = w
    BY <2>2 DEF Typed
  <2> QED
    BY <2>2, <2>3, UnwrittenLikesTold
<1>3. CASE \E t \in Threads, op \in RowOps, u \in People, g \in Streamables,
              c \in Contents \cup {Nothing} : BeginWrite(t, op, u, g, c)
  <2>1. PICK t \in Threads, op \in RowOps, u \in People, g \in Streamables,
             c \in Contents \cup {Nothing} : BeginWrite(t, op, u, g, c)
    BY <1>3
  <2> DEFINE w == Task(op, u, g, Applied(op, item[g], c), item[g])
  <2>2. likers' = likers /\ (task' = task \/ task' = [task EXCEPT ![t] = w])
    BY <2>1 DEF BeginWrite
  <2>3. w.op \notin LikeOps
    BY DEF Task, LikeOps, RowOps
  <2> HIDE DEF w
  <2>4. \A q \in Threads : task'[q] = task[q] \/ task'[q] = w
    BY <2>2 DEF Typed
  <2> QED
    BY <2>2, <2>3, <2>4, UnwrittenLikesTold
<1> QED
  BY <1>1, <1>2, <1>3

LEMMA NextKeepsTold == ToldInv /\ IInv /\ Typed /\ [SocialNext]_socialVars => ToldInv'
<1> SUFFICES ASSUME ToldInv, IInv, Typed, [SocialNext]_socialVars PROVE ToldInv'
  OBVIOUS
<1>0. FollowsTold /\ LikesTold /\ Remembers /\ made' \in Nat
  BY NextRemembers DEF ToldInv, Remembers
<1>1. UNCHANGED followVars => FollowsTold'
  <2> SUFFICES ASSUME UNCHANGED followVars PROVE FollowsTold'
    OBVIOUS
  <2>1. following' = following /\ change' = change
    BY DEF followVars
  <2> QED
    BY <1>0, <2>1, UnwrittenFollowsTold
<1>2. UNCHANGED graffitiVars => LikesTold'
  <2> SUFFICES ASSUME UNCHANGED graffitiVars PROVE LikesTold'
    OBVIOUS
  <2>1. UNCHANGED <<likers, task>>
    BY DEF graffitiVars
  <2> QED
    BY <1>0, <2>1, OtherStepsKeepLikesTold
<1>3. CASE UNCHANGED socialVars
  BY <1>0, <1>1, <1>2, <1>3 DEF socialVars, ToldInv
<1>4. ASSUME NEW t \in Threads, NEW u \in Users, NEW v \in Users, BeginChange(t, u, v)
      PROVE  FollowsTold' /\ LikesTold'
  BY <1>0, <1>2, <1>4, BeginKeepsFollowsTold, SameUsersAssumption DEF BeginChange
<1>5. ASSUME NEW t \in Threads, NEW u \in Users, NEW g \in Streamables, BeginTask(t, u, g)
      PROVE  FollowsTold' /\ LikesTold'
  <2>1. UNCHANGED followVars
    BY <1>5 DEF BeginTask
  <2>2. ASSUME \E op \in RowOps, c \in Contents \cup {Nothing} : BeginWrite(t, op, u, g, c)
        PROVE  LikesTold'
    BY <1>0, <2>2, OtherStepsKeepLikesTold, SameUsersAssumption
  <2>3. ASSUME NEW op \in LikeOps, BeginLike(t, op, u, g)
        PROVE  LikesTold'
    BY <1>0, <2>3, BeginLikeKeepsLikesTold, SameUsersAssumption
  <2> QED
    BY <1>1, <1>5, <2>1, <2>2, <2>3 DEF BeginTask
<1>6. ASSUME NEW t \in Threads, EndChange(t)
      PROVE  FollowsTold' /\ LikesTold'
  <2>1. PICK c : c = change[t]
    OBVIOUS
  <2>2. CommitChange(t) /\ UNCHANGED graffitiVars
    BY <1>6 DEF EndChange
  <2>3. c.op = "follow" =>
          Announce({Notice(c.other, "follow", c.user, Nothing)}, "follow", c.user, c.other)
    BY <1>6, <2>1 DEF EndChange, Followed
  <2>4. c.op = "follow" => Announced(c.user, c.other)'
    <3> SUFFICES ASSUME c.op = "follow" PROVE Announced(c.user, c.other)'
      OBVIOUS
    <3>1. /\ Seen("follow", c.user, c.other)'
          /\ Notice(c.other, "follow", c.user, Nothing) \in notes' \cup jobs'
      BY <2>3, AnnouncingRemembers DEF ToldInv
    <3> QED
      BY <3>1 DEF Announced, Told
  <2>5. FollowsTold'
    BY <1>0, <2>1, <2>2, <2>4, CommitKeepsFollowsTold, SameUsersAssumption
  <2> QED
    BY <1>2, <2>2, <2>5
<1>7. ASSUME NEW t \in Threads, LoseChange(t)
      PROVE  FollowsTold' /\ LikesTold'
  <2>1. following' = following /\ \A q \in Requests : Changing(q)' => change'[q] = change[q]
    BY <1>7, SameUsersAssumption DEF LoseChange, ChangeFails, IInv, Changing, NoChange, Change
  <2>2. FollowsTold'
    BY <1>0, <2>1, UnwrittenFollowsTold
  <2> QED
    BY <1>2, <1>7, <2>2 DEF LoseChange
<1>8. ASSUME NEW t \in Threads, EndLike(t) \/ EndLikeUntold(t)
      PROVE  FollowsTold' /\ LikesTold'
  <2>1. PICK w : w = task[t]
    OBVIOUS
  <2>2. CommitLike(t) /\ UNCHANGED followVars
    BY <1>8 DEF EndLike, EndLikeUntold
  <2>3. w.op = "like" => LikeKnown(w.user, w.on)'
    <3> SUFFICES ASSUME w.op = "like" PROVE LikeKnown(w.user, w.on)'
      OBVIOUS
    <3>1. CASE EndLike(t)
      <4>1. Announce(LikeNotices(w), "like", w.user, w.on)
        BY <2>1, <3>1 DEF EndLike
      <4>2. /\ Seen("like", w.user, w.on)'
            /\ \A n \in LikeNotices(w) : n \in notes' \cup jobs'
        BY <4>1, AnnouncingRemembers DEF ToldInv
      <4>3. w.user # Owner[w.on] => Notice(Owner[w.on], "like", w.user, w.on) \in LikeNotices(w)
        BY DEF LikeNotices
      <4> QED
        BY <4>2, <4>3 DEF LikeKnown, Told
    <3>2. CASE EndLikeUntold(t)
      BY <2>1, <3>2 DEF EndLikeUntold, LikeKnown
    <3> QED
      BY <1>8, <3>1, <3>2
  <2>4. LikesTold'
    BY <1>0, <2>1, <2>2, <2>3, CommitLikeKeepsLikesTold
  <2> QED
    BY <1>1, <2>2, <2>4
<1>9. ASSUME NEW t \in Threads, EndWrite(t)
      PROVE  FollowsTold' /\ LikesTold'
  BY <1>0, <1>1, <1>9, OtherStepsKeepLikesTold DEF EndWrite
<1>10. ASSUME NEW g \in Streamables, NEW c \in Contents, NEW private \in BOOLEAN, Create(g, c, private)
       PROVE  FollowsTold' /\ LikesTold'
  <2>1. UNCHANGED followVars /\ UNCHANGED <<likers, task>>
    BY <1>10 DEF Create, CreateStreamable, Store
  <2> QED
    BY <1>0, <1>1, <2>1, OtherStepsKeepLikesTold
<1>11. ASSUME NEW j \in jobs, RunJob(j)
       PROVE  FollowsTold' /\ LikesTold'
  BY <1>1, <1>2, <1>11 DEF RunJob
<1> QED
  BY <1>0, <1>3, <1>4, <1>5, <1>6, <1>7, <1>8, <1>9, <1>10, <1>11 DEF SocialNext, ToldInv

LEMMA InitTold == SocialInit => ToldInv
<1> SUFFICES ASSUME SocialInit PROVE ToldInv
  OBVIOUS
<1> DEFINE follows == {e \in Users \X Users : e[2] \in Elements(following[e[1]])}
           edges == Listed(follows)
<1>1. IsFiniteSet(follows)
  <2>1. IsFiniteSet(Users \X Users)
    BY UsersAssumption, FS_Product
  <2>2. follows \in SUBSET (Users \X Users)
    OBVIOUS
  <2> QED
    BY <2>1, <2>2, FS_Subset
<1>2. /\ notes = {Notice(e[2], "follow", e[1], Nothing) : e \in follows}
      /\ activity = {Activity("follow", edges[n][1], edges[n][2], n - 1) : n \in DOMAIN edges}
      /\ made = Cardinality(follows)
  BY DEF SocialInit
<1> HIDE DEF edges
<1>3. made \in Nat /\ DOMAIN edges = 1 .. made /\ \A e \in follows : \E n \in 1 .. made : edges[n] = e
  <2>1. /\ Cardinality(follows) \in Nat
        /\ DOMAIN edges = 1 .. Cardinality(follows)
        /\ {edges[n] : n \in DOMAIN edges} = follows
    BY <1>1, ListedAll DEF edges
  <2> HIDE DEF follows
  <2> QED
    BY <1>2, <2>1
<1>4. ASSUME NEW u \in Users, NEW v \in Users, v \in Elements(following[u])
      PROVE  Announced(u, v)
  <2>1. <<u, v>> \in follows
    BY <1>4
  <2>2. Notice(v, "follow", u, Nothing) \in notes
    BY <1>2, <2>1
  <2>3. PICK n \in 1 .. made : edges[n] = <<u, v>>
    BY <1>3, <2>1
  <2>4. edges[n][1] = u /\ edges[n][2] = v /\ n \in DOMAIN edges
    BY <1>3, <2>3
  <2>5. Activity("follow", edges[n][1], edges[n][2], n - 1) \in activity
    BY <1>2, <2>4
  <2>6. Activity("follow", u, v, n - 1) \in activity /\ n - 1 \in 0 .. made
    BY <1>3, <2>4, <2>5
  <2> QED
    BY <2>2, <2>6 DEF Announced, Told, Seen
<1>5. ASSUME NEW u \in Users
      PROVE  \E n \in Nat : \A x \in following[u] :
                 x.key \in 1 .. n /\ x.elem \in Users /\ Announced(u, x.elem)
  <2>1. PICK s \in Start : following = [w \in Users |-> RowsOf(s[w])]
    BY DEF SocialInit, FollowsInit
  <2>2. s[u] \in Seq(Users \ {u})
    BY StartAssumption
  <2>3. following[u] = {Row(k, s[u][k], 1) : k \in 1 .. Len(s[u])}
    BY <2>1, <2>2 DEF RowsOf
  <2>4. \A x \in following[u] : x.key \in 1 .. Len(s[u]) /\ x.elem \in Users
    BY <2>2, <2>3 DEF Row
  <2>5. \A x \in following[u] : x.elem \in Elements(following[u])
    BY DEF Elements
  <2> QED
    BY <1>4, <2>2, <2>4, <2>5
<1>6. \A r \in Requests : ~Changing(r)
  BY DEF SocialInit, FollowsInit, Changing, NoChange, Change
<1>7. LikesTold
  BY DEF SocialInit, GraffitiInit, LikesTold, NoTask, Task, LikeOps
<1> QED
  BY <1>3, <1>5, <1>6, <1>7 DEF ToldInv, FollowsTold

LEMMA ToldEnough == ToldInv => EveryoneTold
<1> SUFFICES ASSUME ToldInv PROVE EveryoneTold
  OBVIOUS
<1>1. ASSUME NEW u \in Users, NEW v \in Friends(u)
      PROVE  Told(v, "follow", u, Nothing) /\ Seen("follow", u, v)
  BY DEF ToldInv, FollowsTold, Friends, Elements, Announced
<1>2. ASSUME NEW g \in Streamables, NEW u \in People, likers[g][u] > 0, <<u, g>> \notin untold
      PROVE  Seen("like", u, g) /\ (u # Owner[g] => Told(Owner[g], "like", u, g))
  BY <1>2 DEF ToldInv, LikesTold, LikeKnown
<1> QED
  BY <1>1, <1>2 DEF EveryoneTold

(* Whoever is followed or liked is told, and so are the followers, in      *)
(* whatever order jobs are done and stale lists are written; only a like   *)
(* whose request failed after its transaction may go untold.               *)
THEOREM EveryoneStaysTold == SocialSpec => []EveryoneTold
<1>1. FollowsSpec => []IInv
  BY InitIInv, NextIInv, PTL DEF FollowsSpec
<1> QED
  BY <1>1, AlwaysTyped, SocialImplementsComponents, InitTold, NextKeepsTold, ToldEnough, PTL
     DEF SocialSpec

------------------------------------------------------------------------------
(* GroupsRight for any number of users and activities.  The loop over a    *)
(* list is a function on the numbers up to its length: that it exists, and *)
(* what it gives, is shown by induction over these numbers.                *)

(* FlattenSeq goes through the groups and appends each to what it has.     *)
Flattens(g, f) ==
    /\ DOMAIN f = 1 .. Len(g) /\ f = [i \in 1 .. Len(g) |-> f[i]]
    /\ f[1] = g[1]
    /\ \A i \in 2 .. Len(g) : f[i] = f[i - 1] \o g[i]

LEMMA FlattenIs ==
    ASSUME NEW S, NEW g \in Seq(S), g # <<>>, NEW f, Flattens(g, f)
    PROVE  Ext!FlattenSeq(g) = f[Len(g)]
<1> DEFINE Body(h) == [i \in 1 .. Len(g) |-> IF i = 1 THEN g[i] ELSE h[i - 1] \o g[i]]
           F == CHOOSE h : h = Body(h)
<1>0. Len(g) \in Nat \ {0}
  OBVIOUS
<1>1. f = Body(f)
  <2>1. ASSUME NEW i \in 1 .. Len(g) PROVE f[i] = IF i = 1 THEN g[i] ELSE f[i - 1] \o g[i]
    <3>1. CASE i = 1
      BY <3>1 DEF Flattens
    <3>2. CASE i # 1
      <4>1. i \in 2 .. Len(g)
        BY <1>0, <3>2
      <4> QED
        BY <3>2, <4>1 DEF Flattens
    <3> QED
      BY <3>1, <3>2
  <2> QED
    BY <2>1 DEF Flattens
<1>2. F = Body(F)
  <2> HIDE DEF Body
  <2> QED
    BY <1>1
<1>3. Ext!FlattenSeq(g) = F[Len(g)]
  BY <1>0 DEF Ext!FlattenSeq
<1> HIDE DEF F
<1> DEFINE Same == {i \in Nat : i + 1 <= Len(g) => F[i + 1] = f[i + 1]}
<1>4. 0 \in Same
  BY <1>0, <1>1, <1>2
<1>5. ASSUME NEW i \in Nat, i \in Same PROVE i + 1 \in Same
  <2> SUFFICES ASSUME (i + 1) + 1 <= Len(g) PROVE F[(i + 1) + 1] = f[(i + 1) + 1]
    OBVIOUS
  <2>1. PICK j : j = (i + 1) + 1
    OBVIOUS
  <2>2. j \in 1 .. Len(g) /\ j # 1 /\ j - 1 = i + 1 /\ F[j - 1] = f[j - 1]
    BY <1>0, <1>5, <2>1
  <2>3. F[j] = F[j - 1] \o g[j] /\ f[j] = f[j - 1] \o g[j]
    BY <1>1, <1>2, <2>2
  <2> QED
    BY <2>1, <2>2, <2>3
<1>6. \A i \in Nat : i \in Same
  <2> HIDE DEF Same
  <2> QED
    BY <1>4, <1>5, NumbersInduction
<1>7. Len(g) - 1 \in Same /\ (Len(g) - 1) + 1 = Len(g)
  BY <1>0, <1>6
<1> QED
  BY <1>0, <1>3, <1>7

------------------------------------------------------------------------------
(* Groups goes through a list once.  What it has after each turn is a list *)
(* of groups that is not empty.                                            *)
GroupLists(S) == {g \in Seq(Seq(S)) : g # <<>>}
Before(n) == IF n = 1 THEN 1 ELSE n - 1

LEMMA GroupedTyped ==
    ASSUME NEW S, NEW g \in GroupLists(S), NEW p, NEW a \in S, NEW k, NEW lazy
    PROVE  Grouped(g, p, a, k, lazy) \in GroupLists(S)
<1>1. g \in Seq(Seq(S)) /\ Len(g) \in 1 .. Len(g) /\ Len(g) # 0
  BY DEF GroupLists
<1>2. Append(g, <<a>>) \in GroupLists(S)
  <2>1. <<a>> \in Seq(S)
    OBVIOUS
  <2>2. Append(g, <<a>>) \in Seq(Seq(S)) /\ Len(Append(g, <<a>>)) # 0
    BY <1>1, <2>1
  <2> QED
    BY <2>2 DEF GroupLists
<1>3. [g EXCEPT ![Len(g)] = Append(@, a)] \in GroupLists(S)
  <2> DEFINE h == [g EXCEPT ![Len(g)] = Append(@, a)]
  <2>1. Append(g[Len(g)], a) \in Seq(S)
    BY <1>1
  <2>2. h \in Seq(Seq(S)) /\ Len(h) = Len(g)
    BY <1>1, <2>1
  <2>3. h # <<>>
    <3> HIDE DEF h
    <3> QED
      BY <1>1, <2>2
  <2> QED
    BY <2>2, <2>3 DEF GroupLists
<1> QED
  BY <1>2, <1>3, <1>1 DEF Grouped

(* The recursion has a solution, so that Groups follows it.                *)
GoesThrough(after, s, k, lazy) ==
    /\ after[0] = <<<<s[1]>>>>
    /\ \A n \in 1 .. Len(s) : after[n] = Grouped(after[n - 1], s[Before(n)], s[n], k, lazy)

LEMMA GroupsComputed ==
    ASSUME NEW S, NEW s \in Seq(S), s # <<>>, NEW k, NEW lazy
    PROVE  \E after : GoesThrough(after, s, k, lazy) /\ Groups(s, k, lazy) = after[Len(s)]
<1> DEFINE Turn(g, n) == Grouped(g, s[Before(n)], s[n], k, lazy)
           Done(f, m) == /\ DOMAIN f = 0 .. m /\ f = [n \in 0 .. m |-> f[n]]
                         /\ f[0] = <<<<s[1]>>>>
                         /\ \A n \in 1 .. m : f[n] = Turn(f[n - 1], n)
           Doable == {m \in Nat : \E f : Done(f, m)}
<1>0. Len(s) \in Nat \ {0} /\ s[1] \in S /\ \A n \in 1 .. Len(s) : s[n] \in S
  OBVIOUS
<1> HIDE DEF Turn
<1>1. 0 \in Doable
  <2> DEFINE f == [n \in 0 .. 0 |-> <<<<s[1]>>>>]
  <2>1. Done(f, 0)
    OBVIOUS
  <2> QED
    BY <2>1
<1>2. ASSUME NEW m \in Nat, m \in Doable PROVE m + 1 \in Doable
  <2>1. PICK f : Done(f, m)
    BY <1>2
  <2> DEFINE h == [n \in 0 .. m + 1 |-> IF n = m + 1 THEN Turn(f[m], m + 1) ELSE f[n]]
  <2>2. DOMAIN h = 0 .. m + 1 /\ h = [n \in 0 .. m + 1 |-> h[n]]
    OBVIOUS
  <2>3. h[m + 1] = Turn(f[m], m + 1) /\ \A n \in 0 .. m : h[n] = f[n]
    OBVIOUS
  <2> HIDE DEF h
  <2>4. ASSUME NEW n \in 1 .. m + 1 PROVE h[n] = Turn(h[n - 1], n)
    <3>1. n - 1 \in 0 .. m /\ h[n - 1] = f[n - 1]
      BY <2>3
    <3>2. CASE n = m + 1
      BY <2>3, <3>1, <3>2
    <3>3. CASE n # m + 1
      <4>1. n \in 1 .. m /\ n \in 0 .. m
        BY <3>3
      <4> QED
        BY <2>1, <2>3, <3>1, <4>1
    <3> QED
      BY <3>2, <3>3
  <2>5. h[0] = <<<<s[1]>>>>
    BY <2>1, <2>3
  <2>6. Done(h, m + 1)
    BY <2>2, <2>4, <2>5
  <2> HIDE DEF Done
  <2> QED
    BY <2>6
<1>3. PICK f : Done(f, Len(s))
  <2>1. \A m \in Nat : m \in Doable
    <3> HIDE DEF Doable
    <3> QED
      BY <1>1, <1>2, NumbersInduction
  <2> HIDE DEF Done
  <2> QED
    BY <1>0, <2>1
<1> DEFINE Body(h) == [n \in 0 .. Len(s) |->
                          IF n = 0 THEN <<SubSeq(s, 1, 1)>>
                          ELSE Grouped(h[n - 1], s[IF n = 1 THEN 1 ELSE n - 1], s[n], k, lazy)]
           after == CHOOSE h : h = Body(h)
<1>4. SubSeq(s, 1, 1) = <<s[1]>>
  <2>1. PICK t : t = SubSeq(s, 1, 1)
    OBVIOUS
  <2>2. \A i \in 1 .. 1 : s[i] \in S
    BY <1>0
  <2>3. t \in Seq(S) /\ Len(t) = 1 /\ \A i \in 1 .. 1 : t[i] = s[1 + i - 1]
    BY ONLY 1 \in Int, 1 <= 1, 1 - 1 + 1 = 1, <2>1, <2>2, SubSeqProperties
  <2>4. t[1] = s[1]
    BY <2>3
  <2>5. t = [i \in 1 .. 1 |-> t[i]] /\ <<s[1]>> = [i \in 1 .. 1 |-> s[1]]
    BY <2>3
  <2>6. [i \in 1 .. 1 |-> t[i]] = [i \in 1 .. 1 |-> s[1]]
    BY <2>4
  <2> QED
    BY <2>1, <2>5, <2>6
<1>5. ASSUME NEW n \in 0 .. Len(s)
      PROVE  f[n] = IF n = 0 THEN <<SubSeq(s, 1, 1)>> ELSE Turn(f[n - 1], n)
  <2>1. CASE n = 0
    BY <1>3, <1>4, <2>1
  <2>2. CASE n # 0
    <3>1. n \in 1 .. Len(s)
      BY <1>0, <2>2
    <3> QED
      BY <1>3, <2>2, <3>1
  <2> QED
    BY <2>1, <2>2
<1>6. f = Body(f)
  BY <1>3, <1>5 DEF Turn, Before
<1>7. after = Body(after)
  <2> HIDE DEF Body
  <2> QED
    BY <1>6
<1>8. Groups(s, k, lazy) = after[Len(s)]
  BY DEF Groups
<1> HIDE DEF after
<1>9. after[0] = <<<<s[1]>>>> /\ \A n \in 1 .. Len(s) : after[n] = Turn(after[n - 1], n)
  BY <1>0, <1>4, <1>7 DEF Turn, Before
<1> QED
  BY <1>8, <1>9 DEF Turn, GoesThrough

------------------------------------------------------------------------------
(* What the loop keeps: the groups are as they should be, and, one after   *)
(* the other, hold what there is up to the n-th activity; the last of them *)
(* ends with this activity or with the one that it repeats.                *)
FlatOf(g, flat, S) ==
    \E f : Flattens(g, f) /\ flat = f[Len(g)] /\ \A i \in 1 .. Len(g) : f[i] \in Seq(S)

Alike(a, b) == a.kind = b.kind /\ a.by = b.by
EndOf(s) == s[Len(s)]

Joined(g, a) == [g EXCEPT ![Len(g)] = Append(@, a)]
Started(g, a) == Append(g, <<a>>)

OneTurn(g, p, a, k) ==
    IF Alike(a, p) /\ Len(EndOf(g)) < k
    THEN IF SameActivity(a, p) THEN g ELSE Joined(g, a)
    ELSE Started(g, a)

(* Of loaded users activities can be compared; of others none is like      *)
(* another.                                                                *)
LEMMA LoadedOrNot ==
    /\ \A a, b : SameType(a, b, FALSE) <=> Alike(a, b)
    /\ \A a, b : SameActivity(a, b) <=> Alike(a, b) /\ a.on = b.on
    /\ \A g, p, a, k : Grouped(g, p, a, k, FALSE) = OneTurn(g, p, a, k)
    /\ \A g, p, a, k : Grouped(g, p, a, k, TRUE) = Started(g, a)
BY DEF SameType, SameActivity, Alike, Grouped, OneTurn, EndOf, Joined, Started

WellGrouped(g, k) ==
    /\ \A i \in DOMAIN g :
          Len(g[i]) \in 1 .. k /\ \A j \in DOMAIN g[i] : Alike(g[i][j], g[i][1])
    /\ \A i \in 1 .. Len(g) - 1 : Alike(g[i][1], g[i + 1][1]) => Len(g[i]) = k

Descends(s) == \A i \in 1 .. Len(s) - 1 : s[i].at > s[i + 1].at
New(s, i) == i = 1 \/ ~SameActivity(s[i], s[i - 1])

HoldsUpTo(flat, s, n) ==
    /\ flat # <<>> /\ Descends(flat)
    /\ SameActivity(EndOf(flat), s[n]) /\ EndOf(flat).at >= s[n].at
    /\ \A i \in 1 .. n : New(s, i) => s[i] \in Ext!ToSet(flat)

GroupedUpTo(g, s, k, n, S) ==
    /\ g \in GroupLists(S) /\ WellGrouped(g, k)
    /\ \E flat \in Seq(S) :
          FlatOf(g, flat, S) /\ EndOf(flat) = EndOf(EndOf(g)) /\ HoldsUpTo(flat, s, n)

(* The last group gets one activity more.                                  *)
LEMMA JoinedIs ==
    ASSUME NEW S, NEW g \in GroupLists(S), NEW a \in S, NEW h, h = Joined(g, a)
    PROVE  /\ h \in GroupLists(S) /\ Len(h) = Len(g) /\ DOMAIN h = 1 .. Len(g)
           /\ h[Len(g)] = Append(g[Len(g)], a)
           /\ \A i \in 1 .. Len(g) : i # Len(g) => h[i] = g[i]
<1> DEFINE n == Len(g)
           l == Append(g[n], a)
<1>1. n \in Nat \ {0} /\ g \in Seq(Seq(S)) /\ DOMAIN g = 1 .. n /\ n \in 1 .. n
  BY DEF GroupLists
<1>2. l \in Seq(S)
  BY <1>1
<1>3. h = [i \in 1 .. n |-> IF i = n THEN l ELSE g[i]]
  BY <1>1 DEF Joined
<1>4. \A i \in 1 .. n : g[i] \in Seq(S)
  BY <1>1
<1> HIDE DEF n, l
<1>5. h[n] = l /\ DOMAIN h = 1 .. n /\ \A i \in 1 .. n : i # n => h[i] = g[i]
  BY <1>1, <1>3
<1>6. h \in [1 .. n -> Seq(S)]
  BY <1>2, <1>3, <1>4
<1>7. h \in Seq(Seq(S)) /\ Len(h) = n
  BY <1>1, <1>6
<1>8. h # <<>>
  BY <1>1, <1>7
<1> QED
  BY <1>5, <1>7, <1>8 DEF GroupLists, n, l

(* There is one group more.                                                *)
LEMMA StartedIs ==
    ASSUME NEW S, NEW g \in GroupLists(S), NEW a \in S, NEW h, h = Started(g, a)
    PROVE  /\ h \in GroupLists(S) /\ Len(h) = Len(g) + 1 /\ DOMAIN h = 1 .. Len(g) + 1
           /\ h[Len(g) + 1] = <<a>>
           /\ \A i \in 1 .. Len(g) : h[i] = g[i]
<1>1. Len(g) \in Nat \ {0} /\ g \in Seq(Seq(S)) /\ <<a>> \in Seq(S)
  BY DEF GroupLists
<1>2. h \in Seq(Seq(S)) /\ Len(h) = Len(g) + 1
  BY <1>1 DEF Started
<1>3. h[Len(g) + 1] = <<a>> /\ \A i \in 1 .. Len(g) : h[i] = g[i]
  BY <1>1 DEF Started
<1>4. h # <<>> /\ DOMAIN h = 1 .. Len(g) + 1
  BY <1>1, <1>2
<1> QED
  BY <1>2, <1>3, <1>4 DEF GroupLists

(* What is appended to the second list is appended to both.                *)
LEMMA AppendLast ==
    ASSUME NEW S, NEW p \in Seq(S), NEW q \in Seq(S), NEW a \in S,
           NEW pq, pq = p \o q, NEW qa, qa = Append(q, a), NEW l, l = Append(pq, a)
    PROVE  l = p \o qa
<1> DEFINE r == p \o Append(q, a)
           n == Len(p)
           m == Len(q)
<1>1. p \o q \in Seq(S) /\ Len(p \o q) = n + m /\ Append(q, a) \in Seq(S) /\ Len(Append(q, a)) = m + 1
  OBVIOUS
<1>2. n \in Nat /\ m \in Nat /\ l \in Seq(S) /\ r \in Seq(S) /\ Len(l) = n + m + 1 /\ Len(r) = n + m + 1
  BY <1>1
<1>3. ASSUME NEW i \in 1 .. n + m + 1 PROVE l[i] = r[i]
  <2>1. CASE i <= n
    BY <1>1, <2>1
  <2>2. CASE i > n /\ i # n + m + 1
    BY <1>1, <2>2
  <2>3. CASE i = n + m + 1
    BY <1>1, <2>3
  <2> QED
    BY <1>2, <2>1, <2>2, <2>3
<1> HIDE DEF r, n, m
<1>4. l = r
  BY <1>2, <1>3
<1> QED
  BY <1>4 DEF r

(* A group at the end, or an activity at the end of the last group, is one *)
(* more at the end of all.                                                 *)
LEMMA FlatStarted ==
    ASSUME NEW S, NEW g \in GroupLists(S), NEW flat \in Seq(S), FlatOf(g, flat, S), NEW a \in S
    PROVE  FlatOf(Started(g, a), Append(flat, a), S)
<1> DEFINE h == Started(g, a)
           n == Len(g)
<1>1. n \in Nat \ {0} /\ g \in Seq(Seq(S))
  BY DEF GroupLists
<1>2. Len(h) = n + 1 /\ h[n + 1] = <<a>> /\ \A i \in 1 .. n : h[i] = g[i]
  <2> HIDE DEF h
  <2>1. h = Started(g, a)
    BY DEF h
  <2> QED
    BY <2>1, StartedIs
<1>3. PICK f : Flattens(g, f) /\ flat = f[n] /\ \A i \in 1 .. n : f[i] \in Seq(S)
  BY DEF FlatOf
<1> DEFINE e == [i \in 1 .. n + 1 |-> IF i = n + 1 THEN Append(flat, a) ELSE f[i]]
<1>4. e[n + 1] = Append(flat, a) /\ \A i \in 1 .. n : e[i] = f[i]
  BY <1>1
<1>5. DOMAIN e = 1 .. n + 1 /\ e = [i \in 1 .. n + 1 |-> e[i]]
  OBVIOUS
<1> HIDE DEF e, h, n
<1>6. e[1] = h[1]
  <2>1. 1 \in 1 .. n /\ f[1] = g[1]
    BY <1>1, <1>3 DEF Flattens
  <2> QED
    BY <1>2, <1>4, <2>1
<1>7. ASSUME NEW i \in 2 .. n + 1 PROVE e[i] = e[i - 1] \o h[i]
  <2>1. CASE i = n + 1
    <3>1. e[i - 1] = flat
      BY <1>1, <1>3, <1>4, <2>1
    <3>2. Append(flat, a) = flat \o <<a>>
      OBVIOUS
    <3> QED
      BY <1>2, <1>4, <2>1, <3>1, <3>2
  <2>2. CASE i # n + 1
    <3>1. i \in 2 .. n /\ i \in 1 .. n /\ i - 1 \in 1 .. n
      BY <1>1, <2>2
    <3>2. f[i] = f[i - 1] \o g[i]
      BY <1>3, <3>1 DEF Flattens, n
    <3> QED
      BY <1>2, <1>4, <3>1, <3>2
  <2> QED
    BY <2>1, <2>2
<1>8. Flattens(h, e)
  BY <1>2, <1>5, <1>6, <1>7 DEF Flattens
<1>9. Append(flat, a) \in Seq(S)
  OBVIOUS
<1>10. \A i \in 1 .. n + 1 : e[i] \in Seq(S)
  <2>1. \A i \in 1 .. n + 1 : i = n + 1 \/ i \in 1 .. n
    BY <1>1
  <2> QED
    BY <1>3, <1>4, <1>9, <2>1
<1> QED
  BY <1>2, <1>4, <1>8, <1>10 DEF FlatOf, h

LEMMA FlatJoined ==
    ASSUME NEW S, NEW g \in GroupLists(S), NEW flat \in Seq(S), FlatOf(g, flat, S), NEW a \in S
    PROVE  FlatOf(Joined(g, a), Append(flat, a), S)
<1> DEFINE h == Joined(g, a)
           n == Len(g)
<1>1. n \in Nat \ {0} /\ g \in Seq(Seq(S)) /\ g[n] \in Seq(S)
  BY DEF GroupLists
<1>2. Len(h) = n /\ h[n] = Append(g[n], a) /\ \A i \in 1 .. n : i # n => h[i] = g[i]
  <2> HIDE DEF h
  <2>1. h = Joined(g, a)
    BY DEF h
  <2> QED
    BY <2>1, JoinedIs
<1>3. PICK f : Flattens(g, f) /\ flat = f[n] /\ \A i \in 1 .. n : f[i] \in Seq(S)
  BY DEF FlatOf
<1> DEFINE e == [i \in 1 .. n |-> IF i = n THEN Append(flat, a) ELSE f[i]]
<1>4. e[n] = Append(flat, a) /\ \A i \in 1 .. n : i # n => e[i] = f[i]
  BY <1>1
<1>5. DOMAIN e = 1 .. n /\ e = [i \in 1 .. n |-> e[i]]
  OBVIOUS
<1> HIDE DEF e, h, n
<1>6. e[1] = h[1]
  <2>1. 1 \in 1 .. n /\ f[1] = g[1]
    BY <1>1, <1>3 DEF Flattens
  <2> QED
    BY <1>2, <1>3, <1>4, <2>1
<1>7. ASSUME NEW i \in 2 .. n PROVE e[i] = e[i - 1] \o h[i]
  <2>1. i - 1 \in 1 .. n /\ i - 1 # n /\ i \in 1 .. n
    BY <1>1
  <2>2. f[i] = f[i - 1] \o g[i] /\ e[i - 1] = f[i - 1] /\ f[i - 1] \in Seq(S)
    BY <1>3, <1>4, <2>1 DEF Flattens, n
  <2>3. CASE i = n
    <3>1. g[i] \in Seq(S)
      BY <1>1, <2>3
    <3>2. flat = f[i - 1] \o g[i] /\ h[i] = Append(g[i], a) /\ e[i] = Append(flat, a)
      BY <1>2, <1>3, <1>4, <2>2, <2>3
    <3>3. PICK p, q, qa, l : p = f[i - 1] /\ q = g[i] /\ qa = h[i] /\ l = e[i]
      OBVIOUS
    <3>4. p \in Seq(S) /\ q \in Seq(S) /\ flat = p \o q /\ qa = Append(q, a) /\ l = Append(flat, a)
      BY <2>2, <3>1, <3>2, <3>3
    <3>5. l = p \o qa
      BY <3>4, AppendLast
    <3> QED
      BY <2>2, <3>3, <3>5
  <2>4. CASE i # n
    BY <1>2, <1>4, <2>1, <2>2, <2>4
  <2> QED
    BY <2>3, <2>4
<1>8. Flattens(h, e)
  BY <1>2, <1>5, <1>6, <1>7 DEF Flattens
<1>9. Append(flat, a) \in Seq(S)
  OBVIOUS
<1>10. \A i \in 1 .. n : e[i] \in Seq(S)
  BY <1>3, <1>4, <1>9
<1> QED
  BY <1>2, <1>4, <1>8, <1>10 DEF FlatOf, h, n

(* One more activity at the end of all.                                    *)
LEMMA HoldsOneMore ==
    ASSUME NEW S, \A x \in S : x.at \in Nat, NEW s \in Seq(S), Descends(s),
           NEW flat \in Seq(S), NEW n \in Nat \ {0}, n + 1 <= Len(s), HoldsUpTo(flat, s, n)
    PROVE  HoldsUpTo(Append(flat, s[n + 1]), s, n + 1)
<1> DEFINE a == s[n + 1]
           more == Append(flat, a)
           m == Len(flat)
<1>1. n \in 1 .. Len(s) /\ n + 1 \in 1 .. Len(s) /\ s[n] \in S /\ a \in S /\ s[n].at > a.at
  BY DEF Descends
<1>2. m \in Nat \ {0} /\ flat[m] \in S
  BY DEF HoldsUpTo
<1>3. flat[m].at > a.at
  <2>1. flat[m].at \in Nat /\ s[n].at \in Nat /\ a.at \in Nat
    BY <1>1, <1>2
  <2> QED
    BY <1>1, <2>1 DEF HoldsUpTo, EndOf
<1>4. more \in Seq(S) /\ Len(more) = m + 1 /\ more[m + 1] = a /\ \A i \in 1 .. m : more[i] = flat[i]
  BY <1>1
<1> HIDE DEF a, more, m
<1>5. more # <<>>
  BY <1>2, <1>4
<1>6. Descends(more)
  <2> SUFFICES ASSUME NEW i \in 1 .. m PROVE more[i].at > more[i + 1].at
    BY <1>2, <1>4 DEF Descends
  <2>1. CASE i = m
    BY <1>2, <1>3, <1>4, <2>1
  <2>2. CASE i # m
    <3>1. i \in 1 .. m - 1 /\ i + 1 \in 1 .. m
      BY <1>2, <2>2
    <3>2. flat[i].at > flat[i + 1].at
      BY <3>1 DEF HoldsUpTo, Descends, m
    <3> QED
      BY <1>4, <3>1, <3>2
  <2> QED
    BY <2>1, <2>2
<1>7. EndOf(more) = a /\ SameActivity(a, a) /\ a.at >= a.at
  BY <1>1, <1>4, LoadedOrNot DEF EndOf, Alike
<1>8. Ext!ToSet(flat) \cup {a} \subseteq Ext!ToSet(more)
  <2>1. \A i \in 1 .. m : i \in 1 .. m + 1
    BY <1>2
  <2>2. DOMAIN flat = 1 .. m /\ DOMAIN more = 1 .. m + 1 /\ m + 1 \in 1 .. m + 1
    BY <1>2, <1>4 DEF m
  <2> QED
    BY <1>4, <2>1, <2>2 DEF Ext!ToSet
<1>9. ASSUME NEW i \in 1 .. n + 1, New(s, i) PROVE s[i] \in Ext!ToSet(more)
  <2>1. i = n + 1 \/ i \in 1 .. n
    OBVIOUS
  <2> QED
    BY <1>8, <1>9, <2>1 DEF HoldsUpTo, a
<1> QED
  BY <1>5, <1>6, <1>7, <1>9 DEF HoldsUpTo, a, more

(* An activity that repeats the one before it.                             *)
LEMMA HoldsRepeated ==
    ASSUME NEW S, \A x \in S : x.at \in Nat, NEW s \in Seq(S), Descends(s),
           NEW flat \in Seq(S), NEW n \in Nat \ {0}, n + 1 <= Len(s), HoldsUpTo(flat, s, n),
           SameActivity(s[n + 1], s[n])
    PROVE  HoldsUpTo(flat, s, n + 1)
<1>1. n \in 1 .. Len(s) /\ n + 1 \in 1 .. Len(s) /\ s[n] \in S /\ s[n + 1] \in S
      /\ s[n].at > s[n + 1].at
  BY DEF Descends
<1>2. EndOf(flat) \in S
  BY DEF HoldsUpTo, EndOf
<1>3. EndOf(flat).at >= s[n + 1].at
  <2>1. EndOf(flat).at \in Nat /\ s[n].at \in Nat /\ s[n + 1].at \in Nat
    BY <1>1, <1>2
  <2> QED
    BY <1>1, <2>1 DEF HoldsUpTo
<1>4. SameActivity(EndOf(flat), s[n + 1])
  BY LoadedOrNot DEF HoldsUpTo, Alike
<1>5. \A i \in 1 .. n + 1 : i \in 1 .. n \/ i = n + 1
  OBVIOUS
<1>6. ~New(s, n + 1)
  BY DEF New
<1> QED
  BY <1>3, <1>4, <1>5, <1>6 DEF HoldsUpTo

(* A group that is not full may get an activity like its own, and a group  *)
(* may be started after a full one or for an activity unlike the others.   *)
LEMMA WellJoined ==
    ASSUME NEW S, NEW g \in GroupLists(S), NEW k \in Nat, WellGrouped(g, k), NEW a \in S,
           Len(EndOf(g)) < k, Alike(a, EndOf(g)[1]),
           NEW h, h = Joined(g, a)
    PROVE  WellGrouped(h, k) /\ EndOf(EndOf(h)) = a
<1> DEFINE n == Len(g)
           m == Len(g[n])
<1>1. n \in Nat \ {0} /\ g \in Seq(Seq(S)) /\ n \in 1 .. n /\ DOMAIN g = 1 .. n /\ g[n] \in Seq(S)
  BY DEF GroupLists
<1>2. m \in 1 .. k /\ m + 1 \in 1 .. k /\ m \in Nat
  <2>1. m \in 1 .. k /\ m < k
    BY <1>1 DEF WellGrouped, EndOf
  <2> QED
    BY <2>1
<1>3. Len(h) = n /\ DOMAIN h = 1 .. n /\ \A i \in 1 .. n : i # n => h[i] = g[i]
  BY JoinedIs
<1>4. h[n] = Append(g[n], a)
  BY JoinedIs
<1>5. Len(h[n]) = m + 1 /\ h[n][m + 1] = a /\ \A j \in 1 .. m : h[n][j] = g[n][j]
  BY <1>1, <1>2, <1>4
<1>6. \A i \in 1 .. n : h[i][1] = g[i][1]
  <2>1. 1 \in 1 .. m
    BY <1>2
  <2> QED
    BY <1>3, <1>5, <2>1
<1> HIDE DEF n
<1>7. ASSUME NEW i \in 1 .. n
      PROVE  Len(h[i]) \in 1 .. k /\ \A j \in DOMAIN h[i] : Alike(h[i][j], h[i][1])
  <2>1. CASE i # n
    BY <1>1, <1>3, <2>1 DEF WellGrouped
  <2>2. CASE i = n
    <3>1. DOMAIN h[n] = 1 .. m + 1 /\ DOMAIN g[n] = 1 .. m
      BY <1>1, <1>4, <1>5
    <3>2. ASSUME NEW j \in 1 .. m + 1 PROVE Alike(h[n][j], h[n][1])
      <4>1. CASE j = m + 1
        BY <1>1, <1>5, <1>6, <4>1 DEF EndOf, n
      <4>2. CASE j # m + 1
        <5>1. j \in 1 .. m
          BY <1>2, <4>2
        <5>2. Alike(g[n][j], g[n][1])
          BY <1>1, <3>1, <5>1 DEF WellGrouped
        <5> QED
          BY <1>1, <1>5, <1>6, <5>1, <5>2
      <4> QED
        BY <4>1, <4>2
    <3> QED
      BY <1>2, <1>5, <2>2, <3>1, <3>2
  <2> QED
    BY <2>1, <2>2
<1>8. ASSUME NEW i \in 1 .. n - 1, Alike(h[i][1], h[i + 1][1]) PROVE Len(h[i]) = k
  <2>1. i \in 1 .. n /\ i + 1 \in 1 .. n /\ i # n
    BY <1>1
  <2>2. Alike(g[i][1], g[i + 1][1])
    BY <1>6, <1>8, <2>1
  <2> QED
    BY <1>3, <2>1, <2>2 DEF WellGrouped, n
<1>9. EndOf(EndOf(h)) = a
  BY <1>3, <1>5 DEF EndOf
<1> QED
  BY <1>3, <1>7, <1>8, <1>9 DEF WellGrouped

LEMMA WellStarted ==
    ASSUME NEW S, NEW g \in GroupLists(S), NEW k \in Nat \ {0}, WellGrouped(g, k), NEW a \in S,
           Alike(EndOf(g)[1], a) => Len(EndOf(g)) = k,
           NEW h, h = Started(g, a)
    PROVE  WellGrouped(h, k) /\ EndOf(EndOf(h)) = a
<1> DEFINE n == Len(g)
<1>1. n \in Nat \ {0} /\ g \in Seq(Seq(S)) /\ DOMAIN g = 1 .. n
  BY DEF GroupLists
<1>2. Len(h) = n + 1 /\ DOMAIN h = 1 .. n + 1 /\ h[n + 1] = <<a>> /\ \A i \in 1 .. n : h[i] = g[i]
  BY StartedIs
<1>3. Len(<<a>>) = 1 /\ DOMAIN <<a>> = 1 .. 1 /\ <<a>>[1] = a /\ Alike(a, a)
  BY DEF Alike
<1> HIDE DEF n
<1>4. ASSUME NEW i \in 1 .. n + 1
      PROVE  Len(h[i]) \in 1 .. k /\ \A j \in DOMAIN h[i] : Alike(h[i][j], h[i][1])
  <2>1. CASE i = n + 1
    <3>1. PICK q : q = h[i]
      OBVIOUS
    <3>2. Len(q) = 1 /\ DOMAIN q = 1 .. 1 /\ q[1] = a
      BY <1>2, <1>3, <2>1, <3>1
    <3>3. Len(q) \in 1 .. k /\ \A j \in 1 .. 1 : j = 1
      BY <3>2
    <3> QED
      BY <1>3, <3>1, <3>2, <3>3
  <2>2. CASE i # n + 1
    <3>1. i \in 1 .. n
      BY <1>1, <2>2
    <3> QED
      BY <1>1, <1>2, <3>1 DEF WellGrouped
  <2> QED
    BY <2>1, <2>2
<1>5. ASSUME NEW i \in 1 .. n, Alike(h[i][1], h[i + 1][1]) PROVE Len(h[i]) = k
  <2>1. CASE i = n
    BY <1>2, <1>3, <1>5, <2>1 DEF EndOf, n
  <2>2. CASE i # n
    <3>1. i \in 1 .. n - 1 /\ i + 1 \in 1 .. n
      BY <1>1, <2>2
    <3> QED
      BY <1>2, <1>5, <3>1 DEF WellGrouped, n
  <2> QED
    BY <2>1, <2>2
<1>6. EndOf(EndOf(h)) = a
  BY <1>2, <1>3 DEF EndOf
<1>7. (n + 1) - 1 = n
  BY <1>1
<1> QED
  BY <1>2, <1>4, <1>5, <1>6, <1>7 DEF WellGrouped

(* One turn of the loop: the activity repeats the one before it, or joins  *)
(* its group, or starts a group.                                           *)
LEMMA GroupedOneMore ==
    ASSUME NEW S, \A x \in S : x.at \in Nat, NEW s \in Seq(S), Descends(s), NEW k \in Nat \ {0},
           NEW n \in Nat \ {0}, n + 1 <= Len(s), NEW g, GroupedUpTo(g, s, k, n, S)
    PROVE  GroupedUpTo(OneTurn(g, s[n], s[n + 1], k), s, k, n + 1, S)
<1>1. PICK p, a : p = s[n] /\ a = s[n + 1]
  OBVIOUS
<1>2. p \in S /\ a \in S
  <2>1. n \in 1 .. Len(s) /\ n + 1 \in 1 .. Len(s)
    OBVIOUS
  <2> QED
    BY <1>1, <2>1
<1>3. g \in GroupLists(S) /\ WellGrouped(g, k) /\ k \in Nat
  BY DEF GroupedUpTo
<1>4. PICK flat \in Seq(S) :
          FlatOf(g, flat, S) /\ EndOf(flat) = EndOf(EndOf(g)) /\ HoldsUpTo(flat, s, n)
  BY DEF GroupedUpTo
<1>5. Alike(EndOf(g)[1], p)
  <2>1. Len(g) \in DOMAIN g /\ Len(EndOf(g)) \in DOMAIN EndOf(g)
    <3>1. Len(g) \in DOMAIN g /\ EndOf(g) \in Seq(S)
      BY <1>3 DEF GroupLists, EndOf
    <3>2. Len(EndOf(g)) \in 1 .. k
      BY <1>3, <3>1 DEF WellGrouped, EndOf
    <3> QED
      BY <3>1, <3>2
  <2>2. Alike(EndOf(EndOf(g)), EndOf(g)[1])
    BY <1>3, <2>1 DEF WellGrouped, EndOf
  <2>3. SameActivity(EndOf(EndOf(g)), p)
    BY <1>1, <1>4 DEF HoldsUpTo
  <2> QED
    BY <2>2, <2>3, LoadedOrNot DEF Alike
<1>6. Append(flat, a) \in Seq(S) /\ EndOf(Append(flat, a)) = a /\ HoldsUpTo(Append(flat, a), s, n + 1)
  <2>1. HoldsUpTo(Append(flat, a), s, n + 1)
    BY <1>1, <1>4, HoldsOneMore
  <2> QED
    BY <1>2, <2>1 DEF EndOf
<1>7. CASE Alike(a, p) /\ Len(EndOf(g)) < k /\ SameActivity(a, p)
  <2>1. OneTurn(g, p, a, k) = g
    BY <1>7 DEF OneTurn, EndOf
  <2>2. HoldsUpTo(flat, s, n + 1)
    BY <1>1, <1>4, <1>7, HoldsRepeated
  <2> QED
    BY <1>1, <1>3, <1>4, <2>1, <2>2 DEF GroupedUpTo
<1>8. CASE Alike(a, p) /\ Len(EndOf(g)) < k /\ ~SameActivity(a, p)
  <2>1. PICK h : h = Joined(g, a)
    OBVIOUS
  <2>2. OneTurn(g, p, a, k) = h
    BY <1>8, <2>1 DEF OneTurn, EndOf
  <2>3. Alike(a, EndOf(g)[1])
    BY <1>5, <1>8 DEF Alike
  <2>4. WellGrouped(h, k) /\ EndOf(EndOf(h)) = a
    BY <1>2, <1>3, <1>8, <2>1, <2>3, WellJoined
  <2>5. FlatOf(h, Append(flat, a), S)
    BY <1>2, <1>3, <1>4, <2>1, FlatJoined
  <2>6. h \in GroupLists(S)
    BY <1>2, <1>3, <2>2, GroupedTyped, LoadedOrNot
  <2> QED
    BY <1>1, <1>6, <2>2, <2>4, <2>5, <2>6 DEF GroupedUpTo
<1>9. CASE ~(Alike(a, p) /\ Len(EndOf(g)) < k)
  <2>1. PICK h : h = Started(g, a)
    OBVIOUS
  <2>2. OneTurn(g, p, a, k) = h
    BY <1>9, <2>1 DEF OneTurn, EndOf
  <2>3. Len(EndOf(g)) \in 1 .. k
    <3>1. Len(g) \in DOMAIN g
      BY <1>3 DEF GroupLists
    <3> QED
      BY <1>3, <3>1 DEF WellGrouped, EndOf
  <2>4. Alike(EndOf(g)[1], a) => Len(EndOf(g)) = k
    <3> SUFFICES ASSUME Alike(EndOf(g)[1], a) PROVE Len(EndOf(g)) = k
      OBVIOUS
    <3>1. Alike(a, p)
      BY <1>5 DEF Alike
    <3> QED
      BY <1>9, <2>3, <3>1
  <2>5. WellGrouped(h, k) /\ EndOf(EndOf(h)) = a
    BY <1>2, <1>3, <2>1, <2>4, WellStarted
  <2>6. FlatOf(h, Append(flat, a), S)
    BY <1>2, <1>3, <1>4, <2>1, FlatStarted
  <2>7. h \in GroupLists(S)
    BY <1>2, <1>3, <2>2, GroupedTyped, LoadedOrNot
  <2> QED
    BY <1>1, <1>6, <2>2, <2>5, <2>6, <2>7 DEF GroupedUpTo
<1> QED
  BY <1>7, <1>8, <1>9

(* The first activity is in a group, and as its own predecessor repeats    *)
(* itself.                                                                 *)
LEMMA GroupedFirst ==
    ASSUME NEW S, NEW s \in Seq(S), s # <<>>, \A x \in S : x.at \in Nat, NEW k \in Nat, k >= 2
    PROVE  /\ OneTurn(<<<<s[1]>>>>, s[1], s[1], k) = <<<<s[1]>>>>
           /\ GroupedUpTo(<<<<s[1]>>>>, s, k, 1, S)
<1>1. PICK a, q, g : a = s[1] /\ q = <<a>> /\ g = <<q>>
  OBVIOUS
<1>2. a \in S /\ a.at \in Nat /\ SameActivity(a, a) /\ Alike(a, a)
  BY <1>1, LoadedOrNot DEF Alike
<1>3. /\ q \in Seq(S) /\ q # <<>> /\ Len(q) = 1 /\ DOMAIN q = 1 .. 1 /\ q[1] = a
      /\ g \in Seq(Seq(S)) /\ g # <<>> /\ Len(g) = 1 /\ DOMAIN g = 1 .. 1 /\ g[1] = q
  BY <1>1, <1>2
<1>4. OneTurn(g, a, a, k) = g
  <2>1. EndOf(g) = q
    BY <1>3, Zenon DEF EndOf
  <2>2. PICK n : n = Len(EndOf(g))
    OBVIOUS
  <2>3. n = 1
    BY <1>3, <2>1, <2>2, Zenon
  <2>4. n < k
    BY <2>3
  <2> QED
    BY <1>2, <2>2, <2>4, Zenon DEF OneTurn
<1>5. FlatOf(g, q, S)
  <2>1. Flattens(g, g)
    BY <1>3 DEF Flattens
  <2> QED
    BY <1>3, <2>1 DEF FlatOf
<1>6. WellGrouped(g, k)
  <2>1. \A i \in DOMAIN g : g[i] = q
    BY <1>3
  <2>2. \A j \in DOMAIN q : q[j] = a
    BY <1>3
  <2>3. Len(q) \in 1 .. k /\ 1 .. Len(g) - 1 = {}
    BY <1>3
  <2> QED
    BY <1>2, <1>3, <2>1, <2>2, <2>3, Zenon DEF WellGrouped
<1>7. HoldsUpTo(q, s, 1)
  BY <1>1, <1>2, <1>3 DEF HoldsUpTo, Descends, EndOf, New, Ext!ToSet
<1> QED
  BY <1>1, <1>3, <1>4, <1>5, <1>6, <1>7 DEF GroupedUpTo, GroupLists, EndOf

(* Groups of whatever list of activities in the order of their dates, each *)
(* of at most as many as are asked for, two or more, are as they should be.*)
THEOREM GroupsAsTheyShould ==
    ASSUME NEW S, \A x \in S : x.at \in Nat, NEW s \in Seq(S), Descends(s), NEW k \in Nat, k >= 2
    PROVE  GroupsOf(Groups(s, k, FALSE), s, k)
<1>1. CASE s = <<>>
  <2>1. Groups(s, k, FALSE) = <<>>
    BY <1>1 DEF Groups
  <2>2. Ext!FlattenSeq(<<>>) = <<>>
    BY DEF Ext!FlattenSeq
  <2>3. PICK e : e = <<>>
    OBVIOUS
  <2>4. DOMAIN e = {} /\ 1 .. Len(e) - 1 = {}
    BY <2>3
  <2>5. GroupsOf(e, e, k)
    BY <2>2, <2>3, <2>4, Zenon DEF GroupsOf
  <2> QED
    BY <1>1, <2>1, <2>3, <2>5
<1>2. CASE s # <<>>
  <2>0. PICK after : GoesThrough(after, s, k, FALSE) /\ Groups(s, k, FALSE) = after[Len(s)]
    BY <1>2, GroupsComputed, Zenon
  <2>1. /\ after[0] = <<<<s[1]>>>>
        /\ \A n \in 1 .. Len(s) : after[n] = OneTurn(after[n - 1], s[Before(n)], s[n], k)
    <3>1. /\ after[0] = <<<<s[1]>>>>
          /\ \A n \in 1 .. Len(s) : after[n] = Grouped(after[n - 1], s[Before(n)], s[n], k, FALSE)
      BY <2>0, Zenon DEF GoesThrough
    <3>2. ASSUME NEW n \in 1 .. Len(s) PROVE after[n] = OneTurn(after[n - 1], s[Before(n)], s[n], k)
      <4>1. PICK g, p, a, b : g = after[n - 1] /\ p = s[Before(n)] /\ a = s[n] /\ b = after[n]
        OBVIOUS
      <4>2. b = Grouped(g, p, a, k, FALSE)
        BY <3>1, <4>1, Zenon
      <4>3. b = OneTurn(g, p, a, k)
        BY <4>2, LoadedOrNot, Zenon
      <4> QED
        BY <4>1, <4>3, Zenon
    <3> QED
      BY <3>1, <3>2, Zenon
  <2> DEFINE Fine == {n \in Nat : n + 1 <= Len(s) => GroupedUpTo(after[n + 1], s, k, n + 1, S)}
  <2>2. Len(s) \in Nat \ {0} /\ 1 \in 1 .. Len(s)
    BY <1>2
  <2>3. 0 \in Fine
    <3>1. after[1] = OneTurn(<<<<s[1]>>>>, s[1], s[1], k)
      <4>1. Before(1) = 1 /\ 1 - 1 = 0
        BY DEF Before
      <4>2. after[1] = OneTurn(after[1 - 1], s[Before(1)], s[1], k)
        BY <2>1, <2>2, Zenon
      <4> QED
        BY <2>1, <4>1, <4>2
    <3> QED
      BY <1>2, <3>1, GroupedFirst
  <2>4. ASSUME NEW n \in Nat, n \in Fine PROVE n + 1 \in Fine
    <3> SUFFICES ASSUME (n + 1) + 1 <= Len(s)
                 PROVE  GroupedUpTo(after[(n + 1) + 1], s, k, (n + 1) + 1, S)
      OBVIOUS
    <3>1. PICK m : m = n + 1
      OBVIOUS
    <3>2. m \in Nat \ {0} /\ m + 1 <= Len(s) /\ GroupedUpTo(after[m], s, k, m, S)
      BY <2>2, <2>4, <3>1
    <3>3. after[m + 1] = OneTurn(after[m], s[m], s[m + 1], k)
      <4>1. m + 1 \in 1 .. Len(s) /\ (m + 1) - 1 = m /\ m + 1 # 1
        BY <2>2, <3>2
      <4> QED
        BY <2>1, <4>1 DEF Before
    <3> QED
      BY <3>1, <3>2, <3>3, GroupedOneMore
  <2>5. \A n \in Nat : n \in Fine
    <3> HIDE DEF Fine
    <3> QED
      BY <2>3, <2>4, NumbersInduction
  <2>6. GroupedUpTo(after[Len(s)], s, k, Len(s), S)
    <3>1. Len(s) - 1 \in Nat /\ (Len(s) - 1) + 1 = Len(s) /\ Len(s) <= Len(s)
      BY <2>2
    <3>2. (Len(s) - 1) + 1 <= Len(s) => GroupedUpTo(after[(Len(s) - 1) + 1], s, k, (Len(s) - 1) + 1, S)
      BY <2>5, <3>1
    <3> QED
      BY <3>1, <3>2
  <2>7. PICK g : g = Groups(s, k, FALSE)
    OBVIOUS
  <2>8. GroupedUpTo(g, s, k, Len(s), S)
    BY <2>0, <2>6, <2>7, Zenon
  <2>9. PICK flat \in Seq(S) : FlatOf(g, flat, S) /\ HoldsUpTo(flat, s, Len(s))
    BY <2>8 DEF GroupedUpTo
  <2>10. Ext!FlattenSeq(g) = flat
    <3>1. g \in Seq(Seq(S)) /\ g # <<>>
      BY <2>8 DEF GroupedUpTo, GroupLists
    <3> QED
      BY <2>9, <3>1, FlattenIs DEF FlatOf
  <2>11. \A i \in DOMAIN s : New(s, i) => s[i] \in Ext!ToSet(flat)
    BY <2>9 DEF HoldsUpTo
  <2>12. WellGrouped(g, k) /\ Descends(flat)
    BY <2>8, <2>9 DEF GroupedUpTo, HoldsUpTo
  <2> QED
    BY <2>7, <2>10, <2>11, <2>12, LoadedOrNot DEF GroupsOf, WellGrouped, Descends, New
<1> QED
  BY <1>1, <1>2

(* Of users who are loaded lazily, each activity is a group of its own.    *)
THEOREM GroupsOfProxies ==
    ASSUME NEW S, NEW s \in Seq(S), NEW k
    PROVE  Ungrouped(Groups(s, k, TRUE), s)
<1>1. CASE s = <<>>
  BY <1>1 DEF Groups, Ungrouped
<1>2. CASE s # <<>>
  <2> DEFINE Single(n) == [i \in 1 .. n + 1 |-> <<s[IF i = 1 THEN 1 ELSE i - 1]>>]
  <2>0. PICK after : GoesThrough(after, s, k, TRUE) /\ Groups(s, k, TRUE) = after[Len(s)]
    BY <1>2, GroupsComputed, Zenon
  <2>1. /\ after[0] = <<<<s[1]>>>>
        /\ \A n \in 1 .. Len(s) : after[n] = Started(after[n - 1], s[n])
    <3>1. /\ after[0] = <<<<s[1]>>>>
          /\ \A n \in 1 .. Len(s) : after[n] = Grouped(after[n - 1], s[Before(n)], s[n], k, TRUE)
      BY <2>0, Zenon DEF GoesThrough
    <3>2. ASSUME NEW n \in 1 .. Len(s) PROVE after[n] = Started(after[n - 1], s[n])
      <4>1. PICK g, p, a, b : g = after[n - 1] /\ p = s[Before(n)] /\ a = s[n] /\ b = after[n]
        OBVIOUS
      <4>2. b = Grouped(g, p, a, k, TRUE)
        BY <3>1, <4>1, Zenon
      <4>3. b = Started(g, a)
        BY <4>2, LoadedOrNot, Zenon
      <4> QED
        BY <4>1, <4>3, Zenon
    <3> QED
      BY <3>1, <3>2, Zenon
  <2> DEFINE Fine == {n \in Nat : n <= Len(s) => after[n] = Single(n)}
  <2>2. Len(s) \in Nat \ {0} /\ \A n \in 1 .. Len(s) : s[n] \in S
    BY <1>2
  <2>3. 0 \in Fine
    <3>1. Single(0) = <<<<s[1]>>>>
      OBVIOUS
    <3> QED
      BY <2>1, <3>1
  <2>4. ASSUME NEW n \in Nat, n \in Fine PROVE n + 1 \in Fine
    <3> SUFFICES ASSUME n + 1 <= Len(s) PROVE after[n + 1] = Single(n + 1)
      OBVIOUS
    <3>1. n + 1 \in 1 .. Len(s) /\ (n + 1) - 1 = n
      BY <2>2
    <3>2. after[n + 1] = Append(Single(n), <<s[n + 1]>>)
      <4>1. after[n] = Single(n)
        BY <2>2, <2>4
      <4> HIDE DEF Single
      <4>2. after[n + 1] = Started(after[(n + 1) - 1], s[n + 1])
        BY <2>1, <3>1, Zenon
      <4> QED
        BY <3>1, <4>1, <4>2 DEF Started
    <3>3. Append(Single(n), <<s[n + 1]>>) = Single(n + 1)
      <4>1. \A i \in 1 .. n + 1 : s[IF i = 1 THEN 1 ELSE i - 1] \in S
        BY <2>2
      <4>2. Single(n) \in Seq(Seq(S)) /\ Len(Single(n)) = n + 1
        BY <4>1
      <4> QED
        BY <2>2, <4>2
    <3> QED
      BY <3>2, <3>3
  <2>5. \A n \in Nat : n \in Fine
    <3> HIDE DEF Fine
    <3> QED
      BY <2>3, <2>4, NumbersInduction
  <2>6. Groups(s, k, TRUE) = Single(Len(s))
    <3>1. Len(s) \in Nat /\ Len(s) <= Len(s)
      BY <2>2
    <3>2. after[Len(s)] = Single(Len(s))
      BY <2>5, <3>1, Zenon
    <3> QED
      BY <2>0, <3>2, Zenon
  <2> QED
    BY <1>2, <2>6 DEF Ungrouped
<1> QED
  BY <1>1, <1>2

(* The rows a user is shown, all different, in the order of their dates.   *)
LEMMA ShownInOrder ==
    ASSUME Entered, NEW v,
           NEW list, list = FollowersActivity(Friends(v), activity, Gone, Private)
    PROVE  list \in Seq(activity) /\ Descends(list)
<1> DEFINE rows == {a \in activity :
               a.by \in Friends(v) /\ (a.kind = "create" => a.on \notin Gone \cup Private)}
<1>1. list = NewestFirst(rows)
  BY DEF FollowersActivity
<1>2. rows \subseteq activity
  OBVIOUS
<1> HIDE DEF rows
<1>3. Dated(rows)
  <2>1. IsFiniteSet(rows)
    BY <1>2, FS_Subset DEF Entered
  <2>2. made \in Nat /\ \A a \in rows : a \in Acts /\ a.at \in 0 .. made - 1
    BY <1>2 DEF Entered, Acts
  <2>3. \A a, b \in rows : a.at = b.at => a = b
    BY <2>2 DEF Entered
  <2> QED
    BY <2>1, <2>2, <2>3 DEF Dated
<1>4. list \in Seq(rows) /\ \A i, j \in DOMAIN list : i < j => list[i].at > list[j].at
  BY <1>1, <1>3, NewestFirstOrders
<1>5. list \in Seq(activity)
  BY <1>2, <1>4
<1>6. \A i \in 1 .. Len(list) - 1 : i \in DOMAIN list /\ i + 1 \in DOMAIN list /\ i < i + 1
  BY <1>4
<1> QED
  BY <1>4, <1>5, <1>6 DEF Descends

(* What a user is shown of the activity of others is grouped as it should, *)
(* whoever follows whom and whatever has happened, in whatever order the   *)
(* jobs were done; and not at all if the users are not loaded.             *)
THEOREM GroupsStayRight == SocialSpec => []GroupsRight
<1>1. Entered => GroupsRight
  <2> SUFFICES ASSUME Entered, NEW v \in Users, NEW k \in 2 .. 3,
                      NEW list, list = FollowersActivity(Friends(v), activity, Gone, Private)
               PROVE  GroupsOf(Groups(list, k, FALSE), list, k) /\ Ungrouped(Groups(list, k, TRUE), list)
    BY Zenon DEF GroupsRight
  <2>1. list \in Seq(activity) /\ Descends(list)
    BY ShownInOrder
  <2>2. \A a \in activity : a.at \in Nat
    BY DEF Entered, Acts
  <2>3. k \in Nat /\ k >= 2
    OBVIOUS
  <2>4. GroupsOf(Groups(list, k, FALSE), list, k)
    BY <2>1, <2>2, <2>3, GroupsAsTheyShould, Zenon
  <2>5. Ungrouped(Groups(list, k, TRUE), list)
    BY <2>1, GroupsOfProxies, Zenon
  <2> QED
    BY <2>4, <2>5
<1>2. FollowsSpec => []FollowsTyped
  BY InitFollowsTyped, NextFollowsTyped, PTL DEF FollowsSpec
<1> QED
  BY <1>1, <1>2, InitEntered, NextEntered, AlwaysTyped, SocialImplementsComponents, PTL DEF SocialSpec
==============================================================================
