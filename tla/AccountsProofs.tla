---------------------------- MODULE AccountsProofs ----------------------------
(***************************************************************************)
(* Proofs about Accounts, for any number of overlapping requests, tokens   *)
(* and passwords, and for any limit.                                       *)
(*                                                                         *)
(* The safety properties speak of the row, and what threatens the row is   *)
(* what a transaction read long ago and is about to store.  The inductive  *)
(* invariant therefore says of every row in flight what the property says  *)
(* of the row in the database.  Nothing that a request knows is ever       *)
(* invalidated by another one, because proved, chosen and failures only    *)
(* grow: that is the lemma StillSound.                                     *)
(***************************************************************************)
EXTENDS Accounts, TLAPS

(* What holds of the row in the database.                                  *)
RowOK ==
    /\ row \in Rows
    /\ resetToken \in MaybeToken
    /\ mailed \in SUBSET ResetTokens
    /\ expired \in SUBSET Tokens
    /\ proved \in BOOLEAN
    /\ chosen \in SUBSET Passwords
    /\ failures \in 0 .. MaxFailures
    /\ OwnerVouched
    /\ Count(row) <= failures

(* What holds of a request in the state s.                                 *)
Sound(s) ==
    /\ s.pc = "commit" <=> s.new # NoRow
    /\ s.pc = "count" => s.calls # 0
    /\ s.pc = "commit" => /\ s.new.status = "ACTIVE" => proved
                          /\ s.new.password \in chosen
                          /\ Count(s.new) <= failures
    /\ s.op = "suspend" => failures > Limit

RequestsOK ==
    /\ req \in [Requests -> RequestStates]
    /\ \A r \in Requests : Sound(req[r])

IInv == RowOK /\ RequestsOK

(* The invariant gives the properties that the runs check.                 *)
LEMMA Consequences == IInv => TypeOK /\ OwnerVouched /\ SuspendedAfterLimit
  BY DEF IInv, RowOK, RequestsOK, Sound, TypeOK, OwnerVouched, SuspendedAfterLimit, At

(* The counter of a row, as a number.                                      *)
LEMMA CountType == \A x \in Rows : Count(x) \in 0 .. Limit
  BY LimitAssumption DEF Rows, Count, Null

(* A row is not the mark of a request that has none.                       *)
LEMMA RowsAreRows == \A x \in Rows : x # NoRow
  BY RowAssumption DEF Rows, Statuses

(* What a request relies on stays true while the histories grow.           *)
LEMMA StillSound ==
    ASSUME NEW s \in RequestStates, Sound(s), RowOK,
           proved => proved', chosen \subseteq chosen',
           failures <= failures', failures' \in Nat
    PROVE  Sound(s)'
  <1>1. failures \in Nat
    BY LimitAssumption DEF RowOK
  <1>2. s.pc = "commit" => Count(s.new) \in Nat
    BY CountType, RowsAreRows, LimitAssumption DEF Sound, RequestStates
  <1> QED
    BY <1>1, <1>2, LimitAssumption DEF Sound, Count

(* A step of r that leaves r in a sound state keeps the invariant.         *)
LEMMA RequestStep ==
    ASSUME NEW r \in Requests, NEW s \in RequestStates, IInv,
           req' = [req EXCEPT ![r] = s], RowOK', Sound(s)',
           proved => proved', chosen \subseteq chosen', failures <= failures'
    PROVE  IInv'
  <1>1. req' \in [Requests -> RequestStates]
    BY DEF IInv, RequestsOK
  <1>2. failures' \in Nat
    BY LimitAssumption DEF RowOK
  <1>3. ASSUME NEW q \in Requests PROVE Sound(req[q])'
    <2>1. CASE q = r
      <3>1. req'[q] = s
        BY <2>1 DEF IInv, RequestsOK
      <3> QED
        BY <3>1 DEF Sound, Count
    <2>2. CASE q # r
      <3>1. req'[q] = req[q] /\ req[q] \in RequestStates /\ Sound(req[q])
        BY <2>2 DEF IInv, RequestsOK
      <3>2. RowOK
        BY DEF IInv
      <3>3. ASSUME NEW x \in RequestStates, Sound(x) PROVE Sound(x)'
        BY <1>2, <3>2, <3>3, StillSound
      <3> QED
        BY <3>1, <3>3 DEF Sound, Count
    <2> QED
      BY <2>1, <2>2
  <1> QED
    BY <1>1, <1>3 DEF IInv, RequestsOK

------------------------------------------------------------------------------
(* The shapes of the actions: a step that leaves the database alone, the   *)
(* beginning of a transaction, and a request that goes on without one.     *)

(* A step that leaves the row and the reset token alone keeps what holds   *)
(* of the row, since the histories only grow.                              *)
LEMMA RowKept ==
    ASSUME RowOK, UNCHANGED <<row, resetToken>>,
           mailed' \in SUBSET ResetTokens, expired' \in SUBSET Tokens,
           proved => proved', proved' \in BOOLEAN,
           chosen \subseteq chosen', chosen' \in SUBSET Passwords,
           failures <= failures', failures' \in 0 .. MaxFailures
    PROVE  RowOK'
  <1>1. Count(row) \in Nat /\ Count(row)' = Count(row) /\ failures \in Nat
    BY CountType, LimitAssumption DEF RowOK, Count
  <1> QED
    BY <1>1, LimitAssumption DEF RowOK, OwnerVouched

(* A request that begins a transaction whose row is as well founded as the *)
(* one in the database keeps the invariant.                                *)
LEMMA TransactionStep ==
    ASSUME NEW r \in Requests, NEW op \in Ops, NEW new \in Rows,
           NEW token \in MaybeToken, NEW calls \in 0 .. 2,
           IInv, Transaction(r, op, new, token, calls), RowOK',
           proved => proved', chosen \subseteq chosen', failures <= failures',
           new.status = "ACTIVE" => proved', new.password \in chosen',
           Count(new) <= failures', op = "suspend" => failures' > Limit
    PROVE  IInv'
  <1>0. PICK dirty \in BOOLEAN :
           req' = [req EXCEPT ![r] = [pc |-> "commit", op |-> op, new |-> new, dirty |-> dirty,
                                      token |-> token, calls |-> calls]]
    BY DEF Transaction
  <1> DEFINE s == [pc |-> "commit", op |-> op, new |-> new, dirty |-> dirty,
                   token |-> token, calls |-> calls]
  <1>1. s \in RequestStates
    BY DEF RequestStates, Pcs
  <1>2. new # NoRow
    BY RowsAreRows
  <1>3. Sound(s)'
    BY <1>2 DEF Sound, Count
  <1>4. req' = [req EXCEPT ![r] = s]
    BY <1>0
  <1> HIDE DEF s
  <1> QED
    BY <1>1, <1>3, <1>4, RequestStep

(* A request that ends, or goes on to count a failure, keeps the           *)
(* invariant.                                                              *)
LEMMA ContinueStep ==
    ASSUME NEW r \in Requests, NEW calls \in 0 .. 2,
           IInv, Continue(r, calls), RowOK', UNCHANGED <<proved, chosen, failures>>
    PROVE  IInv'
  <1> DEFINE s == IF calls = 0 THEN IdleRequest ELSE Outside("count", calls)
  <1>1. s \in RequestStates
    BY DEF RequestStates, IdleRequest, Outside, Pcs, Ops, MaybeToken
  <1>2. Sound(s)'
    BY DEF Sound, IdleRequest, Outside
  <1>3. req' = [req EXCEPT ![r] = s]
    BY DEF Continue
  <1>4. failures <= failures'
    BY LimitAssumption DEF IInv, RowOK
  <1> HIDE DEF s
  <1> QED
    BY <1>1, <1>2, <1>3, <1>4, RequestStep

(* A request that passes a check and goes on keeps the invariant.          *)
LEMMA GoStep ==
    ASSUME NEW r \in Requests, NEW pc \in {"authenticate", "save", "welcome", "profile"},
           IInv, Go(r, pc), UNCHANGED <<account, history>>
    PROVE  IInv'
  <1> DEFINE s == Outside(pc, 0)
  <1>1. s \in RequestStates
    BY DEF RequestStates, Outside, Pcs, Ops, MaybeToken
  <1>2. Sound(s)'
    BY DEF Sound, Outside
  <1>3. req' = [req EXCEPT ![r] = s]
    BY DEF Go
  <1>4. RowOK' /\ failures <= failures'
    BY LimitAssumption DEF IInv, RowOK, OwnerVouched, Count, account, history
  <1> QED
    BY <1>1, <1>2, <1>3, <1>4, RequestStep DEF account, history

------------------------------------------------------------------------------
(* Every action of a request keeps the invariant.                          *)
LEMMA RequestKeepsIInv ==
    ASSUME NEW r \in Requests, IInv, Request(r) PROVE IInv'
  <1>1. /\ RowOK /\ row \in Rows /\ Count(row) \in 0 .. Limit /\ Count(row) <= failures
        /\ failures \in Nat /\ NoToken \in MaybeToken /\ resetToken \in MaybeToken
        /\ row.password \in chosen /\ (row.status = "ACTIVE" => proved)
    BY CountType, LimitAssumption DEF IInv, RowOK, OwnerVouched, MaybeToken
  <1>2. UNCHANGED <<row, resetToken, mailed, expired, proved, chosen, failures>> => RowOK'
    BY <1>1 DEF RowOK, OwnerVouched, Count
  <1>3. CASE Activate(r)
    <2> DEFINE new == [row EXCEPT !.status = "ACTIVE"]
    <2>1. /\ new \in Rows /\ new.status = "ACTIVE" /\ new.password = row.password
          /\ Count(new) = Count(row)
      BY <1>1 DEF Rows, Statuses, Count
    <2>2. proved' /\ UNCHANGED <<row, resetToken, mailed, expired, chosen, failures>>
      BY <1>3 DEF Activate, Fresh, account
    <2>3. proved' \in BOOLEAN
      BY <1>3 DEF Activate
    <2>4. RowOK'
      BY <1>1, <2>2, <2>3, RowKept DEF RowOK
    <2>5. Transaction(r, "activate", new, NoToken, 0)
      BY <1>3 DEF Activate
    <2> HIDE DEF new
    <2> QED
      BY <1>1, <2>1, <2>2, <2>4, <2>5, TransactionStep DEF Ops
  <1>4. ASSUME NEW t \in ResetTokens, ResetPassword(r, t) PROVE IInv'
    <2> DEFINE new == [row EXCEPT !.status = "RESET_PASSWORD"]
    <2>1. /\ new \in Rows /\ new.status # "ACTIVE" /\ new.password = row.password
          /\ Count(new) = Count(row)
      BY <1>1 DEF Rows, Statuses, Count
    <2>2. mailed' \in SUBSET ResetTokens /\ UNCHANGED <<row, resetToken, expired, history>>
      BY <1>1, <1>4 DEF ResetPassword, RowOK
    <2>3. RowOK'
      BY <1>1, <2>2, RowKept DEF RowOK, history
    <2>4. Transaction(r, "reset", new, t, 0) /\ t \in MaybeToken
      BY <1>4 DEF ResetPassword, MaybeToken
    <2> HIDE DEF new
    <2> QED
      BY <1>1, <2>1, <2>2, <2>3, <2>4, TransactionStep DEF Ops, history
  <1>5. ASSUME NEW p \in Passwords, CompletePasswordReset(r, p) PROVE IInv'
    <2> DEFINE new == [status |-> "ACTIVE", password |-> p, failed |-> 0]
    <2>1. new \in Rows /\ new.password = p /\ Count(new) = 0
      BY LimitAssumption DEF Rows, Statuses, Count, Null
    <2>2. /\ proved' /\ proved' \in BOOLEAN /\ chosen' = chosen \cup {p}
          /\ UNCHANGED <<row, resetToken, mailed, expired, failures>>
      BY <1>5 DEF CompletePasswordReset, Fresh, account
    <2>3. RowOK'
      BY <1>1, <2>2, RowKept DEF RowOK
    <2>4. Transaction(r, "complete", new, NoToken, 0)
      BY <1>5 DEF CompletePasswordReset
    <2> HIDE DEF new
    <2> QED
      BY <1>1, <2>1, <2>2, <2>3, <2>4, TransactionStep DEF Ops
  <1>6. ASSUME NEW current \in Passwords, NEW p \in Passwords, ChangePassword(r, current, p)
        PROVE IInv'
    <2> DEFINE new == [status |-> row.status, password |-> p, failed |-> 0]
    <2>1. new \in Rows /\ new.password = p /\ new.status = row.status /\ Count(new) = 0
      BY <1>1, LimitAssumption DEF Rows, Count, Null
    <2>2. /\ chosen' = chosen \cup {p}
          /\ UNCHANGED <<row, resetToken, mailed, expired, proved, failures>>
      BY <1>6 DEF ChangePassword, account
    <2>3. RowOK'
      BY <1>1, <2>2, RowKept DEF RowOK
    <2>4. Transaction(r, "change", new, NoToken, 0)
      BY <1>6 DEF ChangePassword
    <2> HIDE DEF new
    <2> QED
      BY <1>1, <2>1, <2>2, <2>3, <2>4, TransactionStep DEF Ops
  <1>7. CASE CheckLogin(r)
    BY <1>7, GoStep DEF CheckLogin
  <1>8. CASE WrongPassword(r)
    <2>1. PICK calls \in {Reports, Reports + 1} : Continue(r, calls)
      BY <1>8 DEF WrongPassword
    <2>2. calls \in 0 .. 2
      BY PublishedAssumption DEF Reports
    <2> QED
      BY <1>2, <1>8, <2>1, <2>2, ContinueStep DEF WrongPassword, account, history
  <1>9. CASE UncheckedFailure(r)
    <2>1. PICK calls \in {Reports, 1} : Continue(r, calls)
      BY <1>9 DEF UncheckedFailure
    <2>2. calls \in 0 .. 2
      BY PublishedAssumption DEF Reports
    <2> QED
      BY <1>2, <1>9, <2>1, <2>2, ContinueStep DEF UncheckedFailure, account, history
  <1>10. CASE RightPassword(r)
    BY <1>10, GoStep DEF RightPassword
  <1>18. CASE SaveSession(r)
    <2>1. CASE Go(r, "welcome")
      BY <1>18, <2>1, GoStep DEF SaveSession
    <2>2. ASSUME NEW s \in Requests,
                 req' = [req EXCEPT ![r] = Outside("welcome", 0),
                                    ![s] = [pc |-> "commit", op |-> "merge", new |-> row, dirty |-> TRUE,
                                            token |-> resetToken, calls |-> 0]]
          PROVE  IInv'
      <3> DEFINE x == Outside("welcome", 0)
                 y == [pc |-> "commit", op |-> "merge", new |-> row, dirty |-> TRUE,
                       token |-> resetToken, calls |-> 0]
      <3>1. UNCHANGED <<row, resetToken, mailed, expired, proved, chosen, failures>>
        BY <1>18 DEF SaveSession, account, history
      <3>2. x \in RequestStates /\ Sound(x)
        BY DEF RequestStates, Outside, Pcs, Ops, MaybeToken, Sound
      <3>3. y \in RequestStates /\ Sound(y)
        BY <1>1, RowsAreRows DEF RequestStates, Pcs, Ops, Sound
      <3>4. ASSUME NEW z \in RequestStates, Sound(z) PROVE Sound(z)'
        BY <3>1, <3>4 DEF Sound, Count
      <3>5. ASSUME NEW q \in Requests PROVE Sound(req[q])'
        <4>1. req'[q] \in {x, y, req[q]}
          BY <2>2 DEF IInv, RequestsOK
        <4> HIDE DEF x, y
        <4>2. PICK z \in RequestStates : z = req'[q] /\ Sound(z)
          BY <3>2, <3>3, <4>1 DEF IInv, RequestsOK
        <4>3. Sound(z)'
          BY <3>4, <4>2
        <4> QED
          BY <4>2, <4>3 DEF Sound, Count
      <3>6. req' \in [Requests -> RequestStates]
        BY <2>2, <3>2, <3>3 DEF IInv, RequestsOK
      <3> QED
        BY <1>2, <3>1, <3>5, <3>6 DEF IInv, RequestsOK
    <2> QED
      BY <1>18, <2>1, <2>2 DEF SaveSession
  <1>11. CASE ResetLoginAttempts(r)
    <2> DEFINE new == [row EXCEPT !.failed = 0]
    <2>1. /\ new \in Rows /\ new.password = row.password /\ new.status = row.status
          /\ Count(new) = 0
      BY <1>1, LimitAssumption DEF Rows, Count, Null
    <2>2. UNCHANGED <<row, resetToken, mailed, expired, proved, chosen, failures>>
      BY <1>11 DEF ResetLoginAttempts, account, history
    <2>3. Transaction(r, "welcome", new, NoToken, 0)
      BY <1>11 DEF ResetLoginAttempts
    <2> HIDE DEF new
    <2> QED
      BY <1>1, <1>2, <2>1, <2>2, <2>3, TransactionStep DEF Ops
  <1>12. CASE UpdateLoginAttempts(r)
    <2>1. /\ failures' = failures + 1 /\ failures' \in 0 .. MaxFailures
          /\ UNCHANGED <<row, resetToken, mailed, expired, proved, chosen>>
      BY <1>1, <1>12, LimitAssumption DEF UpdateLoginAttempts, account
    <2>2. RowOK'
      BY <1>1, <2>1, RowKept DEF RowOK
    <2>3. CASE AtLimit
      <3> DEFINE new == [row EXCEPT !.status = "RESET_PASSWORD"]
      <3>1. /\ new \in Rows /\ new.status # "ACTIVE" /\ new.password = row.password
            /\ Count(new) = Count(row)
        BY <1>1 DEF Rows, Statuses, Count
      <3>2. failures' > Limit
        BY <1>1, <2>1, <2>3, LimitAssumption DEF AtLimit
      <3>3. Transaction(r, "suspend", new, NoToken, 0)
        BY <1>12, <2>3 DEF UpdateLoginAttempts
      <3> HIDE DEF new
      <3> QED
        BY <1>1, <2>1, <2>2, <3>1, <3>2, <3>3, TransactionStep DEF Ops
    <2>4. CASE ~AtLimit
      <3>1. Count(row) + 1 \in 0 .. Limit
        BY <1>1, <2>4, LimitAssumption DEF AtLimit
      <3>2. /\ Counted \in Rows /\ Counted.status = row.status
            /\ Counted.password = row.password /\ Count(Counted) = Count(row) + 1
        BY <1>1, <3>1, LimitAssumption DEF Counted, Rows, Count, Null
      <3>3. Transaction(r, "count", Counted, NoToken, req[r].calls - 1)
        BY <1>12, <2>4 DEF UpdateLoginAttempts
      <3>4. req[r].calls \in 0 .. 2 /\ req[r].calls # 0
        BY <1>12 DEF UpdateLoginAttempts, At, IInv, RequestsOK, Sound, RequestStates
      <3> HIDE DEF Counted
      <3> QED
        BY <1>1, <2>1, <2>2, <3>2, <3>3, <3>4, TransactionStep DEF Ops
    <2> QED
      BY <2>3, <2>4
  <1>13. CASE BeginProfile(r)
    BY <1>13, GoStep DEF BeginProfile
  <1>14. CASE EditProfile(r)
    BY <1>1, <1>2, <1>14, TransactionStep DEF EditProfile, Ops, account, history
  <1>15. CASE LoadForMerge(r)
    BY <1>1, <1>2, <1>15, TransactionStep DEF LoadForMerge, Ops, account, history
  <1>16. CASE Commit(r)
    <2>1. /\ req[r] \in RequestStates /\ req[r].new # NoRow
          /\ Sound(req[r]) /\ req[r].pc = "commit"
      BY <1>16 DEF Commit, At, IInv, RequestsOK, Sound
    <2>2. /\ row' \in {row, req[r].new} /\ resetToken' \in {resetToken, req[r].token}
          /\ UNCHANGED <<mailed, expired, proved, chosen, failures>>
      BY <1>16 DEF Commit
    <2>3. row' \in Rows /\ resetToken' \in MaybeToken
      BY <1>1, <2>1, <2>2 DEF RequestStates
    <2>4. (row'.status = "ACTIVE" => proved) /\ row'.password \in chosen
      BY <1>1, <2>1, <2>2 DEF Sound
    <2>5. Count(row') <= failures
      BY <1>1, <2>1, <2>2 DEF Sound
    <2>6. RowOK'
      BY <1>1, <2>2, <2>3, <2>4, <2>5 DEF RowOK, OwnerVouched, Count
    <2>7. Continue(r, req[r].calls) /\ req[r].calls \in 0 .. 2
      BY <1>16, <2>1 DEF Commit, RequestStates
    <2> QED
      BY <2>2, <2>6, <2>7, ContinueStep
  <1>17. CASE Abandon(r)
    <2>1. Continue(r, 0)
      BY <1>17 DEF Abandon, Continue, IdleRequest
    <2> QED
      BY <1>2, <1>17, <2>1, ContinueStep DEF Abandon, account, history
  <1> QED
    BY <1>3, <1>4, <1>5, <1>6, <1>7, <1>8, <1>9, <1>10, <1>11, <1>12, <1>13,
       <1>14, <1>15, <1>16, <1>17, <1>18 DEF Request

------------------------------------------------------------------------------
(* A registered account satisfies the invariant.                           *)
LEMMA InitIInv == Init => IInv
  <1> SUFFICES ASSUME Init PROVE IInv
    OBVIOUS
  <1>1. row \in Rows /\ Count(row) = 0
    <2>1. PICK x \in InitialStatuses, p \in Passwords :
             row = [status |-> x, password |-> p, failed |-> Null]
      BY DEF Init
    <2>2. x \in Statuses /\ Null \in -1 .. Limit
      BY StatusesAssumption, LimitAssumption DEF Statuses, Null
    <2>3. Count(row) = 0
      BY <2>1 DEF Count
    <2> QED
      BY <2>1, <2>2, <2>3 DEF Rows
  <1>2. RowOK
    <2>1. row.password \in Passwords
      BY <1>1 DEF Rows
    <2>2. failures = 0 /\ failures \in 0 .. MaxFailures /\ Count(row) <= failures
      BY <1>1, LimitAssumption DEF Init
    <2>3. chosen \in SUBSET Passwords /\ proved \in BOOLEAN /\ OwnerVouched
      BY <2>1 DEF Init, OwnerVouched
    <2> QED
      BY <1>1, <2>2, <2>3 DEF Init, RowOK, MaybeToken, Tokens
  <1>3. IdleRequest \in RequestStates /\ Sound(IdleRequest)
    BY DEF IdleRequest, Outside, RequestStates, Sound, Pcs, Ops, MaybeToken
  <1> QED
    BY <1>2, <1>3 DEF Init, IInv, RequestsOK

(* Every step keeps the invariant.                                         *)
LEMMA NextIInv == IInv /\ [Next]_vars => IInv'
  <1> SUFFICES ASSUME IInv, [Next]_vars PROVE IInv'
    OBVIOUS
  <1>1. CASE \E r \in Requests : Request(r)
    BY <1>1, RequestKeepsIInv
  <1>2. ASSUME NEW t \in ResetTokens \cup {ActivationToken}, Expire(t) PROVE IInv'
    <2>1. /\ expired' \in SUBSET Tokens
          /\ UNCHANGED <<row, resetToken, mailed, req, proved, chosen, failures>>
      BY <1>2 DEF Expire, IInv, RowOK, Tokens, history
    <2> QED
      BY <2>1 DEF IInv, RowOK, RequestsOK, Sound, OwnerVouched, Count
  <1>3. CASE UNCHANGED vars
    BY <1>3 DEF vars, IInv, RowOK, RequestsOK, Sound, OwnerVouched, Count
  <1> QED
    BY <1>1, <1>2, <1>3 DEF Next

(* The invariant holds in every reachable state.                           *)
LEMMA InvariantHolds == Spec => []IInv
  BY InitIInv, NextIInv, PTL DEF Spec

(* Types, and with them the bound of the counter of failed logins.         *)
THEOREM TypeCorrect == Spec => []TypeOK
  BY InvariantHolds, Consequences, PTL

(* However the requests overlap and whatever their commits overwrite, an   *)
(* account is only ever ACTIVE, and has only ever a password, on the word  *)
(* of somebody who held a fresh token or knew the password before.         *)
THEOREM OnlyOwnersDecide == Spec => []OwnerVouched
  BY InvariantHolds, Consequences, PTL

(* No interleaving of lost and repeated updates suspends an account before *)
(* more failed logins than the limit were reported.                        *)
THEOREM NeverSuspendedEarly == Spec => []SuspendedAfterLimit
  BY InvariantHolds, Consequences, PTL

------------------------------------------------------------------------------
(* Activation is final.  Without the listener, whoever is about to write   *)
(* the row has seen that the account was not PENDING, or makes it so; the  *)
(* two facts hold each other up.                                           *)

FinalFor(s) ==
    /\ s.pc \in {"authenticate", "save", "welcome", "profile", "count"} => row.status # "PENDING_ACTIVATION"
    /\ s.pc = "commit" => /\ s.new.status # "PENDING_ACTIVATION"
                          /\ s.calls # 0 => row.status # "PENDING_ACTIVATION"

Final == \A r \in Requests : FinalFor(req[r])

(* The requests that do not step keep their part of it.                    *)
LEMMA FinalStep ==
    ASSUME NEW r \in Requests, NEW s, IInv, Final, req' = [req EXCEPT ![r] = s],
           row.status # "PENDING_ACTIVATION" => row'.status # "PENDING_ACTIVATION",
           FinalFor(s)'
    PROVE  Final'
  <1> SUFFICES ASSUME NEW q \in Requests PROVE FinalFor(req[q])'
    BY DEF Final
  <1>1. CASE q = r
    BY <1>1 DEF IInv, RequestsOK, FinalFor
  <1>2. CASE q # r
    BY <1>2 DEF IInv, RequestsOK, Final, FinalFor
  <1> QED
    BY <1>1, <1>2

(* Beginning a transaction that will not store a PENDING row keeps Final.  *)
LEMMA TransactionFinal ==
    ASSUME NEW r \in Requests, NEW op, NEW new, NEW token, NEW calls, IInv, Final,
           Transaction(r, op, new, token, calls), UNCHANGED row,
           new.status # "PENDING_ACTIVATION", calls # 0 => row.status # "PENDING_ACTIVATION"
    PROVE  Final'
  <1>1. PICK dirty \in BOOLEAN :
           req' = [req EXCEPT ![r] = [pc |-> "commit", op |-> op, new |-> new, dirty |-> dirty,
                                      token |-> token, calls |-> calls]]
    BY DEF Transaction
  <1> DEFINE s == [pc |-> "commit", op |-> op, new |-> new, dirty |-> dirty,
                   token |-> token, calls |-> calls]
  <1>2. FinalFor(s)'
    BY DEF FinalFor
  <1>3. req' = [req EXCEPT ![r] = s]
    BY <1>1
  <1> HIDE DEF s
  <1> QED
    BY <1>2, <1>3, FinalStep

(* A request that leaves its transaction, or has none, keeps Final when    *)
(* the account it goes on with is not PENDING.                             *)
LEMMA OutsideFinal ==
    ASSUME NEW r \in Requests, NEW pc, NEW calls, IInv, Final,
           req' = [req EXCEPT ![r] = Outside(pc, calls)],
           pc # "commit", pc # "idle" => row'.status # "PENDING_ACTIVATION",
           row.status # "PENDING_ACTIVATION" => row'.status # "PENDING_ACTIVATION"
    PROVE  Final'
  <1> DEFINE s == Outside(pc, calls)
  <1>1. FinalFor(s)'
    <2>1. pc \in {"authenticate", "save", "welcome", "profile", "count"} => pc # "idle"
      OBVIOUS
    <2> QED
      BY <2>1 DEF Outside, FinalFor
  <1>2. req' = [req EXCEPT ![r] = s]
    OBVIOUS
  <1> HIDE DEF s
  <1> QED
    BY <1>1, <1>2, FinalStep

(* Without the listener no step of a request makes the row PENDING, or     *)
(* begins a transaction that will.                                         *)
LEMMA RequestKeepsFinal ==
    ASSUME ~Published, NEW r \in Requests, IInv, Final, Request(r)
    PROVE  Final' /\ (row.status # "PENDING_ACTIVATION" => row'.status # "PENDING_ACTIVATION")
  <1>1. /\ row \in Rows /\ req[r] \in RequestStates /\ FinalFor(req[r]) /\ Reports = 0
        /\ Sound(req[r])
    BY DEF IInv, RowOK, RequestsOK, Final, Reports
  <1>2. CASE Activate(r)
    <2>1. Transaction(r, "activate", [row EXCEPT !.status = "ACTIVE"], NoToken, 0) /\ UNCHANGED row
      BY <1>2 DEF Activate, account
    <2>2. [row EXCEPT !.status = "ACTIVE"].status # "PENDING_ACTIVATION"
      BY <1>1 DEF Rows
    <2> QED
      BY <2>1, <2>2, TransactionFinal
  <1>3. ASSUME NEW t \in ResetTokens, ResetPassword(r, t) PROVE Final' /\ UNCHANGED row
    <2>1. Transaction(r, "reset", [row EXCEPT !.status = "RESET_PASSWORD"], t, 0) /\ UNCHANGED row
      BY <1>3 DEF ResetPassword
    <2>2. [row EXCEPT !.status = "RESET_PASSWORD"].status # "PENDING_ACTIVATION"
      BY <1>1 DEF Rows
    <2> QED
      BY <2>1, <2>2, TransactionFinal
  <1>4. ASSUME NEW p \in Passwords, CompletePasswordReset(r, p) PROVE Final' /\ UNCHANGED row
    BY <1>4, TransactionFinal DEF CompletePasswordReset, account
  <1>5. ASSUME NEW current \in Passwords, NEW p \in Passwords, ChangePassword(r, current, p)
        PROVE Final' /\ UNCHANGED row
    BY <1>5, TransactionFinal DEF ChangePassword, IsActive, account
  <1>6. CASE CheckLogin(r)
    BY <1>6, OutsideFinal DEF CheckLogin, Go, IsActive, account
  <1>7. CASE WrongPassword(r)
    BY <1>1, <1>7, OutsideFinal DEF WrongPassword, Continue, IdleRequest, FinalFor, At, account
  <1>8. CASE UncheckedFailure(r)
    BY <1>1, <1>8, OutsideFinal DEF UncheckedFailure, Continue, IdleRequest, account
  <1>9. CASE RightPassword(r)
    BY <1>1, <1>9, OutsideFinal DEF RightPassword, Go, FinalFor, At, account
  <1>17. CASE SaveSession(r)
    <2> SUFFICES ASSUME NEW q \in Requests PROVE FinalFor(req[q])' /\ UNCHANGED row
      BY DEF Final
    <2>1. UNCHANGED row /\ row.status # "PENDING_ACTIVATION"
      BY <1>1, <1>17 DEF SaveSession, FinalFor, At, account
    <2>2. req'[q] = req[q] \/ FinalFor(req'[q])
      BY <1>17, <2>1 DEF SaveSession, Go, Outside, FinalFor, IInv, RequestsOK
    <2> QED
      BY <2>1, <2>2 DEF Final, FinalFor
  <1>10. CASE ResetLoginAttempts(r)
    <2>1. Transaction(r, "welcome", [row EXCEPT !.failed = 0], NoToken, 0) /\ UNCHANGED row
      BY <1>10 DEF ResetLoginAttempts, account
    <2>2. [row EXCEPT !.failed = 0].status = row.status /\ row.status # "PENDING_ACTIVATION"
      BY <1>1, <1>10 DEF ResetLoginAttempts, FinalFor, At, Rows
    <2> QED
      BY <2>1, <2>2, TransactionFinal
  <1>11. CASE UpdateLoginAttempts(r)
    <2>1. row.status # "PENDING_ACTIVATION" /\ UNCHANGED row
      BY <1>1, <1>11 DEF UpdateLoginAttempts, FinalFor, At, account
    <2>2. /\ [row EXCEPT !.status = "RESET_PASSWORD"].status # "PENDING_ACTIVATION"
          /\ Counted.status # "PENDING_ACTIVATION"
      BY <1>1, <2>1 DEF Rows, Counted
    <2> HIDE DEF Counted
    <2> QED
      BY <1>11, <2>1, <2>2, TransactionFinal DEF UpdateLoginAttempts
  <1>12. CASE BeginProfile(r)
    BY <1>12, OutsideFinal DEF BeginProfile, Go, IsActive, account
  <1>13. CASE EditProfile(r)
    BY <1>1, <1>13, TransactionFinal DEF EditProfile, FinalFor, At, account
  <1>14. CASE LoadForMerge(r)
    BY <1>14, TransactionFinal DEF LoadForMerge, IsActive, account
  <1>15. CASE Commit(r)
    <2>1. /\ row' \in {row, req[r].new} /\ req[r].pc = "commit"
          /\ req[r].new.status # "PENDING_ACTIVATION"
      BY <1>1, <1>15 DEF Commit, At, FinalFor
    <2>2. row.status # "PENDING_ACTIVATION" => row'.status # "PENDING_ACTIVATION"
      BY <2>1
    <2>3. CASE req[r].calls = 0
      BY <1>15, <2>2, <2>3, OutsideFinal DEF Commit, Continue, IdleRequest
    <2>4. CASE req[r].calls # 0
      <3>1. row'.status # "PENDING_ACTIVATION"
        BY <1>1, <2>1, <2>2, <2>4 DEF FinalFor
      <3> QED
        BY <1>15, <2>2, <2>4, <3>1, OutsideFinal DEF Commit, Continue
    <2> QED
      BY <2>2, <2>3, <2>4
  <1>16. CASE Abandon(r)
    BY <1>16, OutsideFinal DEF Abandon, IdleRequest, account
  <1> QED
    BY <1>2, <1>3, <1>4, <1>5, <1>6, <1>7, <1>8, <1>9, <1>10, <1>11, <1>12,
       <1>13, <1>14, <1>15, <1>16, <1>17 DEF Request

(* Nothing makes an activated account PENDING again, whatever stale rows   *)
(* are written back, as long as only the login filters count failures.     *)
THEOREM ActivationStays == Spec => ActivationIsFinal
  <1>1. Init => Final
    <2>1. Init => \A r \in Requests : req[r] = Outside("idle", 0)
      BY DEF Init, IdleRequest
    <2>2. FinalFor(Outside("idle", 0))
      BY DEF FinalFor, Outside
    <2> QED
      BY <2>1, <2>2 DEF Final
  <1>2. ASSUME ~Published, IInv, Final, [Next]_vars
        PROVE  Final' /\ (row.status # "PENDING_ACTIVATION" => row'.status # "PENDING_ACTIVATION")
    <2>1. CASE \E r \in Requests : Request(r)
      BY <1>2, <2>1, RequestKeepsFinal
    <2>2. CASE \E t \in ResetTokens \cup {ActivationToken} : Expire(t)
      BY <1>2, <2>2 DEF Expire, Final, FinalFor
    <2>3. CASE UNCHANGED vars
      BY <1>2, <2>3 DEF vars, Final, FinalFor
    <2> QED
      BY <1>2, <2>1, <2>2, <2>3 DEF Next
  <1> DEFINE Kept == ~Published => Final
             Step == ~Published /\ row.status # "PENDING_ACTIVATION" => row'.status # "PENDING_ACTIVATION"
  <1>3. Init => Kept
    BY <1>1
  <1>4. IInv /\ Kept /\ [Next]_vars => Kept'
    BY <1>2
  <1>5. IInv /\ Kept /\ [Next]_vars => [Step]_vars
    BY <1>2
  <1> HIDE DEF Kept, Step
  <1>6. Spec => [][Step]_vars
    BY <1>3, <1>4, <1>5, InvariantHolds, PTL DEF Spec
  <1> QED
    BY <1>6 DEF Step, ActivationIsFinal
==============================================================================
