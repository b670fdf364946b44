------------------------ MODULE NotificationsProofs ------------------------
(***************************************************************************)
(* What becomes of devices, for any number of users, tokens, threads and   *)
(* requests, while notifications are pushed to them; and what a client     *)
(* sees of the notifications, page by page.                                *)
(***************************************************************************)
EXTENDS Notifications, OrderKeysProofs, SequenceTheorems

Ids == Nat \ {0}
Ops == {"register", "unregister", "drop"}
Mine(u) == {i \in DOMAIN device : device[i].user = u}

(* A device that has been in the table, or is there, and what is known of  *)
(* it for good: ids are not used again, and no row changes its owner or    *)
(* its token.                                                              *)
Past(i) ==
    /\ i \in Ids /\ i < nextId
    /\ \A t \in Threads : tx[t].op = "register" => tx[t].id # i
Of(i, u) == Past(i) /\ (i \in DOMAIN device => device[i].user = u)
Bears(i, k) == Past(i) /\ (i \in DOMAIN device => device[i].token = k)

(* What a transaction has read and will write.                             *)
HasRead(c) ==
    /\ c.op \in Ops
    /\ c.user \in Users /\ c.token \in Tokens /\ c.id \in Ids
    /\ c.old \in Seq(Ids \cup {Null})
    /\ \A k \in DOMAIN c.old : c.old[k] = Null \/ Of(c.old[k], c.user)
    /\ IF c.op = "register"
       THEN c.new = Append(c.old, c.id)
       ELSE Has(c.old, c.id) /\ c.new = Without(c.old, c.id) /\ Bears(c.id, c.token)

(* The job of a thread of the pool, and what it has found to push to.      *)
JobType == [user : Users, at : Nat]
Found(r) ==
    /\ r = Work(r.step, r.job, r.list, r.at)
    /\ r.step # "idle" => r.job.user \in Users
    /\ r.step = "adding" => r.job \in JobType
    /\ r.step \in {"push", "drop"} =>
          \A k \in DOMAIN r.list :
             r.list[k] # Null =>
                r.list[k].token \in Tokens /\ Bears(r.list[k].id, r.list[k].token)

Rows ==
    /\ nextId \in Ids
    /\ \A i \in DOMAIN device : device[i] \in DeviceType /\ Past(i)
    /\ \E n \in Nat : \A i \in DOMAIN device : device[i].key <= n

Transactions ==
    /\ tx = [t \in Threads |-> tx[t]]
    /\ \A t \in Threads : Open(t) => HasRead(tx[t])
    /\ \A t, q \in Threads :
          tx[t].op = "register" /\ tx[q].op = "register" /\ t # q => tx[t].id # tx[q].id
    /\ \A t \in Threads : tx[t].op = "register" => tx[t].id \in Ids /\ tx[t].id < nextId

Histories ==
    /\ held \in [Users -> SUBSET Tokens]
    /\ raced \subseteq Users \cup Tokens
    /\ requests \in 0 .. MaxRequests

Pool ==
    /\ worker = [w \in Workers |-> worker[w]]
    /\ \A w \in Workers : Found(worker[w])
    /\ queue \in Seq(JobType) /\ dated \subseteq JobType
    /\ made \in Nat

Typed == Rows /\ Transactions /\ Histories /\ Pool

LEMMA InitTyped == Init => Typed
<1> SUFFICES ASSUME Init PROVE Typed
  OBVIOUS
<1>1. Rows
  BY DEF Init, DevicesInit, Rows, Ids
<1>2. Transactions
  BY DEF Init, DevicesInit, Transactions, Open, NoTx, Tx
<1>3. Histories
  BY RequestsAssumption DEF Init, DevicesInit, Histories
<1>4. Pool
  BY DEF Init, Pool, Found, Resting, Work
<1> QED
  BY <1>1, <1>2, <1>3, <1>4 DEF Typed

------------------------------------------------------------------------------
(* What a transaction reads: the devices of its user.                      *)
LEMMA ReadsOwn ==
    ASSUME Rows, NEW u, NEW L \in Lists(RowsOfUser(u))
    PROVE  /\ L \in Seq(Ids \cup {Null})
           /\ \A k \in DOMAIN L : L[k] = Null \/ L[k] \in Mine(u)
<1> DEFINE R == RowsOfUser(u)
<1>1. \A x \in R : \E i \in Mine(u) : x = Row(device[i].key, i, 1)
  BY DEF RowsOfUser, Mine
<1>2. PICK n \in Nat : \A i \in DOMAIN device : device[i].key <= n
  BY DEF Rows
<1>3. \A x \in R : x.key \in 1 .. n /\ x.elem \in Mine(u)
  <2> TAKE x \in R
  <2>1. PICK i \in Mine(u) : x = Row(device[i].key, i, 1)
    BY <1>1
  <2>2. i \in DOMAIN device /\ device[i].key \in Nat \ {0} /\ device[i].key <= n
    BY <1>2 DEF Mine, Rows, DeviceType
  <2> QED
    BY <2>1, <2>2 DEF Row
<1>4. LastKey(R) \in Nat
  BY <1>3, LastKeyBounded
<1>5. L \in [1 .. LastKey(R) -> Elements(R) \cup {Null}]
  BY DEF Lists
<1>6. Elements(R) \subseteq Mine(u)
  BY <1>3 DEF Elements
<1>7. Mine(u) \subseteq Ids
  BY DEF Mine, Rows, Past, Ids
<1> HIDE DEF R
<1> QED
  BY <1>4, <1>5, <1>6, <1>7

------------------------------------------------------------------------------
(* What is known of a device for good.                                     *)
Orderly ==
    /\ nextId \in Nat /\ nextId' \in Nat /\ nextId <= nextId'
    /\ \A t \in Threads : tx'[t].op = "register" =>
          (tx[t].op = "register" /\ tx'[t].id = tx[t].id) \/ tx'[t].id = nextId
    /\ \A i \in DOMAIN device' : Past(i) =>
          /\ i \in DOMAIN device
          /\ device'[i].user = device[i].user /\ device'[i].token = device[i].token

LEMMA PastStays ==
    ASSUME Orderly, NEW i
    PROVE  /\ Past(i) => Past(i)'
           /\ \A u : Of(i, u) => Of(i, u)'
           /\ \A k : Bears(i, k) => Bears(i, k)'
<1>1. ASSUME Past(i) PROVE Past(i)'
  <2>1. i \in Ids /\ i < nextId /\ i < nextId'
    BY <1>1 DEF Past, Orderly, Ids
  <2>2. \A t \in Threads : tx'[t].op = "register" => tx'[t].id # i
    <3> TAKE t \in Threads
    <3> HAVE tx'[t].op = "register"
    <3>1. CASE tx[t].op = "register" /\ tx'[t].id = tx[t].id
      BY <3>1, <1>1 DEF Past
    <3>2. CASE tx'[t].id = nextId
      BY <3>2, <2>1 DEF Orderly
    <3> QED
      BY <3>1, <3>2 DEF Orderly
  <2> QED
    BY <2>1, <2>2 DEF Past
<1> QED
  BY <1>1 DEF Of, Bears, Orderly

LEMMA HasReadStays ==
    ASSUME Orderly, NEW c, HasRead(c)
    PROVE  HasRead(c)'
<1>1. \A k \in DOMAIN c.old : c.old[k] = Null \/ Of(c.old[k], c.user)'
  BY PastStays DEF HasRead
<1>2. c.op # "register" => Bears(c.id, c.token)'
  BY PastStays DEF HasRead
<1> QED
  BY <1>1, <1>2 DEF HasRead

LEMMA FoundStays ==
    ASSUME Orderly, NEW r, Found(r)
    PROVE  Found(r)'
<1>1. ASSUME r.step \in {"push", "drop"}
      PROVE  \A k \in DOMAIN r.list : r.list[k] # Null =>
                r.list[k].token \in Tokens /\ Bears(r.list[k].id, r.list[k].token)'
  BY <1>1, PastStays DEF Found
<1> QED
  BY <1>1 DEF Found

------------------------------------------------------------------------------
(* A transaction begins.  Its thread has read a list of its user, and the  *)
(* device that it adds is new.                                             *)
Began(t, c) ==
    /\ ~Open(t)
    /\ tx' = [tx EXCEPT ![t] = c]
    /\ UNCHANGED <<device, held, raced>>
    /\ c.op \in Ops => c.user \in Users /\ c.old \in Lists(RowsOfUser(c.user))
    /\ \/ c = NoTx /\ nextId' = nextId
       \/ /\ c.op = "register" /\ c.token \in Tokens /\ c.id = nextId
          /\ c.new = Append(c.old, c.id) /\ nextId' = nextId + 1
          /\ WithToken(c.token) = {}
       \/ /\ c.op \in {"unregister", "drop"} /\ c.token \in Tokens /\ nextId' = nextId
          /\ Bears(c.id, c.token)
          /\ Has(c.old, c.id) /\ c.new = Without(c.old, c.id)

LEMMA BeginDeviceBegins ==
    ASSUME Typed, NEW t \in Threads, NEW u \in Users, NEW k \in Tokens, BeginDevice(t, u, k)
    PROVE  \E c : Began(t, c) /\ c.op \in {"register", "unregister"}
<1>1. CASE Register(t, u, k)
  <2>1. PICK L \in Lists(RowsOfUser(u)) :
            tx' = [tx EXCEPT ![t] = Tx("register", u, k, nextId, L, Append(L, nextId))]
    BY <1>1 DEF Register
  <2> DEFINE c == Tx("register", u, k, nextId, L, Append(L, nextId))
  <2>2. /\ c.op = "register" /\ c.user = u /\ c.token = k /\ c.id = nextId
        /\ c.old = L /\ c.new = Append(L, nextId)
    BY DEF Tx
  <2> HIDE DEF c
  <2>3. Began(t, c)
    BY <1>1, <2>1, <2>2 DEF BeginDevice, Register, Known, Began, Ops, c
  <2> QED
    BY <2>2, <2>3
<1>2. CASE Unregister(t, u, k)
  <2>1. PICK i \in Known(u, k), L \in Lists(RowsOfUser(u)) :
            /\ Known(u, k) = {i} /\ Has(L, i)
            /\ tx' = [tx EXCEPT ![t] = Tx("unregister", u, k, i, L, Without(L, i))]
    BY <1>2 DEF Unregister
  <2> DEFINE c == Tx("unregister", u, k, i, L, Without(L, i))
  <2>2. /\ c.op = "unregister" /\ c.user = u /\ c.token = k /\ c.id = i
        /\ c.old = L /\ c.new = Without(L, i)
    BY DEF Tx
  <2> HIDE DEF c
  <2>3. Bears(i, k)
    BY <2>1 DEF Known, WithToken, Typed, Rows, Bears
  <2>4. Began(t, c)
    BY <1>2, <2>1, <2>2, <2>3 DEF BeginDevice, Unregister, Began, Ops, c
  <2> QED
    BY <2>2, <2>4
<1> QED
  BY <1>1, <1>2 DEF BeginDevice

LEMMA BeginDropBegins ==
    ASSUME NEW t \in Threads, NEW u \in Users, NEW i, NEW k \in Tokens, Bears(i, k),
           BeginDrop(t, u, i, k)
    PROVE  \E c : /\ Began(t, c)
                 /\ c.op \in {"drop", "none"} /\ (c.op = "drop" => c.id = i)
<1>1. PICK L \in Lists(RowsOfUser(u)) :
          tx' = [tx EXCEPT ![t] = IF Has(L, i) THEN Tx("drop", u, k, i, L, Without(L, i)) ELSE NoTx]
  BY DEF BeginDrop, Dropped
<1> DEFINE c == IF Has(L, i) THEN Tx("drop", u, k, i, L, Without(L, i)) ELSE NoTx
<1>2. CASE Has(L, i)
  <2>1. /\ c.op = "drop" /\ c.user = u /\ c.token = k /\ c.id = i
        /\ c.old = L /\ c.new = Without(L, i)
    BY <1>2 DEF Tx
  <2>2. tx' = [tx EXCEPT ![t] = c]
    BY <1>1
  <2> HIDE DEF c
  <2>3. Began(t, c)
    BY <1>2, <2>1, <2>2 DEF BeginDrop, Began, Ops
  <2> QED
    BY <2>1, <2>3
<1>3. CASE ~Has(L, i)
  <2>1. c = NoTx /\ c.op = "none"
    BY <1>3 DEF NoTx, Tx
  <2>2. tx' = [tx EXCEPT ![t] = c]
    BY <1>1
  <2> HIDE DEF c
  <2>3. Began(t, c)
    BY <2>1, <2>2 DEF BeginDrop, Began, Ops
  <2> QED
    BY <2>1, <2>3
<1> QED
  BY <1>2, <1>3

LEMMA BeganTyped ==
    ASSUME Rows, Transactions, NEW t \in Threads, NEW c, Began(t, c)
    PROVE  Rows' /\ Transactions' /\ Orderly
<1>1. tx'[t] = c /\ \A q \in Threads \ {t} : tx'[q] = tx[q]
  BY DEF Began, Transactions
<1>2. nextId \in Nat /\ nextId' \in Nat /\ nextId <= nextId' /\ nextId' \in Ids
  BY DEF Began, Rows, Ids
<1>3. Orderly
  <2>1. c.op = "register" => c.id = nextId
    BY DEF Began, NoTx, Tx
  <2>2. \A q \in Threads : tx'[q].op = "register" =>
           (tx[q].op = "register" /\ tx'[q].id = tx[q].id) \/ tx'[q].id = nextId
    BY <1>1, <2>1
  <2> QED
    BY <1>2, <2>2 DEF Orderly, Began
<1>4. Rows'
  <2>1. \A i \in DOMAIN device : Past(i)'
    BY <1>3, PastStays DEF Rows
  <2> QED
    BY <1>2, <2>1 DEF Rows, Began
<1>5. c.op # "none" => HasRead(c)'
  <2> HAVE c.op # "none"
  <2>1. c.op \in Ops /\ c.user \in Users /\ c.old \in Lists(RowsOfUser(c.user)) /\ c.token \in Tokens
    BY DEF Began, NoTx, Tx, Ops
  <2>2. c.old \in Seq(Ids \cup {Null})
    BY <2>1, ReadsOwn
  <2>3. \A k \in DOMAIN c.old : c.old[k] = Null \/ Of(c.old[k], c.user)'
    <3> TAKE k \in DOMAIN c.old
    <3>1. c.old[k] = Null \/ c.old[k] \in Mine(c.user)
      BY <2>1, ReadsOwn
    <3>2. c.old[k] \in Mine(c.user) => Of(c.old[k], c.user)
      BY DEF Mine, Of, Rows
    <3> QED
      BY <3>1, <3>2, <1>3, PastStays
  <2>4. CASE c.op = "register"
    <3>1. c.id \in Ids /\ c.new = Append(c.old, c.id)
      BY <2>4 DEF Began, NoTx, Tx, Rows
    <3> QED
      BY <2>1, <2>2, <2>3, <2>4, <3>1 DEF HasRead
  <2>5. CASE c.op # "register"
    <3>1. Bears(c.id, c.token) /\ Has(c.old, c.id) /\ c.new = Without(c.old, c.id)
      BY <2>1, <2>5 DEF Began, NoTx, Tx, Ops
    <3>2. Bears(c.id, c.token)' /\ c.id \in Ids
      BY <3>1, <1>3, PastStays DEF Bears, Past
    <3> QED
      BY <2>1, <2>2, <2>3, <2>5, <3>1, <3>2 DEF HasRead
  <2> QED
    BY <2>4, <2>5
<1>6. ASSUME NEW q \in Threads, Open(q)' PROVE HasRead(tx[q])'
  <2>1. CASE q = t
    <3>1. tx'[q] = c /\ c.op # "none"
      BY <2>1, <1>1, <1>6 DEF Open
    <3> QED
      BY <3>1, <1>5 DEF HasRead
  <2>2. CASE q # t
    <3>1. tx'[q] = tx[q] /\ Open(q)
      BY <2>2, <1>1, <1>6 DEF Open
    <3>2. HasRead(tx[q])'
      BY <3>1, <1>3, HasReadStays DEF Transactions
    <3> QED
      BY <3>1, <3>2 DEF HasRead
  <2> QED
    BY <2>1, <2>2
<1>7. c.op = "register" => c.id = nextId /\ nextId' = nextId + 1
  BY DEF Began, NoTx, Tx
<1>8. \A q \in Threads : tx'[q].op = "register" => tx'[q].id \in Ids /\ tx'[q].id < nextId'
  <2> TAKE q \in Threads
  <2>1. CASE q = t
    BY <2>1, <1>1, <1>2, <1>7 DEF Ids, Rows
  <2>2. CASE q # t
    BY <2>2, <1>1, <1>2 DEF Ids, Transactions
  <2> QED
    BY <2>1, <2>2
<1>9. \A p, q \in Threads :
         tx'[p].op = "register" /\ tx'[q].op = "register" /\ p # q => tx'[p].id # tx'[q].id
  <2>1. \A q \in Threads \ {t} : tx[q].op = "register" => tx[q].id # nextId
    BY <1>2 DEF Transactions, Ids
  <2> TAKE p, q \in Threads
  <2> HAVE tx'[p].op = "register" /\ tx'[q].op = "register" /\ p # q
  <2> QED
    BY <1>1, <1>7, <2>1 DEF Transactions
<1>10. tx' = [q \in Threads |-> tx'[q]]
  BY DEF Began, Transactions
<1> QED
  BY <1>3, <1>4, <1>6, <1>8, <1>9, <1>10 DEF Transactions

------------------------------------------------------------------------------
(* What the end of a transaction leaves in the table.                      *)
Writes(c) ==
    /\ c.new \in Seq(Ids \cup {Null})
    /\ DOMAIN device' = (DOMAIN device \ Removed(c)) \cup (IF c.op = "register" THEN {c.id} ELSE {})
    /\ c.op = "register" => c.id \notin DOMAIN device /\ device'[c.id] = NewRow(c)
    /\ \A i \in DOMAIN device \ Removed(c) :
          /\ device'[i] \in DeviceType
          /\ device'[i].user = device[i].user /\ device'[i].token = device[i].token
          /\ i \notin Moved(c) => device'[i] = device[i]
          /\ i \in Moved(c) =>
                /\ device'[i].key = PositionIn(c, i)
                /\ PositionIn(c, i) \in DOMAIN c.new /\ c.new[PositionIn(c, i)] = i

LEMMA RowsStored ==
    ASSUME Rows, Transactions, NEW t \in Threads, EndDevice(t), NEW c, c = tx[t]
    PROVE  HasRead(c) /\ Writes(c)
<1>1. HasRead(c) /\ c.op \in Ops
  BY DEF EndDevice, Transactions, HasRead
<1>2. c.new \in Seq(Ids \cup {Null})
  <2>1. CASE c.op = "register"
    <3>1. c.old \in Seq(Ids \cup {Null}) /\ c.id \in Ids \cup {Null} /\ c.new = Append(c.old, c.id)
      BY <1>1, <2>1 DEF HasRead
    <3> QED
      BY <3>1
  <2>2. CASE c.op # "register"
    BY <1>1, <2>2, WithoutElements DEF HasRead
  <2> QED
    BY <2>1, <2>2
<1>3. device' = StoreDevices(c)
  BY DEF EndDevice
<1>4. DOMAIN device' = (DOMAIN device \ Removed(c)) \cup (IF c.op = "register" THEN {c.id} ELSE {})
  BY <1>3 DEF StoreDevices
<1>5. c.op = "register" => c.id \notin DOMAIN device
  BY DEF Rows, Past
<1>6. c.op = "register" => device'[c.id] = NewRow(c)
  BY <1>3, <1>5 DEF StoreDevices
<1>7. ASSUME NEW i \in Moved(c)
      PROVE  PositionIn(c, i) \in DOMAIN c.new /\ c.new[PositionIn(c, i)] = i
  <2>1. \E k \in DOMAIN c.new : c.new[k] = i
    BY DEF Moved
  <2> QED
    BY <2>1 DEF PositionIn
<1>8. ASSUME NEW i \in DOMAIN device \ Removed(c)
      PROVE  /\ device'[i] \in DeviceType
             /\ device'[i].user = device[i].user /\ device'[i].token = device[i].token
             /\ i \notin Moved(c) => device'[i] = device[i]
             /\ i \in Moved(c) => device'[i].key = PositionIn(c, i)
  <2>1. device'[i] = IF i \in Moved(c) THEN [device[i] EXCEPT !.key = PositionIn(c, i)] ELSE device[i]
    BY <1>3 DEF StoreDevices
  <2>2. device[i] \in DeviceType
    BY DEF Rows
  <2>3. i \in Moved(c) => PositionIn(c, i) \in Nat \ {0}
    BY <1>2, <1>7
  <2> QED
    BY <2>1, <2>2, <2>3 DEF DeviceType
<1> QED
  BY <1>1, <1>2, <1>4, <1>5, <1>6, <1>7, <1>8 DEF Writes

LEMMA ClosedTyped ==
    ASSUME Transactions, NEW t \in Threads, tx' = [tx EXCEPT ![t] = NoTx],
           nextId' = nextId, nextId \in Nat, Orderly
    PROVE  Transactions'
<1>1. tx'[t].op = "none" /\ \A q \in Threads \ {t} : tx'[q] = tx[q]
  BY DEF Transactions, NoTx, Tx
<1>2. ASSUME NEW q \in Threads, Open(q)' PROVE HasRead(tx[q])'
  <2>1. tx'[q] = tx[q] /\ Open(q)
    BY <1>1, <1>2 DEF Open
  <2>2. HasRead(tx[q])
    BY <2>1 DEF Transactions
  <2> DEFINE c == tx[q]
  <2>3. c' = c
    BY <2>1
  <2>4. ASSUME NEW d, HasRead(d) PROVE HasRead(d)'
    BY <2>4, HasReadStays
  <2> QED
    BY <2>1, <2>2, <2>4 DEF HasRead
<1>3. \A q \in Threads : tx'[q].op = "register" => tx'[q] = tx[q] /\ tx[q].op = "register"
  BY <1>1
<1>4. tx' = [q \in Threads |-> tx'[q]]
  BY DEF Transactions
<1> QED
  BY <1>2, <1>3, <1>4 DEF Transactions

LEMMA RacedTyped ==
    ASSUME Transactions, raced \subseteq Users \cup Tokens, NEW t \in Threads, Open(t)
    PROVE  raced \cup RacedWith(t) \subseteq Users \cup Tokens
BY DEF RacedWith, Transactions, HasRead

LEMMA EndDeviceTyped ==
    ASSUME Rows, Transactions, Histories, NEW t \in Threads, EndDevice(t)
    PROVE  Rows' /\ Transactions' /\ Histories' /\ Orderly
<1>0. PICK c : c = tx[t]
  OBVIOUS
<1>1. HasRead(c) /\ Writes(c)
  BY <1>0, RowsStored
<1>2. nextId' = nextId /\ nextId \in Nat /\ tx' = [tx EXCEPT ![t] = NoTx]
  BY DEF EndDevice, Rows, Ids
<1>3. \A q \in Threads : tx'[q].op = "register" => q # t /\ tx'[q] = tx[q]
  BY <1>2 DEF Transactions, NoTx, Tx
<1>4. \A i \in DOMAIN device' : Past(i) => i \in DOMAIN device \ Removed(c)
  BY <1>0, <1>1 DEF Past, Writes
<1>5. Orderly
  BY <1>1, <1>2, <1>3, <1>4 DEF Orderly, Writes
<1>6. Transactions'
  BY <1>2, <1>5, ClosedTyped
<1>7. \A i \in DOMAIN device' : Past(i)'
  <2>1. ASSUME NEW i \in DOMAIN device PROVE Past(i)'
    BY <1>5, PastStays DEF Rows
  <2>2. ASSUME c.op = "register" PROVE Past(c.id)'
    <3>1. c.id \in Ids /\ c.id < nextId'
      BY <1>0, <1>2, <2>2 DEF Transactions
    <3>2. \A q \in Threads : tx'[q].op = "register" => tx'[q].id # c.id
      BY <1>0, <1>3, <2>2 DEF Transactions
    <3> QED
      BY <3>1, <3>2 DEF Past
  <2> QED
    BY <1>1, <2>1, <2>2 DEF Writes
<1>8. Len(c.new) \in Nat /\ DOMAIN c.new = 1 .. Len(c.new)
  BY <1>1 DEF Writes
<1>9. c.op = "register" => device'[c.id] \in DeviceType /\ device'[c.id].key = Len(c.new)
  <2> HAVE c.op = "register"
  <2>1. c.user \in Users /\ c.token \in Tokens /\ c.old \in Seq(Ids \cup {Null}) /\ c.id \in Ids
        /\ c.new = Append(c.old, c.id)
    BY <1>1 DEF HasRead
  <2>2. Len(c.new) \in Nat \ {0}
    BY <2>1
  <2> QED
    BY <1>1, <2>1, <2>2 DEF NewRow, DeviceType, Writes
<1>10. \A i \in DOMAIN device' : device'[i] \in DeviceType
  BY <1>1, <1>9 DEF Writes
<1>11. \E m \in Nat : \A i \in DOMAIN device' : device'[i].key <= m
  <2>1. PICK n \in Nat : \A i \in DOMAIN device : device[i].key <= n
    BY DEF Rows
  <2> DEFINE m == n + Len(c.new)
  <2>2. m \in Nat /\ n <= m /\ Len(c.new) <= m
    BY <1>8
  <2>3. ASSUME NEW i \in DOMAIN device' PROVE device'[i].key <= m
    <3>1. CASE i \in DOMAIN device \ Removed(c) /\ i \notin Moved(c)
      <4>1. device'[i].key <= n /\ device'[i].key \in Nat
        BY <3>1, <1>1, <2>1 DEF DeviceType, Writes
      <4> QED
        BY <4>1, <2>2
    <3>2. CASE i \in DOMAIN device \ Removed(c) /\ i \in Moved(c)
      <4>1. device'[i].key \in 1 .. Len(c.new)
        BY <3>2, <1>1, <1>8 DEF Writes
      <4> QED
        BY <4>1, <2>2, <1>8
    <3>3. CASE c.op = "register" /\ i = c.id
      BY <3>3, <1>9, <2>2
    <3> QED
      BY <3>1, <3>2, <3>3, <1>1 DEF Writes
  <2> HIDE DEF m
  <2> QED
    BY <2>2, <2>3
<1>12. Rows'
  BY <1>2, <1>7, <1>10, <1>11 DEF Rows
<1>13. Histories'
  <2>1. c.user \in Users /\ c.token \in Tokens
    BY <1>1 DEF HasRead
  <2>2. held' = [held EXCEPT ![c.user] = IF c.op = "register" THEN @ \cup {c.token} ELSE @ \ {c.token}]
    BY <1>0 DEF EndDevice
  <2>3. held' \in [Users -> SUBSET Tokens]
    BY <2>1, <2>2 DEF Histories
  <2>4. raced' \subseteq Users \cup Tokens
    BY RacedTyped DEF EndDevice, Histories
  <2> QED
    BY <2>3, <2>4 DEF Histories, EndDevice
<1> QED
  BY <1>5, <1>6, <1>12, <1>13

LEMMA LoseDeviceTyped ==
    ASSUME Rows, Transactions, Histories, NEW t \in Threads, LoseDevice(t)
    PROVE  Rows' /\ Transactions' /\ Histories' /\ Orderly
<1>1. nextId' = nextId /\ nextId \in Nat /\ tx' = [tx EXCEPT ![t] = NoTx] /\ device' = device
  BY DEF LoseDevice, Rows, Ids
<1>2. Orderly
  BY <1>1 DEF Orderly, Transactions, NoTx, Tx
<1>3. Transactions'
  BY <1>1, <1>2, ClosedTyped
<1>4. Rows'
  BY <1>1, <1>2, PastStays DEF Rows
<1>5. Histories'
  BY RacedTyped DEF Histories, LoseDevice
<1> QED
  BY <1>2, <1>3, <1>4, <1>5

LEMMA QuietTyped ==
    ASSUME Rows, Transactions, Histories, UNCHANGED OtherVars, requests' \in 0 .. MaxRequests
    PROVE  Rows' /\ Transactions' /\ Histories' /\ Orderly
<1>1. device' = device /\ nextId' = nextId /\ tx' = tx /\ held' = held /\ raced' = raced
  BY DEF OtherVars
<1>2. Orderly
  BY <1>1 DEF Orderly, Rows, Ids
<1>3. Rows' /\ Histories'
  BY <1>1, <1>2, PastStays DEF Rows, Histories
<1>4. \A t \in Threads : Open(t)' => HasRead(tx[t])'
  BY <1>1, <1>2, HasReadStays DEF Transactions, Open, HasRead, Of, Bears, Past
<1>5. Transactions'
  BY <1>1, <1>4 DEF Transactions
<1> QED
  BY <1>2, <1>3, <1>5

------------------------------------------------------------------------------
(* The threads of the pool.                                                *)

LEMMA PoolStays ==
    ASSUME Pool, Orderly, UNCHANGED worker,
           queue' \in Seq(JobType), dated' \subseteq JobType, made' \in Nat
    PROVE  Pool'
<1>1. ASSUME NEW w \in Workers PROVE Found(worker[w])'
  <2>1. Found(worker[w])
    BY DEF Pool
  <2>2. \A r : Found(r) => Found(r)'
    BY FoundStays
  <2> QED
    BY <2>1, <2>2 DEF Found
<1> QED
  BY <1>1 DEF Pool, JobType

LEMMA PoolMoves ==
    ASSUME Pool, Orderly, NEW w \in Workers, NEW r, worker' = [worker EXCEPT ![w] = r], Found(r)',
           queue' \in Seq(JobType), dated' \subseteq JobType, made' \in Nat
    PROVE  Pool'
<1>1. worker'[w] = r /\ \A v \in Workers \ {w} : worker'[v] = worker[v]
  BY DEF Pool
<1>2. ASSUME NEW v \in Workers PROVE Found(worker[v])'
  <2>1. CASE v = w
    BY <2>1, <1>1 DEF Found
  <2>2. CASE v # w
    <3>1. worker'[v] = worker[v] /\ Found(worker[v])
      BY <2>2, <1>1 DEF Pool
    <3>2. \A q : Found(q) => Found(q)'
      BY FoundStays
    <3> QED
      BY <3>1, <3>2 DEF Found
  <2> QED
    BY <2>1, <2>2
<1>3. worker' = [v \in Workers |-> worker'[v]]
  BY DEF Pool
<1> QED
  BY <1>2, <1>3 DEF Pool, JobType

LEMMA TakeTyped ==
    ASSUME Typed, NEW w \in Workers, Take(w)
    PROVE  Typed' /\ Orderly
<1>1. Rows' /\ Transactions' /\ Histories' /\ Orderly
  BY QuietTyped DEF Take, Typed, OtherVars, deviceVars, Histories
<1>2. PICK j : j = Head(queue)
  OBVIOUS
<1>3. /\ queue \in Seq(JobType) /\ queue # <<>> /\ queue' = Tail(queue)
      /\ made' = made /\ made \in Nat /\ dated' = dated /\ dated \subseteq JobType
  BY DEF Take, Typed, Pool, Rest
<1>4. j \in JobType /\ queue' \in Seq(JobType)
  BY <1>2, <1>3
<1>5. PICK r : r = Work("adding", j, <<>>, 0)
  OBVIOUS
<1>6. Found(r)'
  BY <1>4, <1>5 DEF Found, Work, JobType
<1>7. worker' = [worker EXCEPT ![w] = r]
  BY <1>2, <1>5 DEF Take
<1>8. Pool'
  BY <1>1, <1>3, <1>4, <1>6, <1>7, PoolMoves DEF Typed
<1> QED
  BY <1>1, <1>8 DEF Typed

LEMMA AddNotificationTyped ==
    ASSUME Typed, NEW w \in Workers, AddNotification(w)
    PROVE  Typed' /\ Orderly
<1> DEFINE old == worker[w]
<1>1. Rows' /\ Transactions' /\ Histories' /\ Orderly
  BY QuietTyped DEF AddNotification, Typed, OtherVars, deviceVars, Histories
<1>2. Found(old) /\ old.step = "adding" /\ worker' = [worker EXCEPT ![w] = [old EXCEPT !.step = "added"]]
  BY DEF AddNotification, Typed, Pool
<1>3. PICK r : r = Work("added", old.job, old.list, old.at)
  OBVIOUS
<1>4. worker' = [worker EXCEPT ![w] = r]
  <2>1. old = Work(old.step, old.job, old.list, old.at)
    BY <1>2 DEF Found
  <2>2. [old EXCEPT !.step = "added"] = r
    BY <1>3, <2>1 DEF Work
  <2> HIDE DEF old
  <2> QED
    BY <1>2, <2>2
<1>5. Found(r)'
  BY <1>2, <1>3 DEF Found, Work
<1>6. queue' \in Seq(JobType) /\ dated' \subseteq JobType /\ made' \in Nat
  BY DEF AddNotification, Typed, Pool
<1>7. Pool'
  BY <1>1, <1>4, <1>5, <1>6, PoolMoves DEF Typed
<1> QED
  BY <1>1, <1>7 DEF Typed

LEMMA FindDevicesTyped ==
    ASSUME Typed, NEW w \in Workers, FindDevices(w)
    PROVE  Typed' /\ Orderly
<1>1. Rows' /\ Transactions' /\ Histories' /\ Orderly
  BY QuietTyped DEF FindDevices, Typed, OtherVars, deviceVars, Histories
<1>2. PICK L \in Lists(RowsOfUser(worker[w].job.user)) :
         worker' = [worker EXCEPT ![w] = Work("push", @.job, [k \in DOMAIN L |->
             IF L[k] = Null THEN Null ELSE [id |-> L[k], token |-> device[L[k]].token]], 1)]
  BY DEF FindDevices
<1> DEFINE list == [k \in DOMAIN L |->
                       IF L[k] = Null THEN Null ELSE [id |-> L[k], token |-> device[L[k]].token]]
           r == Work("push", worker[w].job, list, 1)
<1>3. ASSUME NEW k \in DOMAIN L, L[k] # Null
      PROVE  list[k].token \in Tokens /\ Bears(list[k].id, list[k].token)
  <2>1. L[k] \in DOMAIN device /\ Past(L[k]) /\ device[L[k]].token \in Tokens
    BY <1>3, ReadsOwn DEF Typed, Mine, Rows, DeviceType
  <2> QED
    BY <1>3, <2>1 DEF Bears
<1>4. Found(r)
  <2>1. worker[w].job.user \in Users
    BY DEF FindDevices, Typed, Pool, Found
  <2>2. \A k \in DOMAIN list : list[k] # Null => list[k].token \in Tokens /\ Bears(list[k].id, list[k].token)
    BY <1>3
  <2> HIDE DEF list
  <2> QED
    BY <2>1, <2>2 DEF Found, Work
<1>5. \E q : q = r /\ worker' = [worker EXCEPT ![w] = q] /\ Found(q)'
  <2>1. PICK q : q = r
    OBVIOUS
  <2>2. Found(q)'
    BY <1>1, <1>4, <2>1, FoundStays
  <2>3. worker' = [worker EXCEPT ![w] = r]
    BY <1>2
  <2> QED
    BY <2>1, <2>2, <2>3
<1>6. Pool'
  BY <1>1, <1>5, PoolMoves DEF Typed, Pool, JobType, FindDevices
<1> QED
  BY <1>1, <1>6 DEF Typed

(* A step that goes on in the list, or ends the job.                       *)
LEMMA Proceeds ==
    ASSUME Pool, Orderly, NEW w \in Workers, queue' = queue, dated' = dated, made' = made,
           \/ worker' = [worker EXCEPT ![w] = Resting]
           \/ worker[w].step = "push" /\ worker' = [worker EXCEPT ![w].at = @ + 1]
           \/ worker[w].step = "push" /\ worker' = [worker EXCEPT ![w] = Work("drop", @.job, @.list, @.at + 1)]
           \/ worker[w].step = "drop" /\ worker' = [worker EXCEPT ![w].step = "push"]
    PROVE  Pool'
<1> DEFINE old == worker[w]
<1>1. old = Work(old.step, old.job, old.list, old.at) /\ Found(old)
  BY DEF Pool, Found
<1>2. PICK r : /\ worker' = [worker EXCEPT ![w] = r]
               /\ \/ r = Resting
                  \/ /\ {old.step, r.step} \subseteq {"push", "drop"} /\ r.job = old.job /\ r.list = old.list
                     /\ r = Work(r.step, r.job, r.list, r.at)
  <2>1. CASE worker' = [worker EXCEPT ![w] = Resting]
    BY <2>1
  <2>2. CASE worker[w].step = "push" /\ worker' = [worker EXCEPT ![w].at = @ + 1]
    <3> DEFINE r == Work("push", old.job, old.list, old.at + 1)
    <3>1. worker' = [worker EXCEPT ![w] = [old EXCEPT !.at = @ + 1]]
      BY <2>2
    <3>2. [old EXCEPT !.at = @ + 1] = r
      BY <1>1, <2>2 DEF Work
    <3>3. /\ old.step \in {"push", "drop"}
          /\ r.step = "push" /\ r.job = old.job /\ r.list = old.list
          /\ r = Work(r.step, r.job, r.list, r.at)
      BY <2>2 DEF Work
    <3> HIDE DEF r, old
    <3> QED
      BY <3>1, <3>2, <3>3
  <2>3. CASE worker[w].step = "push" /\ worker' = [worker EXCEPT ![w] = Work("drop", @.job, @.list, @.at + 1)]
    <3> DEFINE r == Work("drop", old.job, old.list, old.at + 1)
    <3>1. worker' = [worker EXCEPT ![w] = r]
      BY <2>3
    <3>3. /\ old.step \in {"push", "drop"}
          /\ r.step = "drop" /\ r.job = old.job /\ r.list = old.list
          /\ r = Work(r.step, r.job, r.list, r.at)
      BY <2>3 DEF Work
    <3> HIDE DEF r, old
    <3> QED
      BY <3>1, <3>3
  <2>4. CASE worker[w].step = "drop" /\ worker' = [worker EXCEPT ![w].step = "push"]
    <3> DEFINE r == Work("push", old.job, old.list, old.at)
    <3>1. worker' = [worker EXCEPT ![w] = [old EXCEPT !.step = "push"]]
      BY <2>4
    <3>2. [old EXCEPT !.step = "push"] = r
      BY <1>1, <2>4 DEF Work
    <3>3. /\ old.step \in {"push", "drop"}
          /\ r.step = "push" /\ r.job = old.job /\ r.list = old.list
          /\ r = Work(r.step, r.job, r.list, r.at)
      BY <2>4 DEF Work
    <3> HIDE DEF r, old
    <3> QED
      BY <3>1, <3>2, <3>3
  <2> QED
    BY <2>1, <2>2, <2>3, <2>4
<1>3. Found(r)
  <2>1. CASE r = Resting
    BY <2>1 DEF Resting, Work, Found
  <2>2. CASE r # Resting
    BY <1>1, <1>2, <2>2 DEF Found
  <2> QED
    BY <2>1, <2>2
<1>4. Found(r)'
  BY <1>3, FoundStays
<1>5. queue' \in Seq(JobType) /\ dated' \subseteq JobType /\ made' \in Nat
  BY DEF Pool
<1> QED
  BY <1>2, <1>4, <1>5, PoolMoves

------------------------------------------------------------------------------
(* What a step does to the devices, whoever takes it.                      *)
Kind ==
    /\ failed \subseteq failed'
    /\ \/ UNCHANGED OtherVars /\ requests' \in 0 .. MaxRequests
       \/ \E t \in Threads : EndDevice(t) \/ LoseDevice(t)
       \/ \E t \in Threads \ Workers : \E c :
             Began(t, c) /\ c.op \in {"register", "unregister"} /\ requests' \in 0 .. MaxRequests
       \/ \E w \in Workers : \E c :
             /\ Began(w, c) /\ requests' = requests
             /\ c.op \in {"drop", "none"} /\ (c.op = "drop" => c.id \in failed')

LEMMA KindTyped ==
    ASSUME Rows, Transactions, Histories, Kind
    PROVE  Rows' /\ Transactions' /\ Histories' /\ Orderly
<1>1. CASE UNCHANGED OtherVars /\ requests' \in 0 .. MaxRequests
  BY <1>1, QuietTyped
<1>2. CASE \E t \in Threads : EndDevice(t) \/ LoseDevice(t)
  BY <1>2, EndDeviceTyped, LoseDeviceTyped
<1>3. ASSUME NEW t \in Threads, NEW c, Began(t, c), requests' \in 0 .. MaxRequests
      PROVE  Rows' /\ Transactions' /\ Histories' /\ Orderly
  BY <1>3, BeganTyped DEF Histories, Began
<1> QED
  BY <1>1, <1>2, <1>3, WorkersAssumption DEF Kind, Histories

LEMMA RequestsCounted ==
    ASSUME Histories, requests < MaxRequests, requests' = requests + 1
    PROVE  requests' \in 0 .. MaxRequests
BY RequestsAssumption DEF Histories

LEMMA PushFailsTyped ==
    ASSUME Typed, NEW w \in Workers, PushFails(w)
    PROVE  Kind /\ Typed'
<1> DEFINE d == worker[w].list[worker[w].at]
           u == worker[w].job.user
<1>1. worker[w].step = "push" /\ BeginDrop(w, u, d.id, d.token) /\ failed' = failed \cup {d.id}
  BY DEF PushFails
<1>2. worker[w].at \in DOMAIN worker[w].list /\ d # Null
  BY DEF PushFails, AtEnd
<1>3. Found(worker[w])
  BY DEF Typed, Pool
<1>4. u \in Users /\ d.token \in Tokens /\ Bears(d.id, d.token)
  BY <1>1, <1>2, <1>3 DEF Found
<1> HIDE DEF d, u
<1>5. w \in Threads
  BY WorkersAssumption
<1>6. \E c : Began(w, c) /\ c.op \in {"drop", "none"} /\ (c.op = "drop" => c.id = d.id)
  BY <1>1, <1>4, <1>5, BeginDropBegins
<1>7. Kind
  BY <1>1, <1>6 DEF Kind, BeginDrop
<1>8. Rows' /\ Transactions' /\ Histories' /\ Orderly
  BY <1>7, KindTyped DEF Typed
<1>9. Pool'
  BY <1>8, <1>1, Proceeds DEF PushFails, Typed
<1> QED
  BY <1>7, <1>8, <1>9 DEF Typed

LEMMA WorkerStepTyped ==
    ASSUME Typed, NEW w \in Workers, WorkerStep(w)
    PROVE  Kind /\ Typed'
<1>1. CASE Take(w) \/ AddNotification(w)
  BY <1>1, TakeTyped, AddNotificationTyped
     DEF Take, AddNotification, Kind, deviceVars, OtherVars, Typed, Histories
<1>2. CASE FindDevices(w)
  BY <1>2, FindDevicesTyped DEF FindDevices, Kind, deviceVars, OtherVars, Typed, Histories
<1>3. CASE PushFails(w)
  BY <1>3, PushFailsTyped
<1>4. CASE AddFails(w) \/ Push(w) \/ EndJob(w) \/ DropDevice(w) \/ DropFails(w)
  <2>1. Kind
    BY <1>4, WorkersAssumption
       DEF AddFails, Push, EndJob, DropDevice, DropFails, Finish, Kind, deviceVars, OtherVars, Typed, Histories
  <2>2. Rows' /\ Transactions' /\ Histories' /\ Orderly
    BY <2>1, KindTyped DEF Typed
  <2>3. Pool'
    BY <1>4, <2>2, Proceeds DEF AddFails, Push, EndJob, DropDevice, DropFails, Finish, Typed
  <2> QED
    BY <2>1, <2>2, <2>3 DEF Typed
<1> QED
  BY <1>1, <1>2, <1>3, <1>4 DEF WorkerStep

LEMMA DeviceStepTyped ==
    ASSUME Typed, NEW t \in Threads \ Workers, DeviceStep(t)
    PROVE  Kind /\ Typed'
<1>1. Kind
  <2>1. CASE \E u \in Users, k \in Tokens : BeginDevice(t, u, k)
    <3>1. PICK u \in Users, k \in Tokens : BeginDevice(t, u, k)
      BY <2>1
    <3>2. \E c : Began(t, c) /\ c.op \in {"register", "unregister"}
      BY <3>1, BeginDeviceBegins
    <3>3. requests' \in 0 .. MaxRequests /\ failed' = failed
      BY <3>1, RequestsCounted DEF BeginDevice, Typed, DeviceStep, inboxVars
    <3> QED
      BY <3>2, <3>3 DEF Kind
  <2>2. CASE EndDevice(t) \/ LoseDevice(t)
    BY <2>2 DEF Kind, DeviceStep, inboxVars
  <2> QED
    BY <2>1, <2>2 DEF DeviceStep
<1>2. Rows' /\ Transactions' /\ Histories' /\ Orderly
  BY <1>1, KindTyped DEF Typed
<1>3. Pool'
  <2>1. UNCHANGED <<worker, dated, queue, made>>
    BY DEF DeviceStep, inboxVars
  <2>2. queue' \in Seq(JobType) /\ dated' \subseteq JobType /\ made' \in Nat
    BY <2>1 DEF Typed, Pool
  <2> QED
    BY <1>2, <2>1, <2>2, PoolStays DEF Typed
<1> QED
  BY <1>1, <1>2, <1>3 DEF Typed

(* The steps of clients that only concern notifications.                   *)
LEMMA ClientStepTyped ==
    ASSUME Typed, UNCHANGED <<OtherVars, worker, failed>>,
           MoreRequests \/ requests' = requests,
           \/ UNCHANGED <<dated, queue, made>>
           \/ \E u \in Users : dated' = dated \cup {Job(u, made)} /\ queue' = queue /\ made' = made + 1
           \/ \E j \in dated : dated' = dated \ {j} /\ queue' = Append(queue, j) /\ made' = made
    PROVE  Kind /\ Typed'
<1>1. Kind
  BY RequestsCounted DEF Kind, MoreRequests, Typed, Histories
<1>2. Rows' /\ Transactions' /\ Histories' /\ Orderly
  BY <1>1, KindTyped DEF Typed
<1>3. queue' \in Seq(JobType) /\ dated' \subseteq JobType /\ made' \in Nat
  <2>1. queue \in Seq(JobType) /\ dated \subseteq JobType /\ made \in Nat
    BY DEF Typed, Pool
  <2>2. \A u \in Users : Job(u, made) \in JobType
    BY <2>1 DEF Job, JobType
  <2> QED
    BY <2>1, <2>2
<1>4. Pool'
  BY <1>2, <1>3, PoolStays DEF Typed
<1> QED
  BY <1>1, <1>2, <1>4 DEF Typed

LEMMA NextTyped == Typed /\ [Next]_vars => Typed' /\ Kind
<1> SUFFICES ASSUME Typed, [Next]_vars PROVE Kind /\ Typed'
  OBVIOUS
<1>1. CASE \E t \in Threads \ Workers : DeviceStep(t)
  BY <1>1, DeviceStepTyped
<1>2. CASE \E w \in Workers : WorkerStep(w)
  BY <1>2, WorkerStepTyped
<1>3. CASE (\E u \in Users : Notify(u)) \/ \E j \in dated : Execute(j)
  BY <1>3, ClientStepTyped DEF Notify, Execute, OtherVars, deviceVars
<1>4. ASSUME NEW u \in Users, MarkAll(u) \/ \E n \in inbox[u] : MarkOne(u, n) PROVE Kind /\ Typed'
  BY <1>4, ClientStepTyped DEF MarkAll, MarkOne, OtherVars
<1>5. ASSUME NEW u \in Users, \E limit \in Limits : StartReading(u, limit) PROVE Kind /\ Typed'
  BY <1>5, ClientStepTyped DEF StartReading, OtherVars
<1>6. CASE ReadPage
  BY <1>6, ClientStepTyped DEF ReadPage, OtherVars, deviceVars
<1>7. CASE UNCHANGED vars
  BY <1>7, ClientStepTyped DEF vars, inboxVars, OtherVars, deviceVars
<1> QED
  BY <1>1, <1>2, <1>3, <1>4, <1>5, <1>6, <1>7 DEF Next

THEOREM DevicesTyped == Spec => []Typed
BY InitTyped, NextTyped, PTL DEF Spec

(* Devices, their owners and positions are of their types, for any number  *)
(* of registrations and pushes.                                            *)
THEOREM DevicesTypeCorrect == Spec => []DevicesTypeOK
<1>1. ASSUME Typed PROVE DevicesTypeOK
  <2>1. DOMAIN device \subseteq 1 .. nextId - 1
    <3> SUFFICES ASSUME NEW i \in DOMAIN device PROVE i \in 1 .. nextId - 1
      OBVIOUS
    <3>1. i \in Ids /\ i < nextId /\ nextId \in Ids
      BY <1>1 DEF Typed, Rows, Past
    <3> QED
      BY <3>1 DEF Ids
  <2> QED
    BY <1>1, <2>1 DEF Typed, Rows, Histories, DevicesTypeOK, Ids
<1> QED
  BY <1>1, DevicesTyped, PTL

------------------------------------------------------------------------------
(* TokensUnique.  A request that adds a device has found that no row has   *)
(* its token, and if one comes to have it before the request ends, the two *)
(* have overlapped.                                                        *)
Unique ==
    \A k \in Tokens \ raced :
        /\ \A i, j \in WithToken(k) : i = j
        /\ \A t \in Threads : tx[t].op = "register" /\ tx[t].token = k => WithToken(k) = {}

LEMMA EndKeepsUnique ==
    ASSUME Typed, Unique, NEW t \in Threads, EndDevice(t)
    PROVE  Unique'
<1>0. PICK c : c = tx[t]
  OBVIOUS
<1>1. HasRead(c) /\ Writes(c)
  BY <1>0, RowsStored DEF Typed
<1>2. tx'[t].op = "none" /\ \A q \in Threads \ {t} : tx'[q] = tx[q]
  BY DEF EndDevice, Typed, Transactions, NoTx, Tx
<1>3. SUFFICES ASSUME NEW k \in Tokens, k \notin raced'
      PROVE  /\ \A i, j \in WithToken(k)' : i = j
             /\ \A q \in Threads : tx'[q].op = "register" /\ tx'[q].token = k => WithToken(k)' = {}
  BY DEF Unique
<1>4. k \notin raced /\ k \notin RacedWith(t)
  BY <1>3 DEF EndDevice
<1>5. CASE c.op = "register" /\ c.token = k
  <2>1. WithToken(k) = {}
    BY <1>0, <1>4, <1>5 DEF Unique
  <2>2. \A i \in WithToken(k)' : i = c.id
    BY <1>1, <1>5, <2>1 DEF Writes, WithToken
  <2>3. ASSUME NEW q \in Threads, tx'[q].op = "register", tx'[q].token = k PROVE FALSE
    <3>1. q \in Threads \ {t} /\ Open(q) /\ tx[q].token = tx[t].token
      BY <1>0, <1>2, <1>5, <2>3 DEF Open
    <3>2. k \in RacedWith(t)
      BY <1>0, <1>5, <3>1 DEF RacedWith
    <3> QED
      BY <3>2, <1>4
  <2> QED
    BY <2>2, <2>3
<1>6. CASE ~(c.op = "register" /\ c.token = k)
  <2>1. WithToken(k)' \subseteq WithToken(k)
    BY <1>1, <1>6 DEF Writes, WithToken, NewRow
  <2>2. \A q \in Threads : tx'[q].op = "register" => tx'[q] = tx[q]
    BY <1>2
  <2> QED
    BY <2>1, <2>2, <1>4 DEF Unique
<1> QED
  BY <1>5, <1>6

LEMMA KindKeepsUnique == Typed /\ Unique /\ Kind => Unique'
<1> SUFFICES ASSUME Typed, Unique, Kind PROVE Unique'
  OBVIOUS
<1>1. CASE UNCHANGED OtherVars
  BY <1>1 DEF OtherVars, Unique, WithToken
<1>2. ASSUME NEW t \in Threads, EndDevice(t) PROVE Unique'
  BY <1>2, EndKeepsUnique
<1>3. ASSUME NEW t \in Threads, LoseDevice(t) PROVE Unique'
  <2>1. device' = device /\ raced \subseteq raced'
    BY <1>3 DEF LoseDevice
  <2>2. \A q \in Threads : tx'[q].op = "register" => tx'[q] = tx[q]
    BY <1>3 DEF LoseDevice, Typed, Transactions, NoTx, Tx
  <2> QED
    BY <2>1, <2>2 DEF Unique, WithToken
<1>4. ASSUME NEW t \in Threads, NEW c, Began(t, c) PROVE Unique'
  <2>1. device' = device /\ raced' = raced
    BY <1>4 DEF Began
  <2>2. tx'[t] = c /\ \A q \in Threads \ {t} : tx'[q] = tx[q]
    BY <1>4 DEF Began, Typed, Transactions
  <2>3. c.op = "register" => WithToken(c.token) = {}
    BY <1>4 DEF Began, NoTx, Tx
  <2> QED
    BY <2>1, <2>2, <2>3 DEF Unique, WithToken
<1> QED
  BY <1>1, <1>2, <1>3, <1>4, WorkersAssumption DEF Kind

(* A token has one row unless two requests about it overlapped, for any    *)
(* number of users and threads.                                            *)
THEOREM TokensStayUnique == Spec => []TokensUnique
<1>1. Init => Unique
  BY DEF Init, DevicesInit, Unique, WithToken, NoTx, Tx
<1>2. ASSUME Unique, NEW k \in Tokens \ raced PROVE Cardinality(WithToken(k)) <= 1
  <2>1. \A i, j \in WithToken(k) : i = j
    BY <1>2 DEF Unique
  <2>2. CASE WithToken(k) = {}
    BY <2>2, FS_EmptySet
  <2>3. CASE WithToken(k) # {}
    <3>1. PICK i : WithToken(k) = {i}
      BY <2>1, <2>3
    <3> QED
      BY <3>1, FS_Singleton
  <2> QED
    BY <2>2, <2>3
<1>3. Unique => TokensUnique
  BY <1>2 DEF TokensUnique
<1> QED
  BY <1>1, <1>3, NextTyped, KindKeepsUnique, DevicesTyped, PTL DEF Spec

------------------------------------------------------------------------------
(* RemovedForCause.  A thread of the pool only drops devices to which a    *)
(* push failed, and no other thread drops any.                             *)
Causes ==
    \A t \in Threads :
        IF t \in Workers THEN Open(t) => tx[t].op = "drop" /\ tx[t].id \in failed
                         ELSE tx[t].op # "drop"

LEMMA KindKeepsCauses == Typed /\ Causes /\ Kind => Causes'
<1> SUFFICES ASSUME Typed, Causes, Kind PROVE Causes'
  OBVIOUS
<1>1. failed \subseteq failed'
  BY DEF Kind
<1>2. ASSUME \A q \in Threads : tx'[q] = tx[q] \/ tx'[q].op = "none" PROVE Causes'
  BY <1>1, <1>2 DEF Causes, Open
<1>3. CASE UNCHANGED OtherVars
  BY <1>2, <1>3 DEF OtherVars
<1>4. CASE \E t \in Threads : EndDevice(t) \/ LoseDevice(t)
  <2>1. \A q \in Threads : tx'[q] = tx[q] \/ tx'[q].op = "none"
    BY <1>4 DEF EndDevice, LoseDevice, Typed, Transactions, NoTx, Tx
  <2> QED
    BY <2>1, <1>2
<1>5. ASSUME NEW t \in Threads, NEW c, Began(t, c),
             IF t \in Workers THEN c.op \in {"drop", "none"} /\ (c.op = "drop" => c.id \in failed')
                              ELSE c.op \in {"register", "unregister"}
      PROVE  Causes'
  <2>1. tx'[t] = c /\ \A q \in Threads \ {t} : tx'[q] = tx[q]
    BY <1>5 DEF Began, Typed, Transactions
  <2>2. ASSUME NEW q \in Threads
        PROVE  IF q \in Workers THEN tx'[q].op # "none" => tx'[q].op = "drop" /\ tx'[q].id \in failed'
                                ELSE tx'[q].op # "drop"
    <3>1. CASE q = t
      BY <3>1, <2>1, <1>5
    <3>2. CASE q # t
      BY <3>2, <2>1, <1>1 DEF Causes, Open
    <3> QED
      BY <3>1, <3>2
  <2> QED
    BY <2>2 DEF Causes, Open
<1> QED
  BY <1>3, <1>4, <1>5, WorkersAssumption DEF Kind

(* A device goes only when its user unregisters it or a push to it failed, *)
(* for any number of threads and pushes.                                   *)
THEOREM OnlyRemovedForCause == Spec => RemovedForCause
<1>1. Init => Causes
  BY DEF Init, DevicesInit, Causes, Open, NoTx, Tx
<1>2. ASSUME Typed, Causes, [Next]_vars
      PROVE  [\A i \in DOMAIN device \ DOMAIN device' :
                \/ i \in failed
                \/ \E t \in Threads \ Workers : tx[t].op = "unregister" /\ tx[t].id = i]_vars
  <2> SUFFICES ASSUME NEW i \in DOMAIN device \ DOMAIN device'
               PROVE  \/ i \in failed
                      \/ \E t \in Threads \ Workers : tx[t].op = "unregister" /\ tx[t].id = i
    OBVIOUS
  <2>1. Kind
    BY <1>2, NextTyped
  <2>2. PICK t \in Threads : EndDevice(t)
    BY <2>1 DEF Kind, OtherVars, LoseDevice, Began
  <2>3. PICK c : c = tx[t]
    OBVIOUS
  <2>4. HasRead(c) /\ Writes(c)
    BY <2>2, <2>3, <1>2, RowsStored DEF Typed
  <2>5. c.op \in {"unregister", "drop"} /\ i = c.id
    BY <2>4 DEF Writes, HasRead, Ops, Removed
  <2> QED
    BY <2>3, <2>5, <1>2 DEF Causes, Open
<1> QED
  BY <1>1, <1>2, NextTyped, KindKeepsCauses, DevicesTyped, PTL DEF Spec, RemovedForCause

------------------------------------------------------------------------------
(* DevicesKept.  As long as no two transactions on the devices of u have   *)
(* overlapped, they are the elements of a list with their positions in it, *)
(* and each transaction on them has read that list.                        *)
Ordered(L, u) ==
    /\ L \in Seq(Ids)
    /\ \A k \in DOMAIN L : L[k] \in Mine(u) /\ device[L[k]].key = k
    /\ \A i \in Mine(u) : device[i].key \in DOMAIN L /\ L[device[i].key] = i

(* Each has a token of its own, and the answers have promised those.       *)
Promised(u) ==
    /\ held[u] = {device[i].token : i \in Mine(u)}
    /\ \A i, j \in Mine(u) : device[i].token = device[j].token => i = j

KeptInv ==
    /\ \A u \in Users \ raced : Promised(u) /\ \E L : Ordered(L, u)
    /\ \A t \in Threads : Open(t) /\ tx[t].user \notin raced =>
          /\ Ordered(tx[t].old, tx[t].user)
          /\ tx[t].op = "register" => WithToken(tx[t].token) = {}

LEMMA OrderedIsRead ==
    ASSUME NEW u, NEW L, Ordered(L, u), NEW M \in Lists(RowsOfUser(u))
    PROVE  M = L
<1>1. RowsOfUser(u) = {Row(device[i].key, i, 1) : i \in Mine(u)}
  BY DEF RowsOfUser, Mine
<1>2. \A k \in DOMAIN L : Row(k, L[k], 1) \in RowsOfUser(u)
  BY <1>1 DEF Ordered
<1>3. \A i \in Mine(u) : Row(device[i].key, i, 1) \in RowsOf(L)
  BY DEF Ordered, RowsOf
<1>4. RowsOfUser(u) = RowsOf(L)
  BY <1>1, <1>2, <1>3 DEF RowsOf
<1> QED
  BY <1>4, ReadBack DEF Ordered

LEMMA OrderedDistinct ==
    ASSUME NEW u, NEW L, Ordered(L, u)
    PROVE  Distinct(L) /\ Values(L) = Mine(u)
BY DEF Ordered, Distinct, Values

(* A transaction writes no row of another user.                            *)
LEMMA OthersUntouched ==
    ASSUME Rows, NEW c, HasRead(c), Writes(c), NEW u, u # c.user
    PROVE  Mine(u)' = Mine(u) /\ \A i \in Mine(u) : device'[i] = device[i]
<1>1. \A k \in DOMAIN c.old : c.old[k] \notin Mine(u) \/ c.old[k] = Null
  BY DEF HasRead, Of, Mine
<1>2. ASSUME NEW i \in Mine(u) PROVE i \notin Removed(c) \cup Moved(c)
  <2>1. i \in DOMAIN device /\ i \in Ids /\ i # Null
    BY NoneAssumption DEF Mine, Rows, Past, Ids
  <2>2. \A k \in DOMAIN c.old : c.old[k] # i
    BY <1>1, <1>2, <2>1
  <2>3. CASE c.op = "register"
    <3>1. Removed(c) = {}
      BY <2>3 DEF Removed
    <3>2. \A k \in DOMAIN c.new : k \in DOMAIN c.old => c.new[k] = c.old[k]
      BY <2>3 DEF HasRead
    <3> QED
      BY <3>1, <3>2 DEF Moved
  <2>4. CASE c.op # "register"
    <3>1. Has(c.old, c.id) /\ c.new = Without(c.old, c.id)
      BY <2>4 DEF HasRead
    <3>2. \A k \in DOMAIN c.new : \E j \in DOMAIN c.old : c.new[k] = c.old[j]
      BY <3>1, WithoutElements DEF HasRead
    <3>3. i # c.id
      BY <2>2, <3>1 DEF Has
    <3> QED
      BY <2>2, <3>2, <3>3 DEF Moved, Removed
  <2> QED
    BY <2>3, <2>4
<1>3. \A i \in Mine(u) : i \in DOMAIN device' /\ device'[i] = device[i]
  BY <1>2 DEF Writes, Mine
<1>4. ASSUME NEW i \in DOMAIN device', device'[i].user = u PROVE i \in Mine(u)
  <2>1. CASE i \in DOMAIN device \ Removed(c)
    BY <2>1, <1>4 DEF Writes, Mine
  <2>2. CASE c.op = "register" /\ i = c.id
    BY <2>2, <1>4 DEF Writes, NewRow
  <2> QED
    BY <2>1, <2>2 DEF Writes
<1> QED
  BY <1>3, <1>4 DEF Mine

(* Writing the difference to a list that is stored as it was read.         *)
LEMMA AddedInOrder ==
    ASSUME Rows, NEW c, HasRead(c), Writes(c), c.op = "register", Ordered(c.old, c.user)
    PROVE  /\ Ordered(c.new, c.user)'
           /\ Mine(c.user)' = Mine(c.user) \cup {c.id}
           /\ \A i \in Mine(c.user) : device'[i] = device[i]
<1> DEFINE L == c.old
           n == Len(c.old) + 1
<1>1. L \in Seq(Ids) /\ c.id \in Ids /\ c.new = Append(L, c.id)
  BY DEF HasRead, Ordered
<1>2. /\ c.new \in Seq(Ids) /\ DOMAIN c.new = 1 .. n /\ Len(c.new) = n
      /\ \A k \in 1 .. n : c.new[k] = IF k = n THEN c.id ELSE L[k]
      /\ DOMAIN L = 1 .. n - 1 /\ n \in Ids
  BY <1>1 DEF Ids
<1> HIDE DEF n
<1>3. Moved(c) = {} /\ Removed(c) = {}
  BY <1>2 DEF Moved, Removed
<1>4. /\ DOMAIN device' = DOMAIN device \cup {c.id} /\ c.id \notin DOMAIN device
      /\ \A i \in DOMAIN device : device'[i] = device[i]
      /\ device'[c.id].user = c.user /\ device'[c.id].key = n
  BY <1>2, <1>3 DEF Writes, NewRow
<1>5. Mine(c.user)' = Mine(c.user) \cup {c.id} /\ \A i \in Mine(c.user) : device'[i] = device[i]
  BY <1>4 DEF Mine
<1>6. \A k \in DOMAIN c.new : c.new[k] \in Mine(c.user)' /\ device'[c.new[k]].key = k
  <2> TAKE k \in DOMAIN c.new
  <2>1. CASE k = n
    BY <2>1, <1>2, <1>4, <1>5
  <2>2. CASE k # n
    <3>1. k \in DOMAIN L /\ c.new[k] = L[k] 
      BY <2>2, <1>2
    <3> QED
      BY <3>1, <1>5 DEF Ordered
  <2> QED
    BY <2>1, <2>2
<1>7. \A i \in Mine(c.user)' : device'[i].key \in DOMAIN c.new /\ c.new[device'[i].key] = i
  <2>1. ASSUME NEW i \in Mine(c.user) PROVE device[i].key \in DOMAIN c.new /\ c.new[device[i].key] = i
    <3>1. device[i].key \in DOMAIN L /\ L[device[i].key] = i
      BY DEF Ordered
    <3> QED
      BY <3>1, <1>2 DEF Ids
  <2>2. n \in DOMAIN c.new /\ c.new[n] = c.id
    BY <1>2 DEF Ids
  <2>3. \A i \in Mine(c.user) : device'[i].key \in DOMAIN c.new /\ c.new[device'[i].key] = i
    BY <2>1, <1>5
  <2>4. device'[c.id].key \in DOMAIN c.new /\ c.new[device'[c.id].key] = c.id
    BY <2>2, <1>4
  <2> QED
    BY <2>3, <2>4, <1>5
<1> QED
  BY <1>2, <1>5, <1>6, <1>7 DEF Ordered

LEMMA RemovedInOrder ==
    ASSUME Rows, NEW c, HasRead(c), Writes(c), c.op # "register", Ordered(c.old, c.user)
    PROVE  /\ Ordered(c.new, c.user)'
           /\ Mine(c.user)' = Mine(c.user) \ {c.id} /\ c.id \in Mine(c.user)
           /\ \A i \in Mine(c.user) \ {c.id} : device'[i].token = device[i].token
<1> DEFINE L == c.old
           M == c.new
           u == c.user
<1>1. L \in Seq(Ids) /\ Distinct(L) /\ Values(L) = Mine(u) /\ Has(L, c.id) /\ M = Without(L, c.id)
  BY OrderedDistinct DEF HasRead, Ordered
<1>2. M \in Seq(Ids) /\ Distinct(M) /\ Values(M) = Mine(u) \ {c.id}
  BY <1>1, WithoutDistinct
<1>3. DOMAIN M \subseteq DOMAIN L
  <2>1. DOMAIN M = 1 .. Len(L) - 1 /\ DOMAIN L = 1 .. Len(L) /\ Len(L) \in Nat
    BY <1>1 DEF Without
  <2> QED
    BY <2>1
<1>4. c.id \in Mine(u)
  BY <1>1 DEF Values, Has
<1>5. /\ Removed(c) = {c.id}
      /\ DOMAIN device' = DOMAIN device \ {c.id}
      /\ \A i \in DOMAIN device \ {c.id} :
            /\ device'[i].user = device[i].user /\ device'[i].token = device[i].token
            /\ i \notin Moved(c) => device'[i] = device[i]
            /\ i \in Moved(c) =>
                  device'[i].key \in DOMAIN M /\ M[device'[i].key] = i
  BY DEF Writes, Removed
<1>6. Mine(u)' = Mine(u) \ {c.id}
  BY <1>5 DEF Mine
<1>7. \A i \in Mine(u)' : device'[i].key \in DOMAIN M /\ M[device'[i].key] = i
  <2> TAKE i \in Mine(u)'
  <2>1. i \in Mine(u) /\ i # c.id /\ i \in DOMAIN device \ {c.id}
    BY <1>6 DEF Mine
  <2>2. CASE i \in Moved(c)
    BY <2>1, <2>2, <1>5
  <2>3. CASE i \notin Moved(c)
    <3>1. PICK k \in DOMAIN M : M[k] = i
      BY <2>1, <1>2 DEF Values
    <3>2. i # Null
      BY <3>1, <1>2, NoneAssumption DEF Ids
    <3>3. k \in DOMAIN L /\ L[k] = i
      BY <3>1, <3>2, <2>3, <1>3 DEF Moved
    <3>4. device'[i].key = k
      BY <3>3, <2>1, <2>3, <1>5 DEF Ordered
    <3> QED
      BY <3>1, <3>4
  <2> QED
    BY <2>2, <2>3
<1>8. \A k \in DOMAIN M : M[k] \in Mine(u)' /\ device'[M[k]].key = k
  <2> TAKE k \in DOMAIN M
  <2>1. M[k] \in Mine(u)'
    BY <1>2, <1>6 DEF Values
  <2>2. device'[M[k]].key \in DOMAIN M /\ M[device'[M[k]].key] = M[k]
    BY <2>1, <1>7
  <2> QED
    BY <2>1, <2>2, <1>2 DEF Distinct
<1>9. \A i \in Mine(u) \ {c.id} : device'[i].token = device[i].token
  BY <1>5 DEF Mine
<1> QED
  BY <1>2, <1>4, <1>6, <1>7, <1>8, <1>9 DEF Ordered

LEMMA UntouchedStaysOrdered ==
    ASSUME NEW u, NEW L, Ordered(L, u),
           Mine(u)' = Mine(u), \A i \in Mine(u) : device'[i] = device[i]
    PROVE  Ordered(L, u)'
BY DEF Ordered

LEMMA EndKeepsPromises ==
    ASSUME Typed, KeptInv, NEW t \in Threads, EndDevice(t), NEW c, c = tx[t], c.user \notin raced
    PROVE  Promised(c.user)' /\ Ordered(c.new, c.user)'
<1>1. HasRead(c) /\ Writes(c) /\ Rows /\ c.user \in Users /\ c.token \in Tokens
  BY RowsStored DEF Typed, HasRead
<1>2. /\ Ordered(c.old, c.user) /\ Promised(c.user)
      /\ c.op = "register" => WithToken(c.token) = {}
  BY <1>1 DEF KeptInv, EndDevice
<1>3. held'[c.user] = IF c.op = "register" THEN held[c.user] \cup {c.token} ELSE held[c.user] \ {c.token}
  BY <1>1 DEF EndDevice, Typed, Histories
<1>4. CASE c.op = "register"
  <2>1. /\ Ordered(c.new, c.user)'
        /\ Mine(c.user)' = Mine(c.user) \cup {c.id}
        /\ \A i \in Mine(c.user) : device'[i] = device[i]
    BY <1>1, <1>2, <1>4, AddedInOrder
  <2>2. device'[c.id].token = c.token
    BY <1>1, <1>4 DEF Writes, NewRow
  <2>3. \A i \in Mine(c.user) : device[i].token # c.token
    BY <1>2, <1>4 DEF Mine, WithToken
  <2>4. {device'[i].token : i \in Mine(c.user)'} = {device[i].token : i \in Mine(c.user)} \cup {c.token}
    BY <2>1, <2>2
  <2>5. \A i, j \in Mine(c.user)' : device'[i].token = device'[j].token => i = j
    BY <1>2, <2>1, <2>2, <2>3 DEF Promised
  <2> QED
    BY <1>2, <1>3, <1>4, <2>1, <2>4, <2>5 DEF Promised
<1>5. CASE c.op # "register"
  <2>1. /\ Ordered(c.new, c.user)'
        /\ Mine(c.user)' = Mine(c.user) \ {c.id} /\ c.id \in Mine(c.user)
        /\ \A i \in Mine(c.user) \ {c.id} : device'[i].token = device[i].token
    BY <1>1, <1>2, <1>5, RemovedInOrder
  <2>2. device[c.id].token = c.token
    BY <1>1, <1>5, <2>1 DEF HasRead, Bears, Mine
  <2>3. \A i \in Mine(c.user) \ {c.id} : device[i].token # c.token
    BY <1>2, <2>1, <2>2 DEF Promised
  <2>4. {device'[i].token : i \in Mine(c.user)'} = {device[i].token : i \in Mine(c.user)} \ {c.token}
    BY <2>1, <2>2, <2>3
  <2>5. \A i, j \in Mine(c.user)' : device'[i].token = device'[j].token => i = j
    BY <1>2, <2>1 DEF Promised
  <2> QED
    BY <1>2, <1>3, <1>5, <2>1, <2>4, <2>5 DEF Promised
<1> QED
  BY <1>4, <1>5

LEMMA EndKeepsKept ==
    ASSUME Typed, KeptInv, NEW t \in Threads, EndDevice(t)
    PROVE  KeptInv'
<1>0. PICK c : c = tx[t]
  OBVIOUS
<1>1. HasRead(c) /\ Writes(c) /\ Rows /\ c.user \in Users
  BY <1>0, RowsStored DEF Typed, HasRead
<1>2. tx'[t].op = "none" /\ \A q \in Threads \ {t} : tx'[q] = tx[q]
  BY DEF EndDevice, Typed, Transactions, NoTx, Tx
<1>3. \A u \in Users : u # c.user => held'[u] = held[u]
  BY <1>0, <1>1 DEF EndDevice, Typed, Histories
<1>4. raced' = raced \cup RacedWith(t)
  BY DEF EndDevice
<1>5. ASSUME NEW u \in Users \ raced' PROVE Promised(u)' /\ \E L : Ordered(L, u)'
  <2>1. CASE u = c.user
    BY <2>1, <1>0, <1>4, EndKeepsPromises
  <2>2. CASE u # c.user
    <3>1. Mine(u)' = Mine(u) /\ \A i \in Mine(u) : device'[i] = device[i]
      BY <1>1, <2>2, OthersUntouched
    <3>2. Promised(u) /\ \E L : Ordered(L, u)
      BY <1>4 DEF KeptInv
    <3> QED
      BY <3>1, <3>2, <2>2, <1>3, UntouchedStaysOrdered DEF Promised
  <2> QED
    BY <2>1, <2>2
<1>6. ASSUME NEW q \in Threads, NEW d, d = tx'[q], d.op # "none", d.user \notin raced'
      PROVE  /\ Ordered(d.old, d.user)'
             /\ d.op = "register" => WithToken(d.token)' = {}
  <2>1. q # t /\ d = tx[q] /\ Open(q) /\ d.user \notin raced /\ d.user \notin RacedWith(t)
    BY <1>2, <1>4, <1>6 DEF Open
  <2>2. d.user # c.user /\ d.token # c.token
    BY <2>1, <1>0 DEF RacedWith
  <2>3. Ordered(d.old, d.user) /\ (d.op = "register" => WithToken(d.token) = {})
    BY <2>1 DEF KeptInv
  <2>4. Ordered(d.old, d.user)'
    BY <1>1, <2>2, <2>3, OthersUntouched, UntouchedStaysOrdered
  <2>5. WithToken(d.token)' \subseteq WithToken(d.token)
    BY <1>1, <2>2 DEF Writes, WithToken, NewRow
  <2> QED
    BY <2>3, <2>4, <2>5
<1>7. ASSUME NEW q \in Threads, Open(q)', tx'[q].user \notin raced'
      PROVE  /\ Ordered(tx[q].old, tx[q].user)'
             /\ tx'[q].op = "register" => WithToken(tx[q].token)' = {}
  <2>1. PICK d : d = tx'[q]
    OBVIOUS
  <2>2. Ordered(d.old, d.user)' /\ (d.op = "register" => WithToken(d.token)' = {})
    BY <1>6, <1>7, <2>1 DEF Open
  <2> QED
    BY <2>1, <2>2 DEF Ordered, Mine, WithToken
<1> QED
  BY <1>5, <1>7 DEF KeptInv

LEMMA KindKeepsKept == Typed /\ KeptInv /\ Kind => KeptInv'
<1> SUFFICES ASSUME Typed, KeptInv, Kind PROVE KeptInv'
  OBVIOUS
<1>1. ASSUME device' = device, held' = held, raced \subseteq raced'
      PROVE  \A u \in Users \ raced' : Promised(u)' /\ \E L : Ordered(L, u)'
  <2> TAKE u \in Users \ raced'
  <2>1. Promised(u) /\ \E L : Ordered(L, u)
    BY <1>1 DEF KeptInv
  <2>2. Mine(u)' = Mine(u)
    BY <1>1 DEF Mine
  <2>3. Promised(u)'
    BY <1>1, <2>1, <2>2 DEF Promised
  <2>4. \E L : Ordered(L, u)'
    BY <1>1, <2>1, <2>2 DEF Ordered
  <2> QED
    BY <2>3, <2>4
<1>2. ASSUME device' = device, held' = held, raced \subseteq raced',
             \A q \in Threads : tx'[q] = tx[q] \/ tx'[q].op = "none"
      PROVE  KeptInv'
  <2>1. ASSUME NEW q \in Threads, Open(q)', tx'[q].user \notin raced'
        PROVE  /\ Ordered(tx[q].old, tx[q].user)'
               /\ tx'[q].op = "register" => WithToken(tx[q].token)' = {}
    <3>1. tx'[q] = tx[q] /\ Open(q) /\ tx[q].user \notin raced
      BY <1>2, <2>1 DEF Open
    <3>2. Ordered(tx[q].old, tx[q].user) /\ (tx[q].op = "register" => WithToken(tx[q].token) = {})
      BY <3>1 DEF KeptInv
    <3> QED
      BY <3>1, <3>2, <1>2 DEF Ordered, Mine, WithToken
  <2> QED
    BY <1>1, <1>2, <2>1 DEF KeptInv
<1>3. CASE UNCHANGED OtherVars
  BY <1>2, <1>3 DEF OtherVars
<1>4. ASSUME NEW t \in Threads, EndDevice(t) PROVE KeptInv'
  BY <1>4, EndKeepsKept
<1>5. ASSUME NEW t \in Threads, LoseDevice(t) PROVE KeptInv'
  <2>1. \A q \in Threads : tx'[q] = tx[q] \/ tx'[q].op = "none"
    BY <1>5 DEF LoseDevice, Typed, Transactions, NoTx, Tx
  <2> QED
    BY <1>2, <1>5, <2>1 DEF LoseDevice
<1>6. ASSUME NEW t \in Threads, NEW c, Began(t, c) PROVE KeptInv'
  <2>1. device' = device /\ held' = held /\ raced' = raced
    BY <1>6 DEF Began
  <2>2. tx'[t] = c /\ \A q \in Threads \ {t} : tx'[q] = tx[q]
    BY <1>6 DEF Began, Typed, Transactions
  <2>3. ASSUME c.op # "none", c.user \notin raced
        PROVE  Ordered(c.old, c.user) /\ (c.op = "register" => WithToken(c.token) = {})
    <3>1. c.user \in Users /\ c.old \in Lists(RowsOfUser(c.user))
      BY <1>6, <2>3 DEF Began, NoTx, Tx, Ops
    <3>2. PICK L : Ordered(L, c.user)
      BY <2>3, <3>1 DEF KeptInv
    <3>3. Ordered(c.old, c.user)
      BY <3>1, <3>2, OrderedIsRead
    <3> QED
      BY <3>3, <1>6 DEF Began, NoTx, Tx
  <2>4. ASSUME NEW q \in Threads, Open(q)', tx'[q].user \notin raced'
        PROVE  /\ Ordered(tx[q].old, tx[q].user)'
               /\ tx'[q].op = "register" => WithToken(tx[q].token)' = {}
    <3>1. CASE q = t
      BY <3>1, <2>1, <2>2, <2>3, <2>4 DEF Open, Ordered, Mine, WithToken
    <3>2. CASE q # t
      <4>1. tx'[q] = tx[q] /\ Open(q) /\ tx[q].user \notin raced
        BY <3>2, <2>1, <2>2, <2>4 DEF Open
      <4>2. Ordered(tx[q].old, tx[q].user) /\ (tx[q].op = "register" => WithToken(tx[q].token) = {})
        BY <4>1 DEF KeptInv
      <4> QED
        BY <4>1, <4>2, <2>1 DEF Ordered, Mine, WithToken
    <3> QED
      BY <3>1, <3>2
  <2> QED
    BY <1>1, <2>1, <2>4 DEF KeptInv
<1> QED
  BY <1>3, <1>4, <1>5, <1>6, WorkersAssumption DEF Kind

LEMMA KeptEnough == KeptInv /\ Histories => DevicesKept
<1> SUFFICES ASSUME KeptInv, Histories PROVE DevicesKept
  OBVIOUS
<1>1. ASSUME NEW u \in Users \ raced
      PROVE  /\ {device[i].key : i \in Mine(u)} = 1 .. Cardinality(Mine(u))
             /\ {device[i].token : i \in Mine(u)} = held[u]
             /\ Cardinality(Mine(u)) = Cardinality(held[u])
  <2>1. PICK L : Ordered(L, u)
    BY DEF KeptInv
  <2>2. Promised(u)
    BY DEF KeptInv
  <2>3. L \in [1 .. Len(L) -> Mine(u)] /\ Len(L) \in Nat /\ DOMAIN L = 1 .. Len(L)
    BY <2>1 DEF Ordered
  <2>4. L \in Bijection(1 .. Len(L), Mine(u))
    <3>1. L \in Injection(1 .. Len(L), Mine(u))
      BY <2>1, <2>3, OrderedDistinct DEF Injection, IsInjective, Distinct
    <3>2. L \in Surjection(1 .. Len(L), Mine(u))
      BY <2>1, <2>3 DEF Surjection, Ordered
    <3> QED
      BY <3>1, <3>2 DEF Bijection
  <2>5. Cardinality(Mine(u)) = Len(L) /\ IsFiniteSet(Mine(u))
    BY <2>3, <2>4, FS_CountingElements, FS_NatBijection DEF ExistsBijection
  <2>6. {device[i].key : i \in Mine(u)} = 1 .. Len(L)
    BY <2>1, <2>3 DEF Ordered
  <2> DEFINE f == [i \in Mine(u) |-> device[i].token]
  <2>7. f \in Bijection(Mine(u), held[u])
    BY <2>2 DEF Promised, Bijection, Injection, Surjection, IsInjective
  <2>8. Cardinality(Mine(u)) = Cardinality(held[u])
    BY <2>5, <2>7, FS_Bijection DEF ExistsBijection
  <2> QED
    BY <2>2, <2>5, <2>6, <2>8 DEF Promised
<1> QED
  BY <1>1 DEF DevicesKept, Mine

(* A user's list of devices holds each token once and without a gap unless *)
(* transactions overlapped, for any number of users, tokens and threads.   *)
THEOREM DevicesStayKept == Spec => []DevicesKept
<1>1. ASSUME Init PROVE KeptInv
  <2>1. \A u : Mine(u) = {}
    BY <1>1 DEF Init, DevicesInit, Mine
  <2>2. \A u : Ordered(<<>>, u)
    BY <2>1 DEF Ordered
  <2>3. \A u \in Users : Promised(u)
    BY <1>1, <2>1 DEF Promised, Init, DevicesInit
  <2> QED
    BY <1>1, <2>2, <2>3 DEF KeptInv, Init, DevicesInit, Open, NoTx, Tx
<1>2. Typed => Histories
  BY DEF Typed
<1> QED
  BY <1>1, <1>2, NextTyped, KindKeepsKept, KeptEnough, DevicesTyped, PTL DEF Spec

------------------------------------------------------------------------------
(* The notifications of a user have different dates, and so have those     *)
(* that wait: created only, in the queue, or with a thread that will add   *)
(* them.  What is marked keeps its date.                                   *)
InBox(rows) ==
    /\ Dated(rows)
    /\ \A n \in rows : n = Row0(n.at, n.read) /\ n.read \in BOOLEAN /\ n.at < made
Fresh(at) == at \in Nat /\ at < made /\ \A u \in Users : at \notin Dates(inbox[u])
Adding == {w \in Workers : worker[w].step = "adding"}
Waiting ==
    /\ \A j \in dated : Fresh(j.at)
    /\ \A i \in DOMAIN queue : Fresh(queue[i].at)
    /\ \A w \in Adding : Fresh(worker[w].job.at)
Apart ==
    /\ \A j, k \in dated : j # k => j.at # k.at
    /\ \A i, k \in DOMAIN queue : i # k => queue[i].at # queue[k].at
    /\ \A v, w \in Adding : v # w => worker[v].job.at # worker[w].job.at
    /\ \A j \in dated, i \in DOMAIN queue : j.at # queue[i].at
    /\ \A j \in dated, w \in Adding : j.at # worker[w].job.at
    /\ \A i \in DOMAIN queue, w \in Adding : queue[i].at # worker[w].job.at
Mail ==
    /\ inbox = [u \in Users |-> inbox[u]]
    /\ \A u \in Users : InBox(inbox[u])
    /\ Waiting /\ Apart

LEMMA Marking ==
    ASSUME NEW rows, NEW some \in SUBSET rows, InBox(rows),
           NEW new, new = (rows \ some) \cup {Row0(n.at, TRUE) : n \in some}
    PROVE  InBox(new) /\ Dates(new) = Dates(rows)
<1> DEFINE marked == {Row0(n.at, TRUE) : n \in some}
<1>1. /\ \A r \in marked : r = Row0(r.at, TRUE) /\ r.read = TRUE /\ \E n \in some : r.at = n.at
      /\ \A n \in some : \E r \in marked : r.at = n.at
  <2>1. \A at : Row0(at, TRUE).at = at /\ Row0(at, TRUE).read = TRUE
    BY DEF Row0
  <2> QED
    BY <2>1
<1>0. new = (rows \ some) \cup marked
  OBVIOUS
<1> HIDE DEF marked
<1>2. Dates(new) = Dates(rows)
  <2>1. ASSUME NEW r \in new PROVE \E n \in rows : n.at = r.at
    BY <1>0, <1>1
  <2>2. ASSUME NEW n \in rows PROVE \E r \in new : r.at = n.at
    <3>1. CASE n \in some
      BY <1>0, <1>1, <3>1
    <3>2. CASE n \notin some
      BY <1>0, <3>2
    <3> QED
      BY <3>1, <3>2
  <2>3. Dates(new) \subseteq Dates(rows)
    BY ONLY <2>1 DEF Dates
  <2>4. Dates(rows) \subseteq Dates(new)
    BY ONLY <2>2 DEF Dates
  <2> QED
    BY ONLY <2>3, <2>4
<1>3. \A r, q \in new : r.at = q.at => r = q
  <2> SUFFICES ASSUME NEW r \in new, NEW q \in new, r.at = q.at PROVE r = q
    OBVIOUS
  <2>1. CASE r \in rows \ some /\ q \in rows \ some
    BY <2>1 DEF InBox, Dated
  <2>2. CASE r \in marked /\ q \in marked
    BY <1>1, <2>2
  <2>3. ASSUME NEW n \in rows \ some, NEW m \in marked, n.at = m.at PROVE FALSE
    <3>1. PICK k \in some : k.at = m.at
      BY <1>1
    <3> QED
      BY <2>3, <3>1 DEF InBox, Dated
  <2> QED
    BY <1>0, <2>1, <2>2, <2>3
<1>4. IsFiniteSet(new)
  <2> DEFINE f == [r \in new |-> r.at]
  <2>1. f \in Injection(new, Dates(rows))
    BY <1>2, <1>3 DEF Injection, IsInjective, Dates
  <2> QED
    BY <2>1, DatesFinite, FS_Injection DEF InBox
<1>5. \A n \in new : n.at \in Nat /\ n.at < made /\ n = Row0(n.at, n.read) /\ n.read \in BOOLEAN
  <2>1. \A n \in rows : n.at \in Nat /\ n.at < made /\ n = Row0(n.at, n.read) /\ n.read \in BOOLEAN
    BY DEF InBox, Dated
  <2> QED
    BY <1>0, <1>1, <2>1
<1> QED
  BY <1>2, <1>3, <1>4, <1>5 DEF InBox, Dated

LEMMA AddingOne ==
    ASSUME NEW rows, InBox(rows), NEW at \in Nat, at < made, at \notin Dates(rows),
           NEW new, new = rows \cup {Row0(at, FALSE)}
    PROVE  InBox(new) /\ Dates(new) = Dates(rows) \cup {at}
<1>1. PICK n : n = Row0(at, FALSE)
  OBVIOUS
<1>2. n.at = at /\ n.read = FALSE /\ n = Row0(n.at, n.read)
  BY <1>1 DEF Row0
<1>3. new = rows \cup {n}
  BY <1>1
<1>4. IsFiniteSet(new)
  <2>1. IsFiniteSet(rows)
    BY DEF InBox, Dated
  <2>2. IsFiniteSet(rows \cup {n})
    BY <2>1, FS_AddElement
  <2> QED
    BY <1>3, <2>2
<1>5. \A r \in rows : r.at # at
  BY DEF Dates
<1>6. \A r, q \in new : r.at = q.at => r = q
  BY <1>2, <1>3, <1>5 DEF InBox, Dated
<1>7. \A r \in new : r.at \in Nat /\ r.at < made /\ r = Row0(r.at, r.read) /\ r.read \in BOOLEAN
  BY <1>2, <1>3 DEF InBox, Dated
<1>8. Dates(new) = Dates(rows) \cup {at}
  BY <1>2, <1>3 DEF Dates
<1> QED
  BY <1>4, <1>6, <1>7, <1>8 DEF InBox, Dated

LEMMA SequenceElements ==
    ASSUME NEW S, NEW s \in Seq(S)
    PROVE  \A i \in DOMAIN s : s[i] \in S
OBVIOUS

(* What a page holds.                                                      *)
LEMMA PageHolds ==
    ASSUME NEW S, NEW s \in Seq(S), NEW o \in Nat, NEW limit \in Ints \cup {Absent},
           NEW p, p = Page(s, o, limit)
    PROVE  /\ Limit(limit) \in Int /\ Len(p) \in Nat
           /\ Ext!ToSet(p) \subseteq {s[i] : i \in DOMAIN s}
           /\ \A i \in DOMAIN s :
                 o < i /\ (Len(p) = Limit(limit) => i <= o + Limit(limit)) => s[i] \in Ext!ToSet(p)
<1> USE PageAssumption
<1>1. Skipped(o) = o
  BY DEF Skipped, Offset, Abs
<1>2. Limit(limit) \in Int
  BY DEF Limit, Abs, Ints
<1>3. PICK e : e = PageEnd(s, o, limit)
  OBVIOUS
<1>4. /\ e \in Int /\ e <= Len(s)
      /\ e # Len(s) => Limit(limit) > 0 /\ e = o + Limit(limit)
      /\ Limit(limit) > 0 => e <= o + Limit(limit)
  BY <1>1, <1>2, <1>3 DEF PageEnd
<1>5. p = SubSeq(s, o + 1, e)
  BY <1>1, <1>3 DEF Page
<1>6. /\ p \in Seq(S) /\ Len(p) = IF o + 1 <= e THEN e - o ELSE 0
      /\ \A i \in 1 .. e - o : p[i] = s[i + o]
  <2>1. PICK m \in Int : m = o + 1
    OBVIOUS
  <2>2. \A i \in m .. e : s[i] \in S
    BY <1>4, <2>1
  <2>3. /\ p \in Seq(S) /\ Len(p) = IF m <= e THEN e - m + 1 ELSE 0
        /\ \A i \in 1 .. e - m + 1 : p[i] = s[m + i - 1]
    BY <1>4, <1>5, <2>1, <2>2, SubSeqProperties
  <2>4. e - m + 1 = e - o
    BY <1>4, <2>1
  <2>5. ASSUME NEW i \in 1 .. e - o PROVE p[i] = s[i + o]
    <3>1. i \in 1 .. e - m + 1 /\ m + i - 1 = i + o
      BY <1>4, <2>1
    <3>2. p[i] = s[m + i - 1]
      BY <2>3, <3>1
    <3> QED
      BY ONLY <3>1, <3>2
  <2> QED
    BY ONLY <2>1, <2>3, <2>4, <2>5
<1>7. DOMAIN p = 1 .. e - o
  BY <1>4, <1>6
<1>8. Ext!ToSet(p) = {p[i] : i \in 1 .. e - o}
  BY <1>7 DEF Ext!ToSet
<1>9. Ext!ToSet(p) \subseteq {s[i] : i \in DOMAIN s}
  <2> SUFFICES ASSUME NEW i \in 1 .. e - o PROVE i + o \in DOMAIN s /\ p[i] = s[i + o]
    BY <1>8
  <2> QED
    BY <1>4, <1>6
<1>10. Len(p) = IF e > o THEN e - o ELSE 0
  BY <1>4, <1>6
<1>11. ASSUME NEW i \in DOMAIN s, o < i, Len(p) = Limit(limit) => i <= o + Limit(limit)
       PROVE  s[i] \in Ext!ToSet(p)
  <2>1. i <= e
    BY <1>2, <1>4, <1>10, <1>11
  <2>2. i - o \in 1 .. e - o /\ p[i - o] = s[i]
    BY <1>4, <1>6, <1>11, <2>1
  <2> QED
    BY <1>8, <2>2
<1> QED
  BY <1>2, <1>9, <1>10, <1>11, <1>4

------------------------------------------------------------------------------
(* What a step does to the notifications, and what the dates then are.     *)
SameAdding == Adding' = Adding /\ \A w \in Adding : worker'[w].job = worker[w].job
StopsAdding(w) ==
    /\ w \in Adding /\ Adding' = Adding \ {w}
    /\ \A v \in Adding \ {w} : worker'[v].job = worker[v].job

Posts(u) ==
    /\ dated' = dated \cup {Job(u, made)} /\ made' = made + 1
    /\ UNCHANGED <<inbox, queue>> /\ SameAdding
HandsOver(j) ==
    /\ j \in dated /\ dated' = dated \ {j} /\ queue' = Append(queue, j)
    /\ UNCHANGED <<inbox, made>> /\ SameAdding
Takes(w) ==
    /\ queue # <<>> /\ queue' = Tail(queue)
    /\ w \notin Adding /\ Adding' = Adding \cup {w}
    /\ worker'[w].job = Head(queue) /\ \A v \in Adding : worker'[v].job = worker[v].job
    /\ UNCHANGED <<inbox, dated, made>>
Delivers(w) ==
    /\ StopsAdding(w) /\ UNCHANGED <<dated, queue, made>>
    /\ inbox' = [inbox EXCEPT ![worker[w].job.user] = @ \cup {Row0(worker[w].job.at, FALSE)}]
GivesUp(w) == StopsAdding(w) /\ UNCHANGED <<inbox, dated, queue, made>>
Marks(u, some) ==
    /\ some \subseteq inbox[u] /\ UNCHANGED <<dated, queue, made>> /\ SameAdding
    /\ inbox' = [inbox EXCEPT ![u] = (@ \ some) \cup {Row0(n.at, TRUE) : n \in some}]
MailMoves ==
    \/ UNCHANGED <<inbox, dated, queue, made>> /\ SameAdding
    \/ \E u \in Users : Posts(u) \/ \E some : Marks(u, some)
    \/ \E j : HandsOver(j)
    \/ \E w \in Workers : Takes(w) \/ Delivers(w) \/ GivesUp(w)

DatesStay(u) == Dates(inbox[u]) \subseteq Dates(inbox[u])'

LEMMA InBoxLater ==
    ASSUME NEW rows, InBox(rows), Pool, made' \in {made, made + 1}
    PROVE  Dated(rows) /\ \A n \in rows : n = Row0(n.at, n.read) /\ n.read \in BOOLEAN /\ n.at < made'
BY DEF InBox, Dated, Pool

LEMMA PostsKept ==
    ASSUME Pool, Mail, NEW u \in Users, Posts(u)
    PROVE  Mail' /\ \A v \in Users : DatesStay(v)
<1>1. inbox' = inbox /\ queue' = queue /\ made' = made + 1 /\ made \in Nat
  BY DEF Posts, Pool
<1>2. PICK j, m : j = Job(u, made) /\ m = made
  OBVIOUS
<1>3. j.at = m
  BY <1>2 DEF Job
<1>9. dated' = dated \cup {j} /\ Adding' = Adding /\ \A w \in Adding : worker'[w].job = worker[w].job
  BY <1>2 DEF Posts, SameAdding
<1>4. \A v \in Users : InBox(inbox[v])'
  BY <1>1, InBoxLater DEF Mail, InBox
<1>5. Fresh(m)'
  <2>1. \A v \in Users : m \notin Dates(inbox[v])
    BY <1>1, <1>2 DEF Mail, InBox, Dates, Dated
  <2> QED
    BY <1>1, <1>2, <2>1 DEF Fresh, Dates
<1>6. \A at : Fresh(at) => Fresh(at)' /\ at # m
  BY <1>1, <1>2 DEF Fresh, Dates
<1>7. Waiting'
  BY <1>1, <1>3, <1>5, <1>6, <1>9 DEF Mail, Waiting
<1>8. Apart'
  BY <1>1, <1>3, <1>6, <1>9 DEF Mail, Waiting, Apart
<1> QED
  BY <1>1, <1>4, <1>7, <1>8 DEF Mail, DatesStay, Dates

(* What goes from one place to the next one.                               *)
LEMMA MovesKept ==
    ASSUME Pool, Mail, UNCHANGED <<inbox, made>>, Waiting', Apart'
    PROVE  Mail' /\ \A v \in Users : DatesStay(v)
BY DEF Mail, InBox, DatesStay, Dates

LEMMA FreshStays ==
    ASSUME UNCHANGED <<inbox, made>>, NEW at, Fresh(at)
    PROVE  Fresh(at)'
BY DEF Fresh, Dates

LEMMA HandsOverKept ==
    ASSUME Pool, Mail, NEW j, HandsOver(j)
    PROVE  Mail' /\ \A v \in Users : DatesStay(v)
<1>1. /\ queue \in Seq(JobType) /\ j \in dated /\ dated' = dated \ {j} /\ queue' = Append(queue, j)
      /\ Adding' = Adding /\ \A w \in Adding : worker'[w].job = worker[w].job
  BY DEF HandsOver, SameAdding, Pool
<1>2. \A i \in DOMAIN queue' :
         (i \in DOMAIN queue /\ queue'[i] = queue[i]) \/ (i = Len(queue) + 1 /\ queue'[i] = j)
  BY <1>1
<1>3. Waiting'
  BY <1>1, <1>2, FreshStays DEF HandsOver, Mail, Waiting
<1>4. Apart'
  BY <1>1, <1>2 DEF Mail, Apart
<1> QED
  BY <1>3, <1>4, MovesKept DEF HandsOver

LEMMA TakesKept ==
    ASSUME Pool, Mail, NEW w \in Workers, Takes(w)
    PROVE  Mail' /\ \A v \in Users : DatesStay(v)
<1>1. /\ queue \in Seq(JobType) /\ queue # <<>> /\ queue' = Tail(queue) /\ dated' = dated
      /\ w \notin Adding /\ Adding' = Adding \cup {w}
      /\ worker'[w].job = Head(queue) /\ \A v \in Adding : worker'[v].job = worker[v].job
  BY DEF Takes, Pool
<1>2. /\ \A i \in DOMAIN queue' : i \in Nat \ {0} /\ i + 1 \in DOMAIN queue /\ queue'[i] = queue[i + 1]
      /\ 1 \in DOMAIN queue /\ worker'[w].job = queue[1]
  BY <1>1
<1>3. Waiting'
  BY <1>1, <1>2, FreshStays DEF Takes, Mail, Waiting
<1>4. Apart'
  BY <1>1, <1>2 DEF Mail, Apart
<1> QED
  BY <1>3, <1>4, MovesKept DEF Takes

LEMMA GivesUpKept ==
    ASSUME Pool, Mail, NEW w \in Workers, GivesUp(w)
    PROVE  Mail' /\ \A v \in Users : DatesStay(v)
<1>1. Waiting'
  BY FreshStays DEF GivesUp, StopsAdding, Mail, Waiting
<1>2. Apart'
  BY DEF GivesUp, StopsAdding, Mail, Apart
<1> QED
  BY <1>1, <1>2, MovesKept DEF GivesUp

LEMMA DeliversKept ==
    ASSUME Pool, Mail, NEW w \in Workers, Delivers(w)
    PROVE  Mail' /\ \A v \in Users : DatesStay(v)
<1>1. PICK j : j = worker[w].job
  OBVIOUS
<1>2. /\ w \in Adding /\ Adding' = Adding \ {w} /\ \A v \in Adding \ {w} : worker'[v].job = worker[v].job
      /\ dated' = dated /\ queue' = queue /\ made' = made
  BY DEF Delivers, StopsAdding
<1>3. j \in JobType
  BY <1>1, <1>2 DEF Pool, Found, Adding
<1>4. j.user \in Users /\ j.at \in Nat /\ j.at < made /\ \A v \in Users : j.at \notin Dates(inbox[v])
  BY <1>1, <1>2, <1>3 DEF Mail, Waiting, Fresh, JobType
<1>5. inbox' = [inbox EXCEPT ![j.user] = @ \cup {Row0(j.at, FALSE)}]
  BY <1>1 DEF Delivers
<1>6. InBox(inbox'[j.user]) /\ Dates(inbox'[j.user]) = Dates(inbox[j.user]) \cup {j.at}
  BY <1>4, <1>5, AddingOne DEF Mail
<1>7. \A v \in Users \ {j.user} : inbox'[v] = inbox[v]
  BY <1>5 DEF Mail
<1>8. \A v \in Users : InBox(inbox'[v]) /\ Dates(inbox'[v]) \subseteq Dates(inbox[v]) \cup {j.at}
  BY <1>6, <1>7 DEF Mail
<1>9. ASSUME NEW at, Fresh(at), at # j.at PROVE Fresh(at)'
  <2>1. \A v \in Users : at \notin Dates(inbox'[v])
    BY <1>8, <1>9 DEF Fresh
  <2> QED
    BY <1>2, <1>9, <2>1 DEF Fresh, Dates
<1>10. Waiting'
  BY <1>1, <1>2, <1>9 DEF Mail, Waiting, Apart
<1>11. Apart'
  BY <1>2 DEF Mail, Apart
<1>12. \A v \in Users : DatesStay(v)
  <2> TAKE v \in Users
  <2>1. Dates(inbox[v]) \subseteq Dates(inbox'[v])
    BY <1>6, <1>7
  <2> QED
    BY <2>1 DEF DatesStay, Dates
<1>13. \A v \in Users : InBox(inbox[v])'
  BY <1>2, <1>8 DEF InBox
<1>14. inbox' = [v \in Users |-> inbox'[v]]
  BY <1>5 DEF Mail
<1> QED
  BY <1>10, <1>11, <1>12, <1>13, <1>14 DEF Mail

LEMMA MarksKept ==
    ASSUME Pool, Mail, NEW u \in Users, NEW some, Marks(u, some)
    PROVE  Mail' /\ \A v \in Users : DatesStay(v)
<1>1. dated' = dated /\ queue' = queue /\ made' = made /\ SameAdding /\ some \subseteq inbox[u]
  BY DEF Marks
<1>2. inbox' = [inbox EXCEPT ![u] = (@ \ some) \cup {Row0(n.at, TRUE) : n \in some}]
  BY DEF Marks
<1>3. InBox(inbox'[u]) /\ Dates(inbox'[u]) = Dates(inbox[u])
  <2>1. inbox'[u] = (inbox[u] \ some) \cup {Row0(n.at, TRUE) : n \in some}
    BY <1>2 DEF Mail
  <2>2. InBox(inbox[u])
    BY DEF Mail
  <2> QED
    BY <1>1, <2>1, <2>2, Marking
<1>4. \A v \in Users : InBox(inbox'[v]) /\ Dates(inbox'[v]) = Dates(inbox[v])
  <2> TAKE v \in Users
  <2>1. CASE v = u
    BY <1>3, <2>1
  <2>2. CASE v # u
    BY <1>2, <2>2 DEF Mail
  <2> QED
    BY <2>1, <2>2
<1>5. \A v \in Users : InBox(inbox[v])'
  BY <1>1, <1>4 DEF InBox
<1>6. Waiting' /\ Apart'
  <2>1. \A at : Fresh(at) => Fresh(at)'
    BY <1>1, <1>4 DEF Fresh, Dates
  <2> QED
    BY <1>1, <2>1 DEF SameAdding, Mail, Waiting, Apart
<1>7. \A v \in Users : DatesStay(v)
  BY <1>4 DEF DatesStay, Dates
<1>8. inbox' = [v \in Users |-> inbox'[v]]
  BY <1>2 DEF Mail
<1> QED
  BY <1>5, <1>6, <1>7, <1>8 DEF Mail

LEMMA MailKept ==
    ASSUME Pool, Mail, MailMoves
    PROVE  Mail' /\ \A v \in Users : DatesStay(v)
<1>1. CASE UNCHANGED <<inbox, dated, queue, made>> /\ SameAdding
  <2>1. Waiting' /\ Apart'
    BY <1>1, FreshStays DEF SameAdding, Mail, Waiting, Apart
  <2> QED
    BY <1>1, <2>1, MovesKept
<1> QED
  BY <1>1, PostsKept, HandsOverKept, TakesKept, DeliversKept, GivesUpKept, MarksKept DEF MailMoves

------------------------------------------------------------------------------
(* What a client still has to read: notifications that have as many newer  *)
(* ones as the client has skipped, or more.  There come newer ones, and    *)
(* none goes, so that what was not skipped is never skipped later.         *)
StillToRead(d) == d \in Dates(inbox[reader.user])
                  /\ Cardinality(Later(d, inbox[reader.user])) >= reader.offset
ReaderInv ==
    reader # NotReading =>
       /\ reader = Reading(reader.user, reader.limit, reader.offset, reader.seen, reader.due)
       /\ reader.user \in Users /\ reader.limit \in Limits /\ reader.offset \in Int
       /\ \A d \in reader.due : d \in reader.seen \/ (reader.offset >= 0 /\ StillToRead(d))

(* Nothing comes before what is still to read and goes.                    *)
LEMMA MoreLater ==
    ASSUME NEW rows, NEW new, Dated(rows), Dated(new), Dates(rows) \subseteq Dates(new), NEW d
    PROVE  /\ Cardinality(Later(d, rows)) \in Nat /\ Cardinality(Later(d, new)) \in Nat
           /\ Cardinality(Later(d, rows)) <= Cardinality(Later(d, new))
<1>1. Later(d, rows) \subseteq Later(d, new)
  BY DEF Later
<1>2. IsFiniteSet(Later(d, new))
  BY DatesFinite
<1> QED
  BY <1>1, <1>2, DatesFinite, FS_Subset

LEMMA ReaderWaits ==
    ASSUME Mail, Mail', ReaderInv, UNCHANGED reader, \A u \in Users : DatesStay(u)
    PROVE  ReaderInv'
<1> SUFFICES ASSUME reader # NotReading PROVE ReaderInv'
  BY DEF ReaderInv
<1> DEFINE u == reader.user
<1>1. u \in Users /\ reader.offset \in Int
  BY DEF ReaderInv
<1>2. Dated(inbox[u]) /\ Dated(inbox'[u]) /\ Dates(inbox[u]) \subseteq Dates(inbox'[u])
  BY <1>1 DEF Mail, InBox, Dated, DatesStay, Dates
<1>3. ASSUME NEW d, d \in Dates(inbox[u]), Cardinality(Later(d, inbox[u])) >= reader.offset
      PROVE  d \in Dates(inbox'[u]) /\ Cardinality(Later(d, inbox'[u])) >= reader.offset
  <2>1. /\ Cardinality(Later(d, inbox[u])) \in Nat /\ Cardinality(Later(d, inbox'[u])) \in Nat
        /\ Cardinality(Later(d, inbox[u])) <= Cardinality(Later(d, inbox'[u]))
    BY <1>2, MoreLater
  <2> QED
    BY <1>1, <1>2, <1>3, <2>1
<1>4. ASSUME NEW d \in reader.due, d \notin reader.seen
      PROVE  reader.offset >= 0 /\ StillToRead(d)'
  <2>1. reader.offset >= 0 /\ StillToRead(d)
    BY <1>4 DEF ReaderInv
  <2>2. d \in Dates(inbox'[u]) /\ Cardinality(Later(d, inbox'[u])) >= reader.offset
    BY <1>3, <2>1 DEF StillToRead
  <2> QED
    BY <2>1, <2>2 DEF StillToRead, Dates, Later
<1> QED
  BY <1>4 DEF ReaderInv

LEMMA StartsReading ==
    ASSUME Mail, ReaderInv, NEW u \in Users, NEW limit \in Limits, StartReading(u, limit)
    PROVE  ReaderInv'
<1>1. reader' = Reading(u, limit, 0, {}, Dates(inbox[u])) /\ inbox' = inbox
  BY DEF StartReading
<1>2. /\ reader'.user = u /\ reader'.limit = limit /\ reader'.offset = 0 /\ reader'.seen = {}
      /\ reader'.due = Dates(inbox[u])
  BY <1>1 DEF Reading
<1>3. \A d \in Dates(inbox[u]) : Cardinality(Later(d, inbox[u])) \in Nat
  BY DatesFinite DEF Mail, InBox
<1>4. \A d \in reader'.due : StillToRead(d)'
  <2> TAKE d \in reader'.due
  <2>1. d \in Dates(inbox'[u]) /\ Cardinality(Later(d, inbox'[u])) >= 0
    BY <1>1, <1>2, <1>3
  <2> QED
    BY <1>2, <2>1 DEF StillToRead, Dates, Later
<1> QED
  BY <1>1, <1>2, <1>4 DEF ReaderInv

(* What has fewer newer ones than were skipped after a page was on it.     *)
LEMMA ReadsPage ==
    ASSUME Mail, ReaderInv, ReadPage
    PROVE  ReaderInv'
<1> DEFINE u == reader.user
           o == reader.offset
           s == Newest(u)
           p == Page(s, o, reader.limit)
           l == Limit(reader.limit)
           new == IF Len(p) = l THEN o + l ELSE -1
<1>1. /\ reader # NotReading /\ o >= 0 /\ inbox' = inbox
      /\ reader' = [reader EXCEPT !.seen = @ \cup Dates(Ext!ToSet(p)), !.offset = new]
  BY DEF ReadPage, HasMore, NextOffset
<1>2. /\ u \in Users /\ reader.limit \in Limits /\ o \in Nat
      /\ reader = Reading(u, reader.limit, o, reader.seen, reader.due)
  BY <1>1 DEF ReaderInv
<1>3. reader' = Reading(u, reader.limit, new, reader.seen \cup Dates(Ext!ToSet(p)), reader.due)
  BY <1>1, <1>2 DEF Reading
<1>4. /\ reader'.user = u /\ reader'.limit = reader.limit /\ reader'.offset = new
      /\ reader'.seen = reader.seen \cup Dates(Ext!ToSet(p)) /\ reader'.due = reader.due
  BY <1>3 DEF Reading
<1>5. Dated(inbox[u])
  BY <1>2 DEF Mail, InBox
<1>6. /\ s \in Seq(inbox[u])
      /\ \A r \in inbox[u] : Rank(r, inbox[u]) + 1 \in DOMAIN s /\ s[Rank(r, inbox[u]) + 1] = r
  BY <1>5, NewestFirstOrders DEF Newest
<1>7. /\ l \in Int /\ Len(p) \in Nat
      /\ \A i \in DOMAIN s : o < i /\ (Len(p) = l => i <= o + l) => s[i] \in Ext!ToSet(p)
  <2>1. reader.limit \in Ints \cup {Absent}
    BY <1>2, LimitsAssumption
  <2> HIDE DEF s
  <2> QED
    BY <1>2, <1>6, <2>1, PageHolds
<1>8. new \in Int /\ (new >= 0 => new = o + l /\ Len(p) = l)
  BY <1>2, <1>7
<1>9. ASSUME NEW d \in reader.due, d \notin reader'.seen
      PROVE  new >= 0 /\ d \in Dates(inbox[u]) /\ Cardinality(Later(d, inbox[u])) >= new
  <2>1. d \notin reader.seen /\ d \notin Dates(Ext!ToSet(p))
    BY <1>4, <1>9
  <2>2. d \in Dates(inbox[u]) /\ Cardinality(Later(d, inbox[u])) >= o
    BY <1>1, <2>1 DEF ReaderInv, StillToRead
  <2>3. PICK r \in inbox[u] : r.at = d
    BY <2>2 DEF Dates
  <2>4. PICK n : n = Rank(r, inbox[u])
    OBVIOUS
  <2>5. n = Cardinality(Later(d, inbox[u])) /\ n \in Nat /\ n + 1 \in DOMAIN s /\ s[n + 1] = r
    BY <1>5, <1>6, <2>3, <2>4, DatesFinite DEF Rank
  <2>6. r \notin Ext!ToSet(p)
    BY <2>1, <2>3 DEF Dates
  <2>7. Len(p) = l /\ ~(n + 1 <= o + l)
    <3> HIDE DEF s, p, l
    <3> QED
      BY <1>2, <1>7, <2>2, <2>5, <2>6
  <2> HIDE DEF s, p, l
  <2> QED
    BY <1>2, <1>7, <2>2, <2>5, <2>7
<1> HIDE DEF new, p, s, l, o
<1>10. ASSUME NEW d \in reader'.due, d \notin reader'.seen
       PROVE  reader'.offset >= 0 /\ StillToRead(d)'
  BY <1>1, <1>4, <1>9, <1>10 DEF StillToRead, Dates, Later
<1> QED
  BY <1>2, <1>3, <1>4, <1>8, <1>10 DEF ReaderInv

------------------------------------------------------------------------------
LEMMA NewestOf ==
    ASSUME Mail, NEW u \in Users
    PROVE  Newest(u) \in Seq(inbox[u])
BY NewestFirstOrders DEF Mail, InBox, Newest

(* What a step does to the notifications, whoever takes it.                *)
LEMMA StepAway ==
    ASSUME Pool, NEW w \in Workers, NEW r, worker' = [worker EXCEPT ![w] = r], r.step # "adding"
    PROVE  IF worker[w].step = "adding" THEN StopsAdding(w) ELSE SameAdding
<1>1. worker'[w] = r /\ \A v \in Workers \ {w} : worker'[v] = worker[v]
  BY DEF Pool
<1>2. Adding' = Adding \ {w}
  BY <1>1 DEF Adding
<1> QED
  BY <1>1, <1>2 DEF StopsAdding, SameAdding, Adding

LEMMA WorkerMoves ==
    ASSUME Typed, NEW w \in Workers, WorkerStep(w)
    PROVE  MailMoves
<1> DEFINE old == worker[w]
<1>0. Pool /\ old = Work(old.step, old.job, old.list, old.at) /\ Resting.step = "idle"
  BY DEF Typed, Pool, Found, Resting, Work
<1>1. CASE Take(w)
  <2>1. PICK r : r = Work("adding", Head(queue), <<>>, 0)
    OBVIOUS
  <2>2. worker'[w] = r /\ \A v \in Workers \ {w} : worker'[v] = worker[v]
    BY <1>1, <1>0, <2>1 DEF Take, Pool
  <2>3. r.step = "adding" /\ r.job = Head(queue)
    BY <2>1 DEF Work
  <2>4. w \notin Adding /\ Adding' = Adding \cup {w} /\ \A v \in Adding : worker'[v].job = worker[v].job
    BY <1>0, <1>1, <2>2, <2>3 DEF Adding, Take
  <2> QED
    BY <1>1, <2>2, <2>3, <2>4 DEF Take, Rest, Takes, MailMoves
<1>2. CASE AddNotification(w)
  <2>1. PICK r : r = [old EXCEPT !.step = "added"]
    OBVIOUS
  <2>2. worker' = [worker EXCEPT ![w] = r] /\ old.step = "adding"
    BY <1>2, <2>1 DEF AddNotification
  <2>3. r.step = "added"
    BY <1>0, <2>1 DEF Work
  <2>4. StopsAdding(w)
    BY <1>0, <2>2, <2>3, StepAway
  <2> QED
    BY <1>2, <2>4 DEF AddNotification, Delivers, MailMoves
<1>3. CASE AddFails(w) \/ EndJob(w) \/ DropFails(w)
  <2>1. worker' = [worker EXCEPT ![w] = Resting] /\ UNCHANGED <<inbox, dated, queue, made>>
    BY <1>3 DEF AddFails, EndJob, DropFails, Finish
  <2>2. StopsAdding(w) \/ SameAdding
    BY <1>0, <2>1, StepAway
  <2> QED
    BY <2>1, <2>2 DEF GivesUp, MailMoves
<1>4. CASE FindDevices(w) \/ Push(w) \/ PushFails(w) \/ DropDevice(w)
  <2>1. UNCHANGED <<inbox, dated, queue, made>> /\ old.step \in {"added", "push", "drop"}
    BY <1>4 DEF FindDevices, Push, PushFails, DropDevice
  <2>2. PICK r : worker' = [worker EXCEPT ![w] = r] /\ r.step \in {"push", "drop"}
    <3>0. \A list, at : Work("push", old.job, list, at).step = "push"
                        /\ Work("drop", old.job, list, at).step = "drop"
      BY DEF Work
    <3>1. CASE FindDevices(w)
      <4>1. PICK L : worker' = [worker EXCEPT ![w] = Work("push", @.job, [k \in DOMAIN L |->
               IF L[k] = Null THEN Null ELSE [id |-> L[k], token |-> device[L[k]].token]], 1)]
        BY <3>1 DEF FindDevices
      <4>2. PICK list : list = [k \in DOMAIN L |->
               IF L[k] = Null THEN Null ELSE [id |-> L[k], token |-> device[L[k]].token]]
        OBVIOUS
      <4>3. worker' = [worker EXCEPT ![w] = Work("push", old.job, list, 1)]
        BY <4>1, <4>2
      <4> QED
        BY <3>0, <4>3
    <3>3. CASE PushFails(w)
      <4>1. worker' = [worker EXCEPT ![w] = Work("drop", old.job, old.list, old.at + 1)]
        BY <3>3 DEF PushFails
      <4> QED
        BY <3>0, <4>1
    <3>2. CASE Push(w) \/ DropDevice(w)
      <4>1. PICK r : r = [old EXCEPT !.at = @ + 1] \/ r = [old EXCEPT !.step = "push"]
        OBVIOUS
      <4>2. [old EXCEPT !.at = @ + 1].step = old.step /\ [old EXCEPT !.step = "push"].step = "push"
        BY <1>0 DEF Work
      <4> QED
        BY <3>2, <4>2 DEF Push, DropDevice
    <3> QED
      BY <1>4, <3>1, <3>2, <3>3
  <2>3. SameAdding
    BY <1>0, <2>1, <2>2, StepAway
  <2> QED
    BY <2>1, <2>3 DEF MailMoves
<1> QED
  BY <1>1, <1>2, <1>3, <1>4 DEF WorkerStep

LEMMA NextMoves == Typed /\ Mail /\ [Next]_vars => MailMoves
<1> SUFFICES ASSUME Typed, Mail, [Next]_vars PROVE MailMoves
  OBVIOUS
<1>0. UNCHANGED worker => SameAdding
  BY DEF SameAdding, Adding
<1> USE DEF MailMoves
<1>1. CASE \E t \in Threads \ Workers : DeviceStep(t)
  BY <1>0, <1>1 DEF DeviceStep, inboxVars
<1>2. CASE \E w \in Workers : WorkerStep(w)
  BY <1>2, WorkerMoves
<1>3. ASSUME NEW u \in Users, Notify(u) PROVE MailMoves
  BY <1>0, <1>3 DEF Notify, Posts
<1>4. ASSUME NEW u \in Users, MarkAll(u) PROVE MailMoves
  <2>1. PICK some : some = Ext!ToSet(Page(Newest(u), 0, MaxInt))
    OBVIOUS
  <2>2. MaxInt \in Ints \cup {Absent}
    BY PageAssumption DEF Ints
  <2>3. some \subseteq {Newest(u)[i] : i \in DOMAIN Newest(u)}
    BY <2>1, <2>2, NewestOf, PageHolds
  <2>4. some \subseteq inbox[u]
    BY <2>3, NewestOf, SequenceElements
  <2> QED
    BY <1>0, <1>4, <2>1, <2>4 DEF MarkAll, Marks
<1>5. ASSUME NEW u \in Users, NEW n \in inbox[u], MarkOne(u, n) PROVE MailMoves
  <2>1. Marks(u, {n})
    BY <1>0, <1>5 DEF MarkOne, Marks
  <2> QED
    BY <2>1
<1>6. CASE (\E u \in Users, limit \in Limits : StartReading(u, limit)) \/ ReadPage
  BY <1>0, <1>6 DEF StartReading, ReadPage
<1>7. ASSUME NEW j \in dated, Execute(j) PROVE MailMoves
  <2>1. HandsOver(j)
    BY <1>0, <1>7 DEF Execute, HandsOver
  <2> QED
    BY <2>1
<1>8. CASE UNCHANGED vars
  BY <1>0, <1>8 DEF vars, inboxVars
<1> QED
  BY <1>1, <1>2, <1>3, <1>4, <1>5, <1>6, <1>7, <1>8 DEF Next

LEMMA InitMail == Init => Mail
<1>1. Init => \A u \in Users : InBox(inbox[u])
  BY FS_EmptySet DEF Init, InBox, Dated
<1> QED
  BY <1>1 DEF Init, Mail, Waiting, Apart, Adding, Resting, Work

LEMMA NextMail ==
    Typed /\ Mail /\ [Next]_vars => Mail' /\ \A u \in Users : DatesStay(u)
BY NextMoves, MailKept DEF Typed

(* What has been pushed in vain are devices that were registered.          *)
Failures == failed \subseteq 1 .. nextId /\ failures \in 0 .. MaxFailures

LEMMA NextFailures == Typed /\ Failures /\ [Next]_vars => Failures'
<1> SUFFICES ASSUME Typed, Failures, [Next]_vars PROVE Failures'
  OBVIOUS
<1>1. nextId \in Nat /\ nextId' \in Nat /\ nextId <= nextId'
  BY NextTyped, KindTyped DEF Orderly, Typed
<1>2. CASE UNCHANGED <<failed, failures>>
  BY <1>1, <1>2 DEF Failures
<1>3. ASSUME NEW w \in Workers, PushFails(w) PROVE Failures'
  <2> DEFINE d == worker[w].list[worker[w].at]
  <2>1. worker[w].step = "push" /\ worker[w].at \in DOMAIN worker[w].list /\ d # Null
    BY <1>3 DEF PushFails, AtEnd
  <2>2. Bears(d.id, d.token)
    <3>1. Found(worker[w])
      BY DEF Typed, Pool
    <3> QED
      BY <2>1, <3>1 DEF Found
  <2>3. d.id \in 1 .. nextId
    BY <1>1, <2>2 DEF Bears, Past, Ids
  <2>4. failed' = failed \cup {d.id} /\ failures < MaxFailures /\ failures' = failures + 1
    BY <1>3 DEF PushFails
  <2> QED
    <3>1. failures' \in 0 .. MaxFailures
      BY <2>4, WorkersAssumption DEF Failures
    <3>2. failed' \subseteq 1 .. nextId
      BY <2>3, <2>4 DEF Failures
    <3> HIDE DEF d
    <3> QED
      BY <1>1, <3>1, <3>2 DEF Failures
<1>4. CASE \E w \in Workers : WorkerStep(w)
  BY <1>2, <1>3, <1>4
     DEF WorkerStep, Take, AddNotification, AddFails, FindDevices, Push, EndJob, DropDevice, DropFails
<1>5. CASE ~\E w \in Workers : WorkerStep(w)
  BY <1>2, <1>5
     DEF Next, DeviceStep, inboxVars, Notify, Execute, MarkAll, MarkOne, StartReading, ReadPage, vars
<1> QED
  BY <1>4, <1>5

LEMMA NextReader == Typed /\ Mail /\ ReaderInv /\ [Next]_vars => ReaderInv'
<1> SUFFICES ASSUME Typed, Mail, ReaderInv, [Next]_vars PROVE ReaderInv'
  OBVIOUS
<1>1. CASE UNCHANGED reader
  BY <1>1, NextMail, ReaderWaits
<1>2. CASE \E u \in Users, limit \in Limits : StartReading(u, limit)
  BY <1>2, StartsReading
<1>3. CASE ReadPage
  BY <1>3, ReadsPage
<1>4. CASE \E w \in Workers : WorkerStep(w)
  BY <1>1, <1>4
     DEF WorkerStep, Take, AddNotification, AddFails, FindDevices, Push, EndJob, PushFails, DropDevice,
         DropFails
<1> QED
  BY <1>1, <1>2, <1>3, <1>4 DEF Next, DeviceStep, inboxVars, Notify, Execute, MarkAll, MarkOne, vars

(* Devices and notifications are of their types: no notification is dated  *)
(* later than the last one made, none is lost when others are marked, for  *)
(* any number of users, notifications and threads.                         *)
THEOREM NotificationsTypeCorrect == Spec => []TypeOK
<1>1. Init => Typed /\ Mail /\ Failures
  BY InitTyped, InitMail, WorkersAssumption DEF Init, Failures
<1>2. Typed /\ Mail /\ Failures /\ [Next]_vars => (Typed /\ Mail /\ Failures)'
  BY NextTyped, NextMail, NextFailures
<1>3. Typed /\ Mail /\ Failures => /\ \A u \in Users : \A n \in inbox[u] :
                                         n.at \in 0 .. made - 1 /\ n.read \in BOOLEAN
                                   /\ failed \subseteq 1 .. nextId
                                   /\ failures \in 0 .. MaxFailures
  BY DEF Typed, Pool, Mail, InBox, Dated, Failures
<1> QED
  BY <1>1, <1>2, <1>3, DevicesTypeCorrect, PTL DEF Spec, TypeOK

(* A client that follows the pages to the end has seen every notification  *)
(* there was when it began, whatever is added, late ones too, or marked    *)
(* meanwhile, whatever limit it asks for and whatever the limits of a page.*)
THEOREM PagesSkipNothing == Spec => []NothingSkipped
<1>1. Init => Typed /\ Mail /\ ReaderInv
  BY InitTyped, InitMail DEF Init, ReaderInv
<1>2. Typed /\ Mail /\ ReaderInv /\ [Next]_vars => (Typed /\ Mail /\ ReaderInv)'
  BY NextTyped, NextMail, NextReader
<1>3. ReaderInv => NothingSkipped
  BY DEF ReaderInv, NothingSkipped, NotReading, Reading
<1> QED
  BY <1>1, <1>2, <1>3, PTL DEF Spec
==============================================================================
