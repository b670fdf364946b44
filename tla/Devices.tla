------------------------------ MODULE Devices ------------------------------
(***************************************************************************)
(* The devices of each user, to which notifications are pushed: a list     *)
(* stored in the rows of the devices themselves, one for each, with the    *)
(* owner and the position.  A transaction reads the list and writes the    *)
(* difference when it ends: a row for a new device, the positions of those *)
(* that moved, and the deletion of those removed; each row that it writes  *)
(* must be there.  The token of a device is looked up among the devices of *)
(* all users, and nothing makes it unique.                                 *)
(***************************************************************************)
EXTENDS OrderKeys

CONSTANTS
    Users, Tokens,
    Threads,        \* request threads and threads of the pool
    Nobody, None,
    MaxRequests     \* bound: requests of clients

ASSUME NoneAssumption == Nobody \notin Users /\ None \notin Tokens /\ Null \notin Nat
ASSUME RequestsAssumption == MaxRequests \in Nat

VARIABLES
    device,     \* table device, by id
    nextId,
    tx,         \* the transaction of each thread that will change devices
    requests,   \* bound: how many requests there were
    held,       \* history: the tokens each user has, going by what was done
    raced       \* history: users and tokens of overlapping transactions

deviceVars == <<device, nextId, tx, requests, held, raced>>

RowsOfUser(u) == {Row(device[i].key, i, 1) : i \in {j \in DOMAIN device : device[j].user = u}}
WithToken(k) == {i \in DOMAIN device : device[i].token = k}

Tx(op, u, k, id, old, new) == [op |-> op, user |-> u, token |-> k, id |-> id, old |-> old, new |-> new]
NoTx == Tx("none", Nobody, None, 0, <<>>, <<>>)
Open(t) == tx[t].op # "none"

DevicesInit ==
    /\ device = <<>> /\ nextId = 1
    /\ tx = [t \in Threads |-> NoTx]
    /\ requests = 0
    /\ held = [u \in Users |-> {}] /\ raced = {}

------------------------------------------------------------------------------
(* registerDevice and unregisterDevice of user u.  A token that two rows   *)
(* have, or that somebody has already, or a device that is not in the list *)
(* of the user, changes nothing.                                           *)

\* the mistake is to look among the user's own devices
BugKnown(u, k) == {i \in WithToken(k) : device[i].user = u}
Known(u, k) == WithToken(k)

Register(t, u, k) ==
    /\ Known(u, k) = {}
    /\ \E L \in Lists(RowsOfUser(u)) :
          tx' = [tx EXCEPT ![t] = Tx("register", u, k, nextId, L, Append(L, nextId))]
    /\ nextId' = nextId + 1

Unregister(t, u, k) ==
    /\ \E i \in Known(u, k), L \in Lists(RowsOfUser(u)) :
          /\ Known(u, k) = {i} /\ Has(L, i)
          /\ tx' = [tx EXCEPT ![t] = Tx("unregister", u, k, i, L, Without(L, i))]
    /\ nextId' = nextId

BeginDevice(t, u, k) ==
    /\ ~Open(t)
    /\ requests < MaxRequests /\ requests' = requests + 1
    /\ Register(t, u, k) \/ Unregister(t, u, k)
    /\ UNCHANGED <<device, held, raced>>

(* A push to device i of user u failed: whichever row it is, by its id.    *)
(* The mistake is to take the device that has the token now.               *)
BugDropped(i, k) == IF WithToken(k) = {} THEN i ELSE CHOOSE j \in WithToken(k) : TRUE
Dropped(i, k) == i

BeginDrop(t, u, i, k) ==
    LET d == Dropped(i, k) IN
    /\ ~Open(t)
    /\ \E L \in Lists(RowsOfUser(u)) :
          tx' = [tx EXCEPT ![t] = IF Has(L, d) THEN Tx("drop", u, k, d, L, Without(L, d)) ELSE NoTx]
    /\ UNCHANGED <<device, nextId, requests, held, raced>>

------------------------------------------------------------------------------
Removed(c) == IF c.op = "register" THEN {} ELSE {c.id}

(* The rows whose position is written.  The mistake is to leave a gap.     *)
BugMoved(c) == {}
Moved(c) ==
    {c.new[k] : k \in {n \in DOMAIN c.new : n \in DOMAIN c.old /\ c.new[n] \notin {Null, c.old[n]}}}
PositionIn(c, i) == CHOOSE k \in DOMAIN c.new : c.new[k] = i

CanStore(c) == Removed(c) \cup Moved(c) \subseteq DOMAIN device

\* the mistake is the position before the last
BugNewRow(c) == [user |-> c.user, token |-> c.token, key |-> Len(c.old)]
NewRow(c) == [user |-> c.user, token |-> c.token, key |-> Len(c.new)]

StoreDevices(c) ==
    [i \in (DOMAIN device \ Removed(c)) \cup (IF c.op = "register" THEN {c.id} ELSE {}) |->
        IF i \notin DOMAIN device THEN NewRow(c)
        ELSE IF i \in Moved(c) THEN [device[i] EXCEPT !.key = PositionIn(c, i)]
        ELSE device[i]]

(* Two transactions overlap that change one list or were about one token.  *)
RacedWith(t) ==
    UNION {{tx[t].user, tx[q].user, tx[t].token, tx[q].token} :
              q \in {p \in Threads \ {t} :
                        Open(p) /\ (tx[p].user = tx[t].user \/ tx[p].token = tx[t].token)}}

EndDevice(t) ==
    LET c == tx[t] IN
    /\ Open(t)
    /\ CanStore(c)
    /\ device' = StoreDevices(c)
    /\ held' = [held EXCEPT ![c.user] = IF c.op = "register" THEN @ \cup {c.token} ELSE @ \ {c.token}]
    /\ raced' = raced \cup RacedWith(t)
    /\ tx' = [tx EXCEPT ![t] = NoTx]
    /\ UNCHANGED <<nextId, requests>>

LoseDevice(t) ==
    /\ Open(t)
    /\ ~CanStore(tx[t])
    /\ raced' = raced \cup RacedWith(t)
    /\ tx' = [tx EXCEPT ![t] = NoTx]
    /\ UNCHANGED <<device, nextId, requests, held>>

------------------------------------------------------------------------------
DeviceType == [user : Users, token : Tokens, key : Nat \ {0}]

DevicesTypeOK ==
    /\ nextId \in Nat
    /\ DOMAIN device \subseteq 1 .. nextId - 1
    /\ \A i \in DOMAIN device : device[i] \in DeviceType
    /\ held \in [Users -> SUBSET Tokens]
    /\ raced \subseteq Users \cup Tokens
    /\ requests \in 0 .. MaxRequests

(* Where no two transactions overlapped, a user's list holds each token    *)
(* that was registered, and not removed by unregistering it or by a push   *)
(* that failed, once and without a gap, where a push would end.            *)
DevicesKept ==
    \A u \in Users \ raced :
        LET mine == {i \in DOMAIN device : device[i].user = u} IN
        /\ {device[i].key : i \in mine} = 1 .. Cardinality(mine)
        /\ {device[i].token : i \in mine} = held[u]
        /\ Cardinality(mine) = Cardinality(held[u])

(* A token has one row unless two requests about it overlapped: later      *)
(* look-ups of a token with two rows all fail.                             *)
TokensUnique == \A k \in Tokens \ raced : Cardinality(WithToken(k)) <= 1
==============================================================================
