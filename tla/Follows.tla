------------------------------ MODULE Follows ------------------------------
(***************************************************************************)
(* Whom each user follows: User.following, a list stored in the table      *)
(* following.  follow and unfollow read the list in a transaction, change  *)
(* it, and write the difference when the transaction ends (READ COMMITTED).*)
(***************************************************************************)
EXTENDS OrderKeys

CONSTANTS
    Users,
    Requests,        \* request threads
    Start,           \* whom each user may follow at the beginning, a list
    MaxChanges       \* bound: transactions of follow and unfollow

ASSUME NullAssumption == Null \notin Users
ASSUME StartAssumption ==
    \A s \in Start :
        /\ DOMAIN s = Users
        /\ \A u \in Users : s[u] \in Seq(Users \ {u}) /\ Distinct(s[u])
ASSUME ChangesAssumption == MaxChanges \in Nat

VARIABLES
    following,   \* table following: the rows of each user
    change,      \* the transaction of each request thread
    changes,     \* bound: how many transactions there were
    wanted,      \* history: whom each user follows, going by the answers
    raced,       \* history: users two of whose transactions overlapped
    refused      \* history: users one of whose transactions failed

followVars == <<following, change, changes, wanted, raced, refused>>

Change(op, u, v, old, new) == [op |-> op, user |-> u, other |-> v, old |-> old, new |-> new]
NoChange == Change("none", Null, Null, <<>>, <<>>)
Changing(r) == change[r].op # "none"

FollowsInit ==
    /\ \E s \in Start :
          /\ following = [u \in Users |-> RowsOf(s[u])]
          /\ wanted = [u \in Users |-> Elements(following[u])]
    /\ change = [r \in Requests |-> NoChange]
    /\ changes = 0
    /\ raced = {} /\ refused = {}

(* User.isFollowing.  The mistake is to take everybody for new.            *)
BugIsFollowing(L, v) == FALSE
IsFollowing(L, v) == Has(L, v)

BeginFollow(r, u, v) ==
    /\ ~Changing(r)
    /\ changes < MaxChanges
    /\ u # v
    /\ \E L \in Lists(following[u]) :
          IF IsFollowing(L, v)
          THEN change' = change /\ wanted' = [wanted EXCEPT ![u] = @ \cup {v}]
          ELSE /\ change' = [change EXCEPT ![r] = Change("follow", u, v, L, Append(L, v))]
               /\ wanted' = wanted
    /\ changes' = changes + 1
    /\ UNCHANGED <<following, raced, refused>>

BeginUnfollow(r, u, v) ==
    /\ ~Changing(r)
    /\ changes < MaxChanges
    /\ \E L \in Lists(following[u]) :
          IF Has(L, v)
          THEN /\ change' = [change EXCEPT ![r] = Change("unfollow", u, v, L, Without(L, v))]
               /\ wanted' = wanted
          ELSE change' = change /\ wanted' = [wanted EXCEPT ![u] = @ \ {v}]
    /\ changes' = changes + 1
    /\ UNCHANGED <<following, raced, refused>>

Overlapped(r) == \E q \in Requests \ {r} : Changing(q) /\ change[q].user = change[r].user
RacedBy(r) == IF Overlapped(r) THEN raced \cup {change[r].user} ELSE raced

(* The end of the transaction.                                             *)
CommitChange(r) ==
    LET c == change[r] IN
    /\ Changing(r)
    /\ CanWrite(following[c.user], c.old, c.new)
    /\ following' = [following EXCEPT ![c.user] = Write(@, c.old, c.new)]
    /\ wanted' = [wanted EXCEPT ![c.user] = IF c.op = "follow" THEN @ \cup {c.other} ELSE @ \ {c.other}]
    /\ change' = [change EXCEPT ![r] = NoChange]
    /\ raced' = RacedBy(r)
    /\ UNCHANGED <<changes, refused>>

ChangeFails(r) ==
    LET c == change[r] IN
    /\ Changing(r)
    /\ ~CanWrite(following[c.user], c.old, c.new)
    /\ refused' = refused \cup {c.user}
    /\ change' = [change EXCEPT ![r] = NoChange]
    /\ raced' = RacedBy(r)
    /\ UNCHANGED <<following, changes, wanted>>

FollowsNext ==
    \E r \in Requests :
       \/ \E u, v \in Users : BeginFollow(r, u, v) \/ BeginUnfollow(r, u, v)
       \/ CommitChange(r) \/ ChangeFails(r)

FollowsSpec == FollowsInit /\ [][FollowsNext]_followVars

------------------------------------------------------------------------------
FollowsTypeOK ==
    /\ following \in [Users -> SUBSET [key : Nat \ {0}, elem : Users, copy : Nat \ {0}]]
    /\ wanted \in [Users -> SUBSET Users]
    /\ raced \subseteq Users /\ refused \subseteq Users
    /\ changes \in 0 .. MaxChanges

(* The table says what the answers said: somebody none of whose requests   *)
(* overlapped has exactly one row for each user he or she follows, their   *)
(* positions are those of a list, and no request of his or hers failed,    *)
(* whatever others did.                                                    *)
FollowingKept ==
    \A u \in Users \ raced :
        /\ \E L \in Lists(following[u]) : following[u] = RowsOf(L) /\ Distinct(L)
        /\ Elements(following[u]) = wanted[u]
        /\ u \notin refused
==============================================================================
