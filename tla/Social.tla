------------------------------- MODULE Social -------------------------------
(***************************************************************************)
(* Following, liking, flagging and posting by the same users, and what it  *)
(* leads to: jobs for JobService that notify a user or add an activity for *)
(* the followers, made by a request after its transaction has ended.       *)
(*                                                                         *)
(* A job that is not handed over yet is like one that waits, and the two   *)
(* threads of the pool may end jobs in another order than they take them:  *)
(* here any job may be the next to end.                                    *)
(***************************************************************************)
EXTENDS Follows, Graffiti, Feeds

CONSTANT MaxTransactions    \* bound: changes and tasks together, where there are both

ASSUME SameUsersAssumption == Users = People /\ Requests = Threads
ASSUME UsersAssumption == IsFiniteSet(Users)
ASSUME TransactionsAssumption == MaxTransactions \in Nat

VARIABLES
    jobs,        \* what JobService has yet to do
    notes,       \* table notification
    activity,    \* table activity
    made,        \* how many activities were created; the date of the next
    untold       \* history: likes after which the request failed

jobVars == <<jobs, notes, activity, made, untold>>
socialVars == <<followVars, graffitiVars, jobVars>>

Notice(to, kind, by, on) == [to |-> to, kind |-> kind, by |-> by, on |-> on, at |-> 0]
Activity(kind, by, on, at) == [to |-> Nobody, kind |-> kind, by |-> by, on |-> on, at |-> at]

Idle(t) == ~Changing(t) /\ ~Working(t)
Together(n, m) == n = 0 \/ m = 0 \/ n + m <= MaxTransactions

(* Whoever follows somebody at the beginning has been announced before, in *)
(* some order.                                                             *)
Listed(S) == CHOOSE f \in [1 .. Cardinality(S) -> S] : {f[n] : n \in DOMAIN f} = S

SocialInit ==
    LET follows == {e \in Users \X Users : e[2] \in Elements(following[e[1]])}
        edges == Listed(follows)
    IN
    /\ FollowsInit /\ GraffitiInit
    /\ jobs = {}
    /\ notes = {Notice(e[2], "follow", e[1], Nothing) : e \in follows}
    /\ activity = {Activity("follow", edges[n][1], edges[n][2], n - 1) : n \in DOMAIN edges}
    /\ made = Cardinality(follows)
    /\ untold = {}

\* notices, and an activity
Announce(notices, kind, by, on) ==
    /\ jobs' = jobs \cup notices \cup {Activity(kind, by, on, made)}
    /\ made' = made + 1
    /\ UNCHANGED <<notes, activity, untold>>

------------------------------------------------------------------------------
(* The mistake is to tell only the first whom somebody follows.            *)
BugFollowed(c) == c.op = "follow" /\ c.old = <<>>
Followed(c) == c.op = "follow"

EndChange(t) ==
    LET c == change[t] IN
    /\ CommitChange(t)
    /\ IF Followed(c)
       THEN Announce({Notice(c.other, "follow", c.user, Nothing)}, "follow", c.user, c.other)
       ELSE UNCHANGED jobVars
    /\ UNCHANGED graffitiVars

(* The owner is not told of his or her own like.  The mistake is to do so. *)
BugLikeNotices(w) == {Notice(Owner[w.on], "like", w.user, w.on)}
LikeNotices(w) ==
    {Notice(v, "like", w.user, w.on) : v \in {Owner[w.on]} \ {w.user}}

EndLike(t) ==
    LET w == task[t] IN
    /\ CommitLike(t)
    /\ IF w.op = "like"
       THEN Announce(LikeNotices(w), "like", w.user, w.on)
       ELSE UNCHANGED jobVars
    /\ UNCHANGED followVars

(* like asks after its transaction who the owner is: an exception, unless  *)
(* the transaction has loaded the owner, who likes or has liked it.        *)
EndLikeUntold(t) ==
    LET w == task[t] IN
    /\ CommitLike(t)
    /\ w.op = "like" /\ w.user # Owner[w.on] /\ w.seen[Owner[w.on]] = 0
    /\ untold' = untold \cup {<<w.user, w.on>>}
    /\ UNCHANGED <<followVars, jobs, notes, activity, made>>

Create(g, c, private) ==
    /\ \E t \in Threads : Idle(t)
    /\ CreateStreamable(g, c, private)
    /\ Announce({}, "create", Owner[g], g)
    /\ UNCHANGED followVars

RunJob(j) ==
    /\ jobs' = jobs \ {j}
    /\ IF j.to = Nobody
       THEN activity' = activity \cup {j} /\ notes' = notes
       ELSE notes' = notes \cup {j} /\ activity' = activity
    /\ UNCHANGED <<followVars, graffitiVars, made, untold>>

------------------------------------------------------------------------------
BeginChange(t, u, v) ==
    /\ Idle(t) /\ Together(changes + 1, tasks)
    /\ BeginFollow(t, u, v) \/ BeginUnfollow(t, u, v)
    /\ UNCHANGED <<graffitiVars, jobVars>>

LoseChange(t) == ChangeFails(t) /\ UNCHANGED <<graffitiVars, jobVars>>

BeginTask(t, u, g) ==
    /\ Idle(t) /\ Together(changes, tasks + 1)
    /\ \/ \E op \in RowOps, c \in Contents \cup {Nothing} : BeginWrite(t, op, u, g, c)
       \/ \E op \in LikeOps : BeginLike(t, op, u, g)
    /\ UNCHANGED <<followVars, jobVars>>

EndWrite(t) ==
    /\ CommitWrite(t) \/ SendFlagEmail(t) \/ ReportFails(t)
    /\ UNCHANGED <<followVars, jobVars>>

SocialNext ==
    \/ \E t \in Threads :
          \/ \E u, v \in Users : BeginChange(t, u, v)
          \/ \E u \in Users, g \in Streamables : BeginTask(t, u, g)
          \/ EndChange(t) \/ LoseChange(t) \/ EndLike(t) \/ EndLikeUntold(t) \/ EndWrite(t)
    \/ \E g \in Streamables, c \in Contents, private \in BOOLEAN : Create(g, c, private)
    \/ \E j \in jobs : RunJob(j)

SocialSpec == SocialInit /\ [][SocialNext]_socialVars

------------------------------------------------------------------------------
Friends(v) == Elements(following[v])
Gone == {g \in Streamables : item[g].deleted}
Private == {g \in Streamables : item[g].private}

SocialTypeOK ==
    /\ FollowsTypeOK /\ GraffitiTypeOK
    /\ made \in Nat
    /\ \A n \in notes : n.to \in Users /\ n.by \in Users \ {n.to}
    /\ \A a \in activity : a.by \in Users /\ a.at < made

(* Whoever is followed or liked is told: every row of following and of     *)
(* gt_like has, or will have, its notice and its activity, also the rows   *)
(* that the commit of a stale list has brought back.  Short of a crash or  *)
(* a job that fails, only a like whose request failed after its transaction*)
(* goes untold.                                                            *)
Told(to, kind, by, on) == Notice(to, kind, by, on) \in notes \cup jobs
Seen(kind, by, on) == \E at \in 0 .. made : Activity(kind, by, on, at) \in activity \cup jobs

EveryoneTold ==
    /\ \A u \in Users : \A v \in Friends(u) : Told(v, "follow", u, Nothing) /\ Seen("follow", u, v)
    /\ \A g \in Streamables, u \in People :
          likers[g][u] > 0 /\ <<u, g>> \notin untold =>
              /\ Seen("like", u, g)
              /\ u # Owner[g] => Told(Owner[g], "like", u, g)

(* Nobody's feed shows a graffiti that its owner has deleted or, to        *)
(* others, made private, going by the answers, unless two writes of it     *)
(* overlapped.                                                             *)
OwnersObeyed ==
    \A v \in Users :
        \A a \in UserFeed(v, Friends(v), activity, Gone, Private) :
            LET g == a.on IN
            \/ <<g, RowOps>> \in mixed
            \/ ~intended[g].deleted /\ (intended[g].private => Owner[g] = v)

(* What a user is shown of the others' activity is grouped as it should,   *)
(* or not at all, if those whose activity it is are not loaded yet.        *)
GroupsRight ==
    \A v \in Users, k \in 2 .. 3 :
        LET list == FollowersActivity(Friends(v), activity, Gone, Private) IN
        /\ GroupsOf(Groups(list, k, FALSE), list, k)
        /\ Ungrouped(Groups(list, k, TRUE), list)
==============================================================================
