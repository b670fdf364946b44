-------------------------------- MODULE Feeds --------------------------------
(***************************************************************************)
(* What is read from the activities: the feed of a user, the activity of   *)
(* those whom a user follows, and how the latter is put into groups.  An   *)
(* activity is a record [kind, by, on, at]; at is its date of creation.    *)
(***************************************************************************)
EXTENDS ByDate, Sequences
Ext == INSTANCE SequencesExt

(* Activity.getUserFeed: v's own graffiti and those of whom v follows, in  *)
(* the order that NewestFirst gives.                                       *)
(* The mistake is to show everybody what is private.                       *)
BugVisible(v, a, deleted, private) == a.on \notin deleted
Visible(v, a, deleted, private) ==
    a.on \notin deleted /\ (a.on \notin private \/ a.by = v)

UserFeed(v, friends, acts, deleted, private) ==
    {a \in acts : a.by \in friends \cup {v} /\ a.kind = "create" /\ Visible(v, a, deleted, private)}

(* Activity.getFollowersActivity: what is deleted or private is left out   *)
(* where it was created, not where it was liked.                           *)
FollowersActivity(friends, acts, deleted, private) ==
    NewestFirst({a \in acts :
        a.by \in friends /\ (a.kind = "create" => a.on \notin deleted \cup private)})

------------------------------------------------------------------------------
(* User.equals compares classes: lazily loaded users are proxies and never *)
(* equal, not even to themselves.                                          *)
SameType(a, b, lazy) == a.kind = b.kind /\ a.by = b.by /\ ~lazy
SameActivity(a, b) == SameType(a, b, FALSE) /\ a.on = b.on

(* One turn of the loop of groupActivities: a joins the last group, or is  *)
(* left out as a repetition of the activity before it, or starts a group.  *)
(* The mistake is a group of one too many.                                 *)
BugGrouped(groups, previous, a, k, lazy) ==
    IF SameType(a, previous, lazy) /\ Len(groups[Len(groups)]) <= k
    THEN IF SameActivity(a, previous) THEN groups ELSE [groups EXCEPT ![Len(groups)] = Append(@, a)]
    ELSE Append(groups, <<a>>)
Grouped(groups, previous, a, k, lazy) ==
    IF SameType(a, previous, lazy) /\ Len(groups[Len(groups)]) < k
    THEN IF SameActivity(a, previous) THEN groups ELSE [groups EXCEPT ![Len(groups)] = Append(@, a)]
    ELSE Append(groups, <<a>>)

(* The loop starts with the first activity in a group and as its own       *)
(* predecessor.                                                            *)
Groups(s, k, lazy) ==
    LET after[n \in 0 .. Len(s)] ==
          IF n = 0 THEN <<SubSeq(s, 1, 1)>>
          ELSE Grouped(after[n - 1], s[IF n = 1 THEN 1 ELSE n - 1], s[n], k, lazy)
    IN  IF s = <<>> THEN <<>> ELSE after[Len(s)]

------------------------------------------------------------------------------
(* What groups are for: each holds one kind of activity of one user, at    *)
(* most k of them, in the order of the list, and nothing of the list is    *)
(* missing but what repeats its predecessor.                               *)
GroupsOf(groups, s, k) ==
    LET flat == Ext!FlattenSeq(groups) IN
    /\ \A i \in DOMAIN groups :
          /\ Len(groups[i]) \in 1 .. k
          /\ \A j \in DOMAIN groups[i] : SameType(groups[i][j], groups[i][1], FALSE)
    /\ \A i \in 1 .. Len(flat) - 1 : flat[i].at > flat[i + 1].at
    /\ \A i \in DOMAIN s : (i = 1 \/ ~SameActivity(s[i], s[i - 1])) => s[i] \in Ext!ToSet(flat)
    /\ \A i \in 1 .. Len(groups) - 1 :
          SameType(groups[i][1], groups[i + 1][1], FALSE) => Len(groups[i]) = k

(* Of lazily loaded users, each activity stands for itself, the first one  *)
(* twice.                                                                  *)
Ungrouped(groups, s) ==
    groups = [i \in 1 .. (IF s = <<>> THEN 0 ELSE Len(s) + 1) |-> <<s[IF i = 1 THEN 1 ELSE i - 1]>>]
==============================================================================
