------------------------------ MODULE Graffiti ------------------------------
(***************************************************************************)
(* The rows of graffiti and comments, and who likes a graffiti.            *)
(*                                                                         *)
(* Streamable and Comment have no @Version: a transaction that changes one *)
(* column writes the row as it has read it in all others.  The likers are  *)
(* a bag, a list without an @OrderColumn: a transaction that adds one or   *)
(* removes one deletes all rows of the graffiti in gt_like, unless it had  *)
(* read none, and inserts its own list.  Likes do not write the graffiti.  *)
(***************************************************************************)
EXTENDS Naturals, Sequences, FiniteSets

CONSTANTS
    People,
    Streamables,
    Comments,
    Contents,     \* images and texts, each used for one upload or one text
    Owner,        \* who each streamable or comment belongs to
    Nobody, Nothing,
    Threads,      \* request threads
    MaxTasks,     \* bound: requests that write a row or like
    MaxCrashes    \* bound: how often the process ends

Items == Streamables \cup Comments

ASSUME OwnerAssumption == Owner \in [Items -> People]
ASSUME TablesAssumption == Streamables \cap Comments = {}
ASSUME NothingAssumption == Nobody \notin People /\ Nothing \notin Contents \cup Items
ASSUME TasksAssumption == MaxTasks \in Nat /\ MaxCrashes \in Nat

VARIABLES
    item,       \* tables streamable and comment
    assets,     \* images that have a row in table asset
    likers,     \* table gt_like: how many rows of each user a graffiti has
    task,       \* the transaction of each request thread
    tasks,      \* bound: how many there were
    used,       \* contents uploaded so far
    mailed,     \* graffiti reported by e-mail
    intended,   \* history: the rows going by the answers
    liked,      \* history: the likers going by the answers
    mixed,      \* history: items with overlapping writes of a kind
    outdated,   \* history: graffiti whose image a stale write put back
    unsent,     \* history: graffiti whose report an exception or a crash has lost
    crashes     \* bound: how often the process has ended

graffitiHistory == <<intended, liked, mixed, outdated, unsent, crashes>>
graffitiVars == <<item, assets, likers, task, tasks, used, mailed, graffitiHistory>>

\* content is the asset of a graffiti and the text of a comment
Columns(private, deleted, flagged, content) ==
    [private |-> private, deleted |-> deleted, flagged |-> flagged, content |-> content]
NoRow == Columns(FALSE, FALSE, FALSE, Nothing)
Stored(i) == item[i] # NoRow

Task(op, u, i, set, seen) == [op |-> op, user |-> u, on |-> i, set |-> set, seen |-> seen]
NoTask == Task("none", Nobody, Nothing, NoRow, NoRow)
Working(t) == task[t].op # "none"
RowOps == {"flag", "private", "public", "delete", "edit"}
LikeOps == {"like", "unlike"}

\* what an operation makes of a row; c is the new content of an edit
Applied(op, row, c) ==
    CASE op = "flag" -> [row EXCEPT !.flagged = TRUE]
      [] op = "private" -> [row EXCEPT !.private = TRUE]
      [] op = "public" -> [row EXCEPT !.private = FALSE]
      [] op = "delete" -> [row EXCEPT !.deleted = TRUE]
      [] op = "edit" -> [row EXCEPT !.content = c]

GraffitiInit ==
    /\ item = [i \in Items |-> NoRow]
    /\ assets = {}
    /\ likers = [g \in Streamables |-> [u \in People |-> 0]]
    /\ task = [t \in Threads |-> NoTask]
    /\ tasks = 0
    /\ used = {} /\ mailed = {}
    /\ intended = item
    /\ liked = [g \in Streamables |-> {}]
    /\ mixed = {} /\ outdated = {} /\ unsent = {}
    /\ crashes = 0

------------------------------------------------------------------------------
(* Creation; nobody else knows the new row yet, so it is one step.         *)

Store(i, row) ==
    /\ ~Stored(i)
    /\ row.content \notin used
    /\ used' = used \cup {row.content}
    /\ item' = [item EXCEPT ![i] = row]
    /\ intended' = [intended EXCEPT ![i] = row]
    /\ UNCHANGED <<likers, task, tasks, mailed, liked, mixed, outdated, unsent, crashes>>

CreateStreamable(g, c, private) ==
    /\ Store(g, Columns(private, FALSE, FALSE, c))
    /\ assets' = assets \cup {c}

PostComment(i, c) ==
    /\ \E g \in Streamables : Stored(g)
    /\ Store(i, Columns(FALSE, FALSE, FALSE, c))
    /\ assets' = assets

------------------------------------------------------------------------------
(* Changing a row: whoever flags, the owner in the other cases.            *)
Allowed(op, u, i) ==
    /\ i \in Comments => op \in {"delete", "edit"}
    /\ op # "flag" => u = Owner[i]

(* flag looks at is_flagged, and the other operations write what they are  *)
(* told; a transaction that changes nothing writes nothing.                *)
BeginWrite(t, op, u, i, c) ==
    /\ ~Working(t)
    /\ tasks < MaxTasks
    /\ Stored(i) /\ Allowed(op, u, i)
    /\ IF op = "edit" THEN c \in Contents \ used ELSE c = Nothing
    /\ tasks' = tasks + 1
    /\ used' = used \cup ({c} \ {Nothing})
    /\ IF Applied(op, item[i], c) = item[i]
       THEN task' = task /\ intended' = [intended EXCEPT ![i] = Applied(op, @, c)]
       ELSE /\ task' = [task EXCEPT ![t] = Task(op, u, i, Applied(op, item[i], c), item[i])]
            /\ UNCHANGED intended
    /\ UNCHANGED <<item, assets, likers, mailed, liked, mixed, outdated, unsent, crashes>>

\* another transaction that will write the same table for the same item
Overlaps(t, ops) ==
    \E q \in Threads \ {t} : task[q].op \in ops /\ task[q].on = task[t].on
MixedBy(t, ops) == IF Overlaps(t, ops) THEN mixed \cup {<<task[t].on, ops>>} ELSE mixed

(* The image that an edit replaces is deleted, if nobody else has deleted  *)
(* it; the mistake is not to notice.                                       *)
Replaces(w) == w.op = "edit" /\ w.on \in Streamables
BugFits(w) == TRUE
Fits(w) == Replaces(w) => w.seen.content \in assets

(* The mistake is to leave out private graffiti.                           *)
BugReports(w) == w.op = "flag" /\ ~w.set.private
Reports(w) == w.op = "flag"

(* The whole row is written.  The mistake is to forget one who was told.   *)
BugWritten(w) == [w.set EXCEPT !.flagged = w.op = "flag"]
Written(w) == w.set

CommitWrite(t) ==
    LET w == task[t] IN
    /\ w.op \in RowOps
    /\ Fits(w)
    /\ item' = [item EXCEPT ![w.on] = Written(w)]
    /\ assets' = IF Replaces(w) THEN (assets \ {w.seen.content}) \cup {w.set.content} ELSE assets
    /\ intended' = [intended EXCEPT ![w.on] = Applied(w.op, @, w.set.content)]
    /\ mixed' = MixedBy(t, RowOps)
    /\ outdated' = IF w.op # "edit" /\ w.set.content # item[w.on].content
                   THEN outdated \cup {w.on} ELSE outdated
    /\ task' = [task EXCEPT ![t] = IF Reports(w) THEN [w EXCEPT !.op = "mail"] ELSE NoTask]
    /\ UNCHANGED <<likers, tasks, used, mailed, liked, unsent, crashes>>

WriteFails(t) ==
    /\ task[t].op \in RowOps
    /\ ~Fits(task[t])
    /\ task' = [task EXCEPT ![t] = NoTask]
    /\ mixed' = MixedBy(t, RowOps)
    /\ UNCHANGED <<item, assets, likers, tasks, used, mailed, intended, liked, outdated, unsent, crashes>>

SendFlagEmail(t) ==
    /\ task[t].op = "mail"
    /\ mailed' = mailed \cup {task[t].on}
    /\ task' = [task EXCEPT ![t] = NoTask]
    /\ UNCHANGED <<item, assets, likers, tasks, used, graffitiHistory>>

(* The link in the e-mail needs the asset, which is loaded lazily: if the  *)
(* transaction has not, this is an exception, and nothing is sent.         *)
ReportFails(t) ==
    /\ task[t].op = "mail"
    /\ unsent' = unsent \cup {task[t].on}
    /\ task' = [task EXCEPT ![t] = NoTask]
    /\ UNCHANGED <<item, assets, likers, tasks, used, mailed, intended, liked, mixed, outdated, crashes>>

------------------------------------------------------------------------------
(* Likes.  A private or deleted graffiti can be liked too.                 *)

(* What isLikedBy answers.  The owner of the graffiti is a proxy in the    *)
(* transaction of like, and User.equals compares classes: the owner is not *)
(* found among the likers.                                                 *)
Answers(op, u, g) ==
    {likers[g][u] > 0} \cup (IF op = "like" /\ u = Owner[g] THEN {FALSE} ELSE {})

Matters(op, has) == has # (op = "like")

BeginLike(t, op, u, g) ==
    LET set == [likers[g] EXCEPT ![u] = IF op = "like" THEN @ + 1 ELSE @ - 1] IN
    /\ op \in LikeOps
    /\ ~Working(t)
    /\ tasks < MaxTasks
    /\ Stored(g)
    /\ tasks' = tasks + 1
    /\ \E has \in Answers(op, u, g) :
          IF Matters(op, has)
          THEN task' = [task EXCEPT ![t] = Task(op, u, g, set, likers[g])] /\ liked' = liked
          ELSE task' = task /\ liked' = [liked EXCEPT ![g] = IF has THEN @ \cup {u} ELSE @ \ {u}]
    /\ UNCHANGED <<item, assets, likers, used, mailed, intended, mixed, outdated, unsent, crashes>>

(* PersistentBag: the rows are deleted and the transaction's inserted.     *)
(* The mistake is to insert them without having deleted.                   *)
BugRecreated(rows, w) == [u \in People |-> rows[u] + w.set[u]]
Recreated(rows, w) ==
    IF \A u \in People : w.seen[u] = 0 THEN [u \in People |-> rows[u] + w.set[u]] ELSE w.set

CommitLike(t) ==
    LET w == task[t] IN
    /\ w.op \in LikeOps
    /\ likers' = [likers EXCEPT ![w.on] = Recreated(@, w)]
    /\ liked' = [liked EXCEPT ![w.on] = IF w.op = "like" THEN @ \cup {w.user} ELSE @ \ {w.user}]
    /\ mixed' = MixedBy(t, LikeOps)
    /\ task' = [task EXCEPT ![t] = NoTask]
    /\ UNCHANGED <<item, assets, tasks, used, mailed, intended, outdated, unsent, crashes>>

(* The process ends: the transactions are rolled back, reports not sent    *)
(* are forgotten.                                                          *)
Mailing(g) == \E t \in Threads : task[t].op = "mail" /\ task[t].on = g

Crash ==
    /\ crashes < MaxCrashes
    /\ crashes' = crashes + 1
    /\ unsent' = unsent \cup {g \in Streamables : Mailing(g)}
    /\ task' = [t \in Threads |-> NoTask]
    /\ UNCHANGED <<item, assets, likers, tasks, used, mailed, intended, liked, mixed, outdated>>

GraffitiNext ==
    \/ Crash
    \/ \E i \in Items, c \in Contents :
          \/ i \in Streamables /\ \E private \in BOOLEAN : CreateStreamable(i, c, private)
          \/ i \in Comments /\ PostComment(i, c)
    \/ \E t \in Threads, u \in People, i \in Items :
          \/ \E op \in RowOps, c \in Contents \cup {Nothing} : BeginWrite(t, op, u, i, c)
          \/ \E op \in LikeOps : i \in Streamables /\ BeginLike(t, op, u, i)
    \/ \E t \in Threads : 
          CommitWrite(t) \/ WriteFails(t) \/ SendFlagEmail(t) \/ ReportFails(t) \/ CommitLike(t)

GraffitiSpec == GraffitiInit /\ [][GraffitiNext]_graffitiVars

------------------------------------------------------------------------------
RowType == [private : BOOLEAN, deleted : BOOLEAN, flagged : BOOLEAN, content : Contents \cup {Nothing}]

GraffitiTypeOK ==
    /\ item \in [Items -> RowType] /\ intended \in [Items -> RowType]
    /\ assets \subseteq Contents
    /\ likers \in [Streamables -> [People -> Nat]]
    /\ liked \in [Streamables -> SUBSET People]
    /\ tasks \in 0 .. MaxTasks
    /\ used \subseteq Contents /\ mailed \subseteq Streamables
    /\ outdated \subseteq Items /\ unsent \subseteq Streamables
    /\ crashes \in 0 .. MaxCrashes

(* A graffiti or comment is as the answered requests made it, deleted,     *)
(* private, flagged and with its content, unless two requests that write   *)
(* it overlapped; likes and what is done to others never count as such.    *)
ItemsKept == \A i \in Items : <<i, RowOps>> \notin mixed => item[i] = intended[i]

(* Each graffiti shows the one image there is for it, edited and flagged   *)
(* as it may be, unless a request that had read the row before an edit and *)
(* wrote it after the edit put the old image back.                         *)
ImagesShown ==
    outdated \cap Streamables = {} => assets = {item[g].content : g \in {h \in Streamables : Stored(h)}}

(* Nobody's like is lost or counted twice on a graffiti whose likes did    *)
(* not overlap, whatever else was done to it and however often its owner   *)
(* likes it, who may be counted more than once.                            *)
LikesKept ==
    \A g \in Streamables, u \in People :
        <<g, LikeOps>> \notin mixed /\ u # Owner[g] =>
            likers[g][u] = IF u \in liked[g] THEN 1 ELSE 0

(* Whatever is flagged has been or is being reported, even when a stale    *)
(* write took the flag back and somebody flagged it again; only an         *)
(* exception or a crash after the commit forgets a report.                 *)
FlagsReported ==
    \A g \in Streamables : item[g].flagged => g \in mailed \cup unsent \/ Mailing(g)
==============================================================================
