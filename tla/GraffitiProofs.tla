--------------------------- MODULE GraffitiProofs ---------------------------
(***************************************************************************)
(* What Graffiti keeps, for any number of users, graffiti, comments,       *)
(* threads and requests.                                                   *)
(***************************************************************************)
EXTENDS Graffiti, TLAPS

LikeRows == [People -> Nat]
AllOps == RowOps \cup LikeOps \cup {"none", "mail"}

(* What a transaction holds.                                               *)
TaskTyped(w) ==
    /\ w.op \in AllOps
    /\ w.op \in RowOps =>
          w.on \in Items /\ w.set \in RowType /\ w.seen \in RowType
    /\ w.op = "edit" => w.set.content \in Contents
    /\ w.op \in {"flag", "mail"} => w.on \in Streamables
    /\ w.op \in LikeOps =>
          w.on \in Streamables /\ w.user \in People /\ w.set \in LikeRows /\ w.seen \in LikeRows

Typed ==
    /\ GraffitiTypeOK
    /\ task = [t \in Threads |-> task[t]]
    /\ \A t \in Threads : TaskTyped(task[t])

LEMMA RowsTyped ==
    /\ \A i \in Items : NoRow \in RowType
    /\ \A private \in BOOLEAN, c \in Contents :
          /\ Columns(private, FALSE, FALSE, c) \in RowType
          /\ Columns(private, FALSE, FALSE, c) # NoRow
BY NothingAssumption DEF NoRow, Columns, RowType

LEMMA AppliedTyped ==
    ASSUME NEW op \in RowOps, NEW row \in RowType, NEW c \in Contents \cup {Nothing}
    PROVE  /\ Applied(op, row, c) \in RowType
           /\ op # "edit" => Applied(op, row, c).content = row.content
           /\ op = "edit" => Applied(op, row, c).content = c
           /\ op \notin {"flag", "edit"} => Applied(op, row, c).flagged = row.flagged
           /\ Applied(op, row, c) = Applied(op, row, Applied(op, row, c).content)
BY DEF RowOps, RowType, Applied

(* A thread that begins to work, and the tasks it leaves alone.            *)
LEMMA TaskSet ==
    ASSUME NEW t \in Threads, NEW w, task = [q \in Threads |-> task[q]],
           task' = [task EXCEPT ![t] = w]
    PROVE  /\ task'[t] = w
           /\ \A q \in Threads \ {t} : task'[q] = task[q]
           /\ task' = [q \in Threads |-> task'[q]]
OBVIOUS
------------------------------------------------------------------------------
(* Types.                                                                  *)

LEMMA InitTyped == GraffitiInit => Typed
BY RowsTyped, TasksAssumption
   DEF GraffitiInit, Typed, GraffitiTypeOK, TaskTyped, AllOps, RowOps, LikeOps, NoTask, Task

LEMMA StoreTyped ==
    ASSUME Typed, NEW i \in Items, NEW row \in RowType, row.content \in Contents, Store(i, row)
    PROVE  /\ item' \in [Items -> RowType] /\ intended' \in [Items -> RowType]
           /\ used' \subseteq Contents
BY DEF Store, Typed, GraffitiTypeOK

LEMMA BeginWriteTyped ==
    ASSUME Typed, NEW t \in Threads, NEW op \in RowOps, NEW u \in People, NEW i \in Items,
           NEW c \in Contents \cup {Nothing}, BeginWrite(t, op, u, i, c)
    PROVE  Typed'
<1> DEFINE w == Task(op, u, i, Applied(op, item[i], c), item[i])
<1>1. /\ item[i] \in RowType /\ intended[i] \in RowType
      /\ item[i].content \in Contents \cup {Nothing}
  BY DEF Typed, GraffitiTypeOK, RowType
<1>2. Applied(op, item[i], c) \in RowType /\ Applied(op, intended[i], c) \in RowType
  BY <1>1, AppliedTyped
<1>3. TaskTyped(w)
  <2>1. op = "edit" => c \in Contents
    BY DEF BeginWrite
  <2>2. op = "flag" => i \in Streamables
    BY DEF BeginWrite, Allowed, Items
  <2>3. w.op = op /\ w.on = i /\ w.seen = item[i] /\ w.set = Applied(op, item[i], c)
    BY DEF Task
  <2>4. w.op = "edit" => w.set.content \in Contents
    BY <1>1, <2>1, <2>3, AppliedTyped
  <2> HIDE DEF w
  <2> QED
    BY <1>1, <1>2, <2>2, <2>3, <2>4 DEF TaskTyped, AllOps, RowOps, LikeOps
<1>4. \/ task' = task
      \/ task' = [task EXCEPT ![t] = w] /\ intended' = intended
  BY DEF BeginWrite
<1>5. task' = [q \in Threads |-> task'[q]] /\ \A q \in Threads : TaskTyped(task'[q])
  BY <1>3, <1>4, TaskSet DEF Typed
<1>6. intended' \in [Items -> RowType]
  BY <1>2 DEF BeginWrite, Typed, GraffitiTypeOK
<1>7. GraffitiTypeOK'
  <2>1. tasks' \in 0 .. MaxTasks
    BY TasksAssumption DEF BeginWrite, Typed, GraffitiTypeOK
  <2>2. used' \subseteq Contents
    BY DEF BeginWrite, Typed, GraffitiTypeOK
  <2> QED
    BY <1>6, <2>1, <2>2 DEF BeginWrite, Typed, GraffitiTypeOK
<1> QED
  BY <1>5, <1>7 DEF Typed

LEMMA CommitWriteTyped ==
    ASSUME Typed, NEW t \in Threads, CommitWrite(t)
    PROVE  Typed'
<1> DEFINE w == task[t]
           next == IF Reports(w) THEN [w EXCEPT !.op = "mail"] ELSE NoTask
<1>1. w.op \in RowOps /\ TaskTyped(w)
  BY DEF CommitWrite, Typed
<1>2. w.on \in Items /\ w.set \in RowType /\ w.set.content \in Contents \cup {Nothing}
  BY <1>1 DEF TaskTyped, RowType
<1>3. Applied(w.op, intended[w.on], w.set.content) \in RowType
  BY <1>1, <1>2, AppliedTyped DEF Typed, GraffitiTypeOK
<1>4. TaskTyped(next)
  <2>1. CASE Reports(w)
    <3>1. w.op = "flag" /\ w.on \in Streamables
      BY <1>1, <2>1 DEF Reports, TaskTyped
    <3>2. next.op = "mail" /\ next.on \in Streamables
      BY <2>1, <3>1
    <3> QED
      BY <3>2 DEF TaskTyped, AllOps, RowOps, LikeOps
  <2>2. CASE ~Reports(w)
    BY <2>2 DEF NoTask, Task, TaskTyped, AllOps, RowOps, LikeOps
  <2> QED
    BY <2>1, <2>2
<1>5. task' = [task EXCEPT ![t] = next]
  BY DEF CommitWrite
<1>6. task' = [q \in Threads |-> task'[q]] /\ \A q \in Threads : TaskTyped(task'[q])
  BY <1>4, <1>5, TaskSet DEF Typed
<1>7. assets' \subseteq Contents
  BY <1>1, <1>2 DEF CommitWrite, Typed, GraffitiTypeOK, Replaces, TaskTyped
<1>8. item' \in [Items -> RowType] /\ intended' \in [Items -> RowType]
  BY <1>2, <1>3 DEF CommitWrite, Written, Typed, GraffitiTypeOK
<1>9. outdated' \subseteq Items
  BY <1>2 DEF CommitWrite, Typed, GraffitiTypeOK
<1>10. GraffitiTypeOK'
  BY <1>7, <1>8, <1>9 DEF CommitWrite, Typed, GraffitiTypeOK
<1> QED
  BY <1>6, <1>10 DEF Typed

LEMMA BagChanged ==
    ASSUME NEW B \in LikeRows, NEW u \in People, NEW op \in LikeOps,
           op = "unlike" => B[u] > 0
    PROVE  [B EXCEPT ![u] = IF op = "like" THEN @ + 1 ELSE @ - 1] \in LikeRows
BY DEF LikeRows, LikeOps

LEMMA BeginLikeTyped ==
    ASSUME Typed, NEW t \in Threads, NEW op \in LikeOps, NEW u \in People, NEW g \in Streamables,
           BeginLike(t, op, u, g)
    PROVE  Typed'
<1> DEFINE set == [likers[g] EXCEPT ![u] = IF op = "like" THEN @ + 1 ELSE @ - 1]
           w == Task(op, u, g, set, likers[g])
<1>1. PICK has \in Answers(op, u, g) :
          IF Matters(op, has)
          THEN task' = [task EXCEPT ![t] = w] /\ liked' = liked
          ELSE task' = task /\ liked' = [liked EXCEPT ![g] = IF has THEN @ \cup {u} ELSE @ \ {u}]
  BY DEF BeginLike
<1>2. likers[g] \in LikeRows
  BY DEF Typed, GraffitiTypeOK, LikeRows
<1>3. CASE Matters(op, has)
  <2>1. op = "unlike" => likers[g][u] > 0
    BY <1>3, <1>2 DEF Answers, Matters
  <2>2. TaskTyped(w)
    BY <1>2, <2>1, BagChanged DEF TaskTyped, Task, AllOps, RowOps, LikeOps
  <2>3. task' = [q \in Threads |-> task'[q]] /\ \A q \in Threads : TaskTyped(task'[q])
    BY <1>1, <1>3, <2>2, TaskSet DEF Typed
  <2>4. GraffitiTypeOK'
    BY <1>1, <1>3, TasksAssumption DEF BeginLike, Typed, GraffitiTypeOK
  <2> QED
    BY <2>3, <2>4 DEF Typed
<1>4. CASE ~Matters(op, has)
  <2>1. liked' \in [Streamables -> SUBSET People]
    BY <1>1, <1>4 DEF Typed, GraffitiTypeOK
  <2>2. GraffitiTypeOK'
    BY <2>1, TasksAssumption DEF BeginLike, Typed, GraffitiTypeOK
  <2> QED
    BY <1>1, <1>4, <2>2 DEF Typed
<1> QED
  BY <1>3, <1>4

LEMMA CommitLikeTyped ==
    ASSUME Typed, NEW t \in Threads, CommitLike(t)
    PROVE  Typed'
<1> DEFINE w == task[t]
<1>1. w.on \in Streamables /\ w.user \in People /\ w.set \in LikeRows /\ w.seen \in LikeRows
  BY DEF CommitLike, Typed, TaskTyped
<1>2. Recreated(likers[w.on], w) \in [People -> Nat]
  BY <1>1 DEF Recreated, Typed, GraffitiTypeOK, LikeRows
<1>3. likers' \in [Streamables -> [People -> Nat]] /\ liked' \in [Streamables -> SUBSET People]
  BY <1>1, <1>2 DEF CommitLike, Typed, GraffitiTypeOK
<1>4. GraffitiTypeOK'
  BY <1>3 DEF CommitLike, Typed, GraffitiTypeOK
<1>5. TaskTyped(NoTask)
  BY DEF NoTask, Task, TaskTyped, AllOps, RowOps, LikeOps
<1>6. task' = [task EXCEPT ![t] = NoTask]
  BY DEF CommitLike
<1> QED
  BY <1>4, <1>5, <1>6, TaskSet DEF Typed

(* The steps after which a thread has nothing to do and nothing is written *)
(* that a type could change.                                               *)
LEMMA EndsTyped ==
    ASSUME Typed, NEW t \in Threads, WriteFails(t) \/ SendFlagEmail(t) \/ ReportFails(t)
    PROVE  Typed'
<1>1. TaskTyped(NoTask)
  BY DEF NoTask, Task, TaskTyped, AllOps, RowOps, LikeOps
<1>2. task' = [task EXCEPT ![t] = NoTask]
  BY DEF WriteFails, SendFlagEmail, ReportFails
<1>3. task' = [q \in Threads |-> task'[q]] /\ \A q \in Threads : TaskTyped(task'[q])
  BY <1>1, <1>2, TaskSet DEF Typed
<1>4. task[t].op = "mail" => task[t].on \in Streamables
  BY DEF Typed, TaskTyped
<1>5. GraffitiTypeOK'
  BY <1>4 DEF WriteFails, SendFlagEmail, ReportFails, graffitiHistory, Typed, GraffitiTypeOK
<1> QED
  BY <1>3, <1>5 DEF Typed

LEMMA CreateTyped ==
    ASSUME Typed, NEW i \in Items, NEW c \in Contents,
           \/ i \in Streamables /\ \E private \in BOOLEAN : CreateStreamable(i, c, private)
           \/ i \in Comments /\ PostComment(i, c)
    PROVE  Typed'
<1>1. PICK private \in BOOLEAN : Store(i, Columns(private, FALSE, FALSE, c))
  BY DEF CreateStreamable, PostComment
<1>2. Columns(private, FALSE, FALSE, c) \in RowType
  BY RowsTyped
<1>3. Columns(private, FALSE, FALSE, c).content = c
  BY DEF Columns
<1>4. item' \in [Items -> RowType] /\ intended' \in [Items -> RowType] /\ used' \subseteq Contents
  BY <1>1, <1>2, <1>3, StoreTyped
<1>5. assets' \subseteq Contents
  BY DEF CreateStreamable, PostComment, Typed, GraffitiTypeOK
<1>6. UNCHANGED <<likers, task, tasks, mailed, liked, mixed, outdated, unsent, crashes>>
  BY <1>1 DEF Store
<1> QED
  BY <1>4, <1>5, <1>6 DEF Typed, GraffitiTypeOK

LEMMA CrashTyped == Typed /\ Crash => Typed'
<1> SUFFICES ASSUME Typed, Crash PROVE Typed'
  OBVIOUS
<1>1. TaskTyped(NoTask)
  BY DEF NoTask, Task, TaskTyped, AllOps, RowOps, LikeOps
<1>2. task' = [q \in Threads |-> task'[q]] /\ \A q \in Threads : TaskTyped(task'[q])
  BY <1>1 DEF Crash
<1>3. GraffitiTypeOK'
  BY TasksAssumption DEF Crash, Typed, GraffitiTypeOK
<1> QED
  BY <1>2, <1>3 DEF Typed

LEMMA NextTyped == Typed /\ [GraffitiNext]_graffitiVars => Typed'
<1> SUFFICES ASSUME Typed, [GraffitiNext]_graffitiVars PROVE Typed'
  OBVIOUS
<1>1. CASE Crash
  BY <1>1, CrashTyped
<1>2. CASE \E i \in Items, c \in Contents :
             \/ i \in Streamables /\ \E private \in BOOLEAN : CreateStreamable(i, c, private)
             \/ i \in Comments /\ PostComment(i, c)
  BY <1>2, CreateTyped
<1>3. CASE \E t \in Threads, u \in People, i \in Items, op \in RowOps, c \in Contents \cup {Nothing} :
             BeginWrite(t, op, u, i, c)
  BY <1>3, BeginWriteTyped
<1>4. CASE \E t \in Threads, u \in People, i \in Items, op \in LikeOps :
             i \in Streamables /\ BeginLike(t, op, u, i)
  BY <1>4, BeginLikeTyped
<1>5. CASE \E t \in Threads : CommitWrite(t)
  BY <1>5, CommitWriteTyped
<1>6. CASE \E t \in Threads : CommitLike(t)
  BY <1>6, CommitLikeTyped
<1>7. CASE \E t \in Threads : WriteFails(t) \/ SendFlagEmail(t) \/ ReportFails(t)
  BY <1>7, EndsTyped
<1>8. CASE UNCHANGED graffitiVars
  BY <1>8 DEF graffitiVars, graffitiHistory, Typed, GraffitiTypeOK
<1> QED
  BY <1>1, <1>2, <1>3, <1>4, <1>5, <1>6, <1>7, <1>8 DEF GraffitiNext

(* Types, of the transactions too.                                         *)
THEOREM AlwaysTyped == GraffitiSpec => []Typed
BY InitTyped, NextTyped, PTL DEF GraffitiSpec

(* The tables hold what their columns may.                                 *)
THEOREM GraffitiTypeCorrect == GraffitiSpec => []GraffitiTypeOK
<1>1. Typed => GraffitiTypeOK
  BY DEF Typed
<1> QED
  BY <1>1, AlwaysTyped, PTL

------------------------------------------------------------------------------
(* What overlapped stays known, and what each kind of step leaves alone.   *)

Ended(t) == WriteFails(t) \/ SendFlagEmail(t) \/ ReportFails(t)

LEMMA MixedGrows == [GraffitiNext]_graffitiVars => mixed \subseteq mixed'
<1> SUFFICES ASSUME [GraffitiNext]_graffitiVars PROVE mixed \subseteq mixed'
  OBVIOUS
<1>1. ASSUME NEW t \in Threads, CommitWrite(t) \/ CommitLike(t) \/ Ended(t)
      PROVE  mixed \subseteq mixed'
  BY <1>1 DEF Ended, CommitWrite, CommitLike, WriteFails, SendFlagEmail, ReportFails, MixedBy, graffitiHistory
<1>2. CASE Crash \/ UNCHANGED graffitiVars
  BY <1>2 DEF Crash, graffitiVars, graffitiHistory
<1>3. ASSUME NEW i \in Items, NEW c \in Contents,
             PostComment(i, c) \/ \E private \in BOOLEAN : CreateStreamable(i, c, private)
      PROVE  mixed \subseteq mixed'
  BY <1>3 DEF PostComment, CreateStreamable, Store
<1>4. ASSUME NEW t \in Threads, NEW u \in People, NEW i \in Items,
             \/ \E op \in RowOps, c \in Contents \cup {Nothing} : BeginWrite(t, op, u, i, c)
             \/ \E op \in LikeOps : BeginLike(t, op, u, i)
      PROVE  mixed \subseteq mixed'
  BY <1>4 DEF BeginWrite, BeginLike
<1> QED
  BY <1>1, <1>2, <1>3, <1>4 DEF GraffitiNext, Ended

(* A step that writes no row leaves each transaction on rows alone or ends *)
(* it.                                                                     *)
WritesNoRow ==
    /\ UNCHANGED <<item, intended, outdated>> /\ mixed \subseteq mixed'
    /\ \A q \in Threads : task'[q] = task[q] \/ task'[q].op \notin RowOps

LEMMA NoRowWritten ==
    ASSUME Typed, [GraffitiNext]_graffitiVars,
           \/ UNCHANGED graffitiVars \/ Crash
           \/ \E t \in Threads : CommitLike(t) \/ Ended(t)
           \/ \E t \in Threads, u \in People, g \in Streamables, op \in LikeOps : BeginLike(t, op, u, g)
    PROVE  WritesNoRow /\ UNCHANGED assets
<1>1. mixed \subseteq mixed'
  BY MixedGrows
<1>2. NoTask.op \notin RowOps
  BY DEF NoTask, Task, RowOps
<1>3. CASE UNCHANGED graffitiVars \/ Crash
  BY <1>1, <1>2, <1>3 DEF WritesNoRow, graffitiVars, graffitiHistory, Crash
<1>4. ASSUME NEW t \in Threads, CommitLike(t) \/ Ended(t)
      PROVE  WritesNoRow /\ UNCHANGED assets
  <2>1. task' = [task EXCEPT ![t] = NoTask] /\ UNCHANGED <<item, intended, outdated, assets>>
    BY <1>4 DEF Ended, CommitLike, WriteFails, SendFlagEmail, ReportFails, graffitiHistory
  <2> QED
    BY <1>1, <1>2, <2>1, TaskSet DEF WritesNoRow, Typed
<1>5. ASSUME NEW t \in Threads, NEW u \in People, NEW g \in Streamables, NEW op \in LikeOps,
             BeginLike(t, op, u, g)
      PROVE  WritesNoRow /\ UNCHANGED assets
  <2>1. UNCHANGED <<item, intended, outdated, assets>>
    BY <1>5 DEF BeginLike
  <2>2. \/ task' = task
        \/ \E w : w.op = op /\ task' = [task EXCEPT ![t] = w]
    BY <1>5 DEF BeginLike, Task
  <2>3. op \notin RowOps
    BY DEF LikeOps, RowOps
  <2> QED
    BY <1>1, <2>1, <2>2, <2>3, TaskSet DEF WritesNoRow, Typed
<1> QED
  BY <1>3, <1>4, <1>5

------------------------------------------------------------------------------
(* ItemsKept.  As long as no two writes of an item have overlapped, every  *)
(* transaction that will write it has read the row that is stored.         *)

RowRead(w) ==
    /\ w.seen = item[w.on] /\ w.seen # NoRow
    /\ w.set = Applied(w.op, w.seen, w.set.content)

RowsInv ==
    /\ ItemsKept
    /\ \A t \in Threads :
          task[t].op \in RowOps /\ <<task[t].on, RowOps>> \notin mixed => RowRead(task[t])

LEMMA NoRowWrittenKeepsRows == RowsInv /\ WritesNoRow => RowsInv'
<1> SUFFICES ASSUME RowsInv, WritesNoRow PROVE RowsInv'
  OBVIOUS
<1>1. ItemsKept'
  BY DEF RowsInv, ItemsKept, WritesNoRow
<1>2. ASSUME NEW q \in Threads, task'[q].op \in RowOps, <<task'[q].on, RowOps>> \notin mixed'
      PROVE  RowRead(task[q])' /\ task'[q] = task[q]
  BY <1>2 DEF RowsInv, RowRead, WritesNoRow
<1> QED
  BY <1>1, <1>2 DEF RowsInv

LEMMA StoreKeepsRows ==
    ASSUME Typed, RowsInv, NEW i \in Items, NEW row, Store(i, row)
    PROVE  RowsInv'
<1>1. item[i] = NoRow /\ item' = [item EXCEPT ![i] = row] /\ intended' = [intended EXCEPT ![i] = row]
      /\ task' = task /\ mixed' = mixed
  BY DEF Store, Stored
<1>2. ItemsKept'
  BY <1>1 DEF RowsInv, ItemsKept, Typed, GraffitiTypeOK
<1>3. ASSUME NEW q \in Threads, task[q].op \in RowOps, <<task[q].on, RowOps>> \notin mixed
      PROVE  RowRead(task[q])'
  <2>1. RowRead(task[q]) /\ task[q].on \in Items
    BY <1>3 DEF RowsInv, Typed, TaskTyped
  <2>2. task[q].on # i
    BY <1>1, <2>1 DEF RowRead
  <2> QED
    BY <1>1, <2>1, <2>2 DEF RowRead, Typed, GraffitiTypeOK
<1> QED
  BY <1>1, <1>2, <1>3 DEF RowsInv

LEMMA BeginWriteKeepsRows ==
    ASSUME Typed, RowsInv, NEW t \in Threads, NEW op \in RowOps, NEW u \in People, NEW i \in Items,
           NEW c \in Contents \cup {Nothing}, BeginWrite(t, op, u, i, c)
    PROVE  RowsInv'
<1> DEFINE w == Task(op, u, i, Applied(op, item[i], c), item[i])
<1>1. item' = item /\ mixed' = mixed /\ item[i] # NoRow /\ item[i] \in RowType
  BY DEF BeginWrite, Stored, Typed, GraffitiTypeOK
<1>2. CASE Applied(op, item[i], c) = item[i]
  <2>1. task' = task /\ intended' = [intended EXCEPT ![i] = Applied(op, @, c)]
    BY <1>2 DEF BeginWrite
  <2>2. ItemsKept'
    BY <1>1, <1>2, <2>1 DEF RowsInv, ItemsKept, Typed, GraffitiTypeOK
  <2> QED
    BY <1>1, <2>1, <2>2 DEF RowsInv, RowRead
<1>3. CASE Applied(op, item[i], c) # item[i]
  <2>1. task' = [task EXCEPT ![t] = w] /\ intended' = intended
    BY <1>3 DEF BeginWrite
  <2>2. w.op = op /\ w.on = i /\ w.seen = item[i] /\ w.set = Applied(op, item[i], c)
    BY DEF Task
  <2>3. Applied(op, item[i], c) = Applied(op, item[i], Applied(op, item[i], c).content)
    BY <1>1, AppliedTyped
  <2> HIDE DEF w
  <2>4. RowRead(w)
    BY <1>1, <2>2, <2>3 DEF RowRead
  <2>5. \A q \in Threads : task'[q] = IF q = t THEN w ELSE task[q]
    BY <2>1, TaskSet DEF Typed
  <2>6. ItemsKept'
    BY <1>1, <2>1 DEF RowsInv, ItemsKept
  <2> QED
    BY <1>1, <2>4, <2>5, <2>6 DEF RowsInv, RowRead
<1> QED
  BY <1>2, <1>3

LEMMA CommitWriteKeepsRows ==
    ASSUME Typed, RowsInv, NEW t \in Threads, CommitWrite(t)
    PROVE  RowsInv'
<1> DEFINE w == task[t]
           i == w.on
<1>1. w.op \in RowOps /\ i \in Items
  BY DEF CommitWrite, Typed, TaskTyped
<1>2. /\ item' = [item EXCEPT ![i] = w.set]
      /\ intended' = [intended EXCEPT ![i] = Applied(w.op, @, w.set.content)]
      /\ mixed \subseteq mixed'
  BY DEF CommitWrite, Written, MixedBy
<1>3. \A q \in Threads \ {t} : task'[q] = task[q]
  BY DEF CommitWrite, Typed
<1>4. task'[t].op \notin RowOps
  <2>1. task'[t] = IF Reports(w) THEN [w EXCEPT !.op = "mail"] ELSE NoTask
    BY DEF CommitWrite, Typed
  <2>2. NoTask.op \notin RowOps
    BY DEF NoTask, Task, RowOps
  <2>3. CASE Reports(w)
    <3>1. w.op = "flag"
      BY <2>3 DEF Reports
    <3>2. task'[t].op = "mail"
      BY <2>1, <2>3, <3>1
    <3> QED
      BY <3>2 DEF RowOps
  <2> QED
    BY <2>1, <2>2, <2>3
<1>5. ItemsKept'
  <2> SUFFICES ASSUME NEW j \in Items, <<j, RowOps>> \notin mixed'
               PROVE  item'[j] = intended'[j]
    BY DEF ItemsKept
  <2>1. item[j] = intended[j]
    BY <1>2 DEF RowsInv, ItemsKept
  <2>2. CASE j = i
    <3>1. RowRead(w)
      BY <1>1, <1>2, <2>2 DEF RowsInv
    <3>2. w.set = Applied(w.op, intended[i], w.set.content)
      BY <3>1, <2>1, <2>2 DEF RowRead
    <3> QED
      BY <1>1, <1>2, <2>2, <3>2 DEF Typed, GraffitiTypeOK
  <2>3. CASE j # i
    BY <1>1, <1>2, <2>1, <2>3 DEF Typed, GraffitiTypeOK
  <2> QED
    BY <2>2, <2>3
<1>6. ASSUME NEW q \in Threads, task'[q].op \in RowOps, <<task'[q].on, RowOps>> \notin mixed'
      PROVE  RowRead(task[q])'
  <2>1. q # t /\ task'[q] = task[q]
    BY <1>3, <1>4, <1>6
  <2>2. RowRead(task[q]) /\ task[q].on \in Items
    BY <1>2, <1>6, <2>1 DEF RowsInv, Typed, TaskTyped
  <2>3. task[q].on # i
    BY <1>6, <2>1 DEF CommitWrite, MixedBy, Overlaps
  <2> QED
    BY <1>2, <2>1, <2>2, <2>3 DEF RowRead, Typed, GraffitiTypeOK
<1> QED
  BY <1>5, <1>6 DEF RowsInv

LEMMA NextKeepsRows == Typed /\ RowsInv /\ [GraffitiNext]_graffitiVars => RowsInv'
<1> SUFFICES ASSUME Typed, RowsInv, [GraffitiNext]_graffitiVars PROVE RowsInv'
  OBVIOUS
<1>1. CASE \/ UNCHANGED graffitiVars \/ Crash
           \/ \E t \in Threads : CommitLike(t) \/ Ended(t)
           \/ \E t \in Threads, u \in People, g \in Streamables, op \in LikeOps : BeginLike(t, op, u, g)
  BY <1>1, NoRowWritten, NoRowWrittenKeepsRows
<1>2. CASE \E i \in Items, c \in Contents :
             PostComment(i, c) \/ \E private \in BOOLEAN : CreateStreamable(i, c, private)
  BY <1>2, StoreKeepsRows DEF PostComment, CreateStreamable
<1>3. CASE \E t \in Threads, u \in People, i \in Items, op \in RowOps, c \in Contents \cup {Nothing} :
             BeginWrite(t, op, u, i, c)
  BY <1>3, BeginWriteKeepsRows
<1>4. CASE \E t \in Threads : CommitWrite(t)
  BY <1>4, CommitWriteKeepsRows
<1> QED
  BY <1>1, <1>2, <1>3, <1>4 DEF GraffitiNext, Ended

(* A graffiti or comment is as the answered requests made it, unless two   *)
(* requests that write it overlapped.                                      *)
THEOREM ItemsStayKept == GraffitiSpec => []ItemsKept
<1>1. GraffitiInit => RowsInv
  BY DEF GraffitiInit, RowsInv, ItemsKept, NoTask, Task, RowOps
<1>2. RowsInv => ItemsKept
  BY DEF RowsInv
<1> QED
  BY <1>1, <1>2, NextKeepsRows, AlwaysTyped, PTL DEF GraffitiSpec

------------------------------------------------------------------------------
(* LikesKept.  As long as no two changes of its likes have overlapped,     *)
(* every transaction that will write them has read those that are stored,  *)
(* and nobody but the owner adds a like that is there.                     *)

LikeRead(w) ==
    /\ w.seen = likers[w.on]
    /\ w.set = [w.seen EXCEPT ![w.user] = IF w.op = "like" THEN @ + 1 ELSE @ - 1]
    /\ w.user # Owner[w.on] => w.seen[w.user] = IF w.op = "like" THEN 0 ELSE 1

LikesInv ==
    /\ LikesKept
    /\ \A t \in Threads :
          task[t].op \in LikeOps /\ <<task[t].on, LikeOps>> \notin mixed => LikeRead(task[t])

LEMMA NoLikeWrittenKeepsLikes ==
    ASSUME LikesInv, UNCHANGED <<likers, liked>>, mixed \subseteq mixed',
           \A q \in Threads : task'[q] = task[q] \/ task'[q].op \notin LikeOps
    PROVE  LikesInv'
<1>1. LikesKept'
  BY DEF LikesInv, LikesKept
<1>2. ASSUME NEW q \in Threads, task'[q].op \in LikeOps, <<task'[q].on, LikeOps>> \notin mixed'
      PROVE  LikeRead(task[q])' /\ task'[q] = task[q]
  BY <1>2 DEF LikesInv, LikeRead
<1> QED
  BY <1>1, <1>2 DEF LikesInv

LEMMA OtherStepsKeepLikes ==
    ASSUME Typed, LikesInv, [GraffitiNext]_graffitiVars,
           \/ UNCHANGED graffitiVars \/ Crash
           \/ \E t \in Threads : CommitWrite(t) \/ Ended(t)
           \/ \E i \in Items, c \in Contents :
                 PostComment(i, c) \/ \E private \in BOOLEAN : CreateStreamable(i, c, private)
           \/ \E t \in Threads, u \in People, i \in Items, op \in RowOps, c \in Contents \cup {Nothing} :
                 BeginWrite(t, op, u, i, c)
    PROVE  LikesInv'
<1>1. mixed \subseteq mixed'
  BY MixedGrows
<1>2. NoTask.op \notin LikeOps /\ "mail" \notin LikeOps /\ RowOps \cap LikeOps = {}
  BY DEF NoTask, Task, RowOps, LikeOps
<1>3. UNCHANGED <<likers, liked>>
  BY DEF graffitiVars, graffitiHistory, Crash, CommitWrite, Ended, WriteFails, SendFlagEmail, ReportFails,
         PostComment, CreateStreamable, Store, BeginWrite
<1>4. CASE UNCHANGED graffitiVars \/ Crash
  BY <1>1, <1>2, <1>3, <1>4, NoLikeWrittenKeepsLikes DEF graffitiVars, Crash
<1>5. ASSUME NEW t \in Threads, Ended(t)
      PROVE  LikesInv'
  <2>1. task' = [task EXCEPT ![t] = NoTask]
    BY <1>5 DEF Ended, WriteFails, SendFlagEmail, ReportFails
  <2>2. \A q \in Threads : task'[q] = task[q] \/ task'[q].op \notin LikeOps
    BY <1>2, <2>1, TaskSet DEF Typed
  <2> QED
    BY <1>1, <1>3, <2>2, NoLikeWrittenKeepsLikes
<1>6. ASSUME NEW t \in Threads, CommitWrite(t)
      PROVE  LikesInv'
  <2>1. \A q \in Threads \ {t} : task'[q] = task[q]
    BY <1>6 DEF CommitWrite, Typed
  <2>2. task'[t] = IF Reports(task[t]) THEN [task[t] EXCEPT !.op = "mail"] ELSE NoTask
    BY <1>6 DEF CommitWrite, Typed
  <2>3. CASE Reports(task[t])
    <3>1. task[t].op = "flag"
      BY <2>3 DEF Reports
    <3>2. task'[t].op = "mail"
      BY <2>2, <2>3, <3>1
    <3> QED
      BY <1>1, <1>2, <1>3, <2>1, <3>2, NoLikeWrittenKeepsLikes
  <2>4. CASE ~Reports(task[t])
    BY <1>1, <1>2, <1>3, <2>1, <2>2, <2>4, NoLikeWrittenKeepsLikes
  <2> QED
    BY <2>3, <2>4
<1>7. ASSUME NEW i \in Items, NEW c \in Contents,
             PostComment(i, c) \/ \E private \in BOOLEAN : CreateStreamable(i, c, private)
      PROVE  LikesInv'
  <2>1. task' = task
    BY <1>7 DEF PostComment, CreateStreamable, Store
  <2> QED
    BY <1>1, <1>3, <2>1, NoLikeWrittenKeepsLikes
<1>8. ASSUME NEW t \in Threads, NEW u \in People, NEW i \in Items, NEW op \in RowOps,
             NEW c \in Contents \cup {Nothing}, BeginWrite(t, op, u, i, c)
      PROVE  LikesInv'
  <2>1. \/ task' = task
        \/ \E w : w.op = op /\ task' = [task EXCEPT ![t] = w]
    BY <1>8 DEF BeginWrite, Task
  <2>2. \A q \in Threads : task'[q] = task[q] \/ task'[q].op \notin LikeOps
    BY <1>2, <2>1, TaskSet DEF Typed
  <2> QED
    BY <1>1, <1>3, <2>2, NoLikeWrittenKeepsLikes
<1> QED
  BY <1>4, <1>5, <1>6, <1>7, <1>8

LEMMA BeginLikeKeepsLikes ==
    ASSUME Typed, LikesInv, NEW t \in Threads, NEW op \in LikeOps, NEW u \in People, NEW g \in Streamables,
           BeginLike(t, op, u, g)
    PROVE  LikesInv'
<1> DEFINE set == [likers[g] EXCEPT ![u] = IF op = "like" THEN @ + 1 ELSE @ - 1]
           w == Task(op, u, g, set, likers[g])
<1>1. PICK has \in Answers(op, u, g) :
          IF Matters(op, has)
          THEN task' = [task EXCEPT ![t] = w] /\ liked' = liked
          ELSE task' = task /\ liked' = [liked EXCEPT ![g] = IF has THEN @ \cup {u} ELSE @ \ {u}]
  BY DEF BeginLike
<1>2. UNCHANGED <<likers, mixed>>
  BY DEF BeginLike
<1>3. u # Owner[g] => has = (likers[g][u] > 0)
  BY DEF Answers
<1>4. <<g, LikeOps>> \notin mixed /\ u # Owner[g] => likers[g][u] = IF u \in liked[g] THEN 1 ELSE 0
  BY DEF LikesInv, LikesKept
<1>5. CASE Matters(op, has)
  <2>1. w.op = op /\ w.user = u /\ w.on = g /\ w.seen = likers[g] /\ w.set = set
    BY DEF Task
  <2>2. <<g, LikeOps>> \notin mixed /\ u # Owner[g] => likers[g][u] = IF op = "like" THEN 0 ELSE 1
    BY <1>3, <1>4, <1>5 DEF Matters, LikeOps
  <2>3. set = [w.seen EXCEPT ![w.user] = IF w.op = "like" THEN @ + 1 ELSE @ - 1]
    BY <2>1
  <2> HIDE DEF w, set
  <2>4. <<g, LikeOps>> \notin mixed => LikeRead(w)
    BY <2>1, <2>2, <2>3 DEF LikeRead
  <2>5. \A q \in Threads : task'[q] = IF q = t THEN w ELSE task[q]
    BY <1>1, <1>5, TaskSet DEF Typed
  <2>6. LikesKept'
    BY <1>1, <1>2, <1>5 DEF LikesInv, LikesKept
  <2> QED
    BY <1>2, <2>1, <2>4, <2>5, <2>6 DEF LikesInv, LikeRead
<1>6. CASE ~Matters(op, has)
  <2>1. task' = task /\ liked' = [liked EXCEPT ![g] = IF has THEN @ \cup {u} ELSE @ \ {u}]
    BY <1>1, <1>6
  <2>2. LikesKept'
    <3> SUFFICES ASSUME NEW h \in Streamables, NEW v \in People, <<h, LikeOps>> \notin mixed, v # Owner[h]
                 PROVE  likers[h][v] = IF v \in liked'[h] THEN 1 ELSE 0
      BY <1>2 DEF LikesKept
    <3>1. likers[h][v] = IF v \in liked[h] THEN 1 ELSE 0
      BY DEF LikesInv, LikesKept
    <3>2. h \in DOMAIN liked
      BY DEF Typed, GraffitiTypeOK
    <3>3. CASE h = g /\ v = u
      <4>1. has = (likers[g][u] > 0)
        BY <1>3, <3>3
      <4>2. CASE u \in liked[g]
        <5>1. likers[g][u] > 0
          BY <3>1, <3>3, <4>2
        <5>2. has
          BY <4>1, <5>1, Zenon
        <5>3. u \in liked'[g]
          BY <2>1, <3>2, <3>3, <5>2
        <5> QED
          BY <3>1, <3>3, <4>2, <5>3
      <4>3. CASE u \notin liked[g]
        <5>1. ~(likers[g][u] > 0)
          BY <3>1, <3>3, <4>3
        <5>2. ~has
          BY <4>1, <5>1, Zenon
        <5>3. u \notin liked'[g]
          BY <2>1, <3>2, <3>3, <5>2
        <5> QED
          BY <3>1, <3>3, <4>3, <5>3
      <4> QED
        BY <4>2, <4>3
    <3>4. CASE h # g \/ v # u
      BY <2>1, <3>1, <3>2, <3>4
    <3> QED
      BY <3>3, <3>4
  <2> QED
    BY <1>2, <2>1, <2>2 DEF LikesInv, LikeRead
<1> QED
  BY <1>5, <1>6

LEMMA CommitLikeKeepsLikes ==
    ASSUME Typed, LikesInv, NEW t \in Threads, CommitLike(t)
    PROVE  LikesInv'
<1> DEFINE w == task[t]
           g == w.on
<1>1. w.op \in LikeOps /\ g \in Streamables /\ w.user \in People /\ w.set \in LikeRows /\ w.seen \in LikeRows
  BY DEF CommitLike, Typed, TaskTyped
<1>2. /\ likers' = [likers EXCEPT ![g] = Recreated(@, w)]
      /\ liked' = [liked EXCEPT ![g] = IF w.op = "like" THEN @ \cup {w.user} ELSE @ \ {w.user}]
      /\ mixed \subseteq mixed'
      /\ task' = [task EXCEPT ![t] = NoTask]
  BY DEF CommitLike, MixedBy
<1>3. g \in DOMAIN likers /\ g \in DOMAIN liked /\ DOMAIN likers = Streamables /\ DOMAIN liked = Streamables
  BY <1>1 DEF Typed, GraffitiTypeOK
<1>4. <<g, LikeOps>> \notin mixed => LikeRead(w) /\ Recreated(likers[g], w) = w.set
  <2> SUFFICES ASSUME <<g, LikeOps>> \notin mixed PROVE LikeRead(w) /\ Recreated(likers[g], w) = w.set
    OBVIOUS
  <2>1. LikeRead(w)
    BY <1>1 DEF LikesInv
  <2>2. (\A u \in People : w.seen[u] = 0) => w.set = [u \in People |-> w.seen[u] + w.set[u]]
    BY <1>1 DEF LikeRows
  <2> QED
    BY <2>1, <2>2 DEF LikeRead, Recreated
<1>5. LikesKept'
  <2> SUFFICES ASSUME NEW h \in Streamables, NEW v \in People, <<h, LikeOps>> \notin mixed, v # Owner[h]
               PROVE  likers'[h][v] = IF v \in liked'[h] THEN 1 ELSE 0
    BY <1>2 DEF LikesKept
  <2>1. likers[h][v] = IF v \in liked[h] THEN 1 ELSE 0
    BY DEF LikesInv, LikesKept
  <2>2. CASE h # g
    BY <1>2, <1>3, <2>1, <2>2
  <2>3. CASE h = g
    <3>1. LikeRead(w) /\ likers'[g] = w.set
      BY <1>2, <1>3, <1>4, <2>3
    <3>2. v = w.user => likers'[g][v] = IF w.op = "like" THEN 1 ELSE 0
      BY <1>1, <2>3, <3>1 DEF LikeRead, LikeRows
    <3>3. v # w.user => likers'[g][v] = likers[g][v]
      BY <1>1, <3>1 DEF LikeRead, LikeRows
    <3>4. liked'[g] = IF w.op = "like" THEN liked[g] \cup {w.user} ELSE liked[g] \ {w.user}
      BY <1>2, <1>3
    <3> QED
      BY <2>1, <2>3, <3>2, <3>3, <3>4
  <2> QED
    BY <2>2, <2>3
<1>6. ASSUME NEW q \in Threads, task'[q].op \in LikeOps, <<task'[q].on, LikeOps>> \notin mixed'
      PROVE  LikeRead(task[q])' /\ task'[q] = task[q]
  <2>1. NoTask.op \notin LikeOps
    BY DEF NoTask, Task, LikeOps
  <2>2. q # t /\ task'[q] = task[q]
    BY <1>2, <1>6, <2>1, TaskSet DEF Typed
  <2>3. LikeRead(task[q]) /\ task[q].on \in Streamables
    BY <1>2, <1>6, <2>2 DEF LikesInv, Typed, TaskTyped
  <2>4. task[q].on # g
    BY <1>6, <2>2 DEF CommitLike, MixedBy, Overlaps
  <2> QED
    BY <1>2, <1>3, <2>2, <2>3, <2>4 DEF LikeRead
<1> QED
  BY <1>5, <1>6 DEF LikesInv

(* Nobody's like is lost or counted twice on a graffiti whose likes did    *)
(* not overlap, but that of its owner.                                     *)
THEOREM LikesStayKept == GraffitiSpec => []LikesKept
<1>1. GraffitiInit => LikesInv
  BY DEF GraffitiInit, LikesInv, LikesKept, NoTask, Task, LikeOps
<1>2. Typed /\ LikesInv /\ [GraffitiNext]_graffitiVars => LikesInv'
  <2> SUFFICES ASSUME Typed, LikesInv, [GraffitiNext]_graffitiVars PROVE LikesInv'
    OBVIOUS
  <2>1. CASE \E t \in Threads, u \in People, g \in Streamables, op \in LikeOps : BeginLike(t, op, u, g)
    BY <2>1, BeginLikeKeepsLikes
  <2>2. CASE \E t \in Threads : CommitLike(t)
    BY <2>2, CommitLikeKeepsLikes
  <2>3. CASE \/ UNCHANGED graffitiVars \/ Crash
             \/ \E t \in Threads : CommitWrite(t) \/ Ended(t)
             \/ \E i \in Items, c \in Contents :
                   PostComment(i, c) \/ \E private \in BOOLEAN : CreateStreamable(i, c, private)
             \/ \E t \in Threads, u \in People, i \in Items, op \in RowOps, c \in Contents \cup {Nothing} :
                   BeginWrite(t, op, u, i, c)
    BY <2>3, OtherStepsKeepLikes
  <2> QED
    BY <2>1, <2>2, <2>3 DEF GraffitiNext, Ended
<1>3. LikesInv => LikesKept
  BY DEF LikesInv
<1> QED
  BY <1>1, <1>2, <1>3, AlwaysTyped, PTL DEF GraffitiSpec

------------------------------------------------------------------------------
(* FlagsReported.  A flag that has been reported, or is about to be, stays *)
(* so, and a transaction that writes a flag without reporting it has read  *)
(* it from a row that was stored.                                          *)

Reported(g) == g \in mailed \cup unsent \/ Mailing(g)

FlagsInv ==
    /\ FlagsReported
    /\ \A t \in Threads :
          task[t].op \in RowOps \ {"flag"} /\ task[t].on \in Streamables /\ task[t].set.flagged
             => Reported(task[t].on)

LEMMA ReportedStays ==
    ASSUME Typed, [GraffitiNext]_graffitiVars, NEW g \in Streamables, Reported(g)
    PROVE  Reported(g)'
<1>1. CASE UNCHANGED graffitiVars \/ Crash
  BY <1>1 DEF graffitiVars, graffitiHistory, Crash, Reported, Mailing
<1>2. CASE \E i \in Items, c \in Contents :
             PostComment(i, c) \/ \E private \in BOOLEAN : CreateStreamable(i, c, private)
  BY <1>2 DEF PostComment, CreateStreamable, Store, Reported, Mailing
<1>3. ASSUME NEW t \in Threads, task[t].op # "mail", UNCHANGED <<mailed, unsent>>,
             \A q \in Threads \ {t} : task'[q] = task[q]
      PROVE  Reported(g)'
  BY <1>3 DEF Reported, Mailing
<1>4. ASSUME NEW t \in Threads, NEW u \in People, NEW i \in Items, NEW op \in RowOps,
             NEW c \in Contents \cup {Nothing}, BeginWrite(t, op, u, i, c)
      PROVE  Reported(g)'
  <2>1. task[t].op # "mail" /\ UNCHANGED <<mailed, unsent>> /\ \A q \in Threads \ {t} : task'[q] = task[q]
    BY <1>4 DEF BeginWrite, Working, Typed
  <2> QED
    BY <1>3, <2>1
<1>5. ASSUME NEW t \in Threads, NEW u \in People, NEW i \in Streamables, NEW op \in LikeOps,
             BeginLike(t, op, u, i)
      PROVE  Reported(g)'
  <2>1. task[t].op # "mail" /\ UNCHANGED <<mailed, unsent>> /\ \A q \in Threads \ {t} : task'[q] = task[q]
    BY <1>5 DEF BeginLike, Working, Typed
  <2> QED
    BY <1>3, <2>1
<1>6. ASSUME NEW t \in Threads, CommitWrite(t) \/ WriteFails(t) \/ CommitLike(t)
      PROVE  Reported(g)'
  <2>1. task[t].op # "mail" /\ UNCHANGED <<mailed, unsent>> /\ \A q \in Threads \ {t} : task'[q] = task[q]
    BY <1>6 DEF CommitWrite, WriteFails, CommitLike, RowOps, LikeOps, Typed
  <2> QED
    BY <1>3, <2>1
<1>7. ASSUME NEW t \in Threads, SendFlagEmail(t) \/ ReportFails(t)
      PROVE  Reported(g)'
  <2>1. /\ task[t].op = "mail" /\ \A q \in Threads \ {t} : task'[q] = task[q]
        /\ mailed' \cup unsent' = mailed \cup unsent \cup {task[t].on}
    BY <1>7 DEF SendFlagEmail, ReportFails, graffitiHistory, Typed
  <2> QED
    BY <2>1 DEF Reported, Mailing
<1> QED
  BY <1>1, <1>2, <1>4, <1>5, <1>6, <1>7 DEF GraffitiNext

LEMMA NoRowWrittenKeepsFlags ==
    ASSUME Typed, FlagsInv, [GraffitiNext]_graffitiVars, WritesNoRow
    PROVE  FlagsInv'
<1>1. FlagsReported'
  BY ReportedStays DEF FlagsInv, FlagsReported, Reported, WritesNoRow
<1>2. ASSUME NEW q \in Threads, task'[q].op \in RowOps \ {"flag"}, task'[q].on \in Streamables,
             task'[q].set.flagged
      PROVE  Reported(task[q].on)' /\ task'[q] = task[q]
  BY <1>2, ReportedStays DEF FlagsInv, WritesNoRow
<1> QED
  BY <1>1, <1>2 DEF FlagsInv

LEMMA CommitWriteKeepsFlags ==
    ASSUME Typed, FlagsInv, [GraffitiNext]_graffitiVars, NEW t \in Threads, CommitWrite(t)
    PROVE  FlagsInv'
<1> DEFINE w == task[t]
<1>1. w.op \in RowOps /\ w.on \in Items /\ (w.op = "flag" => w.on \in Streamables)
  BY DEF CommitWrite, Typed, TaskTyped
<1>2. item' = [item EXCEPT ![w.on] = w.set] /\ \A q \in Threads \ {t} : task'[q] = task[q]
  BY DEF CommitWrite, Written, Typed
<1>3. task'[t].op \notin RowOps /\ (w.op = "flag" => task'[t].op = "mail" /\ task'[t].on = w.on)
  <2>1. task'[t] = IF Reports(w) THEN [w EXCEPT !.op = "mail"] ELSE NoTask
    BY DEF CommitWrite, Typed
  <2>2. NoTask.op \notin RowOps
    BY DEF NoTask, Task, RowOps
  <2>3. CASE Reports(w)
    <3>1. w.op = "flag"
      BY <2>3 DEF Reports
    <3>2. task'[t].op = "mail" /\ task'[t].on = w.on
      BY <2>1, <2>3, <3>1
    <3> QED
      BY <3>2 DEF RowOps
  <2>4. CASE ~Reports(w)
    BY <2>1, <2>2, <2>4 DEF Reports
  <2> QED
    BY <2>3, <2>4
<1>4. ASSUME NEW g \in Streamables, item'[g].flagged
      PROVE  Reported(g)'
  <2>1. CASE g = w.on /\ w.op = "flag"
    BY <1>3, <2>1 DEF Reported, Mailing
  <2>2. CASE g = w.on /\ w.op # "flag"
    <3>1. item'[g] = w.set
      BY <1>1, <1>2, <2>2 DEF Typed, GraffitiTypeOK
    <3>2. Reported(g)
      BY <1>1, <1>4, <2>2, <3>1 DEF FlagsInv
    <3> QED
      BY <3>2, ReportedStays
  <2>3. CASE g # w.on
    <3>1. item'[g] = item[g]
      BY <1>2, <2>3 DEF Typed, GraffitiTypeOK
    <3>2. Reported(g)
      BY <1>4, <3>1 DEF FlagsInv, FlagsReported, Reported
    <3> QED
      BY <3>2, ReportedStays
  <2> QED
    BY <2>1, <2>2, <2>3
<1>5. FlagsReported'
  BY <1>4 DEF FlagsReported, Reported
<1>6. ASSUME NEW q \in Threads, task'[q].op \in RowOps \ {"flag"}, task'[q].on \in Streamables,
             task'[q].set.flagged
      PROVE  Reported(task[q].on)' /\ task'[q] = task[q]
  <2>1. q # t /\ task'[q] = task[q]
    BY <1>2, <1>3, <1>6
  <2>2. Reported(task[q].on)
    BY <1>6, <2>1 DEF FlagsInv
  <2> QED
    BY <1>6, <2>1, <2>2, ReportedStays
<1> QED
  BY <1>5, <1>6 DEF FlagsInv

LEMMA BeginWriteKeepsFlags ==
    ASSUME Typed, FlagsInv, [GraffitiNext]_graffitiVars,
           NEW t \in Threads, NEW op \in RowOps, NEW u \in People, NEW i \in Items,
           NEW c \in Contents \cup {Nothing}, BeginWrite(t, op, u, i, c)
    PROVE  FlagsInv'
<1> DEFINE w == Task(op, u, i, Applied(op, item[i], c), item[i])
<1>1. item' = item /\ item[i] \in RowType
  BY DEF BeginWrite, Typed, GraffitiTypeOK
<1>2. FlagsReported'
  BY <1>1, ReportedStays DEF FlagsInv, FlagsReported, Reported
<1>3. \/ task' = task
      \/ task' = [task EXCEPT ![t] = w]
  BY DEF BeginWrite
<1>4. w.op = op /\ w.on = i /\ w.set = Applied(op, item[i], c)
  BY DEF Task
<1> HIDE DEF w
<1>5. op # "flag" => Applied(op, item[i], c).flagged = item[i].flagged
  <2>1. op = "edit" => Applied(op, item[i], c).flagged = item[i].flagged
    BY <1>1 DEF Applied, RowType
  <2> QED
    BY <1>1, <2>1, AppliedTyped
<1>6. ASSUME NEW q \in Threads, task'[q].op \in RowOps \ {"flag"}, task'[q].on \in Streamables,
             task'[q].set.flagged
      PROVE  Reported(task'[q].on)
  <2>1. CASE task'[q] = task[q]
    BY <1>6, <2>1 DEF FlagsInv
  <2>2. CASE task'[q] = w
    BY <1>4, <1>5, <1>6, <2>2 DEF FlagsInv, FlagsReported, Reported
  <2> QED
    BY <1>3, <2>1, <2>2, TaskSet DEF Typed
<1>7. \A q \in Threads :
          task'[q].op \in RowOps \ {"flag"} /\ task'[q].on \in Streamables /\ task'[q].set.flagged
             => \E g \in Streamables : g = task'[q].on /\ Reported(g)'
  BY <1>6, ReportedStays
<1> QED
  BY <1>2, <1>7 DEF FlagsInv, Reported, Mailing

LEMMA StoreKeepsFlags ==
    ASSUME Typed, FlagsInv, [GraffitiNext]_graffitiVars, NEW i \in Items, NEW row, ~row.flagged, Store(i, row)
    PROVE  FlagsInv'
<1>1. item' = [item EXCEPT ![i] = row] /\ task' = task
  BY DEF Store
<1>2. \A g \in Streamables : item'[g].flagged => item[g].flagged
  BY <1>1 DEF Typed, GraffitiTypeOK, Items
<1>3. FlagsReported'
  BY <1>2, ReportedStays DEF FlagsInv, FlagsReported, Reported
<1>4. ASSUME NEW q \in Threads, task[q].op \in RowOps \ {"flag"}, task[q].on \in Streamables,
             task[q].set.flagged
      PROVE  Reported(task[q].on)'
  BY <1>1, <1>4, ReportedStays DEF FlagsInv
<1> QED
  BY <1>1, <1>3, <1>4 DEF FlagsInv

(* Whatever is flagged has been or is being reported, but for an exception *)
(* or a crash after the commit.                                            *)
THEOREM FlagsStayReported == GraffitiSpec => []FlagsReported
<1>1. GraffitiInit => FlagsInv
  BY DEF GraffitiInit, FlagsInv, FlagsReported, NoRow, Columns, NoTask, Task, RowOps, Items
<1>2. Typed /\ FlagsInv /\ [GraffitiNext]_graffitiVars => FlagsInv'
  <2> SUFFICES ASSUME Typed, FlagsInv, [GraffitiNext]_graffitiVars PROVE FlagsInv'
    OBVIOUS
  <2>1. CASE \/ UNCHANGED graffitiVars \/ Crash
             \/ \E t \in Threads : CommitLike(t) \/ Ended(t)
             \/ \E t \in Threads, u \in People, g \in Streamables, op \in LikeOps : BeginLike(t, op, u, g)
    BY <2>1, NoRowWritten, NoRowWrittenKeepsFlags
  <2>2. CASE \E i \in Items, c \in Contents :
               PostComment(i, c) \/ \E private \in BOOLEAN : CreateStreamable(i, c, private)
    <3>1. \E i \in Items : \E row : ~row.flagged /\ Store(i, row)
      BY <2>2 DEF PostComment, CreateStreamable, Columns
    <3>2. PICK i \in Items : \E row : ~row.flagged /\ Store(i, row)
      BY <3>1
    <3>3. PICK row : ~row.flagged /\ Store(i, row)
      BY <3>2
    <3> QED
      BY <3>3, StoreKeepsFlags
  <2>3. CASE \E t \in Threads, u \in People, i \in Items, op \in RowOps, c \in Contents \cup {Nothing} :
               BeginWrite(t, op, u, i, c)
    BY <2>3, BeginWriteKeepsFlags
  <2>4. CASE \E t \in Threads : CommitWrite(t)
    BY <2>4, CommitWriteKeepsFlags
  <2> QED
    BY <2>1, <2>2, <2>3, <2>4 DEF GraffitiNext, Ended
<1>3. FlagsInv => FlagsReported
  BY DEF FlagsInv
<1> QED
  BY <1>1, <1>2, <1>3, AlwaysTyped, PTL DEF GraffitiSpec

------------------------------------------------------------------------------
(* ImagesShown.  A content belongs to one item, whose row or transactions  *)
(* hold it, so what an edit deletes is the image of no other graffiti.     *)

Holds(i, c) ==
    \/ item[i].content = c
    \/ \E t \in Threads : /\ task[t].op \in RowOps /\ task[t].on = i
                          /\ task[t].seen.content = c \/ task[t].set.content = c

Owned ==
    \A i \in Items, c \in Contents :
        Holds(i, c) => c \in used /\ \A j \in Items : Holds(j, c) => j = i

Shown == {item[g].content : g \in {h \in Streamables : Stored(h)}}

ImagesInv ==
    /\ outdated \cap Streamables = {} => assets = Shown
    /\ Owned
    /\ \A i \in Items : Stored(i) => item[i].content \in Contents
    /\ \A t \in Threads :
          task[t].op \in RowOps => task[t].seen.content \in Contents /\ task[t].set.content \in Contents

(* Nothing comes to belong to an item but what has not been used.          *)
LEMMA OwnedStays ==
    ASSUME Owned, used \subseteq used', NEW i0, NEW c0, c0 \in Contents => c0 \in used' \ used,
           \A i \in Items, c \in Contents : Holds(i, c)' => Holds(i, c) \/ (i = i0 /\ c = c0)
    PROVE  Owned'
<1> SUFFICES ASSUME NEW i \in Items, NEW c \in Contents, Holds(i, c)'
             PROVE  c \in used' /\ \A j \in Items : Holds(j, c)' => j = i
  BY DEF Owned
<1>1. Holds(i, c) \/ (i = i0 /\ c = c0)
  OBVIOUS
<1>2. c \in used'
  BY <1>1 DEF Owned
<1>3. ASSUME NEW j \in Items, Holds(j, c)' PROVE j = i
  <2>1. Holds(j, c) \/ (j = i0 /\ c = c0)
    BY <1>3
  <2> QED
    BY <1>1, <2>1 DEF Owned
<1> QED
  BY <1>2, <1>3

LEMMA NoRowWrittenKeepsImages ==
    ASSUME ImagesInv, WritesNoRow, UNCHANGED assets, used' = used
    PROVE  ImagesInv'
<1>1. \A i \in Items, c \in Contents : Holds(i, c)' => Holds(i, c)
  BY DEF Holds, WritesNoRow
<1>2. Owned'
  BY <1>1, OwnedStays DEF ImagesInv, Owned
<1>3. Shown' = Shown
  BY DEF WritesNoRow, Shown, Stored
<1> QED
  BY <1>2, <1>3 DEF ImagesInv, WritesNoRow, Stored

LEMMA StoreKeepsImages ==
    ASSUME Typed, ImagesInv, NEW i \in Items, NEW row, row.content \in Contents, row # NoRow, Store(i, row),
           IF i \in Streamables THEN assets' = assets \cup {row.content} ELSE assets' = assets
    PROVE  ImagesInv'
<1>1. /\ item[i] = NoRow /\ item' = [item EXCEPT ![i] = row] /\ task' = task /\ outdated' = outdated
      /\ used' = used \cup {row.content} /\ row.content \notin used
  BY DEF Store, Stored
<1>2. \A j \in Items : item'[j] = IF j = i THEN row ELSE item[j]
  BY <1>1 DEF Typed, GraffitiTypeOK
<1>3. Owned'
  <2>1. \A j \in Items, c \in Contents : Holds(j, c)' => Holds(j, c) \/ (j = i /\ c = row.content)
    BY <1>1, <1>2 DEF Holds
  <2> QED
    BY <1>1, <2>1, OwnedStays DEF ImagesInv
<1>4. Shown' = IF i \in Streamables THEN Shown \cup {row.content} ELSE Shown
  <2>1. CASE i \in Streamables
    <3>1. \A c : c \in Shown' <=> c \in Shown \/ c = row.content
      BY <1>1, <1>2, <2>1 DEF Shown, Stored, Items
    <3> QED
      BY <2>1, <3>1
  <2>2. CASE i \notin Streamables
    <3>1. \A c : c \in Shown' <=> c \in Shown
      BY <1>2, <2>2 DEF Shown, Stored, Items
    <3> QED
      BY <2>2, <3>1
  <2> QED
    BY <2>1, <2>2
<1> QED
  BY <1>1, <1>2, <1>3, <1>4 DEF ImagesInv, Stored

LEMMA BeginWriteKeepsImages ==
    ASSUME Typed, ImagesInv, NEW t \in Threads, NEW op \in RowOps, NEW u \in People, NEW i \in Items,
           NEW c \in Contents \cup {Nothing}, BeginWrite(t, op, u, i, c)
    PROVE  ImagesInv'
<1> DEFINE w == Task(op, u, i, Applied(op, item[i], c), item[i])
<1>1. /\ UNCHANGED <<item, assets, outdated>> /\ Stored(i) /\ used' = used \cup ({c} \ {Nothing})
      /\ (IF op = "edit" THEN c \in Contents \ used ELSE c = Nothing)
      /\ item[i] \in RowType
  BY DEF BeginWrite, Typed, GraffitiTypeOK
<1>2. task' = task \/ task' = [task EXCEPT ![t] = w]
  BY DEF BeginWrite
<1>3. w.op = op /\ w.on = i /\ w.seen = item[i] /\ w.set = Applied(op, item[i], c)
  BY DEF Task
<1> HIDE DEF w
<1>4. /\ op = "edit" => w.set.content = c
      /\ op # "edit" => w.set.content = item[i].content
  BY <1>1, <1>3, AppliedTyped
<1>5. \A q \in Threads : task'[q] = task[q] \/ task'[q] = w
  BY <1>2, TaskSet DEF Typed
<1>6. Owned'
  <2>1. \A j \in Items, d \in Contents : Holds(j, d)' => Holds(j, d) \/ (j = i /\ d = c)
    BY <1>1, <1>3, <1>4, <1>5 DEF Holds
  <2>2. c \in Contents => c \in used' \ used
    BY <1>1, NothingAssumption
  <2>3. used \subseteq used'
    BY <1>1
  <2> QED
    BY <2>1, <2>2, <2>3, OwnedStays DEF ImagesInv
<1>7. Shown' = Shown
  BY <1>1 DEF Shown, Stored
<1>8. item[i].content \in Contents
  BY <1>1 DEF ImagesInv
<1>9. w.seen.content \in Contents /\ w.set.content \in Contents
  BY <1>1, <1>3, <1>4, <1>8
<1> QED
  BY <1>1, <1>5, <1>6, <1>7, <1>9 DEF ImagesInv, Stored

LEMMA CommitWriteKeepsImages ==
    ASSUME Typed, ImagesInv, NEW t \in Threads, CommitWrite(t)
    PROVE  ImagesInv'
<1> DEFINE w == task[t]
           i == w.on
           old == w.seen.content
           new == w.set.content
<1>1. /\ w.op \in RowOps /\ i \in Items /\ old \in Contents /\ new \in Contents /\ w.set # NoRow
      /\ used' = used
  <2>1. w.op \in RowOps /\ i \in Items /\ used' = used
    BY DEF CommitWrite, Typed, TaskTyped
  <2>2. old \in Contents /\ new \in Contents
    BY <2>1 DEF ImagesInv
  <2>3. NoRow.content \notin Contents
    BY NothingAssumption DEF NoRow, Columns
  <2> QED
    BY <2>1, <2>2, <2>3
<1>2. \A j \in Items : item'[j] = IF j = i THEN w.set ELSE item[j]
  BY <1>1 DEF CommitWrite, Written, Typed, GraffitiTypeOK
<1>3. task'[t].op \notin RowOps /\ \A q \in Threads \ {t} : task'[q] = task[q]
  <2>1. task'[t] = IF Reports(w) THEN [w EXCEPT !.op = "mail"] ELSE NoTask
    BY DEF CommitWrite, Typed
  <2>2. NoTask.op \notin RowOps
    BY DEF NoTask, Task, RowOps
  <2>3. CASE Reports(w)
    <3>1. w.op = "flag"
      BY <2>3 DEF Reports
    <3>2. task'[t].op = "mail"
      BY <2>1, <2>3, <3>1
    <3> QED
      BY <3>2 DEF RowOps, CommitWrite, Typed
  <2>4. CASE ~Reports(w)
    BY <2>1, <2>2, <2>4 DEF CommitWrite, Typed
  <2> QED
    BY <2>3, <2>4
<1>4. Owned'
  <2>1. \A j \in Items, c \in Contents : Holds(j, c)' => Holds(j, c)
    BY <1>1, <1>2, <1>3 DEF Holds
  <2> QED
    BY <1>1, <2>1, OwnedStays DEF ImagesInv, Owned
<1>5. \A j \in Items : Stored(j)' => item'[j].content \in Contents
  BY <1>1, <1>2 DEF ImagesInv, Stored
<1>6. \A q \in Threads :
          task'[q].op \in RowOps => task'[q].seen.content \in Contents /\ task'[q].set.content \in Contents
  BY <1>3 DEF ImagesInv
<1>7. ASSUME outdated' \cap Streamables = {} PROVE assets' = Shown'
  <2>1. outdated \subseteq outdated'
    BY DEF CommitWrite
  <2>2. assets = Shown
    BY <1>7, <2>1 DEF ImagesInv
  <2>3. CASE Replaces(w)
    <3>1. /\ i \in Streamables /\ assets' = (assets \ {old}) \cup {new} /\ old \in assets
      BY <2>3 DEF CommitWrite, Replaces, Fits
    <3>2. PICK g \in Streamables : Stored(g) /\ item[g].content = old
      BY <2>2, <3>1 DEF Shown
    <3>3. Holds(g, old) /\ Holds(i, old)
      BY <1>1, <3>2 DEF Holds
    <3>4. g = i
      BY <1>1, <3>2, <3>3 DEF ImagesInv, Owned, Items
    <3>5. ASSUME NEW h \in Streamables, h # i, Stored(h) PROVE item[h].content # old
      <4>1. item[h].content = old => Holds(h, old)
        BY DEF Holds
      <4> QED
        BY <1>1, <3>3, <3>5, <4>1 DEF ImagesInv, Owned, Items
    <3>6. \A h \in Streamables : Stored(h)' <=> Stored(h)
      BY <1>1, <1>2, <3>2, <3>4 DEF Stored, Items
    <3>7. \A c : c \in Shown' <=> \E h \in Streamables : Stored(h) /\ c = IF h = i THEN new ELSE item[h].content
      BY <1>2, <3>6 DEF Shown, Items
    <3>8. \A c : c \in Shown' <=> (c \in Shown /\ c # old) \/ c = new
      <4>1. \A c : c \in Shown <=> \E h \in Streamables : Stored(h) /\ c = item[h].content
        BY DEF Shown
      <4>2. i \in Streamables /\ Stored(i) /\ item[i].content = old
        BY <3>1, <3>2, <3>4
      <4> HIDE DEF i, old, new
      <4>3. ASSUME NEW c, c \in Shown' PROVE (c \in Shown /\ c # old) \/ c = new
        BY <4>1, <4>3, <3>5, <3>7
      <4>4. ASSUME NEW c, c \in Shown, c # old PROVE c \in Shown'
        BY <4>1, <4>2, <4>4, <3>7
      <4>5. new \in Shown'
        BY <4>2, <3>7
      <4> QED
        BY <4>3, <4>4, <4>5
    <3> QED
      BY <2>2, <3>1, <3>8
  <2>4. CASE i \in Streamables /\ ~Replaces(w)
    <3>1. assets' = assets /\ new = item[i].content
      BY <1>1, <1>7, <2>4 DEF CommitWrite, Replaces
    <3>2. item[i] # NoRow
      BY <1>1, <3>1, NothingAssumption DEF NoRow, Columns
    <3>3. \A h \in Streamables : (Stored(h)' <=> Stored(h)) /\ item'[h].content = item[h].content
      BY <1>1, <1>2, <3>1, <3>2 DEF Stored, Items
    <3> QED
      BY <2>2, <3>1, <3>3 DEF Shown
  <2>5. CASE i \notin Streamables
    <3>1. assets' = assets
      BY <2>5 DEF CommitWrite, Replaces
    <3>2. \A h \in Streamables : (Stored(h)' <=> Stored(h)) /\ item'[h].content = item[h].content
      BY <1>2, <2>5 DEF Stored, Items
    <3> QED
      BY <2>2, <3>1, <3>2 DEF Shown
  <2> QED
    BY <2>3, <2>4, <2>5
<1> QED
  BY <1>4, <1>5, <1>6, <1>7 DEF ImagesInv

(* Each graffiti shows the one image there is for it, unless a stale write *)
(* put back an old one.                                                    *)
THEOREM ImagesStayShown == GraffitiSpec => []ImagesShown
<1>1. GraffitiInit => ImagesInv
  <2> SUFFICES ASSUME GraffitiInit PROVE ImagesInv
    OBVIOUS
  <2>1. \A i \in Items : item[i] = NoRow /\ NoRow.content \notin Contents
    BY NothingAssumption DEF GraffitiInit, NoRow, Columns
  <2>2. \A t \in Threads : task[t].op \notin RowOps
    BY DEF GraffitiInit, NoTask, Task, RowOps
  <2>3. \A i \in Items, c \in Contents : ~Holds(i, c)
    BY <2>1, <2>2 DEF Holds
  <2>4. Shown = {}
    BY <2>1 DEF Shown, Stored, Items
  <2> QED
    BY <2>1, <2>2, <2>3, <2>4 DEF ImagesInv, Owned, Stored, GraffitiInit
<1>2. Typed /\ ImagesInv /\ [GraffitiNext]_graffitiVars => ImagesInv'
  <2> SUFFICES ASSUME Typed, ImagesInv, [GraffitiNext]_graffitiVars PROVE ImagesInv'
    OBVIOUS
  <2>1. CASE \/ UNCHANGED graffitiVars \/ Crash
             \/ \E t \in Threads : CommitLike(t) \/ Ended(t)
             \/ \E t \in Threads, u \in People, g \in Streamables, op \in LikeOps : BeginLike(t, op, u, g)
    <3>1. used' = used
      BY <2>1 DEF graffitiVars, Crash, CommitLike, Ended, WriteFails, SendFlagEmail, ReportFails, BeginLike
    <3> QED
      BY <2>1, <3>1, NoRowWritten, NoRowWrittenKeepsImages
  <2>2. ASSUME NEW i \in Items, NEW c \in Contents, i \in Comments, PostComment(i, c)
        PROVE  ImagesInv'
    <3>1. i \notin Streamables
      BY <2>2, TablesAssumption
    <3>2. /\ Columns(FALSE, FALSE, FALSE, c) # NoRow
          /\ Columns(FALSE, FALSE, FALSE, c).content = c
      BY RowsTyped DEF Columns
    <3> QED
      BY <2>2, <3>1, <3>2, StoreKeepsImages DEF PostComment
  <2>3. ASSUME NEW i \in Streamables, NEW c \in Contents, NEW private \in BOOLEAN,
               CreateStreamable(i, c, private)
        PROVE  ImagesInv'
    <3>1. /\ Columns(private, FALSE, FALSE, c) # NoRow
          /\ Columns(private, FALSE, FALSE, c).content = c
      BY RowsTyped DEF Columns
    <3> QED
      BY <2>3, <3>1, StoreKeepsImages DEF CreateStreamable, Items
  <2>4. CASE \E t \in Threads, u \in People, i \in Items, op \in RowOps, c \in Contents \cup {Nothing} :
               BeginWrite(t, op, u, i, c)
    BY <2>4, BeginWriteKeepsImages
  <2>5. CASE \E t \in Threads : CommitWrite(t)
    BY <2>5, CommitWriteKeepsImages
  <2> QED
    BY <2>1, <2>2, <2>3, <2>4, <2>5 DEF GraffitiNext, Ended
<1>3. ImagesInv => ImagesShown
  BY DEF ImagesInv, ImagesShown, Shown
<1> QED
  BY <1>1, <1>2, <1>3, AlwaysTyped, PTL DEF GraffitiSpec
==============================================================================
