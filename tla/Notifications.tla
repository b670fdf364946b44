---------------------------- MODULE Notifications ----------------------------
(***************************************************************************)
(* Notifications from the call of addNotificationToUser: a job in the pool *)
(* inserts the row, reads the user's devices and pushes to one after the   *)
(* other; a device whose push fails is removed.  A notification is dated   *)
(* when it is created, so requests and threads that overtake each other    *)
(* insert rows out of the order of their dates.  Meanwhile users read      *)
(* their notifications page by page and mark them as read.                 *)
(***************************************************************************)
EXTENDS Devices, Paging, ByDate
Ext == INSTANCE SequencesExt

CONSTANTS
    Workers,        \* threads of the pool
    Limits,         \* limits that clients ask for
    MaxFailures     \* bound: pushes that fail

ASSUME WorkersAssumption == Workers \subseteq Threads /\ MaxFailures \in Nat
ASSUME LimitsAssumption == Limits \subseteq Ints \cup {Absent}

VARIABLES
    inbox,      \* table notification: the rows of each user
    made,       \* how many were created; the date of the next
    dated,      \* notifications created by requests, not yet handed to the pool
    queue,      \* JobService: notifications to be added
    worker,     \* what each thread of the pool is doing
    reader,     \* a client that reads the notifications of a user
    failures,   \* bound: how many pushes failed
    failed,     \* history: devices to which a push failed
    done        \* history: notifications whose job has ended

inboxVars == <<inbox, made, dated, queue, worker, reader, failures, failed, done>>
vars == <<deviceVars, inboxVars>>

Row0(at, read) == [at |-> at, read |-> read]
Job(u, at) == [user |-> u, at |-> at]

\* list is what there is to push to, at is the position of the next
Work(step, job, list, at) == [step |-> step, job |-> job, list |-> list, at |-> at]
Resting == Work("idle", Job(Nobody, 0), <<>>, 0)

Reading(u, limit, offset, seen, due) ==
    [user |-> u, limit |-> limit, offset |-> offset, seen |-> seen, due |-> due]
NotReading == Reading(Nobody, 0, 0, {}, {})

Init ==
    /\ DevicesInit
    /\ inbox = [u \in Users |-> {}]
    /\ made = 0
    /\ dated = {}
    /\ queue = <<>>
    /\ worker = [w \in Workers |-> Resting]
    /\ reader = NotReading
    /\ failures = 0
    /\ failed = {} /\ done = {}

MoreRequests == requests < MaxRequests /\ requests' = requests + 1
OtherVars == <<device, nextId, tx, held, raced>>

------------------------------------------------------------------------------
(* A request notifies u: it creates the notification, and dates it here,   *)
(* then it hands a job to the pool.                                        *)
Notify(u) ==
    /\ MoreRequests
    /\ dated' = dated \cup {Job(u, made)}
    /\ made' = made + 1
    /\ UNCHANGED <<OtherVars, inbox, queue, worker, reader, failures, failed, done>>

Execute(j) ==
    /\ dated' = dated \ {j}
    /\ queue' = Append(queue, j)
    /\ UNCHANGED <<deviceVars, inbox, made, worker, reader, failures, failed, done>>

(* A thread takes the first job.  The mistake is to take two and do one.   *)
BugRest(q) == SubSeq(q, 3, Len(q))
Rest(q) == Tail(q)

Take(w) ==
    /\ worker[w] = Resting
    /\ queue # <<>>
    /\ queue' = Rest(queue)
    /\ worker' = [worker EXCEPT ![w] = Work("adding", Head(queue), <<>>, 0)]
    /\ UNCHANGED <<deviceVars, inbox, made, dated, reader, failures, failed, done>>

(* The transaction that adds the notification; if it fails, the thread     *)
(* drops the job.                                                          *)
AddNotification(w) ==
    LET j == worker[w].job IN
    /\ worker[w].step = "adding"
    /\ inbox' = [inbox EXCEPT ![j.user] = @ \cup {Row0(j.at, FALSE)}]
    /\ worker' = [worker EXCEPT ![w].step = "added"]
    /\ UNCHANGED <<deviceVars, made, dated, queue, reader, failures, failed, done>>

Finish(w) ==
    /\ worker' = [worker EXCEPT ![w] = Resting]
    /\ done' = done \cup {worker[w].job}

AddFails(w) ==
    /\ worker[w].step = "adding"
    /\ Finish(w)
    /\ UNCHANGED <<deviceVars, inbox, made, dated, queue, reader, failures, failed>>

FindDevices(w) ==
    /\ worker[w].step = "added"
    /\ \E L \in Lists(RowsOfUser(worker[w].job.user)) :
          worker' = [worker EXCEPT ![w] = Work("push", @.job, [k \in DOMAIN L |->
             IF L[k] = Null THEN Null ELSE [id |-> L[k], token |-> device[L[k]].token]], 1)]
    /\ UNCHANGED <<deviceVars, inbox, made, dated, queue, reader, failures, failed, done>>

(* The job ends after the last device, or at an exception, which only      *)
(* sendNotification catches: a gap in the list, a service that is not set  *)
(* up or the transaction that reads the devices.                           *)
AtEnd(w) ==
    /\ worker[w].step = "push"
    /\ worker[w].at \in DOMAIN worker[w].list => worker[w].list[worker[w].at] = Null

EndJob(w) ==
    /\ worker[w].step \in {"added", "push"}
    /\ Finish(w)
    /\ UNCHANGED <<deviceVars, inbox, made, dated, queue, reader, failures, failed>>

Push(w) ==
    /\ worker[w].step = "push" /\ ~AtEnd(w)
    /\ worker' = [worker EXCEPT ![w].at = @ + 1]
    /\ UNCHANGED <<deviceVars, inbox, made, dated, queue, reader, failures, failed, done>>

PushFails(w) ==
    LET d == worker[w].list[worker[w].at] IN
    /\ worker[w].step = "push" /\ ~AtEnd(w)
    /\ failures < MaxFailures /\ failures' = failures + 1
    /\ failed' = failed \cup {d.id}
    /\ BeginDrop(w, worker[w].job.user, d.id, d.token)
    /\ worker' = [worker EXCEPT ![w] = Work("drop", @.job, @.list, @.at + 1)]
    /\ UNCHANGED <<inbox, made, dated, queue, reader, done>>

(* handlePushNotificationError returns; if its transaction has failed, the *)
(* exception ends the job.                                                 *)
DropDevice(w) ==
    /\ worker[w].step = "drop"
    /\ IF Open(w) THEN EndDevice(w) ELSE UNCHANGED deviceVars
    /\ worker' = [worker EXCEPT ![w].step = "push"]
    /\ UNCHANGED <<inbox, made, dated, queue, reader, failures, failed, done>>

DropFails(w) ==
    /\ worker[w].step = "drop"
    /\ LoseDevice(w)
    /\ Finish(w)
    /\ UNCHANGED <<inbox, made, dated, queue, reader, failures, failed>>

------------------------------------------------------------------------------
(* getNotifications *)
Newest(u) == NewestFirst(inbox[u])

\* markAllNotificationsAsRead asks for 10000, more than the cap of a page
MarkAll(u) ==
    LET rows == Ext!ToSet(Page(Newest(u), 0, MaxInt)) IN
    /\ MoreRequests
    /\ inbox' = [inbox EXCEPT ![u] = (@ \ rows) \cup {Row0(n.at, TRUE) : n \in rows}]
    /\ UNCHANGED <<OtherVars, made, dated, queue, worker, reader, failures, failed, done>>

MarkOne(u, n) ==
    /\ MoreRequests
    /\ inbox' = [inbox EXCEPT ![u] = (@ \ {n}) \cup {Row0(n.at, TRUE)}]
    /\ UNCHANGED <<OtherVars, made, dated, queue, worker, reader, failures, failed, done>>

(* A client reads all pages: it asks for the next one from where the last  *)
(* has ended, until a page is shorter than the limit in the answer.  The   *)
(* mistake is to go on after the limit that was asked for.                 *)
BugNextOffset(offset, limit) == IF limit = Absent THEN offset + PageSize ELSE offset + limit
NextOffset(offset, limit) == offset + Limit(limit)

StartReading(u, limit) ==
    /\ reader = NotReading
    /\ MoreRequests
    /\ reader' = Reading(u, limit, 0, {}, Dates(inbox[u]))
    /\ UNCHANGED <<OtherVars, inbox, made, dated, queue, worker, failures, failed, done>>

HasMore == Len(Page(Newest(reader.user), reader.offset, reader.limit)) = Limit(reader.limit)

ReadPage ==
    LET page == Page(Newest(reader.user), reader.offset, reader.limit) IN
    /\ reader # NotReading /\ reader.offset >= 0
    /\ reader' = [reader EXCEPT
                    !.seen = @ \cup Dates(Ext!ToSet(page)),
                    !.offset = IF HasMore THEN NextOffset(@, reader.limit) ELSE -1]
    /\ UNCHANGED <<deviceVars, inbox, made, dated, queue, worker, failures, failed, done>>

------------------------------------------------------------------------------
DeviceStep(t) ==
    /\ \/ \E u \in Users, k \in Tokens : BeginDevice(t, u, k)
       \/ EndDevice(t) \/ LoseDevice(t)
    /\ UNCHANGED inboxVars

WorkerStep(w) ==
    \/ Take(w) \/ AddNotification(w) \/ AddFails(w)
    \/ FindDevices(w) \/ Push(w) \/ EndJob(w)
    \/ PushFails(w) \/ DropDevice(w) \/ DropFails(w)

Next ==
    \/ \E t \in Threads \ Workers : DeviceStep(t)
    \/ \E w \in Workers : WorkerStep(w)
    \/ \E u \in Users :
          \/ Notify(u) \/ MarkAll(u)
          \/ \E n \in inbox[u] : MarkOne(u, n)
          \/ \E limit \in Limits : StartReading(u, limit)
    \/ \E j \in dated : Execute(j)
    \/ ReadPage

Spec == Init /\ [][Next]_vars

(* The threads of the pool work; nobody has to send a request.             *)
FairSpec == Spec /\ \A w \in Workers : WF_vars(WorkerStep(w))

------------------------------------------------------------------------------
TypeOK ==
    /\ DevicesTypeOK
    /\ \A u \in Users : \A n \in inbox[u] : n.at \in 0 .. made - 1 /\ n.read \in BOOLEAN
    /\ failed \subseteq 1 .. nextId
    /\ failures \in 0 .. MaxFailures

(* A row of a device goes only when its user unregisters it, or when a     *)
(* push to that very device has failed: what was registered again since    *)
(* then stays.                                                             *)
RemovedForCause ==
    [][\A i \in DOMAIN device \ DOMAIN device' :
          \/ i \in failed
          \/ \E t \in Threads \ Workers : tx[t].op = "unregister" /\ tx[t].id = i]_vars

(* A client that reads page by page to the end has seen every notification *)
(* there was when it began, although others came in between, some of them  *)
(* with an older date than those it has read.                              *)
NothingSkipped == reader.offset < 0 => reader.due \subseteq reader.seen

(* The job of every notification that is handed to the pool is taken, and  *)
(* it ends, whatever fails in it.  Handed over and done is for good: this  *)
(* says that the one leads to the other, in a form that costs TLC less.    *)
Handed(at) == at < made /\ at \notin Dates(dated)

EveryJobEnds ==
    \A at \in 0 .. MaxRequests - 1 : []<>(Handed(at) => at \in Dates(done))
==============================================================================
