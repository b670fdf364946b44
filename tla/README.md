# GraffiTab back end: a TLA+ model

GraffiTab's back end is a Spring Boot application over Hibernate and MySQL, with
Amazon S3 for images and, in production, Redis for HTTP sessions. Requests run on
the servlet container's threads; images, notifications, activities and session
backups are handled by thread pools inside the process. Nothing coordinates these
threads except the database's transactions (READ_COMMITTED,
`config/spring/MainDatabaseConfig.java:63`), one hand-written monitor
(`service/job/WorkQueue.java`) and a few in-memory maps. This directory models the
parts in which that matters, checks them with TLC and proves the central results
with TLAPS.

Paths below are relative to `src/main/java/com/graffitab/server/` in the repository.

## 1. Inventory

| Component | State | Operations | Talks to | Hard behaviour | What makes it correct |
|---|---|---|---|---|---|
| Job pool (`service/job`) | list of jobs, two threads and their wait set | `execute`, the loop of `PoolWorker` | called by notifications and activities | one `notify` per job, spurious wakeups, jobs that throw | no lost wakeup, each job runs once, in order; an exception does not stop the pool |
| Uploaded images (`AssetService`, `ImageUtilsService`, `AmazonS3DatastoreService`, parts of `UserService` and `StreamableService`) | `asset` rows, asset columns of users and graffiti, S3 objects, temporary files, map of replaced images, executor of four threads | upload, replace, import, delete; deferred processing | three stores without a common transaction | overlapping replacements, stale merges, upload errors, restarts | a COMPLETED image can be downloaded, columns point to rows, replaced images are erased, processing ends |
| Accounts (`UserService`, login filters, `UserStatusAspect`) | status, password, failed logins, tokens | activate, reset, complete reset, change password, count and clear failures, edits | e-mail, sessions | whole-row writes without a version | only the owner decides; suspension only after enough failures; activation is final |
| HTTP sessions (`UserSessionService`, `SessionInvalidationFilter`, `PersistedSessionSecurityContext`, `RedisUserSessionService`) | container or Redis sessions, `session` rows, executor of two threads | save, touch, delete, restore, log out everywhere | accounts | saves in the background race with the next request, with deletion and with logging out everywhere | a reset ends every session; a logged-in user stays logged in |
| Followers and likes (`UserService.follow`, `StreamableService.like`) | tables `following` (a list with positions) and `gt_like` (a bag), neither with a unique key | follow, unfollow, like, unlike | notifications and activities, after the transaction | check-then-act on a collection read before; positions that collide; the session is closed when the owner is asked for | one row for one like or follow; whoever is followed or liked is told |
| Graffiti and comments (`StreamableService`, `CommentService`) | `streamable` and `comment` rows, the image of each graffiti | create, edit, soft delete, make private, flag | images, activities, e-mail | whole-row writes without a version | what one request did is not undone by another; a flag is reported |
| Feeds and activity (`ActivityService`, `ActivityPagingService`) | `activity` rows | jobs that add them, two queries, grouping | followers, graffiti, job pool | jobs in any order; equality of lazily loaded users | private and deleted graffiti are not in the feed; groups lose nothing |
| Notifications and push (`service/notification`) | notification rows | add, push, mark, read by pages | job pool, devices | the job runs after the request, late notifications shift the pages | none is skipped; each job ends |
| Devices (`DeviceService`) | device rows with their positions in the list of the user | register, unregister, drop after a failed push | notifications | check-then-act on tokens of all users; gaps in the list | a token has one row; a device goes only for a reason |
| Paging (`PagingService`) | none | offset and limit of a request | every list | caps, overflow of `Math.abs` | a client that follows the pages sees everything |
| External providers, registration (`service/user`) | rows of one user | link, create | social networks | check-then-act on names and addresses; one shared Facebook client | no duplicates |
| Image scaling, locations | none; rows of one user | | | boundaries | |
| Transactions (`TransactionUtils`) | actions after commit (never added by the code) | run in a (new) transaction | everything | | modelled at its uses |
| E-mail, feedback, controllers, mappers, pages, configuration | | | | | not modelled: presentation and external services |

The hazards of this code, each at its line, are in `PROJECT.json`.

### How a database transaction behaves

Two facts of the persistence layer carry most of the model. The entities have no
`@DynamicUpdate`, so a transaction that changes one column writes all of them, with
the values it read; and only `Asset` and `UserSession` have a `@Version`, so nothing
notices that a `User` or a `Streamable` was changed in between. A transaction is
therefore a read and a later commit of a whole row; whatever the other threads do in
between is lost, apart from what a version or a foreign key refuses. The avatar and
cover deletions widen the window: they merge the `User` that the status check loaded
before their transaction began.

A collection is written in its own way. A list with an `@OrderColumn` (followed users,
devices) is compared with the list that was read, and the difference is written position
by position (`OrderKeys`); a list without (likers) is deleted and inserted as a whole.
Both happen over whatever rows there are by then.

Two facts about reading matter as well. A reference that a query has not loaded is a
proxy, of another class than the entity, and `User.equals` compares classes
(`persistence/model/user/User.java`): `a.equals(proxy)` is false even for the same user.
And a request has no session outside its transactions, so that touching a proxy after the
transaction is an exception, with the transaction already committed.

## 2. Modules

| Module | Models | Kind |
|---|---|---|
| `WorkQueue` | `WorkQueue.java`: monitor, wait set, threads | detailed specification |
| `JobPool` | what `JobService.execute` promises | abstract specification, implemented by `WorkQueue` |
| `WorkQueueProofs` | | proofs |
| `Assets` | images from upload to erasure | specification |
| `AssetsProofs` | | proofs |
| `Accounts` | one account and its overlapping requests | specification |
| `AccountsProofs` | | proofs |
| `Sessions` | sessions of the container, their rows, the executor, resets | specification |
| `SessionsProofs` | | proofs |
| `OrderKeys` | a list stored with an `@OrderColumn`: reading it, writing the difference | operators |
| `Follows` | follow and unfollow | specification |
| `OrderKeysProofs` | | proofs |
| `Graffiti` | rows of graffiti and comments, likes, flags, crashes | specification |
| `ByDate` | `order by createdOn desc` of rows with different dates | operators |
| `Feeds` | the two feeds and the grouping of activities | operators |
| `Social` | `Follows`, `Graffiti` and `Feeds` for the same users and threads, with the jobs they submit | composition |
| `GraffitiProofs` | | proofs |
| `SocialProofs` (`Follows` and `Social`), `NotificationsProofs` | | proofs |
| `Paging` | which part of a list a page is | operators |
| `Devices` | devices of all users | specification |
| `Notifications` | notifications, the pool that adds and pushes them, clients that read them; with `Devices` and `Paging` | composition |
| `MC*` | instances for TLC | |

The definitions named `Bug...`, and the faulty variants grouped at the top of `WorkQueue`, are plausible mistakes; the specifications do not
use them. Each is the mistake that one property was seen to catch.

### WorkQueue and JobPool

A synchronized block is one step. `Execute` appends and notifies; `Wait`, `Take`,
`End` and `Die` are the segments of `PoolWorker.run`. `NotifyOne` wakes any one
waiting thread or nobody. `WakeUnnotified` covers spurious wakeups and
`InterruptedException`, which the loop ignores. A job in `Fatal` throws an `Error`,
which the loop does not catch: its thread is gone (`Die`).

`JobPool` has neither monitor nor wait set: jobs start in the order of the calls
whenever fewer than `Capacity` are running or have killed a thread. The refinement
maps the list to `pending` and the jobs of the running threads to `running`.

### Assets

| Model | Code |
|---|---|
| `refs`, `asset`, `imported` | asset columns of `gt_user` and `streamable`, table `asset` |
| `store`, `temp` | S3 objects (image and thumbnail), temporary directory |
| `prevOf`, `queue`, `worker` | `newAssetGuidToPreviousAssetGuidMap`, `assetOperationsExecutor` |
| `req` | what each request thread has read and will do next |
| `target`, `dropped`, `revived` | history, used only in properties |

An upload transfers the file (`Upload`), reads the row (`ReadRow`), commits (`Commit`
or `CommitFails`) and queues the job (`Enqueue`). For a user the replaced image is
recorded inside the transaction, for a graffiti after it, as in the code. `Commit`
removes the row of the replaced asset (`orphanRemoval`) and fails when its version
has changed or when another column would point to a row that is gone. Deletions are
`LoadUser`, `Merge`, `EraseStd`, `EraseThumb`. The job is `Generate`, `UploadStd`,
`UploadThumb`, `Complete`, `ErasePreviousStd`, `ErasePreviousThumb`, each with its
failure. `Restart` loses what is in memory. The model is that of production, where
`session.backups.enabled` is false (`conf/application-digitalocean.properties:18`).

### Accounts

One account row, its reset token and any number of overlapping requests. A request
that reads the row computes the row it will store (`Transaction`), and `Commit`
stores it. The JSON login is `CheckLogin` (the status, in a transaction of its own),
then `WrongPassword` and `UpdateLoginAttempts`, or `RightPassword`, `SaveSession` (when
sessions are backed up) and `ResetLoginAttempts`. `LoadForMerge` is the deletion of an
avatar or cover, `BeginProfile` and `EditProfile` the other edits. `Abandon` is every
failure that rolls a transaction back; `Expire` is the passing of time.

`Published` says whether Spring publishes bad-credentials events: the application has a
listener for them that counts a failure a second time, and excludes the
auto-configuration that would install a publisher
(`GraffitabApplication.java:25`). The runs have it false; the theorems hold for both
values. `Backups` is `session.backups.enabled`; true, as in `accounts`, adds the save
of the session to the behaviours, so it is the harder case.

### Sessions

| Model | Code |
|---|---|
| `live`, `context` | sessions of the servlet container and the security context in each |
| `rows` | table `session`: which login stored the row, for which session, and who inserted it (the executor or a request) |
| `queue`, `worker` | `sessionOperationsExecutor` |
| `logins` | the successful logins in order: user and session |
| `req` | what each request thread is doing, for which login and session |
| `created`, `stored`, `out`, `gone`, `cleared`, `excused` | history, used only in properties |

A login is `Login` (password checked), `SubmitSave` (the success handler) and `Reply`
(the context enters the session). The save is `ReadSession` (attributes, which fails for
a destroyed session), `FindRow`, then `InsertRow` or `UpdateRow`. The transaction that
inserts also merges the user the login has loaded, and the merge reaches the avatar and the
cover, which have a version: it fails when one of them has changed since, and the executor
drops the exception (`MergeFails`, `DropException`). Every other request is
`LoadContext` (from the session or its row), `Admit` or `Invalidate`
(the filter), then `Leave`, `Logout` or `ChangePassword`. A session is restored in as many
steps as the code has: `OpenSession` creates it or takes the one there is, `SeekRow` looks for its row,
`ReadAttributes` fails if it was destroyed meanwhile, a second `SeekRow` begins the
transaction and `StoreRow` commits it; an exception ends the request (`RestoreFails`). The
session can end, and its deletion run, between any two of them, and two requests can restore
the same row. Every answer stores its context in a session that has none (`Answered`). A reset or change of password
deletes rows with one statement and commits later (`Commit`). A session that ends for
whatever reason submits the deletion of its rows (`Destroy`). Restoring sits inside an
`isDebugEnabled` block of `PersistedSessionSecurityContext.loadContext`; `log4j2.xml` sets
that level, hence `Debug`. When the status and password checks let a login or a reset
through is the matter of `Accounts`; here any of them may happen at any time. Left out are
the attributes of a session and `touchSession`, whose date only the disabled cleaner reads.
With `Backups` false no row is written or read and sessions survive a crash, as in Redis.

### Follows, Graffiti and Social

| Model | Code |
|---|---|
| `following` | table `following`: rows of position, user and a copy number that tells equal rows apart |
| `change` | a transaction of `follow` or `unfollow`: the list it has read and the one it will write |
| `item`, `assets` | tables `streamable` and `comment`, rows of `asset` that belong to graffiti |
| `likers` | table `gt_like`: how many rows of each user a graffiti has |
| `task` | a transaction on a row or a bag of likers, or a flag about to be mailed |
| `jobs`, `notes`, `activity` | jobs not ended, tables `notification` and `activity` |
| `wanted`, `raced`, `refused`, `intended`, `liked`, `mixed`, `outdated`, `unsent`, `untold` | history, used only in properties |

Each request is a `Begin...` that reads (and ends, if there is nothing to do) and a commit.
A position with two rows is read as either; a position without one is `Null`; an update
that does not find exactly one row fails the transaction (`CanWrite`). `CommitWrite` writes
all columns as they were read, but the one that changes. An edit deletes the image that
it replaces, with a version, so the second of two edits fails (`Fits`). `CommitLike`
writes the bag (`Recreated`: nothing is deleted if none was read). What is lazily loaded
decides four things: `Answers` (the owner of a graffiti is not found among its likers,
so may like it twice), `ReportFails` (the link in the e-mail of a flag needs the asset),
`EndLikeUntold` (the owner of a graffiti is asked for after the transaction of a like) and
`lazy` in `Feeds`. Where the code can go either way, depending on what the transaction
has loaded, the model has both.

`Social` joins `Follows` and `Graffiti` on the same threads, each of which does one thing at
a time. `EndChange`, `EndLike` and `Create` commit and submit the jobs in one step: until a
job runs nobody can tell when it was submitted. `RunJob` ends any job: the pool starts them
in order (`JobPool`), and two threads end them in any. An activity is dated by the request.

### Devices, Paging and Notifications

| Model | Code |
|---|---|
| `device`, `nextId` | table `device`: user, token and position |
| `tx` | a transaction that registers, unregisters or drops a device |
| `inbox`, `queue`, `worker` | table `notification`, the list and the two threads of `JobService` |
| `dated` | notifications that a request has created and not yet handed to the pool |
| `reader` | a client that reads page after page |
| `held`, `raced`, `failed`, `done` | history, used only in properties |

A request creates a notification, which dates it (`Notify`), and hands it over (`Execute`);
requests overtake each other in between. A job is `Take`, `AddNotification` (its transaction,
or `AddFails`, an exception that the loop of the pool catches), `FindDevices`, then for each device `Push` or
`PushFails` with `DropDevice`, a transaction of its own. Threads overtake each other between
`Take` and `AddNotification`, so rows are inserted in any order of their dates. A gap in the
list ends the job by a `NullPointerException`; that and any other exception of
`sendNotification` is caught there (`EndJob`). A device row holds its
own position, so every row that is written must still be there (`CanStore`). Whether the
push service is Apple's or Google's makes no difference. `Page` has the defaults, the cap
and the overflow of `Math.abs` in `PagingService.getItems`, on integers of the width given by `MaxInt`.

Dates, of notifications and activities, are those of a counter, so no two are equal (two of one
millisecond could come in either order in the queries). `NewestFirst` in `ByDate` puts each row
after as many as have a later date.

## 3. Runs

All runs are on small instances; `CHECK_DEADLOCK FALSE` is set where the bounds (guids,
tokens, failures) use up what requests can do. Only `MCWorkQueue` needs no such bound
and checks deadlock: its threads can always be woken.

| Run | Instance | Shows |
|---|---|---|
| `work_queue` | 2 threads as in `JobService`, 4 jobs, one fatal | types, no lost wakeup, no job lost or repeated, implements `JobPool` with its fairness, every job ends |
| `assets_graffiti` | 1 graffiti, 4 images, 2 requests, 2 threads, 1 error, 1 restart | types, no row left over, the file is there, the objects left behind are exactly the explained ones; a COMPLETED image has both objects |
| `assets_user` | avatar and cover, 3 images, 2 requests, 1 thread | COMPLETED images are stored; leaks under stale merges |
| `assets_progress` | avatar and graffiti, 2 images, 2 requests, 2 threads, 1 error, fair | processing settles, or something failed |
| `accounts` | 2 requests, 2 passwords, 2 reset tokens, limit 3, 5 failures, backups | types and all safety properties |
| `accounts_password` | the same, without backups | violated: see below |
| `sessions` | 2 users, 2 sessions, 2 logins, 2 requests, 2 threads; 2.2 million states | types; what logging out everywhere deleted stays deleted; which rows outlive their session; nobody is logged out but by the user of the row |
| `sessions_restart` | 1 user, 2 sessions, 1 login, 2 requests, 2 threads, 1 crash, fair; 0.5 million states | the same for sessions that two requests restore from one login, before and after a crash; saves and deletions finish |
| `sessions_logout` | 1 user, 1 session, 1 login, 2 requests | violated: see below |
| `graffiti` | 2 users, 1 graffiti, 1 comment, 3 contents, 2 threads, 4 tasks, 1 crash | rows, images, likes and flags are as the answers said, unless two writes of one kind overlapped; flags are reported |
| `social` | 3 users, one of whom follows the two others, 1 graffiti, 2 threads, 3 transactions | the same of follows; everyone is told; feeds show nothing hidden; groups are right |
| `notifications` | 2 users, 2 tokens, 2 request threads, 2 pool threads, 4 requests, 1 failed push, integers of -4 .. 3, pages of 1 and at most 2, fair; 0.75 million states | device lists have no gaps and no duplicates; devices go for a reason; pages skip nothing; every job ends |

Why the bounds are enough. Nearly every conflict in these components is between what one
request has read and what one other has committed, so two requests meet it. (With three, one
can hide an image, a second erase it and a third show it again; the runs of `Assets` do not
reach this. `revived` excludes what any stale write showed again, and `ImagesStayStored` is
proved for any number of requests.) Three
images let an image be replaced twice, or replaced in one column while the other is
deleted; the fourth, for a graffiti, lets both overlapping edits follow a finished one.
One error and one restart reach every failure branch, each at every point. The limit
of failed logins is 3 instead of 5: the counter is compared with it in one place, and
3 leaves room for a lost update, a suspension and the failures after it. Two logins meet
on one session or use two, and two sessions let one be restored as the other, by two requests at
once; the executor has its two threads. After a crash one login is enough: what is restored
from it keeps its login. In `sessions` the states are compared by `View`, which leaves out
the history `out`, which only `LoggedOutFromAllDevices` reads, and who inserted rows that
were deleted since; no step and no property of that run depends on either. A third session lets two requests restore one login into two
sessions, one of which may end the other; `OnlyOwnersEndSessions` allows for it, and is
proved for any number. Four tasks on a graffiti let two that overlap be followed by
two more, which is enough for a flag to be taken back and given again; with three
transactions in `social`, two overlap and a third meets what they left. Three users make
a list of two, in which removing the first moves the second. There is no crash in `social`,
which would only lose jobs. Four requests register two devices, notify and read, or
register one again while a push to it fails; two notifications and a reader are enough for
one of them to come late, with an older date than what was read. Symmetry is
used for requests, guids, threads, tokens and passwords only in runs without liveness.

Fairness. `WorkQueue`: each thread is scheduled (weak fairness of its step; a job is
assumed to end). Nobody has to submit a job. `Assets`: a request that was accepted
continues and the executor's threads keep running; no client has to send a request.
Neither assumes that a wakeup, an error or a restart happens or does not happen beyond
the bound of the instance. `Accounts` has no liveness: nobody has to log in.
`Sessions`: the executor's threads keep running; a save or deletion that is submitted is
eventually taken. `Notifications`: the pool's threads keep working; no request has to come,
and one that has created a notification need not hand it over. `EveryJobEnds` there is
written with `[]<>`: what was handed over stays so, and what is done too, so this is the same as
leads-to and costs TLC less.
`Graffiti`, `Follows` and `Social` have no liveness: what must come is in `jobs` until it does
(`EveryoneTold`), and that jobs end is `EveryJobEnds` of `work_queue` and `notifications`.

### What the violated runs show

- `accounts_password`. A new password is undone by the commit of a request that read the
  row before. A suspension after failed logins is undone in the same way.
- `sessions_logout`. A login answered before a reset has its row stored after the reset's
  statement ran; the row is not deleted and the session is let in. In production, where
  backups are off, a reset ends no session at all: the filter does not look at the table
  and `RedisUserSessionService`, which would delete the sessions, is injected nowhere.

### What the properties leave open

The properties that hold name, in their premises, what may go wrong. Met while modelling,
and without a run of their own because no line of the repository promises otherwise in
terms a run could refute:

- `AssetService.java:151` says that the erasing of replaced images works on a single node.
  Also with one node, an image that is replaced while it is being processed leaves objects
  behind (`LeaksExplained` says which). Deleting the avatar writes back the cover of the
  `User` that was loaded before, and an upload that overlaps with another one may do the same:
  what such a write shows again may have lost its objects (`revived` in `ImagesStored`).
- A client whose next request comes before its session's row is stored is logged out by
  the filter, and two saves of one session (two logins on it, or a login and a restore) may
  both insert a row, after which every request of that session fails until it ends.
- A save whose merge meets an avatar or a cover that has changed since the login is lost
  (`UserSessionService.java:112`), the exception with it, and the filter logs the client out at the next
  request (`failed` in `SavesFinish`).
- A session that ends while a thread of the executor, or a request restoring it, is between finding no
  row and inserting one keeps its row for ever, since its deletion has run before (`excused`).
  The row can then be used to restore the session. The daily cleaner that would remove it is disabled.
- A request that restores a session while a reset deletes the row it has read stores a
  row for the login again (`gone` leaves such logins out); it is let in, as in `sessions_logout`.
- Two follows by one user that overlap lose one of them, and an unfollow that overlaps can
  bring somebody back (`raced` in `FollowingKept`). The lists then have gaps or two rows in
  a position, and later requests may fail (`CanWrite`).
- Likes of one graffiti that overlap lose or double rows (`mixed`). The owner of a
  graffiti can like it more than once (`LikesKept` leaves the owner out).
- A like of somebody else's graffiti usually ends in an error after it was committed, and
  nobody is told of it (`untold`).
- Flagging, hiding, deleting and editing that overlap undo each other; a flag or a change of
  privacy that overlaps with an edit puts back the image that the edit has deleted
  (`outdated`). A graffiti whose report failed stays flagged and is never reported (`unsent`).
- Followers' activity shows likes of graffiti that were deleted or made private; only their
  creation is hidden (`FollowersActivity`).
- Activities of users that are not loaded yet are never grouped and the first one is shown
  twice (`Ungrouped`), as it is with groups of 0 or 1.
- A device whose token is still stored for another user is not registered, silently
  (`Known`). A token registered twice at once can never be registered, unregistered or
  looked up again.
- Marking all notifications as read marks one page, not 10000
  (`NotificationService.java:51`, `PagingService.java:33`).
- A notification whose transaction fails is dropped (`AddFails`). In `Social` no job fails and there is no
  crash, both of which would lose jobs (`WorkQueue.java:56`): `EveryoneTold` holds short of them.

Where a premise excludes overlapping requests (`raced`, `mixed`, overlapping writers of an
item), the property says what the others can rely on; it does not say that the race is
harmless, and the list above says what comes of it. Simplifications that a reader should know:

- With the avatar and cover deletions, and the save of a session, `Accounts` writes back the reset token as well. In
  the code the metadata are merged only if the map happened to be loaded, so the model has more behaviours.
- `SameActivity` compares graffiti by identity. The generated `equals` compares their owners, and
  with a lazily loaded owner the same graffiti is unequal to itself: a repeated like is then
  shown twice in its group.
- `work_queue` has one fatal job for two threads; a second ends the pool, and the premise of
  `EveryJobEnds` leaves that out.
- When the processing fails before its second half, the temporary file is never removed
  (`ImageUtilsService.java:94`); `InputAvailable` asks only that it is not removed too early.

## 4. Proofs

Proved for any number of users, graffiti, images, threads, jobs, requests, tokens and passwords,
under the named assumptions of the modules (constants are of their types, special values
are not in the sets they mark, the set of threads is finite and not empty, a graffiti is
not a comment).

`WorkQueueProofs`. `TypeCorrect` and `NoJobLost` by invariance of their own formulas.
`NoLostWakeup` (`EnoughWoken`): while a thread waits, there are at least as many woken
threads as jobs in the list. The notify of `Execute` pays for the job it adds and a
thread that takes a job uses up one of each; a thread goes to sleep only when the list
is empty. The proof is about cardinalities and needs the set of threads to be finite.
`WorkQueueImplementsJobPool` is step simulation: `Execute`, `Take`, `End` and `Die` are
`Submit`, `Start`, `Finish` and `Kill`, the rest stutters; `Start`'s bound on running
jobs comes from each running thread having a job of its own.

`AccountsProofs`. What endangers the row is what a transaction read long ago. So the
inductive invariant `IInv` says of every row in flight what the property says of the row
in the database (`RowOK`, and `Sound` for each request): an ACTIVE row in flight is
vouched for, its password was chosen by somebody entitled, its counter is at most the
number of failures reported. Such a fact about a request cannot be undone by another
one, because the histories it refers to only grow (`StillSound`). From it follow
`TypeCorrect`, `OnlyOwnersDecide` and `NeverSuspendedEarly`. `ActivationStays` needs one
more invariant, `Final`: without the listener, whoever is about to write the row has seen
that it was not PENDING or makes it so.

`SessionsProofs`. `DeletedForGood`: once a reset has deleted all rows of a login, none comes
back. A row of login n is stored only by the save of n or by a request that read such a
row. The inductive invariant `IInv` says that the save of n waits in at most one place
(its request, the list, a thread: `SavedOnce`), and in none once n has a row, is being
restored, at whichever step, or is gone (`Settled`). The list is a sequence, so the step from the list to a
thread shifts indices; the rest follows from one lemma (`Undisturbed`) about steps that
leave the save of n where it is. `TypeCorrect` needs that logins are numbered in order
(`Numbered`). `LeftoversStayExplained`: a session that was destroyed never comes back, and only
who has read the attributes of a session while it was valid stores a row of it: a thread of the
executor, or a request that restores it (`Storing`). If the session ends after that, it is
excused, and stays so; a session that is not excused and has ended has its deletion to come
when its last row was stored (`TableInv`). `OnlyOwnersEnd`: what a request is about to delete belongs to its user and not to
its own session (`CondemnedOwned`), and who owns a row never changes (`OwnersStay`), so a live
session that had a row and has none was cleared by an owner of one of its rows (`OwnerInv`).

`AssetsProofs`. The five invariants that the runs of `Assets` check, for any number of images,
requests, failures and restarts. Under all of them lies that an image on its way is
in one place, with one request, once in the queue or with one thread, and that its file
is there (`Alone`); this is `InputStaysAvailable`. Nothing is known of an image before its
commit, and it is shown or read only in the column it was uploaded for (`Placed`).
`GraffitiRowsStayShown`: the row of the replaced image goes with the commit that replaces it,
and of two edits that have read the same row the second finds its version gone and fails. That
leaves graffiti that show nothing, which have a single image on its way (`FirstImage`).
`ImagesStayStored`: call an image lasting while it is shown and no stale write has shown it
again. No lasting image is erased, about to be, or recorded as replaced (`Hidden`), and what
its thread has done so far is in the bucket (`StoredInv`). A user's deletions and uploads
write back what they have read, which may be stale, hence `revived`. `LeaksStayExplained`: as
long as nothing failed, an image whose job is still to come is not COMPLETED, and has a row
unless it was dropped (`Reported`); so an image that went with its replacement is recorded for
it (`Recorded`), and each object without a row is dropped or has an eraser to come (`Erased`).

`SocialProofs`, on `Follows`. `FollowingStaysKept`: for a user whose requests do not overlap, the table
has exactly the rows of a list without repetitions, that list is what the answers said, and
no request fails, whatever the others do. The heart are lemmas on `OrderKeys` (in
`OrderKeysProofs`): from the rows of a list, that list is read and no other (`LastKeyOfRows`,
`ReadBack`); and writing the difference between it and the list with one element appended,
or removed, gives the rows of the new list. The inductive invariant `IInv` adds what a transaction has read: as long as the
user has not been raced, it is still what is stored.

`GraffitiProofs`. `ItemsStayKept` and `LikesStayKept`: as long as no two writers of an item (no
two changes of its likes) have overlapped, whoever is about to write it has read what is
stored, and would write what the answer promises (`RowsInv`, `LikesInv`). `FlagsStayReported`
needs no such condition: a flag that was reported, or is about to be, stays so
(`ReportedStays`), and a transaction that writes a flag without reporting it has read it from
a row that was stored (`FlagsInv`). `ImagesStayShown`: a content belongs to one item, which is
the only one whose row, or whose transactions, hold it (`Owned`); so what an edit deletes is
the image of no other graffiti (`ImagesInv`). Each of the four is preserved by all steps that
write no row for the same reason (`NoRowWritten`), which leaves the commits.

`SocialProofs`, on `Social`. `SocialImplementsComponents`: every step of `Social` is a step of `Follows` or
leaves its variables alone, and the same for `Graffiti`. Therefore `FollowingKept` and the four
properties of `Graffiti` hold in the composition as well (`FollowingStaysKeptInSocial`,
`GraffitiStayKeptInSocial`). `OwnersStayObeyed`: whatever says that a graffiti was created names
its owner (`CreatedByOwner`), and the row is as the answers say (`ItemsKept`).
`EveryoneStaysTold`: what was told stays told (`Remembers`), so it is enough that each open
transaction holds only users who were told of when it read them, and the one it adds, who is
told of after its end (`ListTold`, `SetTold`); this holds of stale lists and of overlapping
transactions too, whose lists may have gaps (`ListElements`, `WriteElements`). Whoever follows
at the beginning has been announced in some order: there is one because `Users` is finite
(`UsersAssumption`).
`SocialTypeCorrect` needs that what is announced is as what comes of it, and that no two
activities, done or to be done, have one date (`Entered`); and of the lists that overlapping
transactions leave, that their positions are bounded (`FollowsTyped`).

`GroupsStayRight` rests on two theorems about the loop of `groupActivities`, for every list and
every limit from 2 on: `GroupsAsTheyShould` and, for lazily loaded users, `GroupsOfProxies`. The
loop and `FlattenSeq` are functions defined by recursion on the numbers up to the length of
a list. That such a function exists, and what it gives, is proved by induction
(`NumbersInduction`, from the least number without a property). After n turns the
groups are well formed and, one after the other, hold what the first n activities have
that is not a repetition, ending with the n-th or the one it repeats (`GroupedUpTo`); a turn
appends to the last group (`FlatJoined`, `WellJoined`), starts one (`FlatStarted`,
`WellStarted`) or repeats (`HoldsRepeated`). The list itself descends because the dates differ
(`Entered`, `NewestFirstOrders`). With limits below 2 the first activity is shown twice, so the
theorem does not extend to them.

`NotificationsProofs`. A step either leaves the devices alone or begins, ends or loses a
transaction on them (`Kind`). Ids are not used again and no row changes its owner or its
token, so what was read of a device stays true or the device is gone (`Past`, `Of`, `Bears`):
with it go the types, also of users whose transactions overlapped, whose lists may have gaps
and repetitions but an end (`LastKeyBounded`). `TokensStayUnique`: a request that adds a device
has found no row with its token, and whoever adds one meanwhile overlaps with it.
`DevicesStayKept`: as long as no two transactions of a user overlapped, the positions are those
of a list (`Ordered`), each transaction has read that list, the rows it writes are those that
move (`AddedInOrder`, `RemovedInOrder`), and transactions of others touch none of them
(`OthersUntouched`). `OnlyRemovedForCause`: a thread of the pool drops the row its push failed
for, by its id, and no other thread drops any (`Causes`).

`NotificationsTypeCorrect` and `PagesSkipNothing`: a notification keeps its date when it is
marked, and those still to come, with a request, in the list or with a thread, have other dates
and each its own (`Waiting`, `Apart`), in whatever order they are inserted. The position of a
notification in the list is the number of those with a later date (`Rank`, in
`OrderKeysProofs`), and this number only grows. So a notification that has at least as many later
ones as the client has gone past is still ahead of it (`ReaderInv`): one that comes late,
or in between, moves others towards the end, never back. A lemma about `Page` says which part of a
list a page is for every integer limit, 0, negative ones and the one whose absolute
value overflows included.

Only model-checked: liveness (`ImplementsPool`'s fairness, `EveryJobEnds`, `ProcessingSettles`,
`SavesFinish`, `RowsCleaned`), which is out of the prover's reach. Every invariant and every
other action property of a passing run is stated by a theorem; of `ImplementsPool` the safety part
(`WorkQueueImplementsJobPool`).

## 5. Plan

Done: 1 `WorkQueue`/`JobPool`, 2 `Assets`, 3 `Accounts`, 4 `Sessions`, 5 `Follows`, `Graffiti`, `Feeds`
and `Social`, 6 `Devices`, `Paging` and `Notifications`, 7 the proofs of every safety property of
the passing runs. Left:

8. Registration: uniqueness of names, addresses and external providers.

## 6. Not modelled

- E-mail, feedback, pages, DTOs and mappers: presentation and external services.
- Locations: one writer, no interaction.
- Hashtags and mentions: the parsing has no callers, and the notifications and activities
  of comments are commented out (`CommentService.java:79-91`).
- Registration's checks and the linking of external providers: each is a query and an
  insertion in one transaction of one request, with answers of another service.
- Image scaling: arithmetic of doubles inside one call. Its failure is in `Assets`.
- Searches, the newest, popular and statistical queries, and the count of unread
  notifications: they only read.
- The window of one month for notifications: nothing else depends on the dates' distance.
- Deployment scripts and load tests; the contents of images, texts and tokens;
  `TransactionUtils`' actions after commit, which nothing adds.
