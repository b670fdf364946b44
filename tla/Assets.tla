-------------------------------- MODULE Assets --------------------------------
(***************************************************************************)
(* The life of an uploaded image: the request that stores it and links it  *)
(* to a user or a graffiti, the pool that resizes and uploads it, and the  *)
(* deletion of the image it replaces.                                      *)
(*                                                                         *)
(* Three stores that no transaction spans: the asset and owner rows of the *)
(* database (asset, refs), the objects of the datastore (store) and the    *)
(* server's temporary directory (temp).  prevOf and queue live in memory   *)
(* and die with the process.                                               *)
(*                                                                         *)
(* A database transaction is a read of the row and, later, a commit that   *)
(* writes every column of it (the entities have no @DynamicUpdate) under   *)
(* READ_COMMITTED; what protects a commit is the version of the asset row  *)
(* it removes (Asset has a @Version, User and Streamable have none) and    *)
(* the foreign keys of the asset columns.                                  *)
(***************************************************************************)
EXTENDS Naturals, Sequences, FiniteSets

CONSTANTS
    Guids,        \* asset guids, each used for one upload
    UserFields,   \* the asset columns of the user's row
    Streamables,  \* graffiti, each a row with one asset column
    Requests,     \* request threads
    Workers,      \* threads of assetOperationsExecutor
    MaxFailures,  \* bound: image and datastore errors
    MaxRestarts,  \* bound: restarts of the server
    NoGuid,       \* a null column
    NoPlace       \* target of an upload that has not happened

ASSUME PlacesAssumption == UserFields \cap Streamables = {} /\ NoPlace \notin UserFields \cup Streamables
ASSUME GuidsAssumption == NoGuid \notin Guids
ASSUME BoundsAssumption == MaxFailures \in Nat /\ MaxRestarts \in Nat

Places == UserFields \cup Streamables
MaybeGuid == Guids \cup {NoGuid}
RowStates == {"none", "PROCESSING", "COMPLETED"}
Parts == {"std", "thumb"}

VARIABLES
    refs,      \* the asset column: which asset each place shows
    asset,     \* the asset table: state of the row with that guid
    imported,  \* assets that are links to images elsewhere
    store,     \* objects in the datastore
    temp,      \* files in the temporary directory
    prevOf,    \* newAssetGuidToPreviousAssetGuidMap
    queue,     \* the executor's queue
    worker,    \* what each pool thread is doing
    req,       \* what each request thread is doing
    target,    \* history: the place each guid was uploaded for
    dropped,   \* history: guids whose row went while nobody would erase them
    revived,   \* history: guids that a stale write showed again
    failures, restarts

db == <<refs, asset, imported>>
history == <<target, dropped, revived>>
bounds == <<failures, restarts>>
vars == <<refs, asset, imported, store, temp, prevOf, queue, worker, req,
          target, dropped, revived, failures, restarts>>

NoRefs == [p \in Places |-> NoGuid]
NoRows == [g \in Guids |-> "none"]
IdleRequest == [pc |-> "idle", place |-> NoPlace, guid |-> NoGuid, snap |-> NoRefs, seen |-> NoRows]
IdleWorker == [step |-> "idle", guid |-> NoGuid]

Init ==
    /\ refs = NoRefs
    /\ asset = NoRows
    /\ imported = {}
    /\ store = {}
    /\ temp = {}
    /\ prevOf = [g \in Guids |-> NoGuid]
    /\ queue = <<>>
    /\ worker = [w \in Workers |-> IdleWorker]
    /\ req = [r \in Requests |-> IdleRequest]
    /\ target = [g \in Guids |-> NoPlace]
    /\ dropped = {}
    /\ revived = {}
    /\ failures = 0
    /\ restarts = 0

------------------------------------------------------------------------------
(* Rows as a transaction sees and writes them.                             *)

RowOf(p) == IF p \in UserFields THEN UserFields ELSE {p}

(* The columns of p's row, and the versions of the assets they point to:   *)
(* an asset row changes only when it is completed, so its state stands for *)
(* its version.                                                            *)
Snap(p) == [q \in Places |-> IF q \in RowOf(p) THEN refs[q] ELSE NoGuid]
Seen(p) == [g \in Guids |-> IF \E q \in RowOf(p) : refs[q] = g THEN asset[g] ELSE "none"]

WriteRow(p, columns) == [q \in Places |-> IF q \in RowOf(p) THEN columns[q] ELSE refs[q]]

\* the assets of p's other columns that come back with columns
Returned(p, columns) ==
    {columns[q] : q \in {k \in RowOf(p) \ {p} : columns[k] # refs[k]}} \ {NoGuid}

Unborn(p) == p \in Streamables /\ \A g \in Guids : target[g] # p

Busy(r, pc) == req[r].pc = pc
Idle(r) == [req EXCEPT ![r] = IdleRequest]

(* Flushing a row that points to a new asset: the asset it pointed to is   *)
(* deleted by id and version, the other columns are written back as read   *)
(* and checked by their foreign keys.  The Bug... definitions, here and    *)
(* below, are the mistakes the properties are tried against.               *)
BugVersionUnchanged(r) == TRUE
VersionUnchanged(r) ==
    LET old == req[r].snap[req[r].place]
    IN  old # NoGuid => asset[old] = req[r].seen[old]

ForeignKeysHold(r) ==
    \A q \in RowOf(req[r].place) \ {req[r].place} :
        LET g == req[r].snap[q]
        IN  g # NoGuid => asset[g] # "none"

CommitOK(r) == VersionUnchanged(r) /\ ForeignKeysHold(r)

------------------------------------------------------------------------------
(* Uploads: addOrReplaceUserImageAsset, createStreamableGraffiti and       *)
(* editStreamableGraffiti.                                                 *)

Upload(r, p, g) ==
    /\ Busy(r, "idle")
    /\ target[g] = NoPlace
    /\ p \in UserFields \/ Unborn(p) \/ refs[p] # NoGuid
    /\ temp' = temp \cup {g}
    /\ target' = [target EXCEPT ![g] = p]
    /\ req' = [req EXCEPT ![r] = [IdleRequest EXCEPT !.pc = "read", !.place = p, !.guid = g]]
    /\ UNCHANGED <<db, store, prevOf, queue, worker, dropped, revived, bounds>>

(* addPreviousAssetGuidMapping, and a variant that forgets to call it.     *)
BugMapped(g, old) == prevOf
Mapped(g, old) == IF old = NoGuid THEN prevOf ELSE [prevOf EXCEPT ![g] = old]

(* The user's upload records the image it will replace as soon as it has   *)
(* read the row, inside the transaction.                                   *)
ReadRow(r) ==
    LET p == req[r].place
        g == req[r].guid
    IN  /\ Busy(r, "read")
        /\ req' = [req EXCEPT ![r].pc = "commit", ![r].snap = Snap(p), ![r].seen = Seen(p)]
        /\ prevOf' = IF p \in UserFields THEN Mapped(g, refs[p]) ELSE prevOf
        /\ UNCHANGED <<db, store, temp, queue, worker, history, bounds>>

(* Editing somebody else's graffiti, or one that does not exist, is found  *)
(* out after the file has been transferred.                                *)
RejectEdit(r) ==
    /\ Busy(r, "read")
    /\ req[r].place \in Streamables
    /\ refs[req[r].place] # NoGuid
    /\ req' = Idle(r)
    /\ UNCHANGED <<db, store, temp, prevOf, queue, worker, history, bounds>>

(* orphanRemoval: the row of the replaced asset goes in the same commit.   *)
Commit(r) ==
    LET p == req[r].place
        g == req[r].guid
        old == req[r].snap[p]
    IN  /\ Busy(r, "commit")
        /\ CommitOK(r)
        /\ refs' = WriteRow(p, [req[r].snap EXCEPT ![p] = g])
        /\ asset' = [h \in Guids |-> CASE h = g -> "PROCESSING"
                                       [] h = old -> "none"
                                       [] OTHER -> asset[h]]
        /\ dropped' = dropped \cup {h \in {old} \ {NoGuid} : asset[h] = "PROCESSING"}
        /\ revived' = revived \cup Returned(p, req[r].snap)
        /\ req' = [req EXCEPT ![r].pc = "enqueue"]
        /\ UNCHANGED <<imported, store, temp, prevOf, queue, worker, target, bounds>>

(* The commit throws and is rolled back; the file and the mapping stay.    *)
CommitFails(r) ==
    /\ Busy(r, "commit")
    /\ ~CommitOK(r)
    /\ req' = Idle(r)
    /\ UNCHANGED <<db, store, temp, prevOf, queue, worker, history, bounds>>

(* submit, and a variant that does so for first images only.               *)
BugSubmitted(g, old) == IF old = NoGuid THEN Append(queue, g) ELSE queue
Submitted(g, old) == Append(queue, g)

(* A variant whose request thread removes the file it has transferred.     *)
BugEnqueue(r) ==
    LET p == req[r].place
        g == req[r].guid
        old == req[r].snap[p]
    IN  /\ Busy(r, "enqueue")
        /\ queue' = Submitted(g, old)
        /\ temp' = temp \ {g}
        /\ prevOf' = IF p \in Streamables THEN Mapped(g, old) ELSE prevOf
        /\ req' = Idle(r)
        /\ UNCHANGED <<db, store, worker, history, bounds>>

(* A graffiti's edit records the replaced image after its transaction and  *)
(* before the job that will erase it is queued.                            *)
Enqueue(r) ==
    LET p == req[r].place
        g == req[r].guid
        old == req[r].snap[p]
    IN  /\ Busy(r, "enqueue")
        /\ queue' = Submitted(g, old)
        /\ prevOf' = IF p \in Streamables THEN Mapped(g, old) ELSE prevOf
        /\ req' = Idle(r)
        /\ UNCHANGED <<db, store, temp, worker, history, bounds>>

(* createStreamableGraffitiFromExternalResource: a finished asset whose    *)
(* image is somewhere else.                                                *)
Import(r, p, g) ==
    /\ Busy(r, "idle")
    /\ Unborn(p)
    /\ target[g] = NoPlace
    /\ refs' = [refs EXCEPT ![p] = g]
    /\ asset' = [asset EXCEPT ![g] = "COMPLETED"]
    /\ imported' = imported \cup {g}
    /\ target' = [target EXCEPT ![g] = p]
    /\ UNCHANGED <<store, temp, prevOf, queue, worker, req, dropped, revived, bounds>>

------------------------------------------------------------------------------
(* deleteAvatar and deleteCover: the user was loaded when the request      *)
(* came in, and is merged as a whole.                                      *)

LoadUser(r, p) ==
    /\ Busy(r, "idle")
    /\ refs[p] # NoGuid
    /\ req' = [req EXCEPT ![r] = [pc |-> "merge", place |-> p, guid |-> refs[p],
                                  snap |-> Snap(p), seen |-> Seen(p)]]
    /\ UNCHANGED <<db, store, temp, prevOf, queue, worker, history, bounds>>

(* merge cascades to the assets of the other columns: one whose row has    *)
(* another version makes it throw.                                         *)
MergeOK(r) ==
    \A q \in UserFields \ {req[r].place} :
        LET g == req[r].snap[q]
        IN  g # NoGuid => asset[g] \in {"none", req[r].seen[g]}

(* The other columns go back to what the request had loaded; an asset the  *)
(* database no longer has is inserted again (with a new id, which the      *)
(* model does not tell from the old one: it has the guid and the state the *)
(* request had loaded), and an asset the row stops pointing to is removed  *)
(* as an orphan.                                                           *)
Merge(r) ==
    LET p == req[r].place
        columns == [req[r].snap EXCEPT ![p] = NoGuid]
        kept == {columns[q] : q \in UserFields}
        orphans == {refs[q] : q \in UserFields} \ (kept \cup {NoGuid})
    IN  /\ Busy(r, "merge")
        /\ MergeOK(r)
        /\ refs' = WriteRow(p, columns)
        /\ asset' = [g \in Guids |->
                        CASE g \in orphans -> "none"
                          [] g \in kept /\ asset[g] = "none" -> req[r].seen[g]
                          [] OTHER -> asset[g]]
        /\ dropped' = dropped \cup {g \in orphans : g # req[r].guid \/ asset[g] = "PROCESSING"}
        /\ revived' = revived \cup Returned(p, columns)
        /\ req' = [req EXCEPT ![r].pc = "eraseStd"]
        /\ UNCHANGED <<imported, store, temp, prevOf, queue, worker, target, bounds>>

MergeFails(r) ==
    /\ Busy(r, "merge")
    /\ ~MergeOK(r)
    /\ req' = Idle(r)
    /\ UNCHANGED <<db, store, temp, prevOf, queue, worker, history, bounds>>

EraseStd(r) ==
    /\ Busy(r, "eraseStd")
    /\ store' = store \ {<<req[r].guid, "std">>}
    /\ req' = [req EXCEPT ![r].pc = "eraseThumb"]
    /\ UNCHANGED <<db, temp, prevOf, queue, worker, history, bounds>>

EraseThumb(r) ==
    /\ Busy(r, "eraseThumb")
    /\ store' = store \ {<<req[r].guid, "thumb">>}
    /\ req' = Idle(r)
    /\ UNCHANGED <<db, temp, prevOf, queue, worker, history, bounds>>

EraseFails(r) ==
    /\ req[r].pc \in {"eraseStd", "eraseThumb"}
    /\ failures < MaxFailures
    /\ failures' = failures + 1
    /\ req' = Idle(r)
    /\ UNCHANGED <<db, store, temp, prevOf, queue, worker, history, restarts>>

------------------------------------------------------------------------------
(* deferredAssetProcessing on the pool.                                    *)

Step(w, step) == worker[w].step = step
Moved(w, step) == [worker EXCEPT ![w].step = step]
BugFree(w) == [worker EXCEPT ![w].step = "idle"]
Free(w) == [worker EXCEPT ![w] = IdleWorker]

(* The image a job erases at its end; the variant erases the new one.      *)
BugPrevious(w) == worker[w].guid
Previous(w) == prevOf[worker[w].guid]

(* The two images are generated from the temporary file.  When it cannot   *)
(* be read as an image, or is gone, the exception stays in the Future that *)
(* submit returned and nobody keeps.                                       *)
Generate(w) ==
    /\ Step(w, "idle")
    /\ queue # <<>>
    /\ Head(queue) \in temp
    /\ queue' = Tail(queue)
    /\ worker' = [worker EXCEPT ![w] = [step |-> "std", guid |-> Head(queue)]]
    /\ UNCHANGED <<db, store, temp, prevOf, req, history, bounds>>

GenerateFails(w) ==
    /\ Step(w, "idle")
    /\ queue # <<>>
    /\ \/ Head(queue) \notin temp /\ UNCHANGED failures
       \/ failures < MaxFailures /\ failures' = failures + 1
    /\ queue' = Tail(queue)
    /\ UNCHANGED <<db, store, temp, prevOf, worker, req, history, restarts>>

UploadStd(w) ==
    /\ Step(w, "std")
    /\ store' = store \cup {<<worker[w].guid, "std">>}
    /\ worker' = Moved(w, "thumb")
    /\ UNCHANGED <<db, temp, prevOf, queue, req, history, bounds>>

(* The finally block removes the temporary files.                          *)
UploadThumb(w) ==
    /\ Step(w, "thumb")
    /\ store' = store \cup {<<worker[w].guid, "thumb">>}
    /\ temp' = temp \ {worker[w].guid}
    /\ worker' = Moved(w, "complete")
    /\ UNCHANGED <<db, prevOf, queue, req, history, bounds>>

(* putObject throws; the object may have been stored all the same.         *)
UploadFails(w) ==
    /\ worker[w].step \in {"std", "thumb"}
    /\ failures < MaxFailures
    /\ failures' = failures + 1
    /\ store' \in {store, store \cup {<<worker[w].guid, worker[w].step>>}}
    /\ temp' = temp \ {worker[w].guid}
    /\ worker' = Free(w)
    /\ UNCHANGED <<db, prevOf, queue, req, history, restarts>>

(* toUpdate is null when the row has been removed in the meantime: the     *)
(* NullPointerException ends the job before it erases anything.            *)
Complete(w) ==
    LET g == worker[w].guid
    IN  /\ Step(w, "complete")
        /\ IF asset[g] = "none"
           THEN worker' = Free(w) /\ UNCHANGED asset
           ELSE worker' = Moved(w, "prevStd") /\ asset' = [asset EXCEPT ![g] = "COMPLETED"]
        /\ UNCHANGED <<refs, imported, store, temp, prevOf, queue, req, history, bounds>>

ErasePreviousStd(w) ==
    LET old == Previous(w)
    IN  /\ Step(w, "prevStd")
        /\ IF old = NoGuid
           THEN worker' = Free(w) /\ UNCHANGED store
           ELSE worker' = Moved(w, "prevThumb") /\ store' = store \ {<<old, "std">>}
        /\ UNCHANGED <<db, temp, prevOf, queue, req, history, bounds>>

ErasePreviousThumb(w) ==
    LET g == worker[w].guid
    IN  /\ Step(w, "prevThumb")
        /\ store' = store \ {<<Previous(w), "thumb">>}
        /\ prevOf' = [prevOf EXCEPT ![g] = NoGuid]
        /\ worker' = Free(w)
        /\ UNCHANGED <<db, temp, queue, req, history, bounds>>

ErasePreviousFails(w) ==
    /\ worker[w].step \in {"prevStd", "prevThumb"}
    /\ Previous(w) # NoGuid
    /\ failures < MaxFailures
    /\ failures' = failures + 1
    /\ worker' = Free(w)
    /\ UNCHANGED <<db, store, temp, prevOf, queue, req, history, restarts>>

(* The process ends and starts again: what it held in memory is gone.      *)
Restart ==
    /\ restarts < MaxRestarts
    /\ restarts' = restarts + 1
    /\ prevOf' = [g \in Guids |-> NoGuid]
    /\ queue' = <<>>
    /\ worker' = [w \in Workers |-> IdleWorker]
    /\ req' = [r \in Requests |-> IdleRequest]
    /\ UNCHANGED <<db, store, temp, history, failures>>

------------------------------------------------------------------------------
Begin(r) ==
    \/ \E g \in Guids, p \in Places : Upload(r, p, g)
    \/ \E g \in Guids, p \in Streamables : Import(r, p, g)
    \/ \E p \in UserFields : LoadUser(r, p)

Proceed(r) ==
    \/ ReadRow(r) \/ RejectEdit(r) \/ Commit(r) \/ CommitFails(r) \/ Enqueue(r)
    \/ Merge(r) \/ MergeFails(r) \/ EraseStd(r) \/ EraseThumb(r) \/ EraseFails(r)

Process(w) ==
    \/ Generate(w) \/ GenerateFails(w)
    \/ UploadStd(w) \/ UploadThumb(w) \/ UploadFails(w)
    \/ Complete(w)
    \/ ErasePreviousStd(w) \/ ErasePreviousThumb(w) \/ ErasePreviousFails(w)

Next ==
    \/ \E r \in Requests : Begin(r) \/ Proceed(r)
    \/ \E w \in Workers : Process(w)
    \/ Restart

Spec == Init /\ [][Next]_vars

(* A request that was accepted runs to its end, and the pool's threads     *)
(* keep running; no client has to send a request.                          *)
FairSpec ==
    /\ Spec
    /\ \A r \in Requests : WF_vars(Proceed(r))
    /\ \A w \in Workers : WF_vars(Process(w))

------------------------------------------------------------------------------
Shown == {refs[p] : p \in Places} \ {NoGuid}
Queued == {queue[i] : i \in DOMAIN queue}
Quiescent ==
    /\ \A r \in Requests : Busy(r, "idle")
    /\ \A w \in Workers : Step(w, "idle")
    /\ queue = <<>>

(* Every variable has its type, a pool thread holds a guid exactly while   *)
(* it works on one and a request exactly while it is on its way.           *)
TypeOK ==
    /\ \A w \in Workers : Step(w, "idle") <=> worker[w].guid = NoGuid
    /\ \A r \in Requests : Busy(r, "idle") <=> req[r].guid = NoGuid
    /\ refs \in [Places -> MaybeGuid]
    /\ asset \in [Guids -> RowStates]
    /\ imported \in SUBSET Guids
    /\ store \in SUBSET (Guids \X Parts)
    /\ temp \in SUBSET Guids
    /\ prevOf \in [Guids -> MaybeGuid]
    /\ queue \in Seq(Guids)
    /\ worker \in [Workers -> [step : {"idle", "std", "thumb", "complete", "prevStd", "prevThumb"},
                               guid : MaybeGuid]]
    /\ req \in [Requests -> [pc : {"idle", "read", "commit", "enqueue", "merge", "eraseStd", "eraseThumb"},
                             place : Places \cup {NoPlace}, guid : MaybeGuid,
                             snap : [Places -> MaybeGuid], seen : [Guids -> RowStates]]]
    /\ target \in [Guids -> Places \cup {NoPlace}]
    /\ dropped \in SUBSET Guids
    /\ revived \in SUBSET Guids
    /\ failures \in 0 .. MaxFailures
    /\ restarts \in 0 .. MaxRestarts

(* An image that the API reports as COMPLETED can be downloaded: both of   *)
(* its objects are in the datastore, whatever edits, deletions, retries,   *)
(* errors and restarts came before, in whatever order.  Links to images    *)
(* elsewhere and assets a stale write showed again are not in it.          *)
ImagesStored ==
    \A g \in Shown \ (imported \cup revived) :
        asset[g] = "COMPLETED" => {g} \X Parts \subseteq store

(* Two edits of one graffiti leave no asset row behind: each row uploaded  *)
(* for a graffiti is the one it shows.                                     *)
GraffitiRowsShown ==
    \A g \in Guids : asset[g] # "none" /\ target[g] \in Streamables => refs[target[g]] = g

(* The image is still in the temporary directory when the pool comes to    *)
(* generate and upload from it.                                            *)
InputAvailable ==
    /\ Queued \subseteq temp
    /\ \A w \in Workers : worker[w].step \in {"std", "thumb"} => worker[w].guid \in temp

(* With no error and no restart, an object without an asset row once all   *)
(* is quiet belongs to an image that was removed while a job still         *)
(* processed it or by a merge that was looking at another one, or to the   *)
(* image such an image had replaced.  Every other replaced or deleted      *)
(* image is erased from the datastore.                                     *)
LeaksExplained ==
    Quiescent /\ failures = 0 /\ restarts = 0 =>
        \A g \in Guids, part \in Parts :
            <<g, part>> \in store /\ asset[g] = "none" =>
                g \in dropped \/ \E n \in dropped : prevOf[n] = g

(* Processing ends: a row does not stay PROCESSING for ever while the      *)
(* server stays up, unless an upload or an erasure has failed.             *)
ProcessingSettles ==
    \A g \in Guids :
        (asset[g] = "PROCESSING") ~> (asset[g] # "PROCESSING" \/ failures > 0)
==============================================================================
