------------------------------ MODULE Sessions ------------------------------
(***************************************************************************)
(* The sessions of users: in the servlet container, and, when backups are  *)
(* enabled, as rows of the table session, which alone make them valid.     *)
(*                                                                         *)
(* A login answers before its row is stored: rows are stored and deleted   *)
(* by an executor of two threads.  Resetting or changing a password        *)
(* deletes rows in the transaction of the request.  A row is written by    *)
(* one statement at the end of its transaction, so finding out whether     *)
(* there is one and inserting it are two steps, for the executor and for a *)
(* request that restores its session from a row.  Nothing makes session_id *)
(* unique.  Touching a row sets a date nothing reads: it is left out.      *)
(***************************************************************************)
EXTENDS Naturals, Sequences, FiniteSets

CONSTANTS
    Users, Sids,
    NoUser, NoSid,
    Requests,    \* request threads
    Workers,     \* threads of sessionOperationsExecutor: two
    MaxLogins,   \* bound: successful logins
    MaxCrashes,  \* bound: crashes of the server
    Backups,     \* session.backups.enabled
    Debug        \* debug logging, on in log4j2.xml: sessions are restored

ASSUME NamesAssumption == NoUser \notin Users /\ NoSid \notin Sids
ASSUME BoundsAssumption == MaxLogins \in Nat /\ MaxCrashes \in Nat
ASSUME SettingsAssumption == Backups \in BOOLEAN /\ Debug \in BOOLEAN

VARIABLES
    live,     \* sessions of the container
    context,  \* the login whose security context a session holds, or 0
    logins,   \* who logged in, on which session
    rows,     \* table session: login, session and who stored the row
    queue,    \* the executor's tasks
    worker,   \* what its threads do
    req,      \* what each request is doing
    crashes,
    created,  \* history: identifiers given to sessions
    stored,   \* history: all rows there have been
    out,      \* history: logins a reset or change of password ended
    gone,     \* history: those of them whose rows it all deleted
    cleared,  \* history: users whose reset or change deleted rows of other sessions
    excused   \* history: sessions destroyed while being stored, or by a crash

history == <<created, stored, out, gone, cleared, excused>>
vars == <<live, context, logins, rows, queue, worker, req, crashes, history>>

\* A thread stores a row of a session only if it has found none, so rows that
\* are there at the same time differ in one of the fields.
Row(login, sid, by) == [login |-> login, sid |-> sid, by |-> by]
Rows == [login : 1 .. MaxLogins, sid : Sids, by : Requests \cup {"executor"}]

Task(op, login, sid) == [op |-> op, login |-> login, sid |-> sid]
NoTask == Task("none", 0, NoSid)
Tasks == [op : {"save", "find", "insert", "update", "failed"}, login : 1 .. MaxLogins, sid : Sids]
         \cup [op : {"delete"}, login : {0}, sid : Sids] \cup {NoTask}

\* A request for session sid: the login it runs for, if any, whether the
\* session is its own and unknown to the client, and the rows it has deleted
\* without having committed.
Request(pc, login, sid, fresh) ==
    [pc |-> pc, login |-> login, sid |-> sid, fresh |-> fresh, user |-> NoUser, condemned |-> {}]
RestoreSteps == {"restore", "opened", "read", "find", "insert"}
RequestStates == [pc : {"idle", "login", "reply", "loaded", "inside", "commit"} \cup RestoreSteps,
                  login : 0 .. MaxLogins, sid : Sids \cup {NoSid}, fresh : BOOLEAN,
                  user : Users \cup {NoUser}, condemned : SUBSET Rows]
IdleRequest == Request("idle", 0, NoSid, FALSE)

At(r, pc) == req[r].pc = pc
Go(r, pc) == req' = [req EXCEPT ![r].pc = pc]
End(r) == req' = [req EXCEPT ![r] = IdleRequest]

Known(s) == s \in created /\ \A r \in Requests : ~(req[r].fresh /\ req[r].sid = s)

Copies(s) == {x \in rows : x.sid = s}
Owner(x) == logins[x.login].user

Init ==
    /\ live = {}
    /\ context = [s \in Sids |-> 0]
    /\ logins = <<>>
    /\ rows = {}
    /\ queue = <<>>
    /\ worker = [w \in Workers |-> NoTask]
    /\ req = [r \in Requests |-> IdleRequest]
    /\ crashes = 0
    /\ created = {} /\ stored = {} /\ out = {} /\ gone = {} /\ cleared = {} /\ excused = {}
------------------------------------------------------------------------------
(* Logging in creates a session or uses the client's.                      *)

FailedLogin(s) ==
    /\ s \notin created
    /\ live' = live \cup {s}
    /\ created' = created \cup {s}
    /\ UNCHANGED <<context, logins, rows, queue, worker, req, crashes, stored, out, gone, cleared, excused>>

Login(r, u, s) ==
    /\ At(r, "idle")
    /\ Len(logins) < MaxLogins
    /\ s \notin created \/ (s \in live /\ Known(s))
    /\ live' = live \cup {s}
    /\ created' = created \cup {s}
    /\ logins' = Append(logins, [user |-> u, sid |-> s])
    /\ req' = [req EXCEPT ![r] = Request("login", Len(logins'), s, s \notin created)]
    /\ UNCHANGED <<context, rows, queue, worker, crashes, stored, out, gone, cleared, excused>>

(* saveSessionDataInBackground.                                            *)
SubmitSave(r) ==
    /\ At(r, "login")
    /\ queue' = IF Backups THEN Append(queue, Task("save", req[r].login, req[r].sid)) ELSE queue
    /\ Go(r, "reply")
    /\ UNCHANGED <<live, context, logins, rows, worker, crashes, history>>

(* The response stores the context in the session, if there still is one;  *)
(* the mistake is not to look.                                             *)
BugValid(s) == TRUE
Valid(s) == s \in live

Reply(r) ==
    /\ At(r, "reply")
    /\ context' = IF Valid(req[r].sid) THEN [context EXCEPT ![req[r].sid] = req[r].login] ELSE context
    /\ End(r)
    /\ UNCHANGED <<live, logins, rows, queue, worker, crashes, history>>

------------------------------------------------------------------------------
(* The executor.                                                           *)

Start(w) ==
    /\ worker[w] = NoTask
    /\ queue # <<>>
    /\ worker' = [worker EXCEPT ![w] = Head(queue)]
    /\ queue' = Tail(queue)
    /\ UNCHANGED <<live, context, logins, rows, req, crashes, history>>

Doing(w, op) == worker[w].op = op

(* The mistake is not to free the thread.                                  *)
BugThen(w, op) == worker' = [worker EXCEPT ![w].op = op]
Then(w, op) == worker' = [worker EXCEPT ![w] = IF op = "none" THEN NoTask ELSE [@ EXCEPT !.op = op]]

(* getSessionAttributeMap throws when the session is no longer valid.  The *)
(* mistakes are to skip the sessions without a security context, and to    *)
(* store whatever attributes there are.                                    *)
BugReadable(s) == context[s] # 0
BugAnyway(s) == TRUE
Readable(s) == s \in live

ReadSession(w) ==
    /\ Doing(w, "save")
    /\ Then(w, IF Readable(worker[w].sid) THEN "find" ELSE "none")
    /\ UNCHANGED <<live, context, logins, rows, queue, req, crashes, history>>

(* findBySessionIdAndInitialize throws when there is more than one row.    *)
FindRow(w) ==
    /\ Doing(w, "find")
    /\ Then(w, CASE Copies(worker[w].sid) = {} -> "insert"
                 [] Cardinality(Copies(worker[w].sid)) = 1 -> "update"
                 [] OTHER -> "none")
    /\ UNCHANGED <<live, context, logins, rows, queue, req, crashes, history>>

InsertRow(w) ==
    /\ Doing(w, "insert")
    /\ rows' = rows \cup {Row(worker[w].login, worker[w].sid, "executor")}
    /\ stored' = stored \cup rows'
    /\ Then(w, "none")
    /\ UNCHANGED <<live, context, logins, queue, req, crashes, created, out, gone, cleared, excused>>

(* The transaction merges the user that the login has loaded, with the     *)
(* avatar and the cover, and fails if one of these changed since: the row  *)
(* is not stored, and the executor keeps the exception to itself.          *)
MergeFails(w) ==
    /\ Doing(w, "insert")
    /\ Then(w, "failed")
    /\ UNCHANGED <<live, context, logins, rows, queue, req, crashes, history>>

DropException(w) ==
    /\ Doing(w, "failed")
    /\ Then(w, "none")
    /\ UNCHANGED <<live, context, logins, rows, queue, req, crashes, history>>

(* Updating stores the attributes, which are not modelled: the row keeps   *)
(* its user, and a row that is gone is not stored again.  The mistake is   *)
(* to store one in any case, for the first user of the session.            *)
BugUpdated(s) == rows \cup {Row(n, s, "executor") :
                              n \in {m \in DOMAIN logins : logins[m].sid = s
                                                           /\ \A k \in 1 .. m - 1 : logins[k].sid # s}}
Updated(s) == rows

UpdateRow(w) ==
    /\ Doing(w, "update")
    /\ rows' = Updated(worker[w].sid)
    /\ Then(w, "none")
    /\ UNCHANGED <<live, context, logins, queue, req, crashes, history>>

(* The mistake is to delete one row only.                                  *)
BugDeleted(s) == IF Copies(s) = {} THEN {} ELSE {CHOOSE x \in Copies(s) : TRUE}
Deleted(s) == Copies(s)

DeleteRows(w) ==
    /\ Doing(w, "delete")
    /\ rows' = rows \ Deleted(worker[w].sid)
    /\ Then(w, "none")
    /\ UNCHANGED <<live, context, logins, queue, req, crashes, history>>

------------------------------------------------------------------------------
(* The end of a session in the container; sessionDestroyed deletes its     *)
(* rows.                                                                   *)
BeingStored(s) == \/ \E w \in Workers : worker[w].op \in {"find", "insert"} /\ worker[w].sid = s
                  \/ \E r \in Requests : req[r].pc \in {"find", "insert"} /\ req[r].sid = s

Destroy(s) ==
    /\ live' = live \ {s}
    /\ context' = [context EXCEPT ![s] = 0]
    /\ queue' = IF Backups THEN Append(queue, Task("delete", 0, s)) ELSE queue
    /\ excused' = IF BeingStored(s) THEN excused \cup {s} ELSE excused

(* The container's timeout.                                                *)
Expire(s) ==
    /\ s \in live
    /\ \A r \in Requests : req[r].sid # s
    /\ Destroy(s)
    /\ UNCHANGED <<logins, rows, worker, req, crashes, created, stored, out, gone, cleared>>

------------------------------------------------------------------------------
(* Any other request.  loadContext takes the context from the session or   *)
(* restores it from the row; two rows are an error.  The mistake is to     *)
(* find a row in a cache.                                                  *)
BugFound(s) == {x \in stored : x.sid = s}
Found(s) == Copies(s)

LoadContext(r, s) ==
    /\ At(r, "idle")
    /\ Known(s)
    /\ IF s \in live /\ context[s] # 0
       THEN req' = [req EXCEPT ![r] = Request("loaded", context[s], s, FALSE)]
       ELSE IF Backups /\ Debug /\ Found(s) # {}
       THEN \E x \in Found(s) :
               Found(s) = {x} /\ req' = [req EXCEPT ![r] = Request("restore", x.login, s, FALSE)]
       ELSE s \in live /\ req' = [req EXCEPT ![r] = Request("loaded", 0, s, FALSE)]
    /\ UNCHANGED <<live, context, logins, rows, queue, worker, crashes, history>>

(* restoreSecurityContextAndHttpSessionFromDb creates a session unless the *)
(* client's is there, looks for its row and, if there is none, stores the  *)
(* session for the user of the row that was read.  Whatever is found on    *)
(* the way may have changed by the next step.                              *)
OpenSession(r, s) ==
    /\ At(r, "restore")
    /\ IF req[r].sid \in live THEN s = req[r].sid ELSE s \notin created
    /\ live' = live \cup {s}
    /\ created' = created \cup {s}
    /\ req' = [req EXCEPT ![r] = Request("opened", req[r].login, s, s \notin created)]
    /\ UNCHANGED <<context, logins, rows, queue, worker, crashes, stored, out, gone, cleared, excused>>

SeekRow(r, pc, missing) ==
    /\ At(r, pc)
    /\ Cardinality(Copies(req[r].sid)) < 2
    /\ Go(r, IF Copies(req[r].sid) = {} THEN missing ELSE "loaded")
    /\ UNCHANGED <<live, context, logins, rows, queue, worker, crashes, history>>

ReadAttributes(r) ==
    /\ At(r, "read")
    /\ Readable(req[r].sid)
    /\ Go(r, "find")
    /\ UNCHANGED <<live, context, logins, rows, queue, worker, crashes, history>>

StoreRow(r) ==
    /\ At(r, "insert")
    /\ rows' = rows \cup {Row(req[r].login, req[r].sid, r)}
    /\ stored' = stored \cup rows'
    /\ Go(r, "loaded")
    /\ UNCHANGED <<live, context, logins, queue, worker, crashes, created, out, gone, cleared, excused>>

Restore(r) ==
    \/ \E s \in Sids : OpenSession(r, s)
    \/ SeekRow(r, "opened", "read") \/ ReadAttributes(r) \/ SeekRow(r, "find", "insert")
    \/ StoreRow(r)

(* An exception on the way ends the request without an answer that stores  *)
(* its context.                                                            *)
RestoreFails(r) ==
    /\ req[r].pc \in RestoreSteps
    /\ End(r)
    /\ UNCHANGED <<live, context, logins, rows, queue, worker, crashes, history>>

(* SessionInvalidationFilter: a session without a row is invalidated; with *)
(* two, the request fails.  A session destroyed meanwhile is not checked.  *)
Admit(r) ==
    /\ At(r, "loaded")
    /\ req[r].sid \in live /\ Backups => Cardinality(Copies(req[r].sid)) = 1
    /\ req[r].login # 0
    /\ Go(r, "inside")
    /\ UNCHANGED <<live, context, logins, rows, queue, worker, crashes, history>>

Invalidate(r) ==
    /\ At(r, "loaded")
    /\ req[r].sid \in live /\ Backups /\ Copies(req[r].sid) = {}
    /\ Destroy(req[r].sid)
    /\ End(r)
    /\ UNCHANGED <<logins, rows, worker, crashes, created, stored, out, gone, cleared>>

(* Any other answer stores the context in a session that has none, as one  *)
(* that was restored, and removes it if the request had none.              *)
Answered(r) ==
    LET s == req[r].sid
    IN  IF s \notin live \/ (req[r].login # 0 /\ context[s] # 0) THEN context
        ELSE [context EXCEPT ![s] = req[r].login]

Leave(r) ==
    /\ req[r].pc \in {"loaded", "inside", "commit"}
    /\ context' = Answered(r)
    /\ End(r)
    /\ UNCHANGED <<live, logins, rows, queue, worker, crashes, history>>

Logout(r) ==
    /\ At(r, "inside")
    /\ IF req[r].sid \in live
       THEN Destroy(req[r].sid)
       ELSE UNCHANGED <<live, context, queue, excused>>
    /\ End(r)
    /\ UNCHANGED <<logins, rows, worker, crashes, created, stored, out, gone, cleared>>

------------------------------------------------------------------------------
(* logoutEverywhere, within the transaction that sets the password; keep   *)
(* is the session to keep.  The mistakes are to forget the user and to     *)
(* forget the session.                                                     *)
BugOthers(u, keep) == {x \in rows : x.sid # keep}
BugAll(u, keep) == {x \in rows : Owner(x) = u}
Condemned(u, keep) == {x \in rows : Owner(x) = u /\ x.sid # keep}

LogoutEverywhere(r, u, keep) ==
    /\ req' = [req EXCEPT ![r].pc = "commit", ![r].user = u, ![r].condemned = Condemned(u, keep)]
    /\ UNCHANGED <<live, context, logins, rows, queue, worker, crashes, history>>

CompletePasswordReset(r, u) ==
    /\ At(r, "idle")
    /\ LogoutEverywhere(r, u, NoSid)

ChangePassword(r) ==
    /\ At(r, "inside")
    /\ req[r].sid \in live
    /\ LogoutEverywhere(r, logins[req[r].login].user, req[r].sid)

\* the logins it ends: those of the user, except on the session it keeps
Ended(r) == {n \in DOMAIN logins : /\ logins[n].user = req[r].user
                                   /\ n # req[r].login
                                   /\ logins[n].sid # req[r].sid}

Commit(r) ==
    /\ At(r, "commit")
    /\ rows' = rows \ req[r].condemned
    /\ out' = out \cup Ended(r)
    /\ gone' = gone \cup
         {n \in Ended(r) :
            LET stored_n == {x \in rows : x.login = n} IN
            /\ stored_n # {}
            /\ stored_n \subseteq req[r].condemned
            /\ \A q \in Requests : ~(req[q].pc \in RestoreSteps /\ req[q].login = n)}
    /\ cleared' = cleared \cup
         {<<req[r].user, x.sid>> : x \in {y \in rows \cap req[r].condemned : y.sid # req[r].sid}}
    /\ context' = Answered(r)
    /\ End(r)
    /\ UNCHANGED <<live, logins, queue, worker, crashes, created, stored, excused>>

------------------------------------------------------------------------------
(* A crash loses what is in memory; sessions kept in Redis survive.        *)
Crash ==
    /\ crashes < MaxCrashes
    /\ crashes' = crashes + 1
    /\ live' = IF Backups THEN {} ELSE live
    /\ context' = IF Backups THEN [s \in Sids |-> 0] ELSE context
    /\ queue' = <<>>
    /\ worker' = [w \in Workers |-> NoTask]
    /\ req' = [r \in Requests |-> IdleRequest]
    /\ excused' = excused \cup created
    /\ UNCHANGED <<logins, rows, created, stored, out, gone, cleared>>

Execute(w) ==
    \/ Start(w) \/ ReadSession(w) \/ FindRow(w)
    \/ InsertRow(w) \/ MergeFails(w) \/ DropException(w)
    \/ UpdateRow(w) \/ DeleteRows(w)

Serve(r) ==
    \/ \E u \in Users, s \in Sids : Login(r, u, s)
    \/ SubmitSave(r) \/ Reply(r)
    \/ \E s \in Sids : LoadContext(r, s)
    \/ Restore(r) \/ RestoreFails(r)
    \/ Admit(r) \/ Invalidate(r) \/ Leave(r) \/ Logout(r)
    \/ \E u \in Users : CompletePasswordReset(r, u)
    \/ ChangePassword(r) \/ Commit(r)

Next ==
    \/ \E r \in Requests : Serve(r)
    \/ \E w \in Workers : Execute(w)
    \/ \E s \in Sids : FailedLogin(s) \/ Expire(s)
    \/ Crash

Spec == Init /\ [][Next]_vars

(* The threads of the executor keep running.                               *)
FairSpec == Spec /\ \A w \in Workers : WF_vars(Execute(w))

------------------------------------------------------------------------------
(* Every variable has its type, and only a session there is holds a        *)
(* context.                                                                *)
TypeOK ==
    /\ live \subseteq created
    /\ context \in [Sids -> 0 .. MaxLogins]
    /\ \A s \in Sids \ live : context[s] = 0
    /\ logins \in Seq([user : Users, sid : Sids]) /\ Len(logins) <= MaxLogins
    /\ rows \subseteq Rows
    /\ queue \in Seq(Tasks)
    /\ worker \in [Workers -> Tasks]
    /\ req \in [Requests -> RequestStates]
    /\ crashes \in 0 .. MaxCrashes
    /\ created \subseteq Sids /\ stored \subseteq Rows /\ excused \subseteq created
    /\ out \subseteq DOMAIN logins /\ gone \subseteq out
    /\ cleared \subseteq Users \X Sids

(* logoutEverywhere is final for what it deleted: once all rows of a login *)
(* are deleted, and no request is restoring it, none comes back, whatever  *)
(* saves, repeated logins on the same session and requests are under way.  *)
GoneStaysGone == \A x \in rows : x.login \notin gone

(* The table is cleaned: a row outlives its session only until the deletion*)
(* that is waiting, or because the session was destroyed while a thread of *)
(* the executor or a request restoring it was storing it, or in a crash.   *)
Deleting(s) == \/ \E i \in DOMAIN queue : queue[i] = Task("delete", 0, s)
               \/ \E w \in Workers : worker[w] = Task("delete", 0, s)
LeftoversExplained == \A x \in rows : x.sid \in live \/ Deleting(x.sid) \/ x.sid \in excused

(* SessionInvalidationFilter turns away a session that had been stored only*)
(* if somebody it was stored for reset or cleared the password elsewhere.  *)
Moves(r) == req'[r] # req[r]
OnlyOwnersEndSessions ==
    [][\A r \in Requests :
          /\ At(r, "loaded") /\ Moves(r) /\ crashes' = crashes
          /\ req[r].sid \in live \ live'
          /\ \E x \in stored : x.sid = req[r].sid
          => \E x \in stored : x.sid = req[r].sid /\ <<Owner(x), x.sid>> \in cleared]_vars

(* Every login that is waiting to be stored is, unless its session ends or *)
(* its user, changed since, cannot be merged.                              *)
SavesFinish ==
    \A n \in 1 .. MaxLogins, s \in Sids :
       (\E i \in DOMAIN queue : queue[i] = Task("save", n, s))
       ~> (Copies(s) # {} \/ s \notin live \/ \E w \in Workers : worker[w] = Task("failed", n, s))

(* Rows of ended sessions are eventually deleted, the excused excepted.    *)
RowsCleaned ==
    \A s \in Sids : (s \in created \ live) ~> (Copies(s) = {} \/ s \in excused)

(* "Logout from all devices": a session whose login a reset or change has  *)
(* ended is not let in any more.                                           *)
LoggedOutFromAllDevices ==
    [][\A r \in Requests :
          At(r, "loaded") /\ req[r].sid \in live /\ req'[r].pc = "inside" => req[r].login \notin out]_vars
==============================================================================
